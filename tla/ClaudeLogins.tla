---------------------------- MODULE ClaudeLogins ----------------------------
(***************************************************************************)
(* The logins of the Claude pool (claude-accounts.json), the one Claude    *)
(* Code uses (its credentials, and oauthAccount in .claude.json), and how  *)
(* the pool follows, renews, writes back and switches it while Claude Code *)
(* renews and changes it too.  Which of two logins of an account is valid  *)
(* only Claude knows: the pool keeps the others as alternates, and never   *)
(* uses again one that Claude rejected.                                    *)
(*                                                                         *)
(* A login is a generation of its account, as in CodexLogins: renewing it  *)
(* spends its refresh token and issues the next number.  Every account is  *)
(* identified: ClaudeIdentities has the logins without oauthAccount.       *)
(***************************************************************************)
EXTENDS ClaudeCards

CONSTANTS
  Accounts,      \* identities (accountUuid, organizationUuid)
  Stored,        \* those whose cards are kept from an earlier run
  Deletable,     \* those users may delete
  Lists,         \* account lists that may be read at once (claude_accounts)
  RenewalChoices, \* the renewal choices users make
  Unreadable,    \* whether the Keychain may refuse to show Claude Code's login
  None,
  MaxGen,        \* bound: generations the issuer gives one account
  MaxSignIns,    \* bound: sign-ins and sign-outs made with Claude Code
  MaxFaults,     \* bound: failed writes and lost answers
  MaxCrashes     \* bound: crashes of Copool

ASSUME ClaudeCounts ==
  /\ MaxGen \in Nat \ {0}
  /\ MaxSignIns \in Nat /\ MaxFaults \in Nat /\ MaxCrashes \in Nat
  /\ Unreadable \in BOOLEAN
ASSUME ClaudePool == Stored \subseteq Accounts /\ Deletable \subseteq Accounts
ASSUME ClaudeChoices == RenewalChoices \subseteq {"never", "once", "always"}

VARIABLES
  cards,     \* claude-accounts.json: the card of each account, or None
  current,   \* currentAccountId, as the account, or None
  live,      \* Claude Code's credentials and the account it names, or None
  issued,    \* the issuer: generations given out per account
  spent,     \* the issuer: generations whose refresh token was exchanged
  rotated,   \* history: those that Copool exchanged
  job,       \* what holds state.operations: a refresh, a switch or an import
  held,      \* the switch under way holds state.lock
  listing,   \* the login each list has read, None while it reads none
  signIns, faults, crashes  \* bounds

vars == <<cards, current, live, issued, spent, rotated, job, held, listing,
          signIns, faults, crashes>>
pool == <<cards, current>>
issuer == <<issued, spent, rotated>>
bounds == <<signIns, faults, crashes>>

Gen == 1..MaxGen
Renewal == {"never", "once", "always"}
Login == [of: Accounts, gen: Gen]
Card == [login: Login, alternates: Seq(Login), rejected: SUBSET Login,
         inLive: BOOLEAN, renewal: Renewal, waiting: BOOLEAN]
View == [login: Login, named: Accounts \cup {None}]
Views == View \cup {None}
\* What a list has read: the login, None when it shows none, then its account.
Reading == [login: Login \cup {None}, named: Accounts \cup {None}, whole: BOOLEAN]

\* before: the login of Claude Code compared against; base: the card read; login:
\* the generation used now; alternates, rejected: those left, and refused, in
\* this refresh; left: renewals this attempt may still ask; wrote: written back.
Refresh == [pc: {"snapping", "asking", "renewing", "answered", "writing", "merging"},
            of: Accounts, before: Views, inUse: BOOLEAN, base: Card \cup {None},
            login: Login \cup {None}, alternates: Seq(Login),
            rejected: SUBSET Login, renewed: BOOLEAN, renewals: BOOLEAN,
            left: 0..2, reloaded: BOOLEAN, inLive: BOOLEAN,
            result: {"none", "ok", "failed", "refused"}]
Switch == [pc: {"listing", "listed", "locked", "credentials", "account"}, of: Accounts,
           before: Views]
Import == [pc: {"importing"}, view: View]
ASSUME NoneIsNothing ==
  None \notin Accounts \cup Login \cup Card \cup View \cup Reading \cup Refresh \cup Switch \cup Import

\* A refresh of the account that has read its card.
Asked(a) ==
  /\ job # None
  /\ job.pc \in {"asking", "renewing", "answered", "writing", "merging"}
  /\ job.of = a

TypeOK ==
  /\ cards \in [Accounts -> Card \cup {None}]
  /\ \A a \in Accounts : cards[a] # None => Len(cards[a].alternates) <= MaxAlternates
  /\ current \in Accounts \cup {None}
  /\ live \in Views
  /\ issued \in [Accounts -> Gen]
  /\ spent \in SUBSET Login /\ rotated \subseteq spent
  /\ job \in Refresh \cup Switch \cup Import \cup {None}
  /\ \A a \in Accounts : Asked(a) => Len(job.alternates) <= MaxAlternates
  /\ held \in BOOLEAN
  /\ listing \in [Lists -> Reading \cup {None}]
  /\ signIns \in 0..MaxSignIns /\ faults \in 0..MaxFaults /\ crashes \in 0..MaxCrashes

Of(a, gen) == [of |-> a, gen |-> gen]
Shown(login, named) == [login |-> login, named |-> named]
NewCard(login, inLive, defer) ==
  [login |-> login, alternates |-> <<>>, rejected |-> {}, inLive |-> inLive,
   renewal |-> "always", waiting |-> defer]

\* A pool and a login kept from an earlier run.
Init ==
  /\ cards = [a \in Accounts |-> IF a \in Stored THEN NewCard(Of(a, 1), FALSE, FALSE)
                                 ELSE None]
  /\ current = None
  /\ live \in {None} \cup {Shown(Of(a, 1), a) : a \in Accounts}
  /\ issued = [a \in Accounts |-> 1]
  /\ spent = {} /\ rotated = {}
  /\ job = None /\ held = FALSE
  /\ listing = [l \in Lists |-> None]
  /\ signIns = 0 /\ faults = 0 /\ crashes = 0

-----------------------------------------------------------------------------
(* Following the login Claude Code uses: follow_live.                      *)

\* The card of the account named, or else of the login itself.
MatchedIn(cs, v) ==
  IF v.named # None THEN IF cs[v.named] # None THEN v.named ELSE None
  ELSE LET same == {a \in Accounts : cs[a] # None /\ cs[a].login = v.login}
       IN  IF same = {} THEN None ELSE CHOOSE a \in same : TRUE

\* A read taken in the middle of a switch: the login is another card's.
MixedNever(cs, v) == FALSE                      \* variant: not looked for
Mixed(cs, v) ==
  LET m == MatchedIn(cs, v)
  IN  m # None /\ \E a \in Accounts \ {m} : cs[a] # None /\ cs[a].login = v.login

\* The pool as it follows what was read, None when nothing could be.
Followed(cs, cur, v) ==
  IF v = None \/ (v # None /\ Mixed(cs, v)) THEN [cards |-> cs, current |-> cur]
  ELSE LET m == MatchedIn(cs, v)
           left == [a \in Accounts |->
             IF cs[a] = None \/ a = m THEN cs[a] ELSE [cs[a] EXCEPT !.inLive = FALSE]]
       IN  [cards |-> IF m = None THEN left
                      ELSE [left EXCEPT ![m] = Adopt(@, v.login, TRUE)],
            current |-> m]
Follow(v) ==
  LET f == Followed(cards, current, v)
  IN  cards' = f.cards /\ current' = f.current

\* What a read of Claude Code's login may show.
Reads == {live} \cup (IF Unreadable THEN {None} ELSE {})
\* Unreadable, rather than missing.
Refuses(v) == v = None /\ live # None

\* claude_accounts: the credentials, then the account they go with, are read
\* before the pool is locked.
ListReads(l) ==
  /\ listing[l] = None
  /\ \E v \in Reads :
       listing' = [listing EXCEPT ![l] =
         [login |-> IF v = None THEN None ELSE v.login, named |-> None, whole |-> FALSE]]
  /\ UNCHANGED <<pool, live, issuer, job, held, bounds>>

ListNames(l) ==
  /\ listing[l] # None /\ ~listing[l].whole
  /\ listing' = [listing EXCEPT ![l].whole = TRUE,
                   ![l].named = IF live = None THEN None ELSE live.named]
  /\ UNCHANGED <<pool, live, issuer, job, held, bounds>>

ListFollows(l) ==
  /\ listing[l] # None /\ listing[l].whole /\ ~held
  /\ Follow(IF listing[l].login = None THEN None
            ELSE Shown(listing[l].login, listing[l].named))
  /\ listing' = [listing EXCEPT ![l] = None]
  /\ UNCHANGED <<live, issuer, job, held, bounds>>

-----------------------------------------------------------------------------
(* claude_refresh_usage, which holds operations from beginning to end.     *)

RefreshStart(a) ==
  /\ job = None
  /\ \E v \in Reads :
       job' = [pc |-> "snapping", of |-> a, before |-> v, inUse |-> FALSE,
               base |-> None, login |-> None, alternates |-> <<>>, rejected |-> {},
               renewed |-> FALSE, renewals |-> FALSE, left |-> 2,
               reloaded |-> FALSE, inLive |-> FALSE, result |-> "none"]
  /\ UNCHANGED <<pool, live, issuer, held, listing, bounds>>

Refreshing(pc) == job # None /\ job.pc = pc

\* The pool follows the login read; an account that waits is left alone, and
\* one in a rate limit pause too.
RefreshSnapshot ==
  LET f == Followed(cards, current, job.before)
      c == f.cards[job.of]
  IN
  /\ Refreshing("snapping") /\ ~held
  /\ cards' = f.cards /\ current' = f.current
  /\ \/ job' = None
     \/ /\ c # None /\ ~c.waiting
        /\ job' = [job EXCEPT !.pc = "asking", !.base = c, !.login = c.login,
                     !.alternates = c.alternates, !.inUse = (f.current = job.of)]
  /\ UNCHANGED <<live, issuer, held, listing, bounds>>

\* changed_live_oauth: another login of this account than the one compared
\* against, and not a rejected one.
Changed(w, v) ==
  /\ v # None /\ v.named = w.of
  /\ v.login \notin w.base.rejected \cup w.rejected
  /\ v.login # (IF w.before # None THEN w.before.login ELSE w.base.login)

\* A renewal is due: the login has expired, or the usage call refused it.
\* Claude Code's is read again first; what forbids the renewal ends the attempt.
RefreshCheck ==
  /\ Refreshing("asking") /\ job.left > 0
  /\ \E v \in Reads :
       LET result == IF Refuses(v) /\ job.inUse THEN "failed"
                     ELSE IF Changed(job, v) \/ job.base.renewal = "never" THEN "failed"
                     ELSE IF job.login \in job.base.rejected THEN "refused"
                     ELSE "none"
       IN  job' = [job EXCEPT !.pc = IF result = "none" THEN "renewing" ELSE "answered",
                              !.result = result, !.left = @ - 1]
  /\ UNCHANGED <<pool, live, issuer, held, listing, bounds>>

Exchange(login) ==
  /\ issued[login.of] < MaxGen
  /\ spent' = spent \cup {login}
  /\ issued' = [issued EXCEPT ![login.of] = @ + 1]
Issued(a) == Of(a, issued[a] + 1)

\* The token endpoint: a login not yet exchanged is renewed.
RefreshRenew ==
  /\ Refreshing("renewing") /\ job.login \notin spent
  /\ Exchange(job.login) /\ rotated' = rotated \cup {job.login}
  /\ job' = [job EXCEPT !.pc = "asking", !.login = Issued(job.login.of),
                        !.renewed = TRUE, !.renewals = TRUE]
  /\ UNCHANGED <<pool, live, held, listing, bounds>>

\* One that was is refused as invalid_grant.
RefreshRefused ==
  /\ Refreshing("renewing") /\ job.login \in spent
  /\ job' = [job EXCEPT !.pc = "answered", !.result = "refused"]
  /\ UNCHANGED <<pool, live, issuer, held, listing, bounds>>

\* The endpoint cannot be reached or limits the rate; or its answer is lost.
RefreshRenewFails ==
  /\ Refreshing("renewing")
  /\ job' = [job EXCEPT !.pc = "answered", !.result = "failed"]
  /\ UNCHANGED <<pool, live, issuer, held, listing, bounds>>

RefreshRenewLost ==
  /\ Refreshing("renewing") /\ job.login \notin spent /\ faults < MaxFaults
  /\ Exchange(job.login) /\ rotated' = rotated \cup {job.login}
  /\ job' = [job EXCEPT !.pc = "answered", !.result = "failed"]
  /\ faults' = faults + 1
  /\ UNCHANGED <<pool, live, held, listing, signIns, crashes>>

\* The usage call answers, or fails for another reason than an expired login.
RefreshAnswer(result) ==
  /\ Refreshing("asking")
  /\ job' = [job EXCEPT !.pc = "answered", !.result = result]
  /\ UNCHANGED <<pool, live, issuer, held, listing, bounds>>

\* The renewed or accepted generation is written back to a login of this
\* account that is still as it was read.
WritesBackAlike(w, v) ==                        \* variant: only if it was accepted
  /\ w.before # None /\ v # None /\ v.login = w.before.login /\ v.named = w.of
  /\ w.base.renewal # "never" /\ w.result = "ok" /\ w.login # v.login
WritesBack(w, v) ==
  /\ w.before # None /\ v # None /\ v.login = w.before.login
  /\ IF v.named # None THEN v.named = w.of ELSE v.login = w.base.login
  /\ w.base.renewal # "never"
  /\ v.login \in w.rejected \cup w.base.rejected \/ w.login # w.base.login
  /\ w.login # v.login
  /\ w.result = "ok" \/ w.renewed

\* The live login is read again, whatever the answer: one that changed is used
\* and asked once more; a refused one gives way to the next alternate; else the
\* refresh is settled.
RefreshSettle ==
  LET refused == job.result = "refused"
      w == IF refused
             THEN [job EXCEPT !.rejected = @ \cup {job.login},
                     !.alternates = Without(@, job.rejected \cup {job.login})]
             ELSE job
  IN
  /\ Refreshing("answered")
  /\ \E v \in Reads :
       job' =
         IF Changed(w, v) THEN
           [w EXCEPT !.login = v.login, !.before = v, !.inLive = TRUE,
              !.alternates = IF ~refused /\ (w.renewed \/ w.before = None
                                             \/ (w.before # None /\ w.before.login # w.login))
                               THEN Push(@, w.login) ELSE @,
              !.renewed = FALSE, !.reloaded = TRUE, !.left = 2,
              !.pc = IF w.reloaded THEN "merging" ELSE "asking",
              !.result = IF w.reloaded THEN "failed" ELSE "none"]
         ELSE IF refused /\ w.alternates # <<>> THEN
           [w EXCEPT !.login = Head(w.alternates), !.alternates = Tail(@),
              !.renewed = FALSE, !.left = 2, !.pc = "asking", !.result = "none"]
         ELSE
           [w EXCEPT !.inLive = (v # None /\ v.login = w.login),
              !.pc = IF WritesBack(w, v) THEN "writing" ELSE "merging"]
  /\ UNCHANGED <<pool, live, issuer, held, listing, bounds>>

\* write_credentials: only the login is replaced; it is not compared again.
RefreshWrite ==
  /\ Refreshing("writing")
  /\ live' = Shown(job.login, IF live = None THEN None ELSE live.named)
  /\ job' = [job EXCEPT !.pc = "merging", !.inLive = TRUE]
  /\ UNCHANGED <<pool, issuer, held, listing, bounds>>

RefreshWriteFails ==
  /\ Refreshing("writing") /\ faults < MaxFaults
  /\ job' = [job EXCEPT !.pc = "merging", !.inLive = FALSE]
  /\ faults' = faults + 1
  /\ UNCHANGED <<pool, live, issuer, held, listing, signIns, crashes>>

RefreshMerge ==
  LET c == Merged(cards[job.of], job)
      choice == IF job.renewals /\ c.renewal = "once" THEN "never" ELSE c.renewal
  IN
  /\ Refreshing("merging") /\ ~held
  /\ cards' = IF cards[job.of] = None THEN cards
              ELSE [cards EXCEPT ![job.of] = [c EXCEPT !.renewal = choice]]
  /\ job' = None
  /\ UNCHANGED <<current, live, issuer, held, listing, bounds>>

-----------------------------------------------------------------------------
(* claude_switch_with_access, and imports.                                 *)

\* The list is read first; then the login again, under the lock, which is kept
\* until the switch is saved.
SwitchStart(a) ==
  /\ job = None
  /\ \E v \in Reads : job' = [pc |-> "listing", of |-> a, before |-> v]
  /\ UNCHANGED <<pool, live, issuer, held, listing, bounds>>

Switching(pc) == job # None /\ job.pc = pc

SwitchLists ==
  /\ Switching("listing") /\ ~held
  /\ Follow(job.before)
  /\ job' = [job EXCEPT !.pc = "listed"]
  /\ UNCHANGED <<live, issuer, held, listing, bounds>>

SwitchLock ==
  LET f == Followed(cards, current, live)
  IN
  /\ Switching("listed") /\ ~held
  /\ cards' = f.cards /\ current' = f.current
  /\ IF f.cards[job.of] = None
       THEN job' = None /\ UNCHANGED held
       ELSE job' = [job EXCEPT !.pc = "locked", !.before = live] /\ held' = TRUE
  /\ UNCHANGED <<live, issuer, listing, bounds>>

\* The credentials, then the account they belong to, are replaced.
SwitchCredentials ==
  /\ Switching("locked")
  /\ live' = Shown(cards[job.of].login, IF live = None THEN None ELSE live.named)
  /\ job' = [job EXCEPT !.pc = "credentials"]
  /\ UNCHANGED <<pool, issuer, held, listing, bounds>>

SwitchAccount ==
  /\ Switching("credentials")
  /\ live' = Shown(IF live = None THEN cards[job.of].login ELSE live.login, job.of)
  /\ job' = [job EXCEPT !.pc = "account"]
  /\ UNCHANGED <<pool, issuer, held, listing, bounds>>

SwitchSave ==
  /\ Switching("account")
  /\ current' = job.of
  /\ cards' = [a \in Accounts |-> IF cards[a] = None THEN None
                                  ELSE [cards[a] EXCEPT !.inLive = (a = job.of)]]
  /\ job' = None /\ held' = FALSE
  /\ UNCHANGED <<live, issuer, listing, bounds>>

\* A failed step puts back what was read: the account, if it was replaced, then
\* the credentials.
RolledBackLogin(w, v) ==                        \* variant: the login alone
  IF w.before = None \/ v = None THEN w.before ELSE Shown(w.before.login, v.named)
RolledBack(w, v) ==
  IF w.before = None \/ v = None \/ w.pc = "account" THEN w.before
  ELSE Shown(w.before.login, v.named)

SwitchFails ==
  /\ Switching("credentials") \/ Switching("account")
  /\ faults < MaxFaults /\ faults' = faults + 1
  /\ live' = RolledBack(job, live)
  /\ job' = None /\ held' = FALSE
  /\ UNCHANGED <<pool, issuer, listing, signIns, crashes>>

\* claude_upsert: a known card adopts the login, a new one may have to wait.
Upserted(v, inUse, defer) ==
  LET a == v.named
      c == IF cards[a] # None THEN Adopt(cards[a], v.login, inUse)
           ELSE NewCard(v.login, inUse, defer)
  IN  /\ cards' = [b \in Accounts |->
           IF b = a THEN c
           ELSE IF inUse /\ cards[b] # None THEN [cards[b] EXCEPT !.inLive = FALSE]
           ELSE cards[b]]
      /\ current' = IF inUse THEN a ELSE current

\* claude_import_current
ImportReads ==
  /\ job = None /\ live # None /\ live.named # None
  /\ job' = [pc |-> "importing", view |-> live]
  /\ UNCHANGED <<pool, live, issuer, held, listing, bounds>>

ImportCurrent(defer) ==
  /\ job # None /\ job.pc = "importing" /\ ~held
  /\ Upserted(job.view, TRUE, defer)
  /\ job' = None
  /\ UNCHANGED <<live, issuer, held, listing, bounds>>

\* claude_import_json: a login exported at any time.
ImportJson(a, gen, defer) ==
  /\ job = None /\ ~held /\ gen <= issued[a]
  /\ Upserted(Shown(Of(a, gen), a), FALSE, defer)
  /\ UNCHANGED <<live, issuer, job, held, listing, bounds>>

\* claude_import_login: a browser sign-in.
ImportLogin(a, defer) ==
  /\ job = None /\ ~held /\ issued[a] < MaxGen
  /\ issued' = [issued EXCEPT ![a] = @ + 1]
  /\ Upserted(Shown(Issued(a), a), FALSE, defer)
  /\ UNCHANGED <<live, spent, rotated, job, held, listing, bounds>>

Delete(a) ==
  /\ cards[a] # None /\ ~held
  /\ cards' = [cards EXCEPT ![a] = None]
  /\ current' = IF current = a THEN None ELSE current
  /\ UNCHANGED <<live, issuer, job, held, listing, bounds>>

SetRenewal(a, choice) ==
  /\ cards[a] # None /\ ~held
  /\ cards' = [cards EXCEPT ![a].renewal = choice]
  /\ UNCHANGED <<current, live, issuer, job, held, listing, bounds>>

Release(a) ==
  /\ cards[a] # None /\ ~held
  /\ cards' = [cards EXCEPT ![a].waiting = FALSE]
  /\ UNCHANGED <<current, live, issuer, job, held, listing, bounds>>

-----------------------------------------------------------------------------
(* Claude Code, which knows nothing of the pool, and crashes of Copool.    *)

\* No lock of Copool's, nor the check made before a write, keeps Claude Code out.
ClaudeRenews ==
  /\ live # None /\ live.login \notin spent
  /\ Exchange(live.login)
  /\ live' = [live EXCEPT !.login = Issued(live.login.of)]
  /\ UNCHANGED <<pool, rotated, job, held, listing, bounds>>

ClaudeSignsIn(a) ==
  /\ signIns < MaxSignIns /\ issued[a] < MaxGen
  /\ issued' = [issued EXCEPT ![a] = @ + 1]
  /\ live' = Shown(Issued(a), a)
  /\ signIns' = signIns + 1
  /\ UNCHANGED <<pool, spent, rotated, job, held, listing, faults, crashes>>

ClaudeSignsOut ==
  /\ signIns < MaxSignIns /\ live # None
  /\ live' = None /\ signIns' = signIns + 1
  /\ UNCHANGED <<pool, issuer, job, held, listing, faults, crashes>>

Crash ==
  /\ crashes < MaxCrashes /\ crashes' = crashes + 1
  /\ job' = None /\ held' = FALSE
  /\ listing' = [l \in Lists |-> None]
  /\ UNCHANGED <<pool, live, issuer, signIns, faults>>

RefreshStep ==
  \/ \E a \in Accounts : cards[a] # None /\ RefreshStart(a)
  \/ RefreshSnapshot \/ RefreshCheck \/ RefreshRenew \/ RefreshRefused
  \/ RefreshRenewFails \/ RefreshRenewLost
  \/ \E result \in {"ok", "failed"} : RefreshAnswer(result)
  \/ RefreshSettle \/ RefreshWrite \/ RefreshWriteFails \/ RefreshMerge

SwitchStep ==
  \/ \E a \in Accounts : cards[a] # None /\ SwitchStart(a)
  \/ SwitchLists \/ SwitchLock \/ SwitchCredentials \/ SwitchAccount \/ SwitchSave \/ SwitchFails

ImportStep ==
  \/ ImportReads
  \/ \E defer \in BOOLEAN :
       \/ ImportCurrent(defer)
       \/ \E a \in Accounts : ImportLogin(a, defer)
       \/ \E a \in Accounts, gen \in Gen : ImportJson(a, gen, defer)

Next ==
  \/ \E l \in Lists : ListReads(l) \/ ListNames(l) \/ ListFollows(l)
  \/ RefreshStep \/ SwitchStep \/ ImportStep
  \/ \E a \in Accounts :
       \/ Release(a) \/ ClaudeSignsIn(a)
       \/ a \in Deletable /\ Delete(a)
       \/ \E choice \in RenewalChoices : SetRenewal(a, choice)
  \/ ClaudeRenews \/ ClaudeSignsOut \/ Crash

Spec == Init /\ [][Next]_vars

-----------------------------------------------------------------------------
(* What is promised.                                                       *)

\* No card ever takes for its own, or to fall back on, a login of another account
\* of the pool, whatever is read while Copool is switching or Claude Code renews,
\* as long as Claude Code's is that of the account it names.  A sign-in with Claude
\* Code, or a crash, in the middle of a switch may leave it that of another: what
\* was read then is excused.
WholeView(v) == v = None \/ v.named = v.login.of
Whole == WholeView(live)
Own(cs) ==
  \A a \in Accounts : cs[a] # None =>
    \A l \in {cs[a].login} \cup ToSet(cs[a].alternates) : l.of = a
ReadOwn == job # None =>
  /\ WholeView(IF job.pc = "importing" THEN job.view ELSE job.before)
  /\ Asked(job.of) => \A l \in {job.login} \cup ToSet(job.alternates) : l.of = job.of
OtherPoolLoginsStayOut ==
  [][Own(cards) /\ Whole /\ (signIns' + crashes' = 0 \/ ReadOwn) => Own(cards')]_vars

\* Between two switches Claude Code's login is that of the account it names,
\* even when one was rolled back, unless it crashed or was signed in midway.
LiveWhole ==
  job = None /\ crashes + signIns = 0 => Whole

\* A login an account can still be used with: one its card holds, one its refresh
\* under way came by, or the one Claude Code uses, which the pool follows.
Held(c) == {c.login} \cup ToSet(c.alternates)
InRefresh(a) == IF Asked(a) THEN {job.login} \cup ToSet(job.alternates) ELSE {}
CameBy(a) == IF Asked(a) THEN InRefresh(a) \ Held(job.base) ELSE {}
Works(l, a) == l.of = a /\ l \notin spent
Usable(a) ==
  \E l \in Held(cards[a]) \cup CameBy(a) \cup (IF live = None THEN {} ELSE {live.login}) :
    Works(l, a)

\* The card follows Claude Code and drops its login for what was read there,
\* taken for its renewal, though that is an older one, read late or put back by a
\* switch, or another account's.
LedAway(a) ==
  /\ cards[a].inLive /\ cards'[a].inLive /\ cards'[a].login # cards[a].login
  /\ ~Works(cards'[a].login, a)

\* The card takes an alternate more and keeps as many as it may, or a refresh ends
\* that took Claude Code's login up to twice and had no room for both.
Crowded(a) ==
  \/ /\ Len(cards'[a].alternates) = MaxAlternates
     /\ ~(ToSet(cards'[a].alternates) \subseteq ToSet(cards[a].alternates))
  \/ /\ Refreshing("merging") /\ job.of = a /\ job' = None
     /\ job.reloaded /\ Len(job.base.alternates) + 2 > MaxAlternates

\* A refresh that renewed a login drops the alternates it read, as the renewal
\* proved that one, though it is spent by now: the next answer was lost.
ProvenLost(a) ==
  Refreshing("merging") /\ job.of = a /\ job' = None /\ job.renewed /\ job.login \in spent

\* As long as no card holds another account's login, a card gives up the last
\* login of its account that still works only because it takes one more and keeps
\* all the alternates it may, or was led away, or a renewal was lost: a login seen
\* elsewhere never replaces it for good otherwise, and an answer that comes late
\* neither.  Deleting the card, replacing Claude Code's own login, crashes and
\* failures are not judged.
UsableKept ==
  [][\A a \in Accounts :
       /\ cards[a] # None /\ cards'[a] # None /\ Usable(a)
       /\ Own(cards) /\ \A b \in Accounts : \A l \in InRefresh(b) : l.of = b
       /\ live' = live /\ faults' = faults /\ crashes' = crashes
       => Usable(a)' \/ Crowded(a) \/ LedAway(a) \/ ProvenLost(a)]_vars

\* A login the card took while a refresh ran outlives the refresh's answer: it
\* stays in use, or to fall back on, unless the refresh saw it rejected.
AdoptedMeanwhileKept ==
  [][\A a \in Accounts :
       /\ job # None /\ job.pc = "merging" /\ job.of = a /\ job' = None /\ crashes' = crashes
       /\ cards[a] # None /\ cards'[a] # None
       /\ cards[a].login \notin {job.base.login} \cup cards'[a].rejected
       => cards[a].login \in {cards'[a].login} \cup ToSet(cards'[a].alternates)]_vars

\* A login Claude rejected is never the one in use again, nor one to fall back
\* on, however it comes back: from a file, Claude Code or another refresh.
RejectedStaysOut ==
  [][\A a \in Accounts : cards[a] # None /\ cards'[a] # None =>
       /\ cards'[a].login \in cards[a].rejected => cards'[a].login = cards[a].login
       /\ ToSet(cards'[a].alternates) \cap cards'[a].rejected = {}]_vars

\* What a card may use of the logins that meet in it: nothing seen meanwhile is
\* lost, and nothing rejected returns.
LoginsSettle == AdoptedMeanwhileKept /\ RejectedStaysOut

\* A refresh that renewed a login while Claude Code had one leaves it the
\* renewed one, unless the login could not be read or written.
RenewalReachesClaude ==
  [][/\ job # None /\ job.pc = "merging" /\ job' = None /\ faults' + crashes' = 0 /\ ~Unreadable
     /\ job.before # None /\ job.renewed /\ live # None /\ live.named = job.of
     => live.login \notin rotated]_vars
=============================================================================
