---------------------------- MODULE CodexLogins ----------------------------
(***************************************************************************)
(* The logins of the Codex account pool: the pool file (accounts.json),    *)
(* the login Codex itself uses (auth.json), and the three kinds of         *)
(* activity that renew, move and replace them while the network is slow:   *)
(* usage refreshes, requests of the local API proxy, and Codex.            *)
(*                                                                         *)
(* A login is a generation number of its account: a token exchange at the  *)
(* issuer spends one generation's refresh token and issues the next        *)
(* number, and a sign-in issues a number without spending one.  Numbers    *)
(* follow the logins' last_refresh times, which is what newer_login reads. *)
(***************************************************************************)
EXTENDS Integers, FiniteSets

CONSTANTS
  Accounts,      \* identities (workspace, principal) a login can have
  Refreshes,     \* usage refreshes that may run at once
  Attempts,      \* proxy requests, each trying one candidate, at once
  Choices,       \* the renewal choices users make
  Providers,     \* Sub2api providers Codex can be switched to
  HostOnly,      \* localProxyHostAPIOnly: the proxy leaves Codex's login alone
  None,          \* no login, no card, no lock holder
  MaxGen,        \* bound: generations the issuer gives one account
  MaxCard,       \* bound: cards one account is imported under, one by one
  MaxSignIns,    \* bound: sign-ins and sign-outs made with Codex
  MaxFaults      \* bound: crashes and failed saves

ASSUME CountsAssumption ==
  /\ MaxGen \in Nat \ {0} /\ MaxCard \in Nat \ {0}
  /\ MaxSignIns \in Nat /\ MaxFaults \in Nat
ASSUME NamesAssumption ==
  /\ None \notin Accounts \cup Refreshes \cup Attempts
  /\ Refreshes \cap Attempts = {}
ASSUME ChoicesAssumption == /\ Choices \subseteq {"never", "once", "always"}
                            /\ HostOnly \in BOOLEAN

VARIABLES
  store,     \* accounts.json: the card each account is kept under, or None
  selected,  \* accounts.json: currentAccountId, the id of a card, or None
  live,      \* auth.json: the login Codex uses, or None
  official,  \* config.toml: Codex uses its own provider, not a Sub2api one
  issued,    \* the issuer: generations given out per account
  spent,     \* the issuer: generations whose refresh token was exchanged
  job,       \* what each usage refresh and each proxy attempt is doing
  lock,      \* who holds store_lock between two steps, or None
  compared,  \* auth.json as the holder of store_lock read it before it writes, or None
  cards,     \* card ids given out per account
  outside,   \* history: Codex changed accounts since Copool last looked
  torn,      \* history: a crash or failed save split a selection
  obtained,  \* history: newest generation Copool was given for a card
  signIns, faults  \* bounds

vars == <<store, selected, live, official, issued, spent, job, lock, compared,
          cards, outside, torn, obtained, signIns, faults>>

Jobs == Refreshes \cup Attempts
Gen == 1..MaxGen
Renewal == {"never", "once", "always"}
Login == [of: Accounts, gen: Gen]
Card == [id: 1..MaxCard, gen: Gen, renewal: Renewal,
         waiting: BOOLEAN, status: {"list", "deactivated", "deleted"}]
CardId == [of: Accounts, id: 1..MaxCard]

\* base: the stored login read; from: the one sent; got: the one held now;
\* choice: the renewal choice read; left: exchanges the activity may still ask.
Work == [pc: {"snapped", "asking", "answered", "merged", "writing", "usable"},
         of: Accounts, id: 1..MaxCard, base: Gen, from: Gen, got: Gen,
         choice: Renewal, left: 0..2, failed: {"no", "yes", "deactivated"}]
ASSUME NoneAssumption == None \notin Work \cup Login

TypeOK ==
  /\ store \in [Accounts -> Card \cup {None}]
  /\ selected \in CardId \cup {None}
  /\ live \in Login \cup {None}
  /\ official \in BOOLEAN
  /\ issued \in [Accounts -> Gen]
  /\ spent \in [Accounts -> SUBSET Gen]
  /\ job \in [Jobs -> Work \cup {None}]
  /\ lock \in Jobs \cup {None}
  /\ compared \in Login \cup {None}
  /\ cards \in [Accounts -> 0..MaxCard]
  /\ outside \in BOOLEAN /\ torn \in BOOLEAN
  /\ obtained \in [Accounts -> 0..MaxGen]
  /\ signIns \in 0..MaxSignIns /\ faults \in 0..MaxFaults

\* A card of a pool kept from an earlier run, at the login issued last.
FirstCard == [id |-> 1, gen |-> 1, renewal |-> "always", waiting |-> FALSE,
              status |-> "list"]

Init ==
  /\ store \in [Accounts -> {None, FirstCard}]
  /\ selected = None
  /\ live \in {[of |-> a, gen |-> 1] : a \in Accounts} \cup {None}
  /\ official = TRUE
  /\ issued = [a \in Accounts |-> 1]
  /\ spent = [a \in Accounts |-> {}]
  /\ job = [j \in Jobs |-> None]
  /\ lock = None /\ compared = None
  /\ cards = [a \in Accounts |-> IF store[a] = None THEN 0 ELSE 1]
  /\ outside = (live # None)
  /\ torn = FALSE
  /\ obtained = [a \in Accounts |-> 0]
  /\ signIns = 0 /\ faults = 0

-----------------------------------------------------------------------------
(* What the code asks of two logins, and of a card.                        *)

\* Both are logins of one account here, so their numbers decide.
NewerLogin(g, h) == g > h

AnyRenewalReplaces(got, from, current) == TRUE  \* variant: order not checked
RenewalReplaces(got, from, current) ==
  current = from \/ NewerLogin(got, current)

IsAvailable(c) == c.status = "list"

\* account_to_proxy_candidate keeps a card the proxy may use.
MayServeWaiting(c) == IsAvailable(c)            \* variant: the wait ignored
MayServe(c) == IsAvailable(c) /\ ~c.waiting
Renewed(c) == IF c.renewal = "once" THEN [c EXCEPT !.renewal = "never"] ELSE c

\* The account is still kept under the card with this id.
Kept(a, id) == store[a] # None /\ store[a].id = id

\* currentAccountId is the card's, and auth.json is a login of its account.
IsSelected(a, id) == selected = [of |-> a, id |-> id]
LiveIs(a) == live # None /\ live.of = a

\* An exchange of generation g answers the issuer's next number.
Exchange(a, g) ==
  /\ g \notin spent[a]
  /\ issued[a] < MaxGen
  /\ spent' = [spent EXCEPT ![a] = @ \cup {g}]
  /\ issued' = [issued EXCEPT ![a] = @ + 1]

issuer == <<issued, spent>>
pool == <<store, selected, cards>>
codex == <<live, official>>
held == <<lock, compared>>
bounds == <<signIns, faults>>
history == <<outside, torn, obtained>>

-----------------------------------------------------------------------------
(* Usage refresh: Application::refresh_usage_if_needed.                    *)

\* The account is read under store_lock; one that waits is left alone.
RefreshSnapshot(t, a) ==
  /\ job[t] = None /\ lock = None
  /\ store[a] # None /\ ~store[a].waiting
  /\ job' = [job EXCEPT ![t] =
       [pc |-> "snapped", of |-> a, id |-> store[a].id, base |-> store[a].gen,
        from |-> store[a].gen, got |-> store[a].gen,
        choice |-> store[a].renewal, left |-> 2, failed |-> "no"]]
  /\ UNCHANGED <<pool, codex, issuer, held, history, bounds>>

\* auth.json is read without a lock; a newer login of the account is sent.
RefreshReadLive(t) ==
  /\ job[t] # None /\ job[t].pc = "snapped"
  /\ LET a == job[t].of
         sent == IF LiveIs(a) /\ NewerLogin(live.gen, job[t].base)
                   THEN live.gen ELSE job[t].base
     IN  job' = [job EXCEPT ![t].pc = "asking", ![t].from = sent, ![t].got = sent]
  /\ UNCHANGED <<pool, codex, issuer, held, history, bounds>>

\* account_network::fetch renews a login that has expired, and once more one
\* the usage call refuses as expired; never when the card renews nothing.
RefreshRenew(t) ==
  LET w == job[t] IN
  /\ w # None /\ w.pc = "asking" /\ w.choice # "never" /\ w.left > 0
  /\ Exchange(w.of, w.got)
  /\ job' = [job EXCEPT ![t].got = issued'[w.of], ![t].left = @ - 1]
  /\ obtained' = IF Kept(w.of, w.id)
                   THEN [obtained EXCEPT ![w.of] = issued'[w.of]] ELSE obtained
  /\ UNCHANGED <<pool, codex, held, outside, torn, bounds>>

\* The usage call answers, or something failed: a refused or lost exchange,
\* the network, a held back renewal, an account the upstream deactivated.
RefreshAnswer(t, failed) ==
  /\ job[t] # None /\ job[t].pc = "asking"
  /\ job' = [job EXCEPT ![t].pc = "answered", ![t].failed = failed,
                        ![t].left = 0]
  /\ UNCHANGED <<pool, codex, issuer, held, history, bounds>>

\* An exchange whose answer is lost: the generation is spent, nobody holds
\* the next one, and fetch fails.
RefreshRenewLost(t) ==
  LET w == job[t] IN
  /\ w # None /\ w.pc = "asking" /\ w.choice # "never" /\ w.left > 0
  /\ Exchange(w.of, w.got)
  /\ job' = [job EXCEPT ![t].pc = "answered", ![t].failed = "yes",
                        ![t].left = 0]
  /\ UNCHANGED <<pool, codex, held, history, bounds>>

\* The stored login after a refresh: what it got, when that is newer or the
\* card is as it was; after a failure, at least the live login it sent.
MergedUnordered(c, w) == IF w.got # w.base THEN w.got ELSE c.gen   \* variant
MergedOnSuccess(c, w) ==                        \* variant: failures keep nothing
  IF w.failed = "no" /\ w.got # w.base /\ (c.gen = w.base \/ NewerLogin(w.got, c.gen))
    THEN w.got ELSE c.gen
Merged(c, w) ==
  LET kept == IF w.got # w.base /\ (c.gen = w.base \/ NewerLogin(w.got, c.gen))
                THEN w.got ELSE c.gen
  IN  IF w.failed # "no" /\ w.from # w.base /\ NewerLogin(w.from, kept)
        THEN w.from ELSE kept

\* A deleted card stays deleted; otherwise the answer decides.
StatusAfter(c, w) ==
  IF c.status = "deleted" \/ w.failed = "yes" THEN c.status
  ELSE IF w.failed = "deactivated" THEN "deactivated" ELSE "list"

\* Merge the answer into the card as it is now, and save; store_lock is kept
\* when a renewed login is still to be written to auth.json.
RefreshMerge(t) ==
  LET w == job[t]
      c == IF w.got # w.from THEN Renewed(store[w.of]) ELSE store[w.of]
      next == [c EXCEPT !.gen = Merged(c, w), !.status = StatusAfter(c, w)]
      liveWrite == /\ IsSelected(w.of, w.id) /\ w.got # w.from
                   /\ LiveIs(w.of) /\ next.gen = w.got
  IN
  /\ w # None /\ w.pc = "answered" /\ lock = None
  /\ Kept(w.of, w.id)
  /\ store' = [store EXCEPT ![w.of] = next]
  /\ IF liveWrite
       THEN job' = [job EXCEPT ![t].pc = "merged"] /\ lock' = t
       ELSE job' = [job EXCEPT ![t] = None] /\ UNCHANGED lock
  /\ UNCHANGED <<selected, cards, codex, compared, issuer, history, bounds>>

\* The card was removed meanwhile: nothing to merge into.
RefreshDropped(t) ==
  /\ job[t] # None /\ job[t].pc = "answered" /\ lock = None
  /\ ~Kept(job[t].of, job[t].id)
  /\ job' = [job EXCEPT ![t] = None]
  /\ UNCHANGED <<pool, codex, issuer, held, history, bounds>>

\* A renewed login may replace a login of its account: the one renewed or an
\* older one.
MayReplace(w) == LiveIs(w.of) /\ RenewalReplaces(w.got, w.from, live.gen)

\* auth.json is read and compared under store_lock, which Codex does not take.
RefreshCompares(t) ==
  /\ job[t] # None /\ job[t].pc = "merged" /\ lock = t
  /\ IF MayReplace(job[t])
       THEN /\ job' = [job EXCEPT ![t].pc = "writing"] /\ compared' = live
            /\ UNCHANGED lock
       ELSE job' = [job EXCEPT ![t] = None] /\ lock' = None /\ UNCHANGED compared
  /\ UNCHANGED <<pool, codex, issuer, history, bounds>>

\* It is written, whatever Codex made of it meanwhile.
WriteRenewed(w) == live' = [of |-> w.of, gen |-> w.got]

RefreshWriteLive(t) ==
  /\ job[t] # None /\ job[t].pc = "writing" /\ lock = t
  /\ WriteRenewed(job[t])
  /\ job' = [job EXCEPT ![t] = None]
  /\ lock' = None /\ compared' = None
  /\ UNCHANGED <<pool, official, issuer, history, bounds>>

-----------------------------------------------------------------------------
(* Local API proxy: one candidate tried by one request.                    *)

\* load_proxy_candidates keeps available cards that do not wait.
AttemptLoad(q, a) ==
  /\ job[q] = None /\ lock = None
  /\ store[a] # None /\ MayServe(store[a])
  /\ job' = [job EXCEPT ![q] =
       [pc |-> "asking", of |-> a, id |-> store[a].id, base |-> store[a].gen,
        from |-> store[a].gen, got |-> store[a].gen,
        choice |-> store[a].renewal, left |-> 1, failed |-> "no"]]
  /\ UNCHANGED <<pool, codex, issuer, held, history, bounds>>

\* The upstream refuses the token: refresh_proxy_candidate_auth, once.
AttemptRenew(q) ==
  LET w == job[q] IN
  /\ w # None /\ w.pc = "asking" /\ w.choice # "never" /\ w.left > 0
  /\ Exchange(w.of, w.got)
  /\ job' = [job EXCEPT ![q].pc = "answered", ![q].got = issued'[w.of],
                        ![q].left = 0]
  /\ obtained' = IF Kept(w.of, w.id)
                   THEN [obtained EXCEPT ![w.of] = issued'[w.of]] ELSE obtained
  /\ UNCHANGED <<pool, codex, held, outside, torn, bounds>>

\* persist_refreshed_candidate_auth: the stored login is replaced unless it
\* was renewed since, and then it is the one to retry with.
AttemptPersist(q) ==
  LET w == job[q]
      c == store[w.of]
  IN
  /\ w # None /\ w.pc = "answered" /\ lock = None
  /\ IF Kept(w.of, w.id) /\ ~RenewalReplaces(w.got, w.from, c.gen)
       THEN /\ job' = [job EXCEPT ![q].pc = "usable", ![q].got = c.gen]
            /\ UNCHANGED <<store, lock>>
       ELSE /\ store' = IF Kept(w.of, w.id)
                          THEN [store EXCEPT ![w.of] = [Renewed(c) EXCEPT !.gen = w.got]]
                          ELSE store
            /\ job' = [job EXCEPT ![q].pc = "merged"]
            /\ lock' = q
  /\ UNCHANGED <<selected, cards, codex, compared, issuer, history, bounds>>

\* sync_refreshed_auth, still under store_lock: what it reads, then its write.
AttemptCompares(q) ==
  LET w == job[q] IN
  /\ w # None /\ w.pc = "merged" /\ lock = q
  /\ IF ~HostOnly /\ official /\ IsSelected(w.of, w.id) /\ MayReplace(w)
       THEN /\ job' = [job EXCEPT ![q].pc = "writing"] /\ compared' = live
            /\ UNCHANGED lock
       ELSE /\ job' = [job EXCEPT ![q].pc = "usable"] /\ lock' = None
            /\ UNCHANGED compared
  /\ UNCHANGED <<pool, codex, issuer, history, bounds>>

AttemptSync(q) ==
  /\ job[q] # None /\ job[q].pc = "writing" /\ lock = q
  /\ WriteRenewed(job[q])
  /\ job' = [job EXCEPT ![q].pc = "usable"]
  /\ lock' = None /\ compared' = None
  /\ UNCHANGED <<pool, official, issuer, history, bounds>>

\* The exchange's answer is lost, and the attempt with it.
AttemptRenewLost(q) ==
  LET w == job[q] IN
  /\ w # None /\ w.pc = "asking" /\ w.choice # "never" /\ w.left > 0
  /\ Exchange(w.of, w.got)
  /\ job' = [job EXCEPT ![q] = None]
  /\ UNCHANGED <<pool, codex, held, history, bounds>>

AttemptReady(q) ==
  job[q] # None /\ job[q].pc \in {"asking", "usable"} /\ lock = None

\* proxy_integration::select: nothing to do when Codex already uses the card.
AlreadySelected(w) ==
  HostOnly \/ (official /\ IsSelected(w.of, w.id) /\ LiveIs(w.of))

\* The upstream accepts: the candidate becomes Codex's login.
AttemptSelect(q) ==
  LET w == job[q] IN
  /\ AttemptReady(q)
  /\ Kept(w.of, w.id) /\ ~AlreadySelected(w)
  /\ live' = [of |-> w.of, gen |-> w.got]
  /\ selected' = [of |-> w.of, id |-> w.id]
  /\ official' = TRUE
  /\ job' = [job EXCEPT ![q] = None]
  /\ outside' = FALSE /\ torn' = FALSE
  /\ UNCHANGED <<store, cards, issuer, held, obtained, bounds>>

\* mutate_accounts writes auth.json before a save that then fails.
AttemptSelectFails(q) ==
  LET w == job[q] IN
  /\ AttemptReady(q) /\ faults < MaxFaults
  /\ Kept(w.of, w.id) /\ ~AlreadySelected(w)
  /\ live' = [of |-> w.of, gen |-> w.got]
  /\ official' = TRUE
  /\ job' = [job EXCEPT ![q] = None]
  /\ torn' = TRUE /\ faults' = faults + 1
  /\ UNCHANGED <<pool, issuer, held, outside, obtained, signIns>>

\* The attempt ends without a selection: a failure, a failed exchange, a
\* removed card, or nothing to select.
AttemptEnd(q) ==
  /\ AttemptReady(q)
  /\ job' = [job EXCEPT ![q] = None]
  /\ UNCHANGED <<pool, codex, issuer, held, history, bounds>>

-----------------------------------------------------------------------------
(* Commands of the user, each under store_lock.                            *)

NewCard(a, gen, defer) ==
  [id |-> cards[a] + 1, gen |-> gen, renewal |-> "always", waiting |-> defer,
   status |-> "list"]

\* import_json: a known account takes the imported login whatever its age and
\* keeps its id, its renewal choice and its wait; a new one may have to wait.
Imported(a, gen, defer) ==
  /\ lock = None
  /\ IF store[a] # None
       THEN /\ store' = [store EXCEPT ![a].gen = gen, ![a].status = "list"]
            /\ UNCHANGED cards
       ELSE /\ cards[a] < MaxCard
            /\ store' = [store EXCEPT ![a] = NewCard(a, gen, defer)]
            /\ cards' = [cards EXCEPT ![a] = @ + 1]
  /\ obtained' = [obtained EXCEPT ![a] = 0]
  /\ UNCHANGED <<selected, codex, job, held, outside, torn, bounds>>

\* From a file, exported at any time.
ImportFile(a, gen, defer) ==
  gen <= issued[a] /\ Imported(a, gen, defer) /\ UNCHANGED issuer

\* import_current: the login in auth.json.
ImportCurrent(defer) ==
  live # None /\ Imported(live.of, live.gen, defer) /\ UNCHANGED issuer

\* A browser sign-in, which the issuer answers with a login of its own.
ImportSignIn(a, defer) ==
  /\ issued[a] < MaxGen
  /\ issued' = [issued EXCEPT ![a] = @ + 1]
  /\ Imported(a, issued'[a], defer)
  /\ UNCHANGED spent

\* switch_account: the stored login becomes Codex's.
SwitchAccount(a) ==
  /\ lock = None /\ store[a] # None /\ IsAvailable(store[a])
  /\ live' = [of |-> a, gen |-> store[a].gen]
  /\ official' = TRUE
  /\ selected' = [of |-> a, id |-> store[a].id]
  /\ outside' = FALSE /\ torn' = FALSE
  /\ UNCHANGED <<store, cards, issuer, job, held, obtained, bounds>>

\* The save fails: auth.json is put back, config.toml is not.
SwitchFails(a) ==
  /\ lock = None /\ store[a] # None /\ IsAvailable(store[a])
  /\ faults < MaxFaults /\ faults' = faults + 1
  /\ official' = TRUE
  /\ UNCHANGED <<pool, live, issuer, job, held, history, signIns>>

\* The provider of a Sub2api card is written to config.toml; the logins stay.
SwitchProvider ==
  /\ Providers # {}
  /\ official' = FALSE
  /\ UNCHANGED <<pool, live, issuer, job, held, history, bounds>>

\* accounts(): the login Codex uses wins over the stored selection.
SelectionIfGone ==                 \* variant: a kept selection is not compared
  IF live = None \/ (selected # None /\ Kept(selected.of, selected.id)) THEN selected
  ELSE IF store[live.of] # None THEN [of |-> live.of, id |-> store[live.of].id]
  ELSE None
SelectionOfLive ==
  IF live = None \/ (selected # None /\ Kept(selected.of, selected.id)
                      /\ selected.of = live.of) THEN selected
  ELSE IF store[live.of] # None THEN [of |-> live.of, id |-> store[live.of].id]
  ELSE None

Reconcile ==
  /\ lock = None
  /\ selected' = SelectionOfLive
  /\ IF live = None THEN UNCHANGED <<outside, torn>>
       ELSE outside' = FALSE /\ torn' = FALSE
  /\ UNCHANGED <<store, cards, codex, issuer, job, held, obtained, bounds>>

SetRenewal(a, choice) ==
  /\ lock = None /\ store[a] # None
  /\ store' = [store EXCEPT ![a].renewal = choice]
  /\ UNCHANGED <<selected, cards, codex, issuer, job, held, history, bounds>>

\* release_new_accounts: a manual refresh ends the wait.
Release(a) ==
  /\ lock = None /\ store[a] # None
  /\ store' = [store EXCEPT ![a].waiting = FALSE]
  /\ UNCHANGED <<selected, cards, codex, issuer, job, held, history, bounds>>

\* delete_account hides a deactivated card and removes any other.
DeleteAccount(a) ==
  /\ lock = None /\ store[a] # None
  /\ IF store[a].status = "deactivated"
       THEN /\ store' = [store EXCEPT ![a].status = "deleted"]
            /\ UNCHANGED obtained
       ELSE /\ store' = [store EXCEPT ![a] = None]
            /\ obtained' = [obtained EXCEPT ![a] = 0]
  /\ UNCHANGED <<selected, cards, codex, issuer, job, held, outside, torn, bounds>>

-----------------------------------------------------------------------------
(* Codex, which knows nothing of the pool, and crashes of Copool.          *)

CodexRenews ==
  /\ live # None
  /\ Exchange(live.of, live.gen)
  /\ live' = [live EXCEPT !.gen = issued'[live.of]]
  /\ UNCHANGED <<pool, official, job, held, history, bounds>>

CodexSignsIn(a) ==
  /\ signIns < MaxSignIns /\ issued[a] < MaxGen
  /\ issued' = [issued EXCEPT ![a] = @ + 1]
  /\ live' = [of |-> a, gen |-> issued'[a]]
  /\ outside' = TRUE /\ signIns' = signIns + 1
  /\ UNCHANGED <<pool, official, spent, job, held, torn, obtained, faults>>

CodexSignsOut ==
  /\ signIns < MaxSignIns /\ live # None
  /\ live' = None
  /\ outside' = TRUE /\ signIns' = signIns + 1
  /\ UNCHANGED <<pool, official, issuer, job, held, torn, obtained, faults>>

\* What a failed save or a crash leaves of the logins Copool was given.
Forgotten == [a \in Accounts |->
  IF store[a] = None \/ obtained[a] <= store[a].gen THEN obtained[a]
  ELSE store[a].gen]

\* The save of a renewed login fails: the refresh or the attempt fails too.
SaveFails(j) ==
  /\ job[j] # None /\ job[j].pc = "answered" /\ lock = None
  /\ faults < MaxFaults /\ faults' = faults + 1
  /\ job' = [job EXCEPT ![j] = None]
  /\ obtained' = Forgotten
  /\ UNCHANGED <<pool, codex, issuer, held, outside, torn, signIns>>

\* Every activity ends where it stands; what only it held is gone.
Crashes ==
  /\ faults < MaxFaults /\ faults' = faults + 1
  /\ job' = [j \in Jobs |-> None]
  /\ lock' = None /\ compared' = None
  /\ obtained' = Forgotten
  /\ UNCHANGED <<pool, issuer, outside, signIns>>

Crash == Crashes /\ UNCHANGED <<codex, torn>>

\* A crash in switch_account after config.toml, or after auth.json too.
CrashInSwitch(a) ==
  /\ lock = None /\ store[a] # None /\ IsAvailable(store[a])
  /\ Crashes
  /\ official' = TRUE
  /\ \/ UNCHANGED <<live, torn>>
     \/ live' = [of |-> a, gen |-> store[a].gen] /\ torn' = TRUE

RefreshStep(t) ==
  \/ \E a \in Accounts : RefreshSnapshot(t, a)
  \/ RefreshReadLive(t) \/ RefreshRenew(t) \/ RefreshRenewLost(t)
  \/ \E failed \in {"no", "yes", "deactivated"} : RefreshAnswer(t, failed)
  \/ RefreshMerge(t) \/ RefreshDropped(t) \/ RefreshCompares(t) \/ RefreshWriteLive(t)

AttemptStep(q) ==
  \/ \E a \in Accounts : AttemptLoad(q, a)
  \/ AttemptRenew(q) \/ AttemptRenewLost(q) \/ AttemptPersist(q)
  \/ AttemptCompares(q) \/ AttemptSync(q)
  \/ AttemptSelect(q) \/ AttemptSelectFails(q) \/ AttemptEnd(q)

ImportStep ==
  \E defer \in BOOLEAN :
    \/ ImportCurrent(defer)
    \/ \E a \in Accounts : ImportSignIn(a, defer)
    \/ \E a \in Accounts, gen \in Gen : ImportFile(a, gen, defer)

CommandStep(a) ==
  \/ SwitchAccount(a) \/ SwitchFails(a) \/ Release(a) \/ DeleteAccount(a)
  \/ \E choice \in Choices : SetRenewal(a, choice)
  \/ CodexSignsIn(a) \/ CrashInSwitch(a)

Next ==
  \/ \E t \in Refreshes : RefreshStep(t)
  \/ \E q \in Attempts : AttemptStep(q)
  \/ \E j \in Jobs : SaveFails(j)
  \/ ImportStep
  \/ \E a \in Accounts : CommandStep(a)
  \/ SwitchProvider \/ Reconcile \/ CodexRenews \/ CodexSignsOut \/ Crash

Spec == Init /\ [][Next]_vars

-----------------------------------------------------------------------------
(* What is promised.                                                       *)

\* A login the issuer gave Copool for a card in place of a spent one is never
\* dropped while Copool runs: the card holds it or a newer one, or the
\* activity that got it is still to store it (only an import replaces it).
RenewalKept ==
  \A a \in Accounts : store[a] # None =>
    \/ store[a].gen >= obtained[a]
    \/ \E j \in Jobs : /\ job[j] # None /\ job[j].pc \in {"asking", "answered"}
                       /\ job[j].of = a /\ job[j].id = store[a].id
                       /\ job[j].got >= obtained[a]

\* A new account that waits for its first manual refresh is never contacted:
\* neither a refresh nor a proxy attempt under way is for its card.
WaitingNotContacted ==
  \A j \in Jobs : job[j] # None /\ Kept(job[j].of, job[j].id) =>
    ~store[job[j].of].waiting

\* currentAccountId and auth.json name one account, until Codex changes it
\* outside Copool or a crash or failed save comes between their writes.
SelectionFollowsLive ==
  selected # None /\ live # None /\ selected.of # live.of => outside \/ torn

\* The pool's login of a card goes back to an older one only by an import:
\* an answer that arrives late never reverts it.
LateAnswerNeverReverts ==
  [][\A a \in Accounts :
       /\ store[a] # None /\ store'[a] # None /\ store'[a].id = store[a].id
       /\ store'[a].gen < store[a].gen
       => ImportStep]_vars

\* auth.json changes account, gets a login back, or goes back to an older one of
\* its account, only when Codex or the user chose it or the proxy selected its
\* candidate; an answer that renewed a login does it only where Codex itself
\* changed auth.json after the answer compared it and before it wrote.
Writing(j) == job[j] # None /\ job[j].pc = "writing"
WritesLive(j) == Writing(j) /\ job'[j] # job[j]
Onwards == live # None /\ live' # None /\ live'.of = live.of /\ live'.gen > live.gen
RenewalNeverMovesLive ==
  [][live' # live =>
       \/ Onwards
       \/ \E a \in Accounts : SwitchAccount(a) \/ CrashInSwitch(a) \/ CodexSignsIn(a)
       \/ \E q \in Attempts : AttemptSelect(q) \/ AttemptSelectFails(q)
       \/ CodexSignsOut
       \/ \E j \in Jobs : WritesLive(j) /\ live # compared]_vars


\* docs/rust-cross-platform.md:276 and models.rs:429: a card set to renew once
\* renews no more after a renewal on any path, as the activity that read the
\* choice leaves it.
OnceIsUsedUp ==
  [][\A j \in Jobs :
       /\ job[j] # None /\ job[j].pc = "answered" /\ job[j].got # job[j].from
       /\ job[j].choice = "once" /\ Kept(job[j].of, job[j].id)
       /\ store[job[j].of].renewal = "once" /\ job'[j] # job[j]
       => store'[job[j].of].renewal = "never"]_vars

-----------------------------------------------------------------------------
(* The inductive invariant behind the theorems of CodexLoginsProofs.       *)

\* Nobody holds a login the issuer has not given out.
Issued ==
  /\ \A a \in Accounts : store[a] # None => store[a].gen <= issued[a]
  /\ live # None => live.gen <= issued[live.of]
  /\ \A j \in Jobs : job[j] # None => job[j].got <= issued[job[j].of]

\* An activity moves on to newer logins only, an attempt by its one exchange.
Onward ==
  /\ \A j \in Jobs : job[j] # None =>
       job[j].base <= job[j].from /\ job[j].from <= job[j].got
  /\ \A q \in Attempts : job[q] # None /\ job[q].pc = "asking" =>
       job[q].got = job[q].base
  /\ \A q \in Attempts : job[q] # None => job[q].from = job[q].base

\* RenewalKept, and the activity still to store the login exchanged a token
\* since it read the card.
Holds(j, a) ==
  /\ job[j] # None /\ job[j].pc \in {"asking", "answered"}
  /\ job[j].of = a /\ job[j].id = store[a].id
  /\ job[j].got >= obtained[a] /\ job[j].got > job[j].base
Held ==
  \A a \in Accounts : store[a] # None =>
    store[a].gen >= obtained[a] \/ \E j \in Jobs : Holds(j, a)

\* Behind WaitingNotContacted: a new card takes an id no activity has read.
IdsGiven ==
  /\ \A a \in Accounts : store[a] # None => store[a].id = cards[a]
  /\ \A j \in Jobs : job[j] # None => job[j].id <= cards[job[j].of]

\* Who is about to write auth.json holds store_lock and has read there a login
\* that its own may replace; only Codex changes the account there meanwhile.
ComparedKnown ==
  \A j \in Jobs : Writing(j) =>
    /\ lock = j /\ compared # None /\ compared.of = job[j].of
    /\ RenewalReplaces(job[j].got, job[j].from, compared.gen)
    /\ outside \/ LiveIs(job[j].of)

IInv == TypeOK /\ Issued /\ Onward /\ Held /\ IdsGiven /\ WaitingNotContacted
=============================================================================
