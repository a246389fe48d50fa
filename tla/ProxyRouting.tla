---------------------------- MODULE ProxyRouting ----------------------------
(***************************************************************************)
(* How the local API proxy spreads requests over the account pool: the     *)
(* candidates of a request, their order, failover from one to the next,    *)
(* one token renewal per candidate, the cooldown of accounts the upstream  *)
(* refused, and the account a success sticks to.  Requests run at once and *)
(* share the cooldowns, the sticky account and the pool's selection.       *)
(*                                                                         *)
(* An account is a number: the place of its (added_at, id) in the pool.    *)
(***************************************************************************)
EXTENDS Naturals, FiniteSets, Sequences

CONSTANTS
  Accounts,   \* every account and Sub2api provider the pool may hold
  Keyed,      \* the Sub2api providers, which use an API key, not a login
  Requests,   \* requests that may be under way at once
  Local,      \* the app's own proxy (TRUE) or the remote daemon (FALSE)
  HostOnly,   \* the setting localProxyHostAPIOnly: a success selects nothing
  MaxScore,   \* bound: remaining-quota scores told apart
  Short, Long \* cooldowns, in ticks: rate limits, and all other refusals

None == 0     \* no account

ASSUME AccountsAssumption ==
  /\ Accounts \subseteq Nat \ {0} /\ IsFiniteSet(Accounts)
  /\ Keyed \subseteq Accounts
ASSUME BoundsAssumption ==
  /\ Local \in BOOLEAN /\ HostOnly \in BOOLEAN /\ MaxScore \in Nat
  /\ Short \in Nat \ {0} /\ Long \in Nat \ {0} /\ Short <= Long

VARIABLES
  available,  \* accounts the pool offers: available, not waiting, with a token
  selected,   \* currentAccountId
  provider,   \* the provider Codex is configured for, None for its own
  score,      \* remaining_score of each account's stored usage
  sticky,     \* sticky_account_id
  cooldown,   \* ticks until cooldown_until_by_account_id of each account
  req         \* the requests under way

vars == <<available, selected, provider, score, sticky, cooldown, req>>

Statuses == {"400", "401", "402", "403", "429", "500"}
\* What an answer's body says; "session" stands for the words that ask for a
\* renewal but are no sign of a refused account.
Signals == {"none", "quota", "model", "rate", "expired", "session", "auth",
            "permission"}

\* seen: the candidates loaded, with their scores; preferred: those stored
\* as in use; queue: the candidates to be asked, the one asked now first; renewed:
\* its login was renewed.
Idle == [pc |-> "idle", seen |-> [a \in {} |-> 0], preferred |-> {},
         queue |-> <<>>, renewed |-> FALSE]

Pcs == {"idle", "loaded", "asking", "renewing", "accepted", "selected", "failed"}
Scores == UNION {[offered -> 0..MaxScore] : offered \in SUBSET Accounts}
Request == [pc: Pcs, seen: Scores, preferred: SUBSET Accounts,
            queue: Seq(Accounts), renewed: BOOLEAN]

TypeOK ==
  /\ available \subseteq Accounts
  /\ selected \in Accounts \cup {None} /\ provider \in Keyed \cup {None}
  /\ score \in [Accounts -> 0..MaxScore]
  /\ sticky \in Accounts \cup {None}
  /\ cooldown \in [Accounts -> 0..Long]
  /\ req \in [Requests -> Request]

Init ==
  /\ available = Accounts
  /\ selected = None /\ provider = None
  /\ score \in [Accounts -> 0..MaxScore]
  /\ sticky = None
  /\ cooldown = [a \in Accounts |-> 0]
  /\ req = [r \in Requests |-> Idle]

-----------------------------------------------------------------------------
(* What the code asks of an answer and of two candidates.                  *)

\* is_account_scoped_failure: the refusal is about the account.
IsAccountScoped(status) == status \in {"401", "402", "403", "429"}

\* should_retry_with_token_refresh
ShouldRenew(status, signal) == status = "401" \/ signal \in {"expired", "session"}

\* classify_retriable_failure, None for an answer that goes to the client.
Category(status, signal) ==
  IF status = "402" \/ signal = "quota" THEN "quota"
  ELSE IF signal = "model" THEN "model"
  ELSE IF status = "429" \/ signal = "rate" THEN "rate"
  ELSE IF status = "401" \/ signal \in {"auth", "expired"} THEN "auth"
  ELSE IF status = "403" \/ signal = "permission" THEN "permission"
  ELSE "none"

CooldownOf(category) == IF category = "rate" THEN Short ELSE Long

\* compare_proxy_candidates and compare_runtime_proxy_candidates: a comes
\* before b, by keys of which the first that differs decides.
Rank(a, w) ==
  LET current == IF a \in w.preferred THEN 1 ELSE 0
      stuck == IF a = sticky THEN 1 ELSE 0
  IN  IF Local THEN <<current, stuck, w.seen[a]>> ELSE <<w.seen[a], stuck, 0>>
ScoreFirst(a, b, w) ==                      \* variant: by score and age alone
  w.seen[a] > w.seen[b] \/ (w.seen[a] = w.seen[b] /\ a < b)
Precedes(a, b, w) ==
  LET k == Rank(a, w)
      l == Rank(b, w)
  IN  \/ \E i \in 1..3 : k[i] > l[i] /\ \A j \in 1..(i - 1) : k[j] = l[j]
      \/ k = l /\ a < b

\* A queue of the candidates not in a cooldown, in that order.
EveryCandidate(w) == DOMAIN w.seen          \* variant: cooldowns not read
Warm(w) == {a \in DOMAIN w.seen : cooldown[a] = 0}
Queues(w) ==
  {queue \in [1..Cardinality(Warm(w)) -> Warm(w)] :
     /\ Warm(w) = {queue[i] : i \in DOMAIN queue}
     /\ \A i, j \in DOMAIN queue : i < j => Precedes(queue[i], queue[j], w)}

\* Ask the first of a queue; with none left, the request has failed.
Asking(queue) ==
  [Idle EXCEPT !.pc = IF queue = <<>> THEN "failed" ELSE "asking", !.queue = queue]
Advance(w) == Asking(Tail(w.queue))

-----------------------------------------------------------------------------
(* A request: send_codex_request_over_candidates.                          *)

\* load_proxy_candidates, under store_lock; with none the request is answered.
Loaded ==
  [pc |-> "loaded", seen |-> [a \in available |-> score[a]],
   preferred |-> {a \in available :
     Local /\ IF a \in Keyed THEN a = provider ELSE a = selected},
   queue |-> <<>>, renewed |-> FALSE]
Load(r) ==
  /\ req[r].pc = "idle" /\ available # {}
  /\ req' = [req EXCEPT ![r] = Loaded]
  /\ UNCHANGED <<available, selected, provider, score, sticky, cooldown>>

\* order_proxy_candidates_for_runtime, under the lock of the shared state.
Order(r) ==
  /\ req[r].pc = "loaded"
  /\ \E queue \in Queues(req[r]) : req' = [req EXCEPT ![r] = Asking(queue)]
  /\ UNCHANGED <<available, selected, provider, score, sticky, cooldown>>

\* The upstream cannot be reached, or its answer cannot be read.
EndsRequest(w) == [w EXCEPT !.pc = "failed"]   \* variant: no failover
AfterNetworkError(w) == Advance(w)

NetworkFails(r) ==
  /\ req[r].pc = "asking"
  /\ req' = [req EXCEPT ![r] = AfterNetworkError(req[r])]
  /\ UNCHANGED <<available, selected, provider, score, sticky, cooldown>>

\* The upstream refuses the token: the login is renewed, once per candidate.
RenewsAlways(w) == Head(w.queue) \notin Keyed  \* variant: did_refresh forgotten
MayRenew(w) == Head(w.queue) \notin Keyed /\ ~w.renewed

AskRenewal(r) ==
  /\ req[r].pc = "asking" /\ MayRenew(req[r])
  /\ \E status \in Statuses, signal \in Signals : ShouldRenew(status, signal)
  /\ req' = [req EXCEPT ![r].pc = "renewing"]
  /\ UNCHANGED <<available, selected, provider, score, sticky, cooldown>>

\* refresh_proxy_candidate_auth: the candidate is asked again, or left.
Renewed(r) ==
  /\ req[r].pc = "renewing"
  /\ req' = [req EXCEPT ![r].pc = "asking", ![r].renewed = TRUE]
  /\ UNCHANGED <<available, selected, provider, score, sticky, cooldown>>

RenewalFails(r) ==
  /\ req[r].pc = "renewing"
  /\ req' = [req EXCEPT ![r] = Advance(req[r])]
  /\ UNCHANGED <<available, selected, provider, score, sticky, cooldown>>

\* mark_candidate_cooldown
ParkAddingUp(a, ticks) ==                   \* variant: cooldowns add up
  /\ cooldown' = [cooldown EXCEPT ![a] = @ + ticks]
  /\ sticky' = IF sticky = a THEN None ELSE sticky
ParkKeepingSticky(a, ticks) ==              \* variant: sticky left as it was
  cooldown' = [cooldown EXCEPT ![a] = ticks] /\ UNCHANGED sticky
Park(a, ticks) ==
  /\ cooldown' = [cooldown EXCEPT ![a] = ticks]
  /\ sticky' = IF sticky = a THEN None ELSE sticky

\* A failure another account may not meet: the next candidate is asked, and an
\* account that was itself refused is parked.
Refused(r, status, signal) ==
  LET w == req[r]
      category == Category(status, signal)
  IN
  /\ w.pc = "asking"
  /\ ~(MayRenew(w) /\ ShouldRenew(status, signal))
  /\ category # "none"
  /\ IF IsAccountScoped(status) THEN Park(Head(w.queue), CooldownOf(category))
                                ELSE UNCHANGED <<sticky, cooldown>>
  /\ req' = [req EXCEPT ![r] = Advance(w)]
  /\ UNCHANGED <<available, selected, provider, score>>

\* Any other answer goes back to the client, which ends the request.
Returned(r) ==
  /\ req[r].pc = "asking"
  /\ \E status \in Statuses, signal \in Signals :
       /\ ~(MayRenew(req[r]) /\ ShouldRenew(status, signal))
       /\ Category(status, signal) = "none"
  /\ req' = [req EXCEPT ![r] = Idle]
  /\ UNCHANGED <<available, selected, provider, score, sticky, cooldown>>

\* record_successful_candidate: on_selected, then the shared state.
Accepted(r) ==
  /\ req[r].pc = "asking"
  /\ req' = [req EXCEPT ![r] =
       [@ EXCEPT !.pc = "accepted", !.queue = <<Head(req[r].queue)>>]]
  /\ UNCHANGED <<available, selected, provider, score, sticky, cooldown>>

\* proxy_integration::select, in the app only; an account that is no longer
\* offered is still selected, unless it was removed.
Select(r) ==
  LET a == Head(req[r].queue) IN
  /\ req[r].pc = "accepted"
  /\ req' = [req EXCEPT ![r].pc = "selected"]
  /\ \/ ~(Local /\ ~HostOnly) /\ UNCHANGED <<selected, provider>>
     \/ /\ Local /\ ~HostOnly
        /\ IF a \in Keyed THEN provider' = a /\ UNCHANGED selected
                          ELSE provider' = None /\ selected' = a
     \/ a \in Accounts \ (Keyed \cup available) /\ UNCHANGED <<selected, provider>>
  /\ UNCHANGED <<available, score, sticky, cooldown>>

StickCooling(a) == sticky' = a /\ UNCHANGED cooldown  \* variant: still parked
Stick(a) ==
  /\ sticky' = a
  /\ cooldown' = [cooldown EXCEPT ![a] = 0]

Record(r) ==
  /\ req[r].pc = "selected"
  /\ Stick(Head(req[r].queue))
  /\ req' = [req EXCEPT ![r] = Idle]
  /\ UNCHANGED <<available, selected, provider, score>>

\* The client has the error.
Finish(r) ==
  /\ req[r].pc = "failed"
  /\ req' = [req EXCEPT ![r] = Idle]
  /\ UNCHANGED <<available, selected, provider, score, sticky, cooldown>>

-----------------------------------------------------------------------------
(* Around the requests.                                                    *)

\* Cooldowns run out; the entry is dropped when requests are next ordered.
Tick ==
  /\ \E a \in Accounts : cooldown[a] > 0
  /\ cooldown' = [a \in Accounts |-> IF cooldown[a] > 0 THEN cooldown[a] - 1 ELSE 0]
  /\ UNCHANGED <<available, selected, provider, score, sticky, req>>

\* Accounts are added, removed, deactivated; the user switches; usage changes.
PoolChanges ==
  /\ available' \in SUBSET Accounts
  /\ UNCHANGED <<selected, provider, score, sticky, cooldown, req>>

\* In the app only: the daemon serves a pool it was deployed with.
UserSwitches(a) ==
  /\ Local /\ a \in available
  /\ IF a \in Keyed THEN provider' = a /\ UNCHANGED selected
                    ELSE provider' = None /\ selected' = a
  /\ UNCHANGED <<available, score, sticky, cooldown, req>>

\* persist_candidate_usage_result
UsageLearned(a) ==
  /\ a \in available \ Keyed
  /\ \E s \in 0..MaxScore : score' = [score EXCEPT ![a] = s]
  /\ UNCHANGED <<available, selected, provider, sticky, cooldown, req>>

\* What a request under way does next; the client's timeout ends every call.
Goes(r) ==
  \/ Order(r) \/ NetworkFails(r) \/ AskRenewal(r) \/ Renewed(r) \/ RenewalFails(r)
  \/ \E status \in Statuses, signal \in Signals : Refused(r, status, signal)
  \/ Returned(r) \/ Accepted(r) \/ Select(r) \/ Record(r) \/ Finish(r)

Next ==
  \/ \E r \in Requests : Load(r) \/ Goes(r)
  \/ Tick \/ PoolChanges
  \/ \E a \in Accounts : UserSwitches(a) \/ UsageLearned(a)

Spec == Init /\ [][Next]_vars
ProxyFair == WF_vars(Tick) /\ \A r \in Requests : WF_vars(Goes(r))
FairSpec == Spec /\ ProxyFair

-----------------------------------------------------------------------------
(* What is promised.                                                       *)

\* The account requests stick to is never one in a cooldown, whatever order the
\* answers of concurrent requests arrive in.
StickyNotCooling == sticky # None => cooldown[sticky] = 0

\* A request fails only with every account asked that could be: no single
\* failure ends it early.
FailsLast ==
  [][\A r \in Requests :
       req[r].pc \in {"asking", "renewing"} /\ req'[r].pc = "failed"
       => Len(req[r].queue) = 1]_vars

\* A request of the app asks first one of those the pool stores as in use, if one
\* is a candidate and not cooling: the selected login or the provider Codex is
\* configured for.  Both are stored so while a provider is in use and a login was
\* selected before it, though Codex then uses the provider alone: between the two
\* the account requests stick to decides, then the quota left, so the login may
\* be asked before the provider.  With neither, the same decides between all
\* others.  In the daemon one with the most quota left is asked first.
AsksSelectionFirst ==
  [][\A r \in Requests :
       LET w == req[r]
           routable == {a \in DOMAIN w.seen : cooldown[a] = 0}
           marked == w.preferred \cap routable
           rivals == IF Local /\ marked # {} THEN marked ELSE routable
           first == Head(req'[r].queue)
           stuck == Local /\ sticky \in rivals
       IN  w.pc = "loaded" /\ req'[r].pc = "asking" =>
             /\ first \in rivals
             /\ stuck => first = sticky
             /\ ~stuck => \A a \in rivals : w.seen[first] >= w.seen[a]]_vars

\* Every request ends, though every answer asks for another renewal.
RequestsEnd ==
  \A r \in Requests : req[r].pc = "loaded" ~> req[r].pc = "idle"

\* No account stays parked: only requests ordered before a refusal ask it while
\* it cools, and there are finitely many.
CooldownsEnd ==
  \A a \in Accounts : cooldown[a] > 0 ~> cooldown[a] = 0

\* Nothing in the proxy waits for ever.
ProxySettles == RequestsEnd /\ CooldownsEnd

-----------------------------------------------------------------------------
(* The inductive invariant behind the theorems of ProxyProofs.              *)

\* A request being answered has the candidate it asks at the head of its queue,
\* and one that is to be ordered has loaded what it prefers.
Serving ==
  \A r \in Requests :
    /\ req[r].pc \in {"asking", "renewing", "accepted", "selected"}
         => req[r].queue # <<>>
    /\ req[r].preferred \subseteq DOMAIN req[r].seen

IInv == TypeOK /\ Serving /\ StickyNotCooling
=============================================================================
