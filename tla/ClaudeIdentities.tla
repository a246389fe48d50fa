--------------------------- MODULE ClaudeIdentities ---------------------------
(***************************************************************************)
(* Whose a login of the Claude pool is.  A login may come without the      *)
(* account it belongs to (oauthAccount): its card then joins the pool      *)
(* unnamed, known by its tokens alone, and learns its account from the     *)
(* profile Claude answers on its first refresh, through its own proxy.     *)
(* When the pool has a card of that account already, the two become one.   *)
(* Imports, browser sign-ins, users and Claude Code go on meanwhile.       *)
(*                                                                         *)
(* Which renewals succeed, crashes, unreadable logins and switches are in  *)
(* ClaudeLogins: here Claude Code's login can be read, and it does not     *)
(* change while an operation of Copool runs.                               *)
(***************************************************************************)
EXTENDS ClaudeCards

CONSTANTS
  People,        \* accounts at Claude (accountUuid, organizationUuid)
  Nobody,        \* no account is known
  MaxCards,      \* bound: cards that ever join the pool, numbered as they do
  MaxGranted,    \* bound: logins Claude gives an account
  MaxRoutes      \* bound: changes of a card's proxy or of the preference

ASSUME IdentityCounts == MaxCards \in Nat /\ MaxGranted \in Nat \ {0} /\ MaxRoutes \in Nat
ASSUME NobodyIsNone == Nobody \notin People

VARIABLES
  roll,      \* claude-accounts.json: its cards, <<>> for none
  picked,    \* currentAccountId, 0 for none
  code,      \* Claude Code's login and the account it names
  granted,   \* Claude: logins given to each account
  dead,      \* Claude: logins whose refresh token was exchanged
  taken,     \* history: those Copool exchanged
  probe,     \* what holds state.operations: a refresh, or an import that asks
  signing,   \* a browser sign-in that asks for its profile
  asksNew,   \* the preference request_new_accounts
  joined,    \* cards that have joined so far
  routed     \* bound

idVars == <<roll, picked, code, granted, dead, taken, probe, signing, asksNew, joined, routed>>
poolOf == <<roll, picked, joined>>
claudeOf == <<code, granted, dead, taken>>
wishes == <<asksNew, routed>>

CardNumbers == 1..MaxCards
NoCard == <<>>
IdLogin == [of: People, gen: 1..MaxGranted]
Whose == People \cup {Nobody}
Routes == {"", "proxy"}
IdCard == [who: Whose, login: IdLogin, alternates: Seq(IdLogin), rejected: SUBSET IdLogin,
           inLive: BOOLEAN, route: Routes, waits: BOOLEAN]
CodeLogin == [login: IdLogin, who: Whose]
\* base: the card as read; found: the account its profile named.
Probing == [pc: {"naming", "asking", "answered", "merging"}, card: CardNumbers, base: IdCard,
            login: IdLogin, alternates: Seq(IdLogin), rejected: SUBSET IdLogin,
            renewed: BOOLEAN, inLive: BOOLEAN, found: Whose,
            result: {"none", "ok", "failed", "refused"}]
Joining == [pc: {"profile", "joining"}, login: IdLogin, who: Whose, current: BOOLEAN]
Idle == <<>>

IdentitiesTypeOK ==
  /\ roll \in [CardNumbers -> IdCard \cup {NoCard}]
  /\ picked \in 0..MaxCards
  /\ code \in CodeLogin \cup {NoCard}
  /\ granted \in [People -> 0..MaxGranted]
  /\ dead \in SUBSET IdLogin /\ taken \subseteq dead
  /\ probe \in Probing \cup Joining \cup {Idle}
  /\ signing \in Joining \cup {Idle}
  /\ asksNew \in BOOLEAN
  /\ joined \in 0..MaxCards /\ routed \in 0..MaxRoutes

In(cs) == {i \in CardNumbers : cs[i] # NoCard}
Lowest(numbers) == CHOOSE i \in numbers : \A j \in numbers : i <= j

\* An empty pool, and Claude Code signed in or not.
IdentitiesInit ==
  /\ roll = [i \in CardNumbers |-> NoCard] /\ picked = 0
  /\ \/ code = NoCard /\ granted = [p \in People |-> 0]
     \/ \E p \in People, known \in BOOLEAN :
          /\ code = [login |-> [of |-> p, gen |-> 1], who |-> IF known THEN p ELSE Nobody]
          /\ granted = [q \in People |-> IF q = p THEN 1 ELSE 0]
  /\ dead = {} /\ taken = {} /\ probe = Idle /\ signing = Idle
  /\ asksNew \in BOOLEAN
  /\ joined = 0 /\ routed = 0

-----------------------------------------------------------------------------
(* The card a login belongs to, and the login Claude Code uses.            *)

\* By the account it names, or else by its tokens.
SameTokens(c, login) == c.login = login
Matches(cs, login, who) ==
  {i \in In(cs) : IF who # Nobody THEN cs[i].who = who ELSE SameTokens(cs[i], login)}

\* follow_live: a login that another card holds is not adopted.
FollowedCode(cs, cur) ==
  IF code = NoCard THEN [cards |-> cs, picked |-> cur]
  ELSE LET own == Matches(cs, code.login, code.who)
           i == IF own = {} THEN 0 ELSE Lowest(own)
           left == [j \in CardNumbers |->
             IF cs[j] = NoCard \/ j = i THEN cs[j] ELSE [cs[j] EXCEPT !.inLive = FALSE]]
       IN  IF i # 0 /\ \E j \in In(cs) \ {i} : SameTokens(cs[j], code.login)
           THEN [cards |-> cs, picked |-> cur]
           ELSE [cards |-> IF i = 0 THEN left
                           ELSE [left EXCEPT ![i] = Adopt(@, code.login, TRUE)],
                 picked |-> i]

\* claude_accounts
ListsCards ==
  LET f == FollowedCode(roll, picked)
  IN  /\ roll' = f.cards /\ picked' = f.picked
      /\ UNCHANGED <<claudeOf, probe, signing, joined, wishes>>

-----------------------------------------------------------------------------
(* Logins that join the pool.                                              *)

\* claude_upsert
Upsert(login, who, current) ==
  LET own == Matches(roll, login, who)
      i == IF own = {} THEN joined + 1 ELSE Lowest(own)
      was == Adopt(roll[i], login, current)
      card == IF own # {} THEN [was EXCEPT !.who = IF who # Nobody THEN who ELSE @]
              ELSE [who |-> who, login |-> login, alternates |-> <<>>, rejected |-> {},
                    inLive |-> current, route |-> "", waits |-> ~asksNew]
  IN  /\ i <= MaxCards
      /\ joined' = IF own = {} THEN i ELSE joined
      /\ roll' = [j \in CardNumbers |->
           IF j = i THEN card
           ELSE IF current /\ roll[j] # NoCard THEN [roll[j] EXCEPT !.inLive = FALSE]
           ELSE roll[j]]
      /\ picked' = IF current THEN i ELSE picked

\* claude_known refuses to choose among cards with different proxies.
Ambiguous(own) == \E i, j \in own : roll[i].route # roll[j].route

\* claude_import_live: a login without its account is named by the card that has
\* its tokens, else by its profile, if new accounts may be asked.
ImportStarts(login, who, current) ==
  LET own == Matches(roll, login, Nobody)
  IN
  /\ probe = Idle
  /\ who = Nobody => ~Ambiguous(own)
  /\ IF who = Nobody /\ own = {} /\ asksNew
       THEN /\ probe' = [pc |-> "profile", login |-> login, who |-> Nobody, current |-> current]
            /\ UNCHANGED poolOf
       ELSE /\ Upsert(login, IF who = Nobody /\ own # {} THEN roll[Lowest(own)].who ELSE who,
                      current)
            /\ UNCHANGED probe
  /\ UNCHANGED <<claudeOf, signing, wishes>>

\* The profile answers, or fails and leaves the login unnamed.
ImportAnswers ==
  /\ probe # Idle /\ probe.pc = "profile"
  /\ \E who \in {Nobody, probe.login.of} : Upsert(probe.login, who, probe.current)
  /\ probe' = Idle
  /\ UNCHANGED <<claudeOf, signing, wishes>>

\* claude_import_current, claude_import_json
ImportCurrentLogin == code # NoCard /\ ImportStarts(code.login, code.who, TRUE)
ImportExport(p, gen, told) ==
  /\ gen <= granted[p]
  /\ ImportStarts([of |-> p, gen |-> gen], IF told THEN p ELSE Nobody, FALSE)

\* Whether a login may be sent upstream now.
MayContact(own) == IF own # {} THEN ~roll[Lowest(own)].waits ELSE asksNew

\* claude_import_login: the tokens of a browser sign-in name their account, as a
\* rule; the profile is asked without waiting for other operations.
SignInEnds(p, told) ==
  LET login == [of |-> p, gen |-> granted[p] + 1]
      who == IF told THEN p ELSE Nobody
      own == Matches(roll, login, who)
  IN
  /\ signing = Idle /\ granted[p] < MaxGranted
  /\ granted' = [granted EXCEPT ![p] = @ + 1]
  /\ signing' = IF Ambiguous(own) THEN Idle
                ELSE [pc |-> IF MayContact(own) THEN "profile" ELSE "joining", login |-> login,
                      who |-> who, current |-> FALSE]
  /\ UNCHANGED <<poolOf, code, dead, taken, probe, wishes>>

SignInAnswers ==
  /\ signing # Idle /\ signing.pc = "profile"
  /\ \E who \in {signing.who, signing.login.of} :
       signing' = [signing EXCEPT !.pc = "joining", !.who = who]
  /\ UNCHANGED <<poolOf, claudeOf, probe, wishes>>

SignInJoins ==
  /\ signing # Idle /\ signing.pc = "joining" /\ probe = Idle
  /\ Upsert(signing.login, signing.who, FALSE)
  /\ signing' = Idle
  /\ UNCHANGED <<claudeOf, probe, wishes>>

-----------------------------------------------------------------------------
(* claude_refresh_usage, which names a card that has no name.              *)

ProbeStarts(i) ==
  LET f == FollowedCode(roll, picked)
      c == f.cards[i]
  IN
  /\ probe = Idle /\ roll[i] # NoCard
  /\ roll' = f.cards /\ picked' = f.picked
  /\ probe' = IF c.waits THEN Idle
              ELSE [pc |-> IF c.who = Nobody THEN "naming" ELSE "asking", card |-> i,
                    base |-> c, login |-> c.login, alternates |-> c.alternates,
                    rejected |-> {}, renewed |-> FALSE, inLive |-> FALSE, found |-> Nobody,
                    result |-> "none"]
  /\ UNCHANGED <<joined, claudeOf, signing, wishes>>

Asking == probe # Idle /\ probe.pc \in {"naming", "asking"}

\* apply_tokens: the login that a token response leads to.
Renewed(login) == [login EXCEPT !.gen = granted[login.of] + 1]

\* An expired login, or one that the profile or the usage refuses, is renewed; a
\* refresh token that was exchanged is refused, and one rejected is not sent.
ProbeRenews ==
  LET p == probe.login.of
  IN
  /\ Asking
  /\ IF probe.login \in dead \cup probe.base.rejected
       THEN /\ probe' = [probe EXCEPT !.pc = "answered", !.result = "refused"]
            /\ UNCHANGED claudeOf
       ELSE /\ granted[p] < MaxGranted
            /\ granted' = [granted EXCEPT ![p] = @ + 1]
            /\ dead' = dead \cup {probe.login} /\ taken' = taken \cup {probe.login}
            /\ probe' = [probe EXCEPT !.renewed = TRUE, !.login = Renewed(@)]
            /\ UNCHANGED code
  /\ UNCHANGED <<poolOf, signing, wishes>>

\* The profile names the account, and the usage is asked next.
ProbeNames ==
  /\ Asking /\ probe.pc = "naming"
  /\ probe' = [probe EXCEPT !.pc = "asking", !.found = probe.login.of]
  /\ UNCHANGED <<poolOf, claudeOf, signing, wishes>>

\* The usage answers; or it, the profile or the renewal fails.
ProbeAnswers(result) ==
  /\ Asking /\ (result = "ok" => probe.pc = "asking")
  /\ probe' = [probe EXCEPT !.pc = "answered", !.result = result]
  /\ UNCHANGED <<poolOf, claudeOf, signing, wishes>>

\* A rejected login gives way to the next one.  The login in use goes to Claude
\* Code when that of the card is there and is no longer the one to use.
WrittenBack(w) ==
  /\ code # NoCard
  /\ IF code.who # Nobody THEN code.who = w.base.who ELSE code.login = w.base.login
  /\ code.login \in w.rejected \cup w.base.rejected \/ w.login # w.base.login
  /\ w.login # code.login
  /\ w.result = "ok" \/ w.renewed

ProbeSettles ==
  LET refused == probe.result = "refused"
      rejected == probe.rejected \cup (IF refused THEN {probe.login} ELSE {})
      w == [probe EXCEPT !.rejected = rejected,
                         !.alternates = Without(@, rejected)]
      back == WrittenBack(w)
  IN
  /\ probe # Idle /\ probe.pc = "answered"
  /\ IF refused /\ w.alternates # <<>>
       THEN /\ probe' = [w EXCEPT !.login = Head(w.alternates), !.alternates = Tail(@),
                           !.renewed = FALSE, !.result = "none",
                           !.pc = IF w.base.who = Nobody THEN "naming" ELSE "asking"]
            /\ UNCHANGED code
       ELSE /\ probe' = [w EXCEPT !.pc = "merging",
                           !.inLive = back \/ (code # NoCard /\ code.login = w.login)]
            /\ code' = IF back THEN [code EXCEPT !.login = w.login] ELSE code
  /\ UNCHANGED <<poolOf, granted, dead, taken, signing, wishes>>

\* merge_identified: a card just named joins the one of the same account, with the
\* login Claude accepted, what either could fall back on, and its proxy if that
\* one has none.
FoldedOver(cs, i, j) ==                         \* variant: the older login stays
  [cs EXCEPT ![i] = NoCard,
     ![j] = [@ EXCEPT !.waits = FALSE, !.route = IF @ = "" THEN cs[i].route ELSE @]]
FoldedInto(cs, i, j) ==
  LET barred == Rejecting(cs[j], cs[i].rejected)
      backed == KeepAlternates(barred, Reverse(cs[i].alternates))
      used == Adopt(backed, cs[i].login, cs[i].inLive)
  IN  [cs EXCEPT ![i] = NoCard,
         ![j] = [used EXCEPT !.waits = FALSE, !.route = IF @ = "" THEN cs[i].route ELSE @]]

MergeIdentified(cs, i) ==
  LET same == {j \in In(cs) \ {i} : cs[i].who # Nobody /\ cs[j].who = cs[i].who}
  IN  IF same = {} THEN [cards |-> cs, picked |-> picked]
      ELSE LET j == Lowest(same)
           IN  [cards |-> FoldedInto(cs, i, j), picked |-> IF picked = i THEN j ELSE picked]

\* The card as it is now takes what the refresh learnt, unless it is gone.
ProbeMerges ==
  LET i == probe.card
      c == Merged(roll[i], probe)
      cs == [roll EXCEPT ![i] = [c EXCEPT
              !.who = IF probe.found # Nobody /\ @ = Nobody THEN probe.found ELSE @]]
      m == MergeIdentified(cs, i)
  IN
  /\ probe # Idle /\ probe.pc = "merging"
  /\ IF roll[i] = NoCard THEN UNCHANGED <<roll, picked>>
     ELSE roll' = m.cards /\ picked' = m.picked
  /\ probe' = Idle
  /\ UNCHANGED <<joined, claudeOf, signing, wishes>>

-----------------------------------------------------------------------------
(* Users, and Claude Code between Copool's operations.                     *)

DeleteCard(i) ==
  /\ roll[i] # NoCard
  /\ roll' = [roll EXCEPT ![i] = NoCard]
  /\ picked' = IF picked = i THEN 0 ELSE picked
  /\ UNCHANGED <<joined, claudeOf, probe, signing, wishes>>

ReleaseCard(i) ==
  /\ roll[i] # NoCard /\ roll[i].waits
  /\ roll' = [roll EXCEPT ![i].waits = FALSE]
  /\ UNCHANGED <<picked, joined, claudeOf, probe, signing, wishes>>

\* claude_save_account_proxy
SaveRoute(i, route) ==
  /\ roll[i] # NoCard /\ roll[i].route # route
  /\ routed < MaxRoutes /\ routed' = routed + 1
  /\ roll' = [roll EXCEPT ![i].route = route]
  /\ UNCHANGED <<picked, joined, claudeOf, probe, signing, asksNew>>

AskNewAccounts ==
  /\ routed < MaxRoutes /\ routed' = routed + 1
  /\ asksNew' = ~asksNew
  /\ UNCHANGED <<poolOf, claudeOf, probe, signing>>

CodeSignsIn(p, told) ==
  /\ probe = Idle /\ granted[p] < MaxGranted
  /\ granted' = [granted EXCEPT ![p] = @ + 1]
  /\ code' = [login |-> [of |-> p, gen |-> granted[p] + 1], who |-> IF told THEN p ELSE Nobody]
  /\ UNCHANGED <<poolOf, dead, taken, probe, signing, wishes>>

\* Claude Code writes the account of its login, too.
CodeLearns ==
  /\ probe = Idle /\ code # NoCard /\ code.who = Nobody
  /\ code' = [code EXCEPT !.who = code.login.of]
  /\ UNCHANGED <<poolOf, granted, dead, taken, probe, signing, wishes>>

Probes ==
  \/ \E i \in CardNumbers : ProbeStarts(i)
  \/ ProbeRenews \/ ProbeNames \/ ProbeSettles \/ ProbeMerges
  \/ \E result \in {"ok", "failed"} : ProbeAnswers(result)
Joins ==
  \/ ImportCurrentLogin \/ ImportAnswers \/ SignInAnswers \/ SignInJoins
  \/ \E p \in People, told \in BOOLEAN :
       \/ SignInEnds(p, told) \/ CodeSignsIn(p, told)
       \/ \E gen \in 1..MaxGranted : ImportExport(p, gen, told)
IdentitiesNext ==
  \/ ListsCards \/ Probes \/ Joins \/ AskNewAccounts \/ CodeLearns
  \/ \E i \in CardNumbers :
       \/ DeleteCard(i) \/ ReleaseCard(i)
       \/ \E route \in Routes : SaveRoute(i, route)

IdentitiesSpec == IdentitiesInit /\ [][IdentitiesNext]_idVars

-----------------------------------------------------------------------------
(* What is promised.                                                       *)

\* No two cards are of the same account, however their logins came.
OneCardEach ==
  \A i, j \in In(roll) : roll[i].who # Nobody /\ roll[i].who = roll[j].who => i = j

\* The card selected is there, and a name once learnt is the login's own.
Rightly ==
  /\ picked # 0 => roll[picked] # NoCard
  /\ \A i \in In(roll) : roll[i].who \in {Nobody, roll[i].login.of}

\* When a card is found to be of an account that has one, nothing is lost: the
\* login just asked with is used, unless Claude rejected it, the one used before
\* can be fallen back on, unless Claude rejected it or Claude Code replaced it, a
\* proxy of the card that stays is kept, and so is the selection.
FoldKeepsAll ==
  [][\A i \in In(roll) :
       probe # Idle /\ probe' = Idle /\ probe.pc = "merging" /\ roll'[i] = NoCard =>
       \E j \in In(roll) \ {i} :
         LET was == roll[j]  now == roll'[j]
         IN  /\ now.who = probe.found
             /\ now.login = (IF probe.login \in now.rejected THEN was.login ELSE probe.login)
             /\ \/ was.login \in {now.login} \cup ToSet(now.alternates) \cup now.rejected
                \/ was.inLive /\ probe.inLive
             /\ was.route # "" => now.route = was.route
             /\ picked = i => picked' = j]_idVars

IdentifiedOnce == [](OneCardEach /\ Rightly) /\ FoldKeepsAll

\* "the login Claude Code may be using is not renewed unless the new tokens can be
\* seen to reach it" (claude.rs:1492): when a refresh is over, Claude Code's login
\* is not one whose refresh token Copool exchanged.
RenewalsReachCode ==
  [][probe # Idle /\ probe' = Idle /\ probe.pc = "merging" /\ code # NoCard
     => code.login \notin taken]_idVars
=============================================================================
