------------------------- MODULE CodexLoginsProofs --------------------------
(***************************************************************************)
(* Proofs about the Codex pool, for every set of accounts and activities:  *)
(* no renewed login is dropped, reverted, or written over a newer one.  The*)
(* argument is one inductive invariant, IInv of CodexLogins: whatever an   *)
(* activity holds was issued, moves on only, and is at least what Copool   *)
(* obtained for the card until the card itself is.                         *)
(***************************************************************************)
EXTENDS CodexLogins, TLAPS

USE CountsAssumption, NamesAssumption, ChoicesAssumption

\* A working activity's record, and an idle one's absence.
LEMMA WorkFields ==
  ASSUME TypeOK, NEW j \in Jobs, job[j] # None
  PROVE  /\ job[j] \in Work
         /\ job[j].of \in Accounts /\ job[j].id \in 1..MaxCard
         /\ job[j].base \in Gen /\ job[j].from \in Gen /\ job[j].got \in Gen
         /\ job[j].choice \in Renewal /\ job[j].left \in 0..2
  BY DEF TypeOK, Work

\* An exchange keeps the issuer's books well formed.
LEMMA ExchangeType ==
  ASSUME TypeOK, NEW a \in Accounts, NEW g \in Gen, Exchange(a, g)
  PROVE  /\ spent' \in [Accounts -> SUBSET Gen]
         /\ issued' \in [Accounts -> Gen]
         /\ issued'[a] = issued[a] + 1 /\ issued'[a] \in Gen
  BY DEF TypeOK, Exchange, Gen

\* An answered activity is one of Work.
LEMMA AnsweredType ==
  ASSUME NEW w \in Work, NEW f \in {"no", "yes", "deactivated"}
  PROVE  [w EXCEPT !.pc = "answered", !.failed = f, !.left = 0] \in Work
<1>1. [w EXCEPT !.left = 0] \in Work
  BY DEF Work
<1>2. ASSUME NEW v \in Work
      PROVE  [v EXCEPT !.pc = "answered", !.failed = f] \in Work
  BY DEF Work
<1>3. [w EXCEPT !.pc = "answered", !.failed = f, !.left = 0]
        = [[w EXCEPT !.left = 0] EXCEPT !.pc = "answered", !.failed = f]
  BY DEF Work
<1> QED
  BY <1>1, <1>2, <1>3

\* A refresh is a step that keeps every variable within its type.
LEMMA RefreshType ==
  ASSUME TypeOK, NEW t \in Refreshes, RefreshStep(t)
  PROVE  TypeOK'
<1> USE DEF pool, codex, held, issuer, bounds, history
<1>j. t \in Jobs
  BY DEF Jobs
<1>1. ASSUME NEW a \in Accounts, RefreshSnapshot(t, a) PROVE TypeOK'
  <2>1. store[a] \in Card
    BY <1>1 DEF RefreshSnapshot, TypeOK
  <2>2. job'[t] \in Work /\ job' = [job EXCEPT ![t] = job'[t]]
    BY <1>1, <1>j, <2>1 DEF RefreshSnapshot, TypeOK, Work, Card
  <2> QED
    BY <1>1, <1>j, <2>2 DEF RefreshSnapshot, TypeOK
<1>2. ASSUME RefreshReadLive(t) PROVE TypeOK'
  <2>1. job[t] \in Work
    BY <1>2, <1>j, WorkFields DEF RefreshReadLive
  <2>2. job'[t] \in Work /\ job' = [job EXCEPT ![t] = job'[t]]
    BY <1>2, <1>j, <2>1 DEF RefreshReadLive, TypeOK, Work, LiveIs, Login
  <2> QED
    BY <1>2, <1>j, <2>2 DEF RefreshReadLive, TypeOK
<1>3. ASSUME RefreshRenew(t) PROVE TypeOK'
  <2>1. job[t] \in Work
    BY <1>3, <1>j, WorkFields DEF RefreshRenew
  <2>2. /\ spent' \in [Accounts -> SUBSET Gen] /\ issued' \in [Accounts -> Gen]
        /\ issued'[job[t].of] \in Gen
    BY <1>3, <1>j, <2>1, ExchangeType DEF RefreshRenew, Work
  <2>3. job'[t] \in Work /\ job' = [job EXCEPT ![t] = job'[t]]
    BY <1>3, <1>j, <2>1, <2>2 DEF RefreshRenew, TypeOK, Work
  <2>4. obtained' \in [Accounts -> 0..MaxGen]
    <3>1. issued'[job[t].of] \in 0..MaxGen
      BY <2>2 DEF Gen
    <3> QED
      BY <1>3, <3>1 DEF RefreshRenew, TypeOK
  <2> QED
    BY <1>3, <2>2, <2>3, <2>4 DEF RefreshRenew, TypeOK
<1>4. ASSUME RefreshRenewLost(t) PROVE TypeOK'
  <2>1. job[t] \in Work
    BY <1>4, <1>j, WorkFields DEF RefreshRenewLost
  <2>2. spent' \in [Accounts -> SUBSET Gen] /\ issued' \in [Accounts -> Gen]
    BY <1>4, <1>j, <2>1, ExchangeType DEF RefreshRenewLost, Work
  <2>3. job'[t] \in Work /\ job' = [job EXCEPT ![t] = job'[t]]
    BY <1>4, <1>j, <2>1 DEF RefreshRenewLost, TypeOK, Work
  <2> QED
    BY <1>4, <1>j, <2>2, <2>3 DEF RefreshRenewLost, TypeOK
<1>5. ASSUME NEW failed \in {"no", "yes", "deactivated"}, RefreshAnswer(t, failed)
      PROVE TypeOK'
  <2>1. job[t] \in Work
    BY <1>5, <1>j, WorkFields DEF RefreshAnswer
  <2>2. job' = [job EXCEPT ![t] =
                 [job[t] EXCEPT !.pc = "answered", !.failed = failed, !.left = 0]]
    BY <1>5 DEF RefreshAnswer
  <2>3. job'[t] \in Work /\ job' = [job EXCEPT ![t] = job'[t]]
    BY <1>j, <2>1, <2>2, AnsweredType DEF TypeOK
  <2> QED
    BY <1>5, <1>j, <2>3 DEF RefreshAnswer, TypeOK
<1>6. ASSUME RefreshMerge(t) PROVE TypeOK'
  <2>1. job[t] \in Work
    BY <1>6, <1>j, WorkFields DEF RefreshMerge
  <2>2. store[job[t].of] \in Card
    BY <1>6, <1>j, <2>1 DEF RefreshMerge, Kept, TypeOK, Work
  <2>3. store' \in [Accounts -> Card \cup {None}]
    BY <1>6, <2>1, <2>2
       DEF RefreshMerge, TypeOK, Work, Card, Renewed, Renewal, Merged, StatusAfter
  <2>4. job' \in [Jobs -> Work \cup {None}] /\ lock' \in Jobs \cup {None}
    BY <1>6, <1>j, <2>1 DEF RefreshMerge, TypeOK, Work
  <2> QED
    BY <1>6, <2>3, <2>4 DEF RefreshMerge, TypeOK
<1>7. ASSUME RefreshDropped(t) PROVE TypeOK'
  BY <1>7, <1>j DEF RefreshDropped, TypeOK
<1>8. ASSUME RefreshWriteLive(t) PROVE TypeOK'
  BY <1>8, <1>j, WorkFields DEF RefreshWriteLive, WriteRenewed, TypeOK, Login
<1>9. ASSUME RefreshCompares(t) PROVE TypeOK'
  <2>1. job[t] \in Work
    BY <1>9, <1>j, WorkFields DEF RefreshCompares
  <2>2. job' \in [Jobs -> Work \cup {None}] /\ lock' \in Jobs \cup {None}
    BY <1>9, <1>j, <2>1 DEF RefreshCompares, TypeOK, Work
  <2> QED
    BY <1>9, <2>2 DEF RefreshCompares, TypeOK
<1> QED
  BY <1>1, <1>2, <1>3, <1>4, <1>5, <1>6, <1>7, <1>8, <1>9 DEF RefreshStep

\* A proxy attempt keeps every variable within its type.
LEMMA AttemptType ==
  ASSUME TypeOK, NEW q \in Attempts, AttemptStep(q)
  PROVE  TypeOK'
<1> USE DEF pool, codex, held, issuer, bounds, history
<1>j. q \in Jobs
  BY DEF Jobs
<1>1. ASSUME NEW a \in Accounts, AttemptLoad(q, a) PROVE TypeOK'
  <2>1. store[a] \in Card
    BY <1>1 DEF AttemptLoad, TypeOK
  <2>2. job'[q] \in Work /\ job' = [job EXCEPT ![q] = job'[q]]
    BY <1>1, <1>j, <2>1 DEF AttemptLoad, TypeOK, Work, Card
  <2> QED
    BY <1>1, <1>j, <2>2 DEF AttemptLoad, TypeOK
<1>2. ASSUME AttemptRenew(q) PROVE TypeOK'
  <2>1. job[q] \in Work
    BY <1>2, <1>j, WorkFields DEF AttemptRenew
  <2>2. /\ spent' \in [Accounts -> SUBSET Gen] /\ issued' \in [Accounts -> Gen]
        /\ issued'[job[q].of] \in Gen
    BY <1>2, <1>j, <2>1, ExchangeType DEF AttemptRenew, Work
  <2>3. job'[q] \in Work /\ job' = [job EXCEPT ![q] = job'[q]]
    BY <1>2, <1>j, <2>1, <2>2 DEF AttemptRenew, TypeOK, Work
  <2>4. obtained' \in [Accounts -> 0..MaxGen]
    <3>1. issued'[job[q].of] \in 0..MaxGen
      BY <2>2 DEF Gen
    <3> QED
      BY <1>2, <3>1 DEF AttemptRenew, TypeOK
  <2> QED
    BY <1>2, <1>j, <2>2, <2>3, <2>4 DEF AttemptRenew, TypeOK
<1>3. ASSUME AttemptRenewLost(q) PROVE TypeOK'
  <2>1. job[q] \in Work
    BY <1>3, <1>j, WorkFields DEF AttemptRenewLost
  <2>2. spent' \in [Accounts -> SUBSET Gen] /\ issued' \in [Accounts -> Gen]
    BY <1>3, <1>j, <2>1, ExchangeType DEF AttemptRenewLost, Work
  <2> QED
    BY <1>3, <1>j, <2>2 DEF AttemptRenewLost, TypeOK
<1>4. ASSUME AttemptPersist(q) PROVE TypeOK'
  <2>1. job[q] \in Work
    BY <1>4, <1>j, WorkFields DEF AttemptPersist
  <2>2. Kept(job[q].of, job[q].id) => store[job[q].of] \in Card
    BY <2>1 DEF Kept, TypeOK, Work
  <2>3. store' \in [Accounts -> Card \cup {None}]
    BY <1>4, <2>1, <2>2 DEF AttemptPersist, TypeOK, Work, Card, Renewed, Renewal
  <2>4. job' \in [Jobs -> Work \cup {None}] /\ lock' \in Jobs \cup {None}
    BY <1>4, <1>j, <2>1, <2>2 DEF AttemptPersist, TypeOK, Work, Card
  <2> QED
    BY <1>4, <2>3, <2>4 DEF AttemptPersist, TypeOK
<1>5. ASSUME AttemptSync(q) PROVE TypeOK'
  <2>1. job[q] \in Work
    BY <1>5, <1>j, WorkFields DEF AttemptSync
  <2>2. job'[q] \in Work /\ job' = [job EXCEPT ![q] = job'[q]]
    BY <1>5, <1>j, <2>1 DEF AttemptSync, TypeOK, Work
  <2>3. live' \in Login \cup {None}
    BY <1>5, <2>1 DEF AttemptSync, WriteRenewed, TypeOK, Login, Work
  <2> QED
    BY <1>5, <1>j, <2>2, <2>3 DEF AttemptSync, TypeOK
<1>6. ASSUME AttemptSelect(q) PROVE TypeOK'
  BY <1>6, <1>j, WorkFields DEF AttemptSelect, AttemptReady, TypeOK, Login, CardId
<1>7. ASSUME AttemptSelectFails(q) PROVE TypeOK'
  BY <1>7, <1>j, WorkFields DEF AttemptSelectFails, AttemptReady, TypeOK, Login
<1>8. ASSUME AttemptEnd(q) PROVE TypeOK'
  BY <1>8, <1>j DEF AttemptEnd, TypeOK
<1>9. ASSUME AttemptCompares(q) PROVE TypeOK'
  <2>1. job[q] \in Work
    BY <1>9, <1>j, WorkFields DEF AttemptCompares
  <2>2. job' \in [Jobs -> Work \cup {None}] /\ lock' \in Jobs \cup {None}
    BY <1>9, <1>j, <2>1 DEF AttemptCompares, TypeOK, Work
  <2> QED
    BY <1>9, <2>2 DEF AttemptCompares, TypeOK
<1> QED
  BY <1>1, <1>2, <1>3, <1>4, <1>5, <1>6, <1>7, <1>8, <1>9 DEF AttemptStep

\* An import keeps every variable it touches within its type.
LEMMA ImportedType ==
  ASSUME TypeOK, NEW a \in Accounts, NEW gen \in Gen, NEW defer \in BOOLEAN,
         Imported(a, gen, defer)
  PROVE  /\ store' \in [Accounts -> Card \cup {None}]
         /\ cards' \in [Accounts -> 0..MaxCard]
         /\ obtained' \in [Accounts -> 0..MaxGen]
<1>1. CASE store[a] # None
  <2>1. store[a] \in Card
    BY <1>1 DEF TypeOK
  <2> QED
    BY <1>1, <2>1 DEF Imported, TypeOK, Card
<1>2. CASE store[a] = None
  <2>1. NewCard(a, gen, defer) \in Card
    BY <1>2 DEF NewCard, Imported, TypeOK, Card, Renewal
  <2> QED
    BY <1>2, <2>1 DEF Imported, TypeOK
<1> QED
  BY <1>1, <1>2

LEMMA ImportType ==
  ASSUME TypeOK, ImportStep
  PROVE  TypeOK'
<1> USE DEF codex, held, bounds
<1>1. ASSUME NEW defer \in BOOLEAN, ImportCurrent(defer) PROVE TypeOK'
  <2>1. live.of \in Accounts /\ live.gen \in Gen
    BY <1>1 DEF ImportCurrent, TypeOK, Login
  <2> QED
    BY <1>1, <2>1, ImportedType DEF ImportCurrent, Imported, issuer, TypeOK
<1>2. ASSUME NEW defer \in BOOLEAN, NEW a \in Accounts, ImportSignIn(a, defer)
      PROVE TypeOK'
  <2>1. issued' \in [Accounts -> Gen] /\ issued'[a] \in Gen
    BY <1>2 DEF ImportSignIn, TypeOK, Gen
  <2> QED
    BY <1>2, <2>1, ImportedType DEF ImportSignIn, Imported, TypeOK
<1>3. ASSUME NEW defer \in BOOLEAN, NEW a \in Accounts, NEW gen \in Gen,
             ImportFile(a, gen, defer)
      PROVE TypeOK'
  BY <1>3, ImportedType DEF ImportFile, Imported, issuer, TypeOK
<1> QED
  BY <1>1, <1>2, <1>3 DEF ImportStep

\* A command of the user, a sign-in or a crash in a switch.
LEMMA CommandType ==
  ASSUME TypeOK, NEW a \in Accounts, CommandStep(a)
  PROVE  TypeOK'
<1> USE DEF pool, codex, held, issuer, bounds, history
<1>1. CASE SwitchAccount(a)
  BY <1>1 DEF SwitchAccount, TypeOK, Login, CardId, Card
<1>2. CASE SwitchFails(a)
  BY <1>2 DEF SwitchFails, TypeOK
<1>3. CASE Release(a)
  <2>1. store[a] \in Card
    BY <1>3 DEF Release, TypeOK
  <2>2. [store[a] EXCEPT !.waiting = FALSE] \in Card
    BY <2>1 DEF Card
  <2> QED
    BY <1>3, <2>2 DEF Release, TypeOK
<1>4. CASE DeleteAccount(a)
  <2>1. store' \in [Accounts -> Card \cup {None}]
    BY <1>4 DEF DeleteAccount, TypeOK, Card
  <2>2. obtained' \in [Accounts -> 0..MaxGen]
    BY <1>4 DEF DeleteAccount, TypeOK
  <2> QED
    BY <1>4, <2>1, <2>2 DEF DeleteAccount, TypeOK
<1>5. ASSUME NEW choice \in Choices, SetRenewal(a, choice) PROVE TypeOK'
  BY <1>5 DEF SetRenewal, TypeOK, Card, Renewal
<1>6. CASE CodexSignsIn(a)
  <2>1. issued' \in [Accounts -> Gen] /\ issued'[a] \in Gen
    BY <1>6 DEF CodexSignsIn, TypeOK, Gen
  <2> QED
    BY <1>6, <2>1 DEF CodexSignsIn, TypeOK, Login
<1>7. CASE CrashInSwitch(a)
  <2>1. obtained' \in [Accounts -> 0..MaxGen]
    BY <1>7 DEF CrashInSwitch, Crashes, Forgotten, TypeOK, Card, Gen
  <2>2. live' \in Login \cup {None} /\ torn' \in BOOLEAN
    <3>1. [of |-> a, gen |-> store[a].gen] \in Login
      BY <1>7 DEF CrashInSwitch, TypeOK, Login, Card
    <3>2. live \in Login \cup {None} /\ torn \in BOOLEAN
      BY DEF TypeOK
    <3> QED
      BY <1>7, <3>1, <3>2 DEF CrashInSwitch
  <2> QED
    BY <1>7, <2>1, <2>2 DEF CrashInSwitch, Crashes, TypeOK
<1> QED
  BY <1>1, <1>2, <1>3, <1>4, <1>5, <1>6, <1>7 DEF CommandStep

\* Every state of every behavior is well typed.
THEOREM TypeCorrect == Spec => []TypeOK
<1> USE DEF pool, codex, held, issuer, bounds, history
<1>1. Init => TypeOK
  <2> SUFFICES ASSUME Init PROVE TypeOK
    OBVIOUS
  <2>1. FirstCard \in Card
    BY DEF FirstCard, Card, Gen, Renewal
  <2>2. live \in Login \cup {None}
    BY DEF Init, Login, Gen
  <2>3. store \in [Accounts -> Card \cup {None}]
    BY <2>1 DEF Init
  <2>4. /\ cards \in [Accounts -> 0..MaxCard]
        /\ obtained \in [Accounts -> 0..MaxGen]
        /\ issued \in [Accounts -> Gen]
        /\ signIns \in 0..MaxSignIns /\ faults \in 0..MaxFaults
    BY DEF Init, Gen
  <2> QED
    BY <2>2, <2>3, <2>4 DEF Init, TypeOK
<1>2. TypeOK /\ [Next]_vars => TypeOK'
  <2> SUFFICES ASSUME TypeOK, [Next]_vars PROVE TypeOK'
    OBVIOUS
  <2>1. ASSUME NEW t \in Refreshes, RefreshStep(t) PROVE TypeOK'
    BY <2>1, RefreshType
  <2>2. ASSUME NEW q \in Attempts, AttemptStep(q) PROVE TypeOK'
    BY <2>2, AttemptType
  <2>3. CASE ImportStep
    BY <2>3, ImportType
  <2>4. ASSUME NEW a \in Accounts, CommandStep(a) PROVE TypeOK'
    BY <2>4, CommandType
  <2>5. ASSUME NEW j \in Jobs, SaveFails(j) PROVE TypeOK'
    BY <2>5 DEF SaveFails, Forgotten, TypeOK, Card, Gen
  <2>6. CASE SwitchProvider
    BY <2>6 DEF SwitchProvider, TypeOK
  <2>7. CASE Reconcile
    <3>1. selected' \in CardId \cup {None}
      BY <2>7 DEF Reconcile, SelectionOfLive, TypeOK, CardId, Card, Login
    <3> QED
      BY <2>7, <3>1 DEF Reconcile, TypeOK
  <2>8. CASE CodexRenews
    <3>1. live.of \in Accounts /\ live.gen \in Gen /\ live \in Login
      BY <2>8 DEF CodexRenews, TypeOK, Login
    <3>2. /\ spent' \in [Accounts -> SUBSET Gen] /\ issued' \in [Accounts -> Gen]
          /\ issued'[live.of] \in Gen
      BY <2>8, <3>1, ExchangeType DEF CodexRenews
    <3> QED
      BY <2>8, <3>1, <3>2 DEF CodexRenews, TypeOK, Login
  <2>9. CASE CodexSignsOut
    BY <2>9 DEF CodexSignsOut, TypeOK
  <2>10. CASE Crash
    BY <2>10 DEF Crash, Crashes, Forgotten, TypeOK, Card, Gen
  <2>11. CASE UNCHANGED vars
    BY <2>11 DEF vars, TypeOK
  <2> QED
    BY <2>1, <2>2, <2>3, <2>4, <2>5, <2>6, <2>7, <2>8, <2>9, <2>10, <2>11 DEF Next
<1> QED
  BY <1>1, <1>2, PTL DEF Spec

-----------------------------------------------------------------------------
(* Renewals.                                                               *)

Inductive == Issued /\ Onward /\ Held /\ IdsGiven /\ WaitingNotContacted

\* A merge never takes the stored login back, nor below what the refresh got
\* since it read the card.
LEMMA MergedForward ==
  ASSUME NEW c \in Card, NEW w \in Work, w.base <= w.from, w.from <= w.got
  PROVE  /\ Merged(c, w) >= c.gen
         /\ w.got > w.base => Merged(c, w) >= w.got
         /\ Merged(c, w) \in {c.gen, w.got, w.from}
  BY DEF Merged, NewerLogin, Card, Work, Gen

\* The numbers the arguments below compare are integers.
Counted ==
  /\ \A a \in Accounts :
       /\ issued[a] \in Int /\ obtained[a] \in Int /\ cards[a] \in Int
       /\ store[a] # None => store[a].gen \in Int /\ store[a].id \in Int
  /\ \A j \in Jobs : job[j] # None =>
       /\ job[j].of \in Accounts /\ job[j].id \in Int
       /\ job[j].base \in Int /\ job[j].from \in Int /\ job[j].got \in Int
  /\ live # None => live.of \in Accounts /\ live.gen \in Int

LEMMA Numbers == TypeOK => Counted
  BY DEF Counted, TypeOK, Work, Card, Login, Gen

\* The same of the next state.
LEMMA NumbersNext == TypeOK' => Counted'
  BY Numbers, PTL

\* A step that takes no stored login back and makes no card wait, and of the
\* activities changes or ends one the way the invariant allows, keeps it.
StoreForward ==
  /\ UNCHANGED cards
  /\ \A a \in Accounts : issued'[a] >= issued[a]
  /\ live' # None => live'.gen <= issued'[live'.of]
  /\ \A a \in Accounts : store'[a] # None =>
       /\ store[a] # None /\ store'[a].id = store[a].id
       /\ store'[a].gen >= store[a].gen /\ store'[a].gen <= issued'[a]
       /\ store'[a].waiting => store[a].waiting

\* Such a step keeps the invariant.
LEMMA JobStep ==
  ASSUME TypeOK, TypeOK', Inductive, StoreForward,
         NEW t \in Jobs, NEW x, job' = [job EXCEPT ![t] = x],
         x # None => /\ x.got <= issued'[x.of]
                     /\ x.base <= x.from /\ x.from <= x.got
                     /\ x.id <= cards[x.of]
                     /\ Kept(x.of, x.id) => ~store[x.of].waiting
                     /\ t \in Attempts => x.from = x.base
                     /\ t \in Attempts /\ x.pc = "asking" => x.got = x.base,
         \A a \in Accounts : store'[a] # None =>
           \/ store'[a].gen >= obtained'[a]
           \/ Holds(t, a)'
           \/ obtained'[a] <= obtained[a] /\ ~Holds(t, a)
  PROVE  Inductive'
<1>1. \A j \in Jobs : job'[j] = IF j = t THEN x ELSE job[j]
  BY DEF TypeOK
<1>n. Counted /\ Counted'
  BY Numbers, NumbersNext
<1>2. Issued'
  <2>1. \A j \in Jobs : job'[j] # None => job'[j].got <= issued'[job'[j].of]
    <3> SUFFICES ASSUME NEW j \in Jobs, job'[j] # None, j # t
                 PROVE  job'[j].got <= issued'[job'[j].of]
      BY <1>1
    <3>1. job[j].got <= issued[job[j].of] /\ job[j].of \in Accounts
      BY <1>1, <1>n DEF Inductive, Issued, Counted
    <3> QED
      BY <1>1, <1>n, <3>1 DEF StoreForward, Counted
  <2> QED
    BY <2>1 DEF Inductive, Issued, StoreForward
<1>3. Onward'
  BY <1>1 DEF Inductive, Onward, Jobs
<1>4. Held'
  <2> SUFFICES ASSUME NEW a \in Accounts, store'[a] # None,
                      ~(store'[a].gen >= obtained'[a]), ~Holds(t, a)'
               PROVE  \E j \in Jobs : Holds(j, a)'
    BY DEF Held
  <2>1. store[a] # None /\ ~(store[a].gen >= obtained[a]) /\ ~Holds(t, a)
    BY <1>n DEF StoreForward, Counted
  <2>2. PICK j \in Jobs : Holds(j, a)
    BY <2>1 DEF Inductive, Held
  <2> QED
    BY <1>1, <1>n, <2>1, <2>2 DEF Holds, StoreForward, Counted
<1>5. IdsGiven'
  BY <1>1 DEF Inductive, IdsGiven, StoreForward
<1>6. WaitingNotContacted'
  <2> SUFFICES ASSUME NEW j \in Jobs, job'[j] # None, store'[job'[j].of] # None,
                      store'[job'[j].of].id = job'[j].id
               PROVE  ~store'[job'[j].of].waiting
    BY DEF WaitingNotContacted, Kept
  <2>1. job'[j].of \in Accounts
    BY <1>n DEF Counted
  <2>2. store[job'[j].of] # None /\ store[job'[j].of].id = job'[j].id
    BY <2>1 DEF StoreForward
  <2>3. ~store[job'[j].of].waiting
    BY <1>1, <2>2 DEF Inductive, WaitingNotContacted, Kept
  <2> QED
    BY <2>1, <2>3 DEF StoreForward
<1> QED
  BY <1>2, <1>3, <1>4, <1>5, <1>6 DEF Inductive

\* What the invariant says of an activity under way.
LEMMA AtWork ==
  ASSUME TypeOK, Inductive, NEW j \in Jobs, job[j] # None
  PROVE  /\ job[j] \in Work /\ job[j].of \in Accounts
         /\ job[j].base \in Int /\ job[j].from \in Int /\ job[j].got \in Int
         /\ job[j].base <= job[j].from /\ job[j].from <= job[j].got
         /\ job[j].got <= issued[job[j].of] /\ issued[job[j].of] \in Int
         /\ job[j].id <= cards[job[j].of]
         /\ Kept(job[j].of, job[j].id) => ~store[job[j].of].waiting
         /\ j \in Attempts => job[j].from = job[j].base
         /\ j \in Attempts /\ job[j].pc = "asking" => job[j].got = job[j].base
  BY WorkFields, Numbers
     DEF Inductive, Issued, Onward, IdsGiven, WaitingNotContacted, Counted

\* A step that leaves pool and issuer alone takes nothing back.
LEMMA StoreStays ==
  ASSUME TypeOK, Inductive, UNCHANGED <<store, cards, issued, live>>
  PROVE  StoreForward
  BY Numbers DEF StoreForward, Counted, Inductive, Issued

\* auth.json takes a login the activity holds, which was issued.
LEMMA RenewedForward ==
  ASSUME TypeOK, TypeOK', Inductive, NEW j \in Jobs, job[j] # None,
         WriteRenewed(job[j]), UNCHANGED <<store, cards, issued>>
  PROVE  StoreForward
<1>1. live' # None => live'.gen <= issued'[live'.of]
  BY AtWork, Numbers DEF WriteRenewed, Counted, Inductive, Issued
<1> QED
  BY <1>1, Numbers DEF StoreForward, Counted, Inductive, Issued

\* An answered activity holds what it held while it asked.
Answered(x, w) ==
  /\ x.pc = "answered" /\ x.of = w.of /\ x.id = w.id
  /\ x.base = w.base /\ x.from = w.from /\ x.got = w.got

\* An answer changes none of the logins an activity holds.
LEMMA AnsweredFields ==
  ASSUME NEW w \in Work, NEW f \in {"no", "yes", "deactivated"}
  PROVE  Answered([w EXCEPT !.pc = "answered", !.failed = f, !.left = 0], w)
  BY DEF Answered, Work

\* The step to an answer keeps the invariant.
LEMMA AnsweredStep ==
  ASSUME TypeOK, TypeOK', Inductive, StoreForward,
         UNCHANGED <<store, obtained>>,
         NEW t \in Jobs, job[t] # None, job[t].pc = "asking",
         NEW x \in Work, Answered(x, job[t]), job' = [job EXCEPT ![t] = x]
  PROVE  Inductive'
<1>1. issued[job[t].of] <= issued'[job[t].of]
  BY AtWork DEF StoreForward
<1>2. x.got <= issued'[x.of]
  BY <1>1, AtWork, NumbersNext DEF Answered, Counted
<1>3. job'[t] = x /\ x # None
  BY NoneAssumption DEF TypeOK
<1>4. ASSUME NEW a \in Accounts, store'[a] # None
      PROVE  Holds(t, a)' \/ (obtained'[a] <= obtained[a] /\ ~Holds(t, a))
  BY <1>3, <1>4, Numbers DEF Holds, Answered, Counted
<1> QED
  BY <1>2, <1>4, AtWork, JobStep DEF Answered

\* Every step of a usage refresh keeps the invariant.
LEMMA RefreshSafe ==
  ASSUME TypeOK, TypeOK', Inductive, NEW t \in Refreshes, RefreshStep(t)
  PROVE  Inductive'
<1> USE DEF pool, codex, held, issuer, bounds, history
<1>j. t \in Jobs /\ t \notin Attempts
  BY NamesAssumption DEF Jobs
<1>n. Counted /\ Counted'
  BY Numbers, NumbersNext
<1>1. ASSUME NEW a \in Accounts, RefreshSnapshot(t, a) PROVE Inductive'
  <2> DEFINE x == [pc |-> "snapped", of |-> a, id |-> store[a].id,
                   base |-> store[a].gen, from |-> store[a].gen,
                   got |-> store[a].gen, choice |-> store[a].renewal,
                   left |-> 2, failed |-> "no"]
  <2>1. job' = [job EXCEPT ![t] = x] /\ UNCHANGED <<store, cards, issued, live, obtained>>
    BY <1>1 DEF RefreshSnapshot
  <2>2. StoreForward
    BY <2>1, StoreStays
  <2>3. /\ x.got <= issued'[x.of] /\ x.base <= x.from /\ x.from <= x.got
        /\ x.id <= cards[x.of] /\ (Kept(x.of, x.id) => ~store[x.of].waiting)
    BY <1>1, <1>n, <2>1 DEF RefreshSnapshot, Counted, Inductive, Issued, IdsGiven
  <2>4. \A b \in Accounts : ~Holds(t, b) /\ obtained'[b] <= obtained[b]
    BY <1>1, <1>n, <2>1 DEF RefreshSnapshot, Holds, Counted
  <2> QED
    BY <1>j, <2>1, <2>2, <2>3, <2>4, JobStep
<1>2. ASSUME RefreshReadLive(t) PROVE Inductive'
  <2> DEFINE sent == IF LiveIs(job[t].of) /\ NewerLogin(live.gen, job[t].base)
                       THEN live.gen ELSE job[t].base
             x == [job[t] EXCEPT !.pc = "asking", !.from = sent, !.got = sent]
  <2>0. job[t] # None /\ job[t].pc = "snapped"
    BY <1>2 DEF RefreshReadLive
  <2>1. job' = [job EXCEPT ![t] = x] /\ UNCHANGED <<store, cards, issued, live, obtained>>
    BY <1>2 DEF RefreshReadLive
  <2>2. StoreForward
    BY <2>1, StoreStays
  <2>3. /\ job[t].base <= sent /\ sent <= issued[job[t].of] /\ sent <= sent
    BY <1>j, <1>n, <2>0, AtWork DEF LiveIs, NewerLogin, Counted, Inductive, Issued
  <2>4. /\ x.of = job[t].of /\ x.id = job[t].id /\ x.base = job[t].base
        /\ x.from = sent /\ x.got = sent
    BY <1>j, <2>0, AtWork DEF Work
  <2>5. \A b \in Accounts : ~Holds(t, b) /\ obtained'[b] <= obtained[b]
    BY <1>n, <2>0, <2>1 DEF Holds, Counted
  <2> HIDE DEF x, sent
  <2> QED
    BY <1>j, <2>0, <2>1, <2>2, <2>3, <2>4, <2>5, JobStep, AtWork
<1>3. ASSUME RefreshRenew(t) PROVE Inductive'
  <2> DEFINE a == job[t].of
             x == [job[t] EXCEPT !.got = issued'[a], !.left = @ - 1]
  <2>0. job[t] # None /\ job[t].pc = "asking" /\ job[t] \in Work /\ a \in Accounts
    BY <1>3, <1>j, AtWork DEF RefreshRenew
  <2>1. job' = [job EXCEPT ![t] = x] /\ UNCHANGED <<store, cards, live>>
    BY <1>3 DEF RefreshRenew
  <2>2. /\ issued'[a] = issued[a] + 1
        /\ \A b \in Accounts : issued'[b] >= issued[b]
    BY <1>3, <1>n, <2>0 DEF RefreshRenew, Exchange, TypeOK, Counted
  <2>3. StoreForward
    BY <1>n, <2>1, <2>2 DEF StoreForward, Counted, Inductive, Issued
  <2>4. /\ x.of = a /\ x.id = job[t].id /\ x.base = job[t].base /\ x.pc = "asking"
        /\ x.from = job[t].from /\ x.got = issued'[a]
    BY <2>0, <2>1, <1>j DEF Work, TypeOK
  <2>5. x.from <= x.got /\ x.base < x.got /\ x.got <= issued'[a]
    BY <1>j, <1>n, <2>0, <2>2, <2>4, AtWork DEF Counted
  <2>6. job'[t] = x /\ x # None
    <3>1. job'[t] = x
      BY <1>j, <2>1 DEF TypeOK
    <3>2. x \in Work
      <4>1. issued'[a] \in Gen
        BY <2>0, <1>3 DEF RefreshRenew, TypeOK
      <4>2. job[t].left - 1 \in 0..2
        BY <2>0, <1>3 DEF RefreshRenew, Work
      <4> QED
        BY <2>0, <4>1, <4>2 DEF Work
    <3> QED
      BY <3>1, <3>2, NoneAssumption
  <2>7. ASSUME NEW b \in Accounts, store'[b] # None
        PROVE  Holds(t, b)' \/ (obtained'[b] <= obtained[b] /\ ~Holds(t, b))
    <3>1. CASE Kept(a, job[t].id) /\ b = a
      <4>1. obtained'[b] = issued'[a] /\ store'[b].id = job[t].id
        BY <1>3, <2>0, <2>1, <3>1 DEF RefreshRenew, TypeOK, Kept
      <4>2. obtained'[b] <= x.got
        BY <4>1, <1>n, <2>4, <2>5 DEF Counted
      <4> HIDE DEF x
      <4> QED
        BY <2>4, <2>5, <2>6, <3>1, <4>1, <4>2 DEF Holds
    <3>2. CASE ~(Kept(a, job[t].id) /\ b = a)
      <4>1. obtained'[b] = obtained[b]
        BY <1>3, <2>0, <3>2 DEF RefreshRenew, TypeOK
      <4>2. ~Holds(t, b)
        BY <2>1, <2>7, <3>2 DEF Holds, Kept
      <4> QED
        BY <1>n, <4>1, <4>2 DEF Counted
    <3> QED
      BY <3>1, <3>2
  <2> HIDE DEF x
  <2> QED
    BY <1>j, <2>0, <2>1, <2>3, <2>4, <2>5, <2>7, JobStep, AtWork
<1>4. ASSUME RefreshRenewLost(t) PROVE Inductive'
  <2> DEFINE x == [job[t] EXCEPT !.pc = "answered", !.failed = "yes", !.left = 0]
  <2>0. job[t] # None /\ job[t].pc = "asking" /\ job[t] \in Work
    BY <1>4, <1>j, AtWork DEF RefreshRenewLost
  <2>1. job' = [job EXCEPT ![t] = x] /\ UNCHANGED <<store, cards, live, obtained>>
    BY <1>4 DEF RefreshRenewLost
  <2>2. \A b \in Accounts : issued'[b] >= issued[b]
    BY <1>4, <1>n, <2>0 DEF RefreshRenewLost, Exchange, TypeOK, Counted
  <2>3. StoreForward
    BY <1>n, <2>1, <2>2 DEF StoreForward, Counted, Inductive, Issued
  <2>4. Answered(x, job[t]) /\ x \in Work
    BY <2>0, AnsweredFields, AnsweredType
  <2> QED
    BY <1>j, <2>0, <2>1, <2>2, <2>3, <2>4, AnsweredStep
<1>5. ASSUME NEW failed \in {"no", "yes", "deactivated"}, RefreshAnswer(t, failed)
      PROVE Inductive'
  <2> DEFINE x == [job[t] EXCEPT !.pc = "answered", !.failed = failed, !.left = 0]
  <2>0. job[t] # None /\ job[t].pc = "asking" /\ job[t] \in Work
    BY <1>5, <1>j, AtWork DEF RefreshAnswer
  <2>1. job' = [job EXCEPT ![t] = x] /\ UNCHANGED <<store, cards, issued, live, obtained>>
    BY <1>5 DEF RefreshAnswer
  <2>3. StoreForward
    BY <2>1, StoreStays
  <2>4. Answered(x, job[t]) /\ x \in Work
    BY <2>0, AnsweredFields, AnsweredType
  <2> QED
    BY <1>j, <2>0, <2>1, <2>3, <2>4, AnsweredStep
<1>6. ASSUME RefreshMerge(t) PROVE Inductive'
  <2> DEFINE w == job[t]
             a == w.of
             x == job'[t]
             c == IF w.got # w.from THEN Renewed(store[a]) ELSE store[a]
  <2>0. w # None /\ w \in Work /\ a \in Accounts /\ Kept(a, w.id)
    BY <1>6, <1>j, AtWork DEF RefreshMerge
  <2>1. /\ job' = [job EXCEPT ![t] = x] /\ UNCHANGED <<cards, issued, live, obtained>>
        /\ x # None => x = [w EXCEPT !.pc = "merged"]
    BY <1>6, <1>j DEF RefreshMerge, TypeOK
  <2>2. /\ store' = [store EXCEPT ![a] =
                       [c EXCEPT !.gen = Merged(c, w), !.status = StatusAfter(c, w)]]
        /\ store[a] \in Card
    BY <1>6, <2>0 DEF RefreshMerge, Kept, TypeOK
  <2>3. /\ c \in Card /\ c.gen = store[a].gen /\ c.id = store[a].id
        /\ c.waiting = store[a].waiting
    BY <2>2 DEF Renewed, Card, Renewal
  <2>4. /\ Merged(c, w) >= c.gen
        /\ w.got > w.base => Merged(c, w) >= w.got
        /\ Merged(c, w) \in {c.gen, w.got, w.from}
    BY <1>j, <2>0, <2>3, AtWork, MergedForward
  <2>5. /\ store'[a].gen = Merged(c, w) /\ store'[a].id = store[a].id
        /\ store'[a].waiting = store[a].waiting
        /\ \A b \in Accounts : b # a => store'[b] = store[b]
    <3> HIDE DEF c
    <3> QED
      BY <2>0, <2>2, <2>3 DEF TypeOK, Card
  <2>6. StoreForward
    <3>1. store'[a].gen <= issued[a]
      BY <1>j, <1>n, <2>0, <2>3, <2>4, <2>5, AtWork DEF Counted, Inductive, Issued, Kept
    <3>2. store[a] # None /\ store'[a].gen >= store[a].gen
      BY <2>0, <2>3, <2>4, <2>5 DEF Kept
    <3> HIDE DEF c
    <3> QED
      BY <1>n, <2>1, <2>5, <3>1, <3>2 DEF StoreForward, Counted, Inductive, Issued
  <2>7. x # None => /\ x.of = a /\ x.id = w.id /\ x.base = w.base
                    /\ x.from = w.from /\ x.got = w.got /\ x.pc = "merged"
    BY <2>0, <2>1 DEF Work
  <2>8. ASSUME NEW b \in Accounts, store'[b] # None
        PROVE  \/ store'[b].gen >= obtained'[b]
               \/ obtained'[b] <= obtained[b] /\ ~Holds(t, b)
    <3>1. CASE b = a /\ Holds(t, a)
      <4>1. w.got >= obtained[a] /\ w.got > w.base
        BY <3>1 DEF Holds
      <4> HIDE DEF c
      <4> QED
        BY <1>n, <2>1, <2>4, <2>5, <3>1, <4>1, <2>8, <2>0, <1>j DEF Counted
    <3>2. CASE ~(b = a /\ Holds(t, a))
      <4>1. ~Holds(t, b)
        BY <3>2 DEF Holds
      <4> QED
        BY <1>n, <2>1, <4>1 DEF Counted
    <3> QED
      BY <3>1, <3>2
  <2> HIDE DEF x, c
  <2> QED
    BY <1>j, <2>0, <2>1, <2>6, <2>7, <2>8, AtWork, JobStep
<1>7. ASSUME RefreshDropped(t) PROVE Inductive'
  <2>1. /\ job' = [job EXCEPT ![t] = None]
        /\ UNCHANGED <<store, cards, issued, live, obtained>>
    BY <1>7 DEF RefreshDropped
  <2>2. StoreForward
    BY <2>1, StoreStays
  <2>3. \A b \in Accounts : store'[b] # None => ~Holds(t, b) /\ obtained'[b] <= obtained[b]
    BY <1>7, <1>n, <2>1 DEF RefreshDropped, Holds, Kept, Counted
  <2> QED
    BY <1>j, <2>1, <2>2, <2>3, JobStep
<1>8. ASSUME RefreshWriteLive(t) PROVE Inductive'
  <2>1. /\ job' = [job EXCEPT ![t] = None]
        /\ UNCHANGED <<store, cards, issued, obtained>>
        /\ job[t] # None /\ job[t].pc = "writing"
    BY <1>8 DEF RefreshWriteLive
  <2>2. StoreForward
    BY <1>8, <1>j, <2>1, RenewedForward DEF RefreshWriteLive
  <2>3. \A b \in Accounts : ~Holds(t, b) /\ obtained'[b] <= obtained[b]
    BY <1>n, <2>1 DEF Holds, Counted
  <2> QED
    BY <1>j, <2>1, <2>2, <2>3, JobStep
<1>9. ASSUME RefreshCompares(t) PROVE Inductive'
  <2> DEFINE x == job'[t]
  <2>0. job[t] # None /\ job[t].pc = "merged" /\ job[t] \in Work
    BY <1>9, <1>j, AtWork DEF RefreshCompares
  <2>1. /\ job' = [job EXCEPT ![t] = x] /\ UNCHANGED <<store, cards, issued, live, obtained>>
        /\ x # None => x = [job[t] EXCEPT !.pc = "writing"]
    BY <1>9, <1>j DEF RefreshCompares, TypeOK
  <2>2. StoreForward
    BY <2>1, StoreStays
  <2>3. x # None => /\ x.of = job[t].of /\ x.id = job[t].id /\ x.base = job[t].base
                    /\ x.pc = "writing" /\ x.from = job[t].from /\ x.got = job[t].got
    BY <2>0, <2>1 DEF Work
  <2>4. \A b \in Accounts : ~Holds(t, b) /\ obtained'[b] <= obtained[b]
    BY <1>n, <2>0, <2>1 DEF Holds, Counted
  <2> HIDE DEF x
  <2> QED
    BY <1>j, <2>0, <2>1, <2>2, <2>3, <2>4, AtWork, JobStep
<1> QED
  BY <1>1, <1>2, <1>3, <1>4, <1>5, <1>6, <1>7, <1>8, <1>9 DEF RefreshStep

\* An attempt that ends where it held nothing of its own keeps the invariant.
LEMMA EndSafe ==
  ASSUME TypeOK, TypeOK', Inductive, StoreForward,
         UNCHANGED <<store, obtained>>,
         NEW t \in Jobs, job' = [job EXCEPT ![t] = None],
         \A a \in Accounts : store[a] # None => ~Holds(t, a)
  PROVE  Inductive'
<1>1. \A a \in Accounts : obtained'[a] <= obtained[a]
  BY Numbers DEF Counted
<1> QED
  BY <1>1, JobStep

\* An attempt whose exchange was answered is one of Work.
LEMMA ExchangedType ==
  ASSUME NEW w \in Work, NEW g \in Gen
  PROVE  [w EXCEPT !.pc = "answered", !.got = g, !.left = 0] \in Work
<1>1. [w EXCEPT !.left = 0] \in Work
  BY DEF Work
<1>2. ASSUME NEW v \in Work
      PROVE  [v EXCEPT !.pc = "answered", !.got = g] \in Work
  BY DEF Work
<1>3. [w EXCEPT !.pc = "answered", !.got = g, !.left = 0]
        = [[w EXCEPT !.left = 0] EXCEPT !.pc = "answered", !.got = g]
  BY DEF Work
<1> QED
  BY <1>1, <1>2, <1>3

\* Every step of a proxy attempt keeps the invariant.
LEMMA AttemptSafe ==
  ASSUME TypeOK, TypeOK', Inductive, NEW q \in Attempts, AttemptStep(q)
  PROVE  Inductive'
<1> USE DEF pool, codex, held, issuer, bounds, history
<1>j. q \in Jobs
  BY DEF Jobs
<1>n. Counted /\ Counted'
  BY Numbers, NumbersNext
<1>1. ASSUME NEW a \in Accounts, AttemptLoad(q, a) PROVE Inductive'
  <2> DEFINE x == [pc |-> "asking", of |-> a, id |-> store[a].id,
                   base |-> store[a].gen, from |-> store[a].gen,
                   got |-> store[a].gen, choice |-> store[a].renewal,
                   left |-> 1, failed |-> "no"]
  <2>1. job' = [job EXCEPT ![q] = x] /\ UNCHANGED <<store, cards, issued, live, obtained>>
    BY <1>1 DEF AttemptLoad
  <2>2. StoreForward
    BY <2>1, StoreStays
  <2>3. /\ x.got <= issued'[x.of] /\ x.base <= x.from /\ x.from <= x.got
        /\ x.id <= cards[x.of] /\ (Kept(x.of, x.id) => ~store[x.of].waiting)
    BY <1>1, <1>n, <2>1 DEF AttemptLoad, MayServe, Counted, Inductive, Issued, IdsGiven
  <2>4. \A b \in Accounts : ~Holds(q, b) /\ obtained'[b] <= obtained[b]
    BY <1>1, <1>n, <2>1 DEF AttemptLoad, Holds, Counted
  <2> QED
    BY <1>j, <2>1, <2>2, <2>3, <2>4, JobStep
<1>2. ASSUME AttemptRenew(q) PROVE Inductive'
  <2> DEFINE a == job[q].of
             x == [job[q] EXCEPT !.pc = "answered", !.got = issued'[a], !.left = 0]
  <2>0. job[q] # None /\ job[q].pc = "asking" /\ job[q] \in Work /\ a \in Accounts
    BY <1>2, <1>j, AtWork DEF AttemptRenew
  <2>1. job' = [job EXCEPT ![q] = x] /\ UNCHANGED <<store, cards, live>>
    BY <1>2 DEF AttemptRenew
  <2>2. /\ issued'[a] = issued[a] + 1 /\ issued'[a] \in Gen
        /\ \A b \in Accounts : issued'[b] >= issued[b]
    BY <1>2, <1>n, <2>0 DEF AttemptRenew, Exchange, TypeOK, Counted
  <2>3. StoreForward
    BY <1>n, <2>1, <2>2 DEF StoreForward, Counted, Inductive, Issued
  <2>4. /\ x.of = a /\ x.id = job[q].id /\ x.base = job[q].base /\ x.pc = "answered"
        /\ x.from = job[q].from /\ x.got = issued'[a] /\ x \in Work
    <3>3. x \in Work
      BY <2>0, <2>2, ExchangedType
    <3> QED
      BY <2>0, <3>3 DEF Work
  <2>5. x.from <= x.got /\ x.base < x.got /\ x.got <= issued'[a]
    BY <1>j, <1>n, <2>0, <2>2, <2>4, AtWork DEF Counted
  <2>6. job'[q] = x /\ x # None
    BY <1>j, <2>1, <2>4, NoneAssumption DEF TypeOK
  <2>7. ASSUME NEW b \in Accounts, store'[b] # None
        PROVE  Holds(q, b)' \/ (obtained'[b] <= obtained[b] /\ ~Holds(q, b))
    <3>1. CASE Kept(a, job[q].id) /\ b = a
      <4>1. obtained'[b] = issued'[a] /\ store'[b].id = job[q].id
        BY <1>2, <2>0, <2>1, <3>1 DEF AttemptRenew, TypeOK, Kept
      <4>2. obtained'[b] <= x.got
        BY <4>1, <1>n, <2>4, <2>5 DEF Counted
      <4> HIDE DEF x
      <4> QED
        BY <2>4, <2>5, <2>6, <3>1, <4>1, <4>2 DEF Holds
    <3>2. CASE ~(Kept(a, job[q].id) /\ b = a)
      <4>1. obtained'[b] = obtained[b]
        BY <1>2, <2>0, <3>2 DEF AttemptRenew, TypeOK
      <4>2. ~Holds(q, b)
        BY <2>1, <2>7, <3>2 DEF Holds, Kept
      <4> QED
        BY <1>n, <4>1, <4>2 DEF Counted
    <3> QED
      BY <3>1, <3>2
  <2> HIDE DEF x
  <2> QED
    BY <1>j, <2>0, <2>1, <2>3, <2>4, <2>5, <2>7, JobStep, AtWork
<1>3. ASSUME AttemptRenewLost(q) PROVE Inductive'
  <2>0. job[q] # None /\ job[q].pc = "asking" /\ job[q] \in Work
    BY <1>3, <1>j, AtWork DEF AttemptRenewLost
  <2>1. job' = [job EXCEPT ![q] = None] /\ UNCHANGED <<store, cards, live, obtained>>
    BY <1>3 DEF AttemptRenewLost
  <2>2. \A b \in Accounts : issued'[b] >= issued[b]
    BY <1>3, <1>n, <1>j, <2>0, AtWork DEF AttemptRenewLost, Exchange, TypeOK, Counted
  <2>3. StoreForward
    BY <1>n, <2>1, <2>2 DEF StoreForward, Counted, Inductive, Issued
  <2>4. \A b \in Accounts : ~Holds(q, b)
    BY <1>j, <2>0, AtWork DEF Holds
  <2> QED
    BY <1>j, <2>1, <2>3, <2>4, EndSafe
<1>4. ASSUME AttemptPersist(q) PROVE Inductive'
  <2> DEFINE w == job[q]
             a == w.of
             x == job'[q]
  <2>0. w # None /\ w \in Work /\ a \in Accounts /\ w.from = w.base /\ w.pc = "answered"
    BY <1>4, <1>j, AtWork DEF AttemptPersist
  <2>1. job' = [job EXCEPT ![q] = x] /\ UNCHANGED <<cards, issued, live, obtained>>
    BY <1>4, <1>j DEF AttemptPersist, TypeOK
  <2>2. CASE Kept(a, w.id) /\ ~RenewalReplaces(w.got, w.from, store[a].gen)
    <3>1. /\ x = [w EXCEPT !.pc = "usable", !.got = store[a].gen]
          /\ UNCHANGED store
      BY <1>4, <1>j, <2>2 DEF AttemptPersist, TypeOK
    <3>2. /\ x.of = a /\ x.id = w.id /\ x.base = w.base /\ x.pc = "usable"
          /\ x.from = w.from /\ x.got = store[a].gen
      BY <2>0, <3>1 DEF Work
    <3>3. StoreForward
      BY <2>1, <3>1, StoreStays
    <3>4. x.got >= w.got /\ x.got <= issued[a]
      BY <1>j, <1>n, <2>0, <2>2, <3>2, AtWork
         DEF RenewalReplaces, NewerLogin, Kept, Counted, Inductive, Issued
    <3>5. x.from <= x.got
      BY <1>j, <1>n, <2>0, <2>2, <3>2, <3>4, AtWork DEF Counted, Kept
    <3>6. ASSUME NEW b \in Accounts, store'[b] # None
          PROVE  \/ store'[b].gen >= obtained'[b]
                 \/ obtained'[b] <= obtained[b] /\ ~Holds(q, b)
      <4>1. CASE Holds(q, b)
        <5>1. b = a /\ w.got >= obtained[b]
          BY <4>1 DEF Holds
        <5> QED
          BY <1>j, <1>n, <2>0, <2>1, <2>2, <3>1, <3>2, <3>4, <5>1, AtWork
             DEF Counted, Kept
      <4>2. CASE ~Holds(q, b)
        BY <1>n, <2>1, <4>2 DEF Counted
      <4> QED
        BY <4>1, <4>2
    <3> HIDE DEF x
    <3> QED
      BY <1>j, <2>0, <2>1, <3>1, <3>2, <3>3, <3>4, <3>5, <3>6, AtWork, JobStep
  <2>3. CASE ~(Kept(a, w.id) /\ ~RenewalReplaces(w.got, w.from, store[a].gen))
    <3>1. x = [w EXCEPT !.pc = "merged"]
      BY <1>4, <1>j, <2>3 DEF AttemptPersist, TypeOK
    <3>2. /\ x.of = a /\ x.id = w.id /\ x.base = w.base /\ x.pc = "merged"
          /\ x.from = w.from /\ x.got = w.got
      BY <2>0, <3>1 DEF Work
    <3>3. store' = IF Kept(a, w.id)
                     THEN [store EXCEPT ![a] = [Renewed(store[a]) EXCEPT !.gen = w.got]]
                     ELSE store
      BY <1>4, <2>3 DEF AttemptPersist
    <3>4. Kept(a, w.id) =>
            /\ store'[a].gen = w.got /\ store'[a].id = store[a].id
            /\ store'[a].waiting = store[a].waiting
            /\ store[a].gen <= w.got
            /\ \A b \in Accounts : b # a => store'[b] = store[b]
      <4> SUFFICES ASSUME Kept(a, w.id)
                   PROVE  /\ store'[a].gen = w.got /\ store'[a].id = store[a].id
                          /\ store'[a].waiting = store[a].waiting
                          /\ store[a].gen <= w.got
                          /\ \A b \in Accounts : b # a => store'[b] = store[b]
        OBVIOUS
      <4>1. store[a] \in Card
        BY <2>0 DEF TypeOK, Kept
      <4>2. store[a].gen <= w.got
        BY <1>j, <1>n, <2>0, <2>3, AtWork DEF RenewalReplaces, NewerLogin, Counted, Kept
      <4> QED
        BY <2>0, <3>3, <4>1, <4>2 DEF TypeOK, Renewed, Card
    <3>5. StoreForward
      <4>1. CASE Kept(a, w.id)
        <5>1. w.got <= issued[a] /\ store[a] # None
          BY <1>j, <2>0, <4>1, AtWork DEF Kept
        <5> HIDE DEF x
        <5> QED
          BY <1>n, <2>1, <3>4, <4>1, <5>1 DEF StoreForward, Counted, Inductive, Issued
      <4>2. CASE ~Kept(a, w.id)
        BY <2>1, <3>3, <4>2, StoreStays
      <4> QED
        BY <4>1, <4>2
    <3>6. ASSUME NEW b \in Accounts, store'[b] # None
          PROVE  \/ store'[b].gen >= obtained'[b]
                 \/ obtained'[b] <= obtained[b] /\ ~Holds(q, b)
      <4>1. CASE Holds(q, b)
        <5>1. b = a /\ w.got >= obtained[b] /\ store[b].id = w.id
          BY <4>1 DEF Holds
        <5>2. Kept(a, w.id)
          BY <3>3, <3>6, <5>1 DEF Kept
        <5> QED
          BY <2>1, <3>4, <5>1, <5>2
      <4>2. CASE ~Holds(q, b)
        BY <1>n, <2>1, <4>2 DEF Counted
      <4> QED
        BY <4>1, <4>2
    <3> HIDE DEF x
    <3> QED
      BY <1>j, <2>0, <2>1, <3>2, <3>5, <3>6, AtWork, JobStep
  <2> QED
    BY <2>2, <2>3
<1>5. ASSUME AttemptCompares(q) \/ AttemptSync(q) PROVE Inductive'
  <2> DEFINE x == job'[q]
  <2>0. /\ job[q] # None /\ job[q].pc \in {"merged", "writing"} /\ job[q] \in Work
    BY <1>5, <1>j, AtWork DEF AttemptCompares, AttemptSync
  <2>1. /\ job' = [job EXCEPT ![q] = x] /\ UNCHANGED <<store, cards, issued, obtained>>
        /\ \/ x = [job[q] EXCEPT !.pc = "usable"]
           \/ x = [job[q] EXCEPT !.pc = "writing"]
    BY <1>5, <1>j DEF AttemptCompares, AttemptSync, TypeOK
  <2>2. StoreForward
    <3>1. CASE UNCHANGED live
      BY <2>1, <3>1, StoreStays
    <3>2. CASE WriteRenewed(job[q])
      BY <1>j, <2>0, <2>1, <3>2, RenewedForward
    <3> QED
      BY <1>5, <3>1, <3>2 DEF AttemptCompares, AttemptSync
  <2>3. /\ x.of = job[q].of /\ x.id = job[q].id /\ x.base = job[q].base
        /\ x.pc \in {"usable", "writing"} /\ x.from = job[q].from /\ x.got = job[q].got
    BY <2>0, <2>1 DEF Work
  <2>4. \A b \in Accounts : ~Holds(q, b) /\ obtained'[b] <= obtained[b]
    BY <1>n, <2>0, <2>1 DEF Holds, Counted
  <2> HIDE DEF x
  <2> QED
    BY <1>j, <2>0, <2>1, <2>2, <2>3, <2>4, AtWork, JobStep
<1>6. ASSUME AttemptReady(q), job' = [job EXCEPT ![q] = None],
             UNCHANGED <<store, cards, issued, obtained>>,
             live' # live => live' = [of |-> job[q].of, gen |-> job[q].got]
      PROVE  Inductive'
  <2>0. job[q] # None /\ job[q].pc \in {"asking", "usable"}
    BY <1>6 DEF AttemptReady
  <2>1. live' # None => live'.gen <= issued'[live'.of]
    BY <1>j, <1>6, <2>0, AtWork DEF Inductive, Issued
  <2>2. StoreForward
    BY <1>n, <1>6, <2>1 DEF StoreForward, Counted, Inductive, Issued
  <2>3. \A b \in Accounts : ~Holds(q, b)
    BY <1>j, <2>0, AtWork DEF Holds
  <2> QED
    BY <1>j, <1>6, <2>2, <2>3, EndSafe
<1>7. CASE AttemptSelect(q)
  BY <1>6, <1>7 DEF AttemptSelect
<1>8. CASE AttemptSelectFails(q)
  BY <1>6, <1>8 DEF AttemptSelectFails
<1>9. CASE AttemptEnd(q)
  BY <1>6, <1>9 DEF AttemptEnd
<1> QED
  BY <1>1, <1>2, <1>3, <1>4, <1>5, <1>7, <1>8, <1>9 DEF AttemptStep

\* A step no activity takes: a card keeps its login or a newer one, or is
\* imported, and a new card takes the next id.
CardStep(a) ==
  /\ store'[a].gen <= issued'[a]
  /\ \/ obtained'[a] = 0
     \/ /\ store[a] # None /\ store'[a].id = store[a].id
        /\ store'[a].gen >= store[a].gen /\ obtained'[a] <= obtained[a]
  /\ \/ /\ store[a] # None /\ store'[a].id = store[a].id /\ cards'[a] = cards[a]
        /\ store'[a].waiting => store[a].waiting
     \/ store'[a].id = cards'[a] /\ cards'[a] > cards[a]

\* Steps that make CardSteps of every card keep the invariant.
LEMMA PoolStep ==
  ASSUME TypeOK, TypeOK', Inductive, UNCHANGED job,
         live' # None => live'.gen <= issued'[live'.of],
         \A a \in Accounts : issued'[a] >= issued[a] /\ cards'[a] >= cards[a],
         \A a \in Accounts : store'[a] # None => CardStep(a)
  PROVE  Inductive'
<1>n. Counted /\ Counted'
  BY Numbers, NumbersNext
<1>1. Issued'
  BY <1>n DEF Inductive, Issued, CardStep, Counted
<1>2. Onward'
  BY DEF Inductive, Onward
<1>3. Held'
  <2> SUFFICES ASSUME NEW a \in Accounts, store'[a] # None
               PROVE  store'[a].gen >= obtained'[a] \/ \E j \in Jobs : Holds(j, a)'
    BY DEF Held
  <2>1. CASE obtained'[a] = 0
    BY <2>1 DEF TypeOK, Card, Gen
  <2>2. CASE /\ store[a] # None /\ store'[a].id = store[a].id
             /\ store'[a].gen >= store[a].gen /\ obtained'[a] <= obtained[a]
    <3>1. CASE store[a].gen >= obtained[a]
      BY <1>n, <2>2, <3>1 DEF Counted
    <3>2. ASSUME NEW j \in Jobs, Holds(j, a) PROVE Holds(j, a)'
      BY <1>n, <2>2, <3>2 DEF Counted, Holds
    <3> QED
      BY <2>2, <3>1, <3>2 DEF Inductive, Held
  <2> QED
    BY <2>1, <2>2 DEF CardStep
<1>4. IdsGiven'
  BY <1>n DEF Inductive, IdsGiven, CardStep, Counted
<1>5. WaitingNotContacted'
  BY <1>n DEF Inductive, IdsGiven, WaitingNotContacted, CardStep, Kept, Counted
<1> QED
  BY <1>1, <1>2, <1>3, <1>4, <1>5 DEF Inductive

\* An import of a login that was issued keeps the invariant.
LEMMA ImportSafe ==
  ASSUME TypeOK, TypeOK', Inductive, ImportStep
  PROVE  Inductive'
<1>n. Counted /\ Counted'
  BY Numbers, NumbersNext
<1>1. ASSUME NEW a \in Accounts, NEW gen \in Gen, NEW defer \in BOOLEAN,
             Imported(a, gen, defer), gen <= issued'[a],
             \A b \in Accounts : issued'[b] >= issued[b]
      PROVE  Inductive'
  <2> USE DEF codex
  <2>1. UNCHANGED <<job, live>> /\ obtained'[a] = 0
    BY <1>1 DEF Imported, TypeOK
  <2>2. live' # None => live'.gen <= issued'[live'.of]
    BY <1>1, <1>n, <2>1 DEF Counted, Inductive, Issued
  <2>3. ASSUME NEW b \in Accounts, b # a
        PROVE  /\ store'[b] = store[b] /\ cards'[b] = cards[b]
               /\ obtained'[b] = obtained[b]
    BY <1>1, <2>3 DEF Imported, TypeOK
  <2>4. CASE store[a] # None
    <3>1. store[a] \in Card
      BY <2>4 DEF TypeOK
    <3>2. /\ store'[a].gen = gen /\ store'[a].id = store[a].id
          /\ store'[a].waiting = store[a].waiting /\ cards' = cards
      BY <1>1, <2>4, <3>1 DEF Imported, TypeOK, Card
    <3>3. \A b \in Accounts : store'[b] # None => CardStep(b)
      BY <1>1, <1>n, <2>1, <2>3, <2>4, <3>2 DEF CardStep, Counted, Inductive, Issued
    <3> QED
      BY <1>1, <1>n, <2>1, <2>2, <3>2, <3>3, PoolStep DEF Counted
  <2>5. CASE store[a] = None
    <3>1. /\ store'[a] = NewCard(a, gen, defer) /\ cards'[a] = cards[a] + 1
      BY <1>1, <2>5 DEF Imported, TypeOK
    <3>2. \A b \in Accounts : store'[b] # None => CardStep(b)
      BY <1>1, <1>n, <2>1, <2>3, <3>1 DEF CardStep, NewCard, Counted, Inductive, Issued
    <3>3. \A b \in Accounts : cards'[b] >= cards[b]
      BY <1>n, <2>3, <3>1 DEF Counted
    <3> QED
      BY <1>1, <2>1, <2>2, <3>2, <3>3, PoolStep
  <2> QED
    BY <2>4, <2>5
<1>2. ASSUME NEW defer \in BOOLEAN, ImportCurrent(defer) PROVE Inductive'
  <2>1. live.of \in Accounts /\ live.gen \in Gen /\ live.gen <= issued[live.of]
    BY <1>2 DEF ImportCurrent, TypeOK, Login, Inductive, Issued
  <2> QED
    BY <1>1, <1>2, <1>n, <2>1 DEF ImportCurrent, issuer, Counted
<1>3. ASSUME NEW defer \in BOOLEAN, NEW a \in Accounts, ImportSignIn(a, defer)
      PROVE Inductive'
  <2>1. issued'[a] \in Gen /\ \A b \in Accounts : issued'[b] >= issued[b]
    BY <1>3, <1>n DEF ImportSignIn, TypeOK, Counted
  <2>2. issued'[a] <= issued'[a]
    BY <1>n DEF Counted
  <2> QED
    BY <1>1, <1>3, <2>1, <2>2 DEF ImportSignIn
<1>4. ASSUME NEW defer \in BOOLEAN, NEW a \in Accounts, NEW gen \in Gen,
             ImportFile(a, gen, defer)
      PROVE Inductive'
  BY <1>1, <1>4, <1>n DEF ImportFile, issuer, Counted
<1> QED
  BY <1>2, <1>3, <1>4 DEF ImportStep

\* What a failed save or a crash forgets.
LEMMA ForgottenType ==
  ASSUME TypeOK, obtained' = Forgotten, UNCHANGED store
  PROVE  \A a \in Accounts : /\ obtained'[a] <= obtained[a]
                             /\ store'[a] # None => store'[a].gen >= obtained'[a]
  BY Numbers DEF Forgotten, Counted

\* A crash leaves what the pool holds.
LEMMA CrashSafe ==
  ASSUME TypeOK, TypeOK', Inductive, Crashes,
         live' # None => live'.gen <= issued'[live'.of]
  PROVE  Inductive'
<1> USE DEF pool, issuer
<1>1. \A j \in Jobs : job'[j] = None
  BY DEF Crashes
<1>2. Issued' /\ Onward' /\ IdsGiven' /\ WaitingNotContacted'
  BY <1>1, NoneAssumption
     DEF Crashes, Inductive, Issued, Onward, IdsGiven, WaitingNotContacted, Jobs
<1>3. Held'
  BY ForgottenType DEF Crashes, Held
<1> QED
  BY <1>2, <1>3 DEF Inductive

\* Commands of the user, sign-ins, crashes in a switch.
LEMMA CommandSafe ==
  ASSUME TypeOK, TypeOK', Inductive, NEW a \in Accounts, CommandStep(a)
  PROVE  Inductive'
<1> USE DEF pool, codex, held, issuer, bounds, history
<1>n. Counted /\ Counted'
  BY Numbers, NumbersNext
<1>0. ASSUME UNCHANGED <<store, cards, issued, obtained, job>>,
             live' # None => live'.gen <= issued[live'.of]
      PROVE  Inductive'
  <2>1. \A b \in Accounts : store'[b] # None => CardStep(b)
    BY <1>0, <1>n DEF CardStep, Counted, Inductive, Issued
  <2> QED
    BY <1>0, <1>n, <2>1, PoolStep DEF Counted
<1>1. CASE SwitchAccount(a)
  BY <1>0, <1>1 DEF SwitchAccount, Inductive, Issued
<1>2. CASE SwitchFails(a)
  BY <1>0, <1>2 DEF SwitchFails, Inductive, Issued
<1>3. ASSUME NEW c \in Card, store' = [store EXCEPT ![a] = c], store[a] # None,
             c.id = store[a].id, c.gen = store[a].gen,
             c.waiting => store[a].waiting,
             UNCHANGED <<cards, issued, obtained, job, live>>
      PROVE  Inductive'
  <2>1. \A b \in Accounts : store'[b] = IF b = a THEN c ELSE store[b]
    BY <1>3 DEF TypeOK
  <2>2. \A b \in Accounts : store'[b] # None => CardStep(b)
    BY <1>3, <1>n, <2>1 DEF CardStep, Counted, Inductive, Issued
  <2> QED
    BY <1>3, <1>n, <2>2, PoolStep DEF Counted, Inductive, Issued
<1>4. CASE Release(a)
  <2>1. store[a] \in Card /\ store[a] # None
    BY <1>4 DEF Release, TypeOK
  <2>2. [store[a] EXCEPT !.waiting = FALSE] \in Card
    BY <2>1 DEF Card
  <2> QED
    BY <1>3, <1>4, <2>1, <2>2 DEF Release, Card
<1>5. ASSUME NEW choice \in Choices, SetRenewal(a, choice) PROVE Inductive'
  <2>1. store[a] \in Card /\ store[a] # None
    BY <1>5 DEF SetRenewal, TypeOK
  <2>2. [store[a] EXCEPT !.renewal = choice] \in Card
    BY <2>1, ChoicesAssumption DEF Card, Renewal
  <2> QED
    BY <1>3, <1>5, <2>1, <2>2 DEF SetRenewal, Card
<1>6. CASE DeleteAccount(a)
  <2>1. store[a] \in Card /\ store[a] # None
    BY <1>6 DEF DeleteAccount, TypeOK
  <2>2. CASE store[a].status = "deactivated"
    <3>1. [store[a] EXCEPT !.status = "deleted"] \in Card
      BY <2>1 DEF Card
    <3> QED
      BY <1>3, <1>6, <2>1, <2>2, <3>1 DEF DeleteAccount, Card
  <2>3. CASE store[a].status # "deactivated"
    <3>1. \A b \in Accounts : store'[b] # None =>
            b # a /\ store'[b] = store[b] /\ obtained'[b] = obtained[b]
      BY <1>6, <2>3 DEF DeleteAccount, TypeOK
    <3>2. UNCHANGED <<cards, issued, job, live>>
      BY <1>6 DEF DeleteAccount
    <3>3. \A b \in Accounts : store'[b] # None => CardStep(b)
      BY <1>n, <3>1, <3>2 DEF CardStep, Counted, Inductive, Issued
    <3> QED
      BY <1>n, <3>2, <3>3, PoolStep DEF Counted, Inductive, Issued
  <2> QED
    BY <2>2, <2>3
<1>7. CASE CodexSignsIn(a)
  <2>1. /\ \A b \in Accounts : issued'[b] >= issued[b]
        /\ live'.of = a /\ live'.gen = issued'[a]
        /\ UNCHANGED <<store, cards, obtained, job>>
    BY <1>7, <1>n DEF CodexSignsIn, TypeOK, Counted
  <2>2. \A b \in Accounts : store'[b] # None => CardStep(b)
    BY <1>n, <2>1 DEF CardStep, Counted, Inductive, Issued
  <2> QED
    BY <1>n, <2>1, <2>2, PoolStep DEF Counted
<1>8. CASE CrashInSwitch(a)
  <2>1. live' # None => live'.gen <= issued'[live'.of]
    BY <1>8 DEF CrashInSwitch, Crashes, Inductive, Issued
  <2> QED
    BY <1>8, <2>1, CrashSafe DEF CrashInSwitch
<1> QED
  BY <1>1, <1>2, <1>4, <1>5, <1>6, <1>7, <1>8 DEF CommandStep

\* The steps of Codex, reconciliation, a provider switch, a failed save.
LEMMA OtherSafe ==
  ASSUME TypeOK, TypeOK', Inductive,
         \/ SwitchProvider \/ Reconcile \/ CodexRenews \/ CodexSignsOut \/ Crash
         \/ \E j \in Jobs : SaveFails(j)
  PROVE  Inductive'
<1> USE DEF pool, codex, held, issuer, bounds, history
<1>n. Counted /\ Counted'
  BY Numbers, NumbersNext
<1>1. ASSUME UNCHANGED <<store, cards, obtained, job>>,
             \A b \in Accounts : issued'[b] >= issued[b],
             live' # None => live'.gen <= issued'[live'.of]
      PROVE  Inductive'
  <2>1. \A b \in Accounts : store'[b] # None => CardStep(b)
    BY <1>1, <1>n DEF CardStep, Counted, Inductive, Issued
  <2> QED
    BY <1>1, <1>n, <2>1, PoolStep DEF Counted
<1>2. CASE SwitchProvider \/ Reconcile \/ CodexSignsOut
  BY <1>1, <1>2, <1>n
     DEF SwitchProvider, Reconcile, CodexSignsOut, Counted, Inductive, Issued
<1>3. CASE CodexRenews
  <2>1. live # None /\ live \in Login /\ live.of \in Accounts
    BY <1>3 DEF CodexRenews, TypeOK, Login
  <2>2. /\ \A b \in Accounts : issued'[b] >= issued[b]
        /\ live'.of = live.of /\ live'.gen = issued'[live.of]
        /\ UNCHANGED <<store, cards, obtained, job>>
    BY <1>3, <1>n, <2>1 DEF CodexRenews, Exchange, TypeOK, Login, Counted
  <2> QED
    BY <1>1, <1>n, <2>1, <2>2 DEF Counted
<1>4. CASE Crash
  BY <1>4, CrashSafe DEF Crash, Crashes, Inductive, Issued
<1>5. ASSUME NEW j \in Jobs, SaveFails(j) PROVE Inductive'
  <2>1. job' = [job EXCEPT ![j] = None] /\ UNCHANGED <<store, cards, issued, live>>
    BY <1>5 DEF SaveFails
  <2>2. StoreForward
    BY <2>1, StoreStays
  <2>3. \A b \in Accounts : store'[b] # None => store'[b].gen >= obtained'[b]
    BY <1>5, <2>1, ForgottenType DEF SaveFails
  <2> QED
    BY <2>1, <2>2, <2>3, JobStep
<1> QED
  BY <1>2, <1>3, <1>4, <1>5

\* At the start nothing is under way and nothing was obtained.
LEMMA InitSafe == Init => Inductive
<1> SUFFICES ASSUME Init PROVE Inductive
  OBVIOUS
<1>1. \A j \in Jobs : job[j] = None
  BY DEF Init
<1>2. \A a \in Accounts : store[a] # None =>
        store[a].gen = 1 /\ store[a].id = 1 /\ cards[a] = 1
  BY DEF Init, FirstCard
<1>3. /\ \A a \in Accounts : issued[a] = 1 /\ obtained[a] = 0
      /\ live # None => live.gen = 1 /\ live.of \in Accounts
  BY DEF Init
<1> QED
  BY <1>1, <1>2, <1>3
     DEF Inductive, Issued, Onward, Held, IdsGiven, WaitingNotContacted, Jobs

\* IInv holds initially and every step keeps it.
THEOREM InvariantHolds == Spec => []IInv
<1>1. Init => Inductive
  BY InitSafe
<1>2. TypeOK /\ TypeOK' /\ Inductive /\ [Next]_vars => Inductive'
  <2> SUFFICES ASSUME TypeOK, TypeOK', Inductive, [Next]_vars PROVE Inductive'
    OBVIOUS
  <2>1. ASSUME NEW t \in Refreshes, RefreshStep(t) PROVE Inductive'
    BY <2>1, RefreshSafe
  <2>2. ASSUME NEW q \in Attempts, AttemptStep(q) PROVE Inductive'
    BY <2>2, AttemptSafe
  <2>3. CASE ImportStep
    BY <2>3, ImportSafe
  <2>4. ASSUME NEW a \in Accounts, CommandStep(a) PROVE Inductive'
    BY <2>4, CommandSafe
  <2>5. CASE \/ SwitchProvider \/ Reconcile \/ CodexRenews \/ CodexSignsOut \/ Crash
             \/ \E j \in Jobs : SaveFails(j)
    BY <2>5, OtherSafe
  <2>6. CASE UNCHANGED vars
    BY <2>6 DEF vars, Inductive, Issued, Onward, Held, Holds, IdsGiven,
                WaitingNotContacted, Kept
  <2> QED
    BY <2>1, <2>2, <2>3, <2>4, <2>5, <2>6 DEF Next
<1>3. IInv <=> TypeOK /\ Inductive
  BY DEF IInv, Inductive
<1> QED
  BY <1>1, <1>2, <1>3, TypeCorrect, PTL DEF Spec

\* A login the issuer gave Copool in place of a spent one is not dropped.
THEOREM NoRenewalDropped == Spec => []RenewalKept
<1>1. IInv => RenewalKept
  BY DEF IInv, Held, Holds, RenewalKept
<1> QED
  BY <1>1, InvariantHolds, PTL

\* An account that waits for its first manual refresh is never contacted.
THEOREM WaitingLeftAlone == Spec => []WaitingNotContacted
<1>1. IInv => WaitingNotContacted
  BY DEF IInv
<1> QED
  BY <1>1, InvariantHolds, PTL

\* Only an import takes the pool's login of a card back to an older one.
THEOREM NoLateReversal == Spec => LateAnswerNeverReverts
<1> USE DEF pool, codex, held, issuer, bounds, history
<1> DEFINE A == \A a \in Accounts :
       /\ store[a] # None /\ store'[a] # None /\ store'[a].id = store[a].id
       /\ store'[a].gen < store[a].gen
       => ImportStep
<1>1. IInv /\ [Next]_vars => [A]_vars
  <2> SUFFICES ASSUME IInv, Next, ~ImportStep,
                      NEW a \in Accounts, store[a] # None, store'[a] # None
               PROVE  ~(store'[a].gen < store[a].gen)
    OBVIOUS
  <2>0. TypeOK /\ Inductive /\ Counted
    BY Numbers DEF IInv, Inductive
  <2>1. ASSUME UNCHANGED store PROVE ~(store'[a].gen < store[a].gen)
    BY <2>0, <2>1 DEF Counted
  <2>2. ASSUME NEW t \in Refreshes, RefreshStep(t)
        PROVE  ~(store'[a].gen < store[a].gen)
    <3>1. CASE RefreshMerge(t)
      <4> DEFINE w == job[t]
                 c == IF w.got # w.from THEN Renewed(store[w.of]) ELSE store[w.of]
      <4>0. /\ t \in Jobs /\ w # None /\ w \in Work /\ w.of \in Accounts
            /\ Kept(w.of, w.id) /\ store[w.of] \in Card
            /\ w.base <= w.from /\ w.from <= w.got
        BY <2>0, <3>1, AtWork DEF RefreshMerge, Jobs, TypeOK, Kept
      <4>1. c \in Card /\ c.gen = store[w.of].gen
        BY <4>0 DEF Renewed, Card, Renewal
      <4>2. Merged(c, w) >= c.gen
        BY <4>0, <4>1, MergedForward
      <4>3. store' = [store EXCEPT ![w.of] =
                        [c EXCEPT !.gen = Merged(c, w), !.status = StatusAfter(c, w)]]
        BY <3>1 DEF RefreshMerge
      <4>4. CASE a = w.of
        <5>1. store'[a].gen = Merged(c, w)
          <6> HIDE DEF c
          <6> QED
            BY <2>0, <4>0, <4>1, <4>3, <4>4 DEF TypeOK, Card
        <5>2. Merged(c, w) \in Int /\ c.gen \in Int
          <6> HIDE DEF c
          <6> QED
            BY <4>0, <4>1, MergedForward DEF Card, Work, Gen
        <5> HIDE DEF c
        <5> QED
          BY <4>1, <4>2, <4>4, <5>1, <5>2
      <4>5. CASE a # w.of
        BY <2>0, <4>0, <4>3, <4>5 DEF TypeOK, Counted
      <4> QED
        BY <4>4, <4>5
    <3> QED
      BY <2>1, <2>2, <3>1
         DEF RefreshStep, RefreshSnapshot, RefreshReadLive, RefreshRenew,
             RefreshRenewLost, RefreshAnswer, RefreshDropped, RefreshCompares,
             RefreshWriteLive
  <2>3. ASSUME NEW q \in Attempts, AttemptStep(q)
        PROVE  ~(store'[a].gen < store[a].gen)
    <3>1. CASE AttemptPersist(q)
      <4>0. /\ q \in Jobs /\ job[q] # None /\ job[q].of \in Accounts
            /\ job[q].from <= job[q].got /\ job[q].from \in Int /\ job[q].got \in Int
        BY <2>0, <3>1, AtWork DEF AttemptPersist, Jobs
      <4>1. CASE UNCHANGED store
        BY <2>1, <4>1
      <4>2. CASE /\ Kept(job[q].of, job[q].id)
                 /\ RenewalReplaces(job[q].got, job[q].from, store[job[q].of].gen)
                 /\ store' = [store EXCEPT ![job[q].of] =
                                [Renewed(store[job[q].of]) EXCEPT !.gen = job[q].got]]
        <5>1. store[job[q].of] \in Card
          BY <4>0, <4>2 DEF Kept, TypeOK, IInv
        <5>2. job[q].got >= store[job[q].of].gen
          BY <2>0, <4>0, <4>2 DEF RenewalReplaces, NewerLogin, Counted, Kept
        <5>3. CASE a = job[q].of
          <6>1. store'[a].gen = job[q].got
            BY <2>0, <4>0, <4>2, <5>1, <5>3 DEF TypeOK, Card, Renewed
          <6> QED
            BY <2>0, <4>0, <5>2, <5>3, <6>1 DEF Counted
        <5>4. CASE a # job[q].of
          BY <2>0, <4>2, <5>4 DEF TypeOK, Counted
        <5> QED
          BY <5>3, <5>4
      <4> QED
        BY <3>1, <4>1, <4>2 DEF AttemptPersist
    <3> QED
      BY <2>1, <2>3, <3>1
         DEF AttemptStep, AttemptLoad, AttemptRenew, AttemptRenewLost,
             AttemptCompares, AttemptSync,
             AttemptSelect, AttemptSelectFails, AttemptEnd
  <2>4. ASSUME NEW b \in Accounts, CommandStep(b)
        PROVE  ~(store'[a].gen < store[a].gen)
    <3>1. store[b] # None => store[b] \in Card
      BY <2>0 DEF TypeOK
    <3>2. \/ UNCHANGED store
          \/ store'[a].gen = store[a].gen
      BY <2>0, <2>4, <3>1
         DEF CommandStep, SwitchAccount, SwitchFails, Release, DeleteAccount,
             SetRenewal, CodexSignsIn, CrashInSwitch, Crashes, TypeOK, Card
    <3> QED
      BY <2>0, <2>1, <3>2 DEF Counted
  <2>5. CASE \/ SwitchProvider \/ Reconcile \/ CodexRenews \/ CodexSignsOut \/ Crash
             \/ \E j \in Jobs : SaveFails(j)
    BY <2>1, <2>5
       DEF SwitchProvider, Reconcile, CodexRenews, CodexSignsOut, Crash, Crashes,
           SaveFails
  <2> QED
    BY <2>2, <2>3, <2>4, <2>5 DEF Next
<1> QED
  BY <1>1, InvariantHolds, PTL DEF Spec, LateAnswerNeverReverts

\* Nothing is about to be written to auth.json, or what is was compared as before.
Uncompared == \A j \in Jobs : ~Writing(j)'
ComparedStays ==
  /\ \A j \in Jobs : Writing(j)' => Writing(j) /\ job'[j] = job[j]
  /\ lock' = lock /\ compared' = compared
  /\ outside' \/ (~outside' /\ ~outside /\ (live # None => live' # None /\ live'.of = live.of))

\* No activity is about to write while nobody holds store_lock.
LEMMA WritersLock ==
  ASSUME ComparedKnown, lock = None
  PROVE  \A j \in Jobs : ~Writing(j)
BY NamesAssumption DEF ComparedKnown, Jobs

\* Each step of a refresh keeps what is known of who is about to write auth.json.
LEMMA RefreshCompared ==
  ASSUME TypeOK, ComparedKnown, NEW t \in Refreshes, RefreshStep(t)
  PROVE  ComparedKnown'
<1> USE DEF pool, codex, held, issuer, bounds, history
<1>j. t \in Jobs
  BY DEF Jobs
<1>s. ComparedStays => ComparedKnown'
  BY DEF ComparedStays, ComparedKnown, LiveIs, Writing
<1>u. Uncompared => ComparedKnown'
  BY DEF Uncompared, ComparedKnown
<1>1. CASE \E a \in Accounts : RefreshSnapshot(t, a)
  BY <1>1, <1>j, <1>u, WritersLock DEF RefreshSnapshot, Uncompared, Writing, TypeOK
<1>w. job[t] # None => job[t] \in Work
  BY <1>j, WorkFields
<1>3. CASE RefreshReadLive(t)
  BY <1>3, <1>j, <1>w, <1>s DEF RefreshReadLive, ComparedStays, Writing, TypeOK, Work
<1>4. CASE RefreshRenew(t)
  BY <1>4, <1>j, <1>w, <1>s DEF RefreshRenew, ComparedStays, Writing, TypeOK, Work
<1>5. CASE RefreshRenewLost(t)
  BY <1>5, <1>j, <1>w, <1>s DEF RefreshRenewLost, ComparedStays, Writing, TypeOK, Work
<1>6. CASE \E failed \in {"no", "yes", "deactivated"} : RefreshAnswer(t, failed)
  BY <1>6, <1>j, <1>w, <1>s DEF RefreshAnswer, ComparedStays, Writing, TypeOK, Work
<1>7. CASE RefreshMerge(t)
  BY <1>7, <1>j, <1>w, <1>u, WritersLock DEF RefreshMerge, Uncompared, Writing, TypeOK, Work
<1>8. CASE RefreshDropped(t)
  BY <1>8, <1>j, <1>u, WritersLock DEF RefreshDropped, Uncompared, Writing, TypeOK
<1>9. CASE RefreshCompares(t)
  <2>1. \A j \in Jobs : Writing(j)' => j = t
    BY <1>9, <1>j, <1>w DEF RefreshCompares, ComparedKnown, Writing, TypeOK
  <2>2. CASE ~MayReplace(job[t])
    BY <1>9, <1>j, <2>1, <2>2 DEF RefreshCompares, ComparedKnown, Writing, TypeOK
  <2>3. CASE MayReplace(job[t])
    <3>1. /\ job' = [job EXCEPT ![t].pc = "writing"] /\ compared' = live /\ lock' = t
          /\ live' = live /\ LiveIs(job[t].of)
          /\ RenewalReplaces(job[t].got, job[t].from, live.gen)
      BY <1>9, <2>3 DEF RefreshCompares, MayReplace
    <3>2. job'[t].of = job[t].of /\ job'[t].got = job[t].got /\ job'[t].from = job[t].from
      BY <1>9, <1>j, <1>w, <3>1 DEF RefreshCompares, TypeOK, Work
    <3> QED
      BY <2>1, <3>1, <3>2 DEF ComparedKnown, LiveIs
  <2> QED
    BY <2>2, <2>3
<1>10. CASE RefreshWriteLive(t)
  <2>1. \A j \in Jobs : ~Writing(j)'
    BY <1>10, <1>j DEF RefreshWriteLive, ComparedKnown, Writing, TypeOK
  <2> QED
    BY <1>u, <2>1 DEF Uncompared
<1> QED
  BY <1>1, <1>3, <1>4, <1>5, <1>6, <1>7, <1>8, <1>9, <1>10 DEF RefreshStep

\* So does each step of a proxy attempt.
LEMMA AttemptCompared ==
  ASSUME TypeOK, ComparedKnown, NEW q \in Attempts, AttemptStep(q)
  PROVE  ComparedKnown'
<1> USE DEF pool, codex, held, issuer, bounds, history
<1>j. q \in Jobs
  BY DEF Jobs
<1>s. ComparedStays => ComparedKnown'
  BY DEF ComparedStays, ComparedKnown, LiveIs, Writing
<1>u. Uncompared => ComparedKnown'
  BY DEF Uncompared, ComparedKnown
<1>w. job[q] # None => job[q] \in Work
  BY <1>j, WorkFields
<1>1. CASE \E a \in Accounts : AttemptLoad(q, a)
  BY <1>1, <1>j, <1>u, WritersLock DEF AttemptLoad, Uncompared, Writing, TypeOK
<1>2. CASE AttemptRenew(q)
  BY <1>2, <1>j, <1>w, <1>s DEF AttemptRenew, ComparedStays, Writing, TypeOK, Work
<1>3. CASE AttemptRenewLost(q)
  BY <1>3, <1>j, <1>w, <1>s DEF AttemptRenewLost, ComparedStays, Writing, TypeOK, Work
<1>4. CASE AttemptPersist(q)
  BY <1>4, <1>j, <1>w, <1>u, WritersLock DEF AttemptPersist, Uncompared, Writing, TypeOK, Work
<1>5. CASE AttemptSelect(q) \/ AttemptSelectFails(q) \/ AttemptEnd(q)
  BY <1>5, <1>j, <1>u, WritersLock
     DEF AttemptSelect, AttemptSelectFails, AttemptEnd, AttemptReady, Uncompared, Writing, TypeOK
<1>6. CASE AttemptCompares(q)
  <2>1. \A j \in Jobs : Writing(j)' => j = q
    BY <1>6, <1>j, <1>w DEF AttemptCompares, ComparedKnown, Writing, TypeOK
  <2>2. CASE job' = [job EXCEPT ![q].pc = "usable"]
    <3>1. ~Writing(q)'
      BY <1>6, <1>j, <1>w, <2>2 DEF AttemptCompares, Writing, TypeOK, Work
    <3> QED
      BY <1>u, <2>1, <3>1 DEF Uncompared
  <2>3. CASE MayReplace(job[q]) /\ job' = [job EXCEPT ![q].pc = "writing"]
             /\ compared' = live /\ lock' = lock
    <3>1. /\ lock' = q /\ live' = live /\ LiveIs(job[q].of)
          /\ RenewalReplaces(job[q].got, job[q].from, live.gen)
      BY <1>6, <2>3 DEF AttemptCompares, MayReplace
    <3>2. job'[q].of = job[q].of /\ job'[q].got = job[q].got /\ job'[q].from = job[q].from
      BY <1>6, <1>j, <1>w, <2>3 DEF AttemptCompares, TypeOK, Work
    <3> QED
      BY <2>1, <2>3, <3>1, <3>2 DEF ComparedKnown, LiveIs
  <2> QED
    BY <1>6, <2>2, <2>3 DEF AttemptCompares
<1>7. CASE AttemptSync(q)
  <2>1. \A j \in Jobs : ~Writing(j)'
    BY <1>7, <1>j, <1>w DEF AttemptSync, ComparedKnown, Writing, TypeOK, Work
  <2> QED
    BY <1>u, <2>1 DEF Uncompared
<1> QED
  BY <1>1, <1>2, <1>3, <1>4, <1>5, <1>6, <1>7 DEF AttemptStep

\* A step that is no activity's leaves what an activity is about to write, and only
\* Codex changes auth.json while one is.
LEMMA OtherCompared ==
  ASSUME TypeOK, ComparedKnown, Next,
         \A t \in Refreshes : ~RefreshStep(t), \A q \in Attempts : ~AttemptStep(q)
  PROVE  ComparedKnown'
<1> USE DEF pool, codex, held, issuer, bounds, history
<1>s. ComparedStays => ComparedKnown'
  BY DEF ComparedStays, ComparedKnown, LiveIs, Writing
<1>u. Uncompared => ComparedKnown'
  BY DEF Uncompared, ComparedKnown
<1>1. ASSUME lock = None, UNCHANGED job PROVE ComparedKnown'
  BY <1>1, <1>u, WritersLock DEF Uncompared, Writing
<1>2. ASSUME NEW j \in Jobs, SaveFails(j) PROVE ComparedKnown'
  BY <1>2, <1>u, WritersLock DEF SaveFails, Uncompared, Writing, TypeOK
<1>3. CASE ImportStep
  <2>1. ASSUME NEW a, NEW gen, NEW defer, Imported(a, gen, defer) PROVE ComparedKnown'
    BY <1>1, <2>1 DEF Imported
  <2> QED
    BY <1>3, <2>1 DEF ImportStep, ImportCurrent, ImportSignIn, ImportFile
<1>4. ASSUME Crashes PROVE ComparedKnown'
  BY <1>4, <1>u DEF Crashes, Uncompared, Writing
<1>5. ASSUME NEW a \in Accounts, CommandStep(a) PROVE ComparedKnown'
  <2>1. CASE CodexSignsIn(a)
    BY <2>1, <1>s DEF CodexSignsIn, ComparedStays, Writing
  <2>2. CASE CrashInSwitch(a)
    BY <2>2, <1>4 DEF CrashInSwitch
  <2>3. CASE ~CodexSignsIn(a) /\ ~CrashInSwitch(a)
    BY <1>1, <1>5, <2>3
       DEF CommandStep, SwitchAccount, SwitchFails, Release, DeleteAccount, SetRenewal
  <2> QED
    BY <2>1, <2>2, <2>3
<1>6. CASE SwitchProvider
  BY <1>6, <1>s DEF SwitchProvider, ComparedStays, Writing, TypeOK
<1>7. CASE Reconcile
  BY <1>1, <1>7 DEF Reconcile
<1>8. CASE CodexRenews
  <2>1. live' # None /\ live'.of = live.of
    <3>1. live \in Login /\ live' = [live EXCEPT !.gen = issued'[live.of]]
      BY <1>8 DEF CodexRenews, TypeOK
    <3>2. live.of \in Accounts /\ live.gen \in Gen /\ Exchange(live.of, live.gen)
      BY <1>8, <3>1 DEF CodexRenews, Login
    <3>3. live' \in Login /\ live'.of = live.of
      BY <3>1, <3>2, ExchangeType DEF Login
    <3> QED
      BY <3>3, NoneAssumption
  <2> QED
    BY <1>8, <2>1, <1>s DEF CodexRenews, ComparedStays, Writing, TypeOK
<1>9. CASE CodexSignsOut
  BY <1>9, <1>s DEF CodexSignsOut, ComparedStays, Writing
<1>10. CASE Crash
  BY <1>10, <1>4 DEF Crash
<1> QED
  BY <1>2, <1>3, <1>5, <1>6, <1>7, <1>8, <1>9, <1>10 DEF Next

\* Whoever is about to write auth.json holds store_lock and compared what it read there.
THEOREM ComparedHolds == Spec => []ComparedKnown
<1>1. Init => ComparedKnown
  BY DEF Init, ComparedKnown, Writing
<1>2. TypeOK /\ ComparedKnown /\ [Next]_vars => ComparedKnown'
  <2> SUFFICES ASSUME TypeOK, ComparedKnown, [Next]_vars PROVE ComparedKnown'
    OBVIOUS
  <2>1. CASE UNCHANGED vars
    BY <2>1 DEF vars, ComparedKnown, Writing, LiveIs
  <2> QED
    BY <2>1, RefreshCompared, AttemptCompared, OtherCompared
<1> QED
  BY <1>1, <1>2, TypeCorrect, PTL DEF Spec

\* A renewed login written over the one compared is newer than it, and of its account.
LEMMA RenewedOnward ==
  ASSUME TypeOK, Inductive, ComparedKnown, NEW j \in Jobs, Writing(j),
         WriteRenewed(job[j]), live' # live, live = compared
  PROVE  Onwards
<1>1. /\ live # None /\ live.of = job[j].of
      /\ RenewalReplaces(job[j].got, job[j].from, live.gen)
      /\ live' = [of |-> job[j].of, gen |-> job[j].got]
  BY DEF ComparedKnown, WriteRenewed
<1>2. live \in Login /\ live = [of |-> live.of, gen |-> live.gen]
  BY <1>1 DEF TypeOK, Login
<1>3. job[j].got # live.gen
  BY <1>1, <1>2
<1>4. job[j].got > live.gen
  BY <1>1, <1>3, AtWork, Numbers DEF RenewalReplaces, NewerLogin, Counted, Writing
<1>5. live' \in Login
  BY <1>1, AtWork DEF Login, Work, Writing
<1> QED
  BY <1>1, <1>4, <1>5, NoneAssumption DEF Onwards

\* No answer moves auth.json to another account or an older login, nor gives it one,
\* unless Codex changed it between the answer's reading and writing of it.
THEOREM NoStrayLiveLogin == Spec => RenewalNeverMovesLive
<1> USE DEF pool, codex, held, issuer, bounds, history
<1> DEFINE Chosen == \/ \E a \in Accounts : SwitchAccount(a) \/ CrashInSwitch(a) \/ CodexSignsIn(a)
                     \/ \E q \in Attempts : AttemptSelect(q) \/ AttemptSelectFails(q)
                     \/ CodexSignsOut
           Raced == \E j \in Jobs : WritesLive(j) /\ live # compared
           A == live' # live => Onwards \/ Chosen \/ Raced
<1>1. IInv /\ ComparedKnown /\ [Next]_vars => [A]_vars
  <2> SUFFICES ASSUME IInv, ComparedKnown, Next, live' # live, ~Chosen, ~Raced
               PROVE  Onwards
    OBVIOUS
  <2>0. TypeOK /\ Inductive /\ Counted
    BY Numbers DEF IInv, Inductive
  <2>1. ASSUME NEW j \in Jobs, Writing(j), WriteRenewed(job[j]), job'[j] # job[j]
        PROVE  Onwards
    BY <2>0, <2>1, RenewedOnward DEF WritesLive
  <2>2. ASSUME NEW t \in Refreshes, RefreshStep(t) PROVE Onwards
    <3>1. RefreshWriteLive(t)
      BY <2>2 DEF RefreshStep, RefreshSnapshot, RefreshReadLive, RefreshRenew,
           RefreshRenewLost, RefreshAnswer, RefreshMerge, RefreshDropped, RefreshCompares
    <3>2. t \in Jobs /\ Writing(t) /\ job'[t] # job[t]
      BY <2>0, <3>1 DEF RefreshWriteLive, Jobs, Writing, TypeOK
    <3> QED
      BY <2>1, <3>1, <3>2 DEF RefreshWriteLive
  <2>3. ASSUME NEW q \in Attempts, AttemptStep(q) PROVE Onwards
    <3>1. AttemptSync(q)
      BY <2>3 DEF AttemptStep, AttemptLoad, AttemptRenew, AttemptRenewLost,
           AttemptPersist, AttemptEnd, AttemptCompares
    <3>2. q \in Jobs /\ Writing(q)
      BY <3>1 DEF AttemptSync, Jobs, Writing
    <3>3. job[q] \in Work
      BY <2>0, <3>2, WorkFields DEF Writing
    <3>4. job'[q] # job[q]
      BY <2>0, <3>1, <3>2, <3>3 DEF AttemptSync, Writing, TypeOK, Work
    <3> QED
      BY <2>1, <3>1, <3>2, <3>4 DEF AttemptSync
  <2>4. CASE ImportStep
    BY <2>4 DEF ImportStep, ImportCurrent, ImportSignIn, ImportFile, Imported
  <2>5. ASSUME NEW a \in Accounts, CommandStep(a) PROVE Onwards
    BY <2>5 DEF CommandStep, SwitchFails, Release, DeleteAccount, SetRenewal
  <2>6. CASE CodexRenews
    <3>1. live \in Login /\ live # None
      BY <2>0, <2>6 DEF CodexRenews, TypeOK
    <3>2. issued'[live.of] = issued[live.of] + 1
      BY <2>0, <2>6, <3>1 DEF CodexRenews, Exchange, TypeOK, Login
    <3>3. live'.of = live.of /\ live'.gen = issued'[live.of] /\ live' \in Login
      <4>1. live.of \in Accounts /\ live.gen \in Gen /\ Exchange(live.of, live.gen)
        BY <2>6, <3>1 DEF CodexRenews, Login
      <4>2. issued'[live.of] \in Gen
        BY <2>0, <4>1, ExchangeType
      <4> QED
        BY <2>6, <3>1, <4>2 DEF CodexRenews, Login
    <3>4. live' # None
      BY <3>3, NoneAssumption
    <3> QED
      BY <2>0, <3>1, <3>2, <3>3, <3>4 DEF Counted, Inductive, Issued, Login, Onwards
  <2>7. CASE SwitchProvider \/ Reconcile \/ Crash \/ \E j \in Jobs : SaveFails(j)
    BY <2>7 DEF SwitchProvider, Reconcile, Crash, SaveFails
  <2> QED
    BY <2>2, <2>3, <2>4, <2>5, <2>6, <2>7 DEF Next
<1> QED
  BY <1>1, InvariantHolds, ComparedHolds, PTL DEF Spec, RenewalNeverMovesLive

-----------------------------------------------------------------------------
(* The selection.                                                          *)

\* Steps that leave the selection, what Codex did outside and a torn switch as they
\* were, and the account in auth.json.
SelectionStays ==
  /\ selected' = selected
  /\ live' # None => live # None /\ live'.of = live.of
  /\ outside => outside'
  /\ torn => torn'

\* An activity writes to auth.json a login of the account there, unless Codex changed it.
LEMMA RenewedStays ==
  ASSUME ComparedKnown, NEW j \in Jobs, Writing(j), WriteRenewed(job[j]),
         UNCHANGED <<selected, history>>
  PROVE  SelectionStays \/ SelectionFollowsLive'
BY DEF WriteRenewed, ComparedKnown, LiveIs, SelectionStays, SelectionFollowsLive, history

LEMMA RefreshSelection ==
  ASSUME ComparedKnown, NEW t \in Refreshes, RefreshStep(t)
  PROVE  SelectionStays \/ SelectionFollowsLive'
<1> USE DEF pool, codex, held, history
<1>1. CASE RefreshWriteLive(t)
  BY <1>1, RenewedStays DEF RefreshWriteLive, Writing, Jobs
<1> USE DEF SelectionStays
<1>2. CASE \E a \in Accounts : RefreshSnapshot(t, a) BY <1>2 DEF RefreshSnapshot
<1>3. CASE RefreshReadLive(t) BY <1>3 DEF RefreshReadLive
<1>4. CASE RefreshRenew(t) \/ RefreshRenewLost(t) BY <1>4 DEF RefreshRenew, RefreshRenewLost
<1>5. CASE \E failed \in {"no", "yes", "deactivated"} : RefreshAnswer(t, failed)
  BY <1>5 DEF RefreshAnswer
<1>6. CASE RefreshMerge(t) \/ RefreshDropped(t) \/ RefreshCompares(t)
  BY <1>6 DEF RefreshMerge, RefreshDropped, RefreshCompares
<1> QED BY <1>1, <1>2, <1>3, <1>4, <1>5, <1>6 DEF RefreshStep

LEMMA AttemptSelection ==
  ASSUME ComparedKnown, NEW q \in Attempts, AttemptStep(q)
  PROVE  SelectionStays \/ SelectionFollowsLive'
<1> USE DEF pool, codex, held, history
<1>1. CASE AttemptSync(q)
  BY <1>1, RenewedStays DEF AttemptSync, Writing, Jobs
<1> USE DEF SelectionStays
<1>2. CASE AttemptSelect(q) BY <1>2 DEF AttemptSelect, SelectionFollowsLive
<1>3. CASE AttemptSelectFails(q) BY <1>3 DEF AttemptSelectFails, SelectionFollowsLive
<1>4. CASE ~AttemptSync(q) /\ ~AttemptSelect(q) /\ ~AttemptSelectFails(q)
  BY <1>4
  DEF AttemptStep, AttemptLoad, AttemptRenew, AttemptRenewLost, AttemptPersist, AttemptEnd,
      AttemptCompares
<1> QED BY <1>1, <1>2, <1>3, <1>4

LEMMA CommandSelection ==
  ASSUME TypeOK, NEW a \in Accounts, CommandStep(a)
  PROVE  SelectionStays \/ SelectionFollowsLive'
<1> USE DEF pool, codex, held, history, SelectionStays
<1>1. CASE SwitchAccount(a) BY <1>1 DEF SwitchAccount, SelectionFollowsLive
<1>2. CASE SwitchFails(a) BY <1>2 DEF SwitchFails
<1>3. CASE Release(a) \/ DeleteAccount(a) \/ \E choice \in Choices : SetRenewal(a, choice)
  BY <1>3 DEF Release, DeleteAccount, SetRenewal
<1>4. CASE CodexSignsIn(a) BY <1>4 DEF CodexSignsIn, SelectionFollowsLive
<1>5. CASE CrashInSwitch(a) BY <1>5 DEF CrashInSwitch, Crashes, SelectionFollowsLive
<1> QED BY <1>1, <1>2, <1>3, <1>4, <1>5 DEF CommandStep

\* currentAccountId and auth.json name one account, whoever switches, renews, imports and
\* removes, until Codex changes account itself or a switch is torn between the two files
\* (application.rs, proxy_integration.rs).
THEOREM SelectionIsLive == Spec => []SelectionFollowsLive
<1>1. Init => SelectionFollowsLive BY DEF Init, SelectionFollowsLive
<1>2. TypeOK /\ ComparedKnown /\ SelectionFollowsLive /\ [Next]_vars => SelectionFollowsLive'
  <2> SUFFICES ASSUME TypeOK, ComparedKnown, SelectionFollowsLive, [Next]_vars
               PROVE  SelectionFollowsLive'
    OBVIOUS
  <2> USE DEF pool, codex, held, history
  <2>1. SelectionStays => SelectionFollowsLive'
    BY DEF SelectionStays, SelectionFollowsLive, TypeOK
  <2>2. ASSUME NEW t \in Refreshes, RefreshStep(t) PROVE SelectionFollowsLive'
    BY <2>1, <2>2, RefreshSelection
  <2>3. ASSUME NEW q \in Attempts, AttemptStep(q) PROVE SelectionFollowsLive'
    BY <2>1, <2>3, AttemptSelection
  <2>4. ASSUME NEW j \in Jobs, SaveFails(j) PROVE SelectionFollowsLive'
    BY <2>1, <2>4 DEF SaveFails, SelectionStays
  <2>5. CASE ImportStep
    <3>1. ASSUME NEW a, NEW gen, NEW defer, Imported(a, gen, defer) PROVE SelectionStays
      BY <3>1 DEF Imported, SelectionStays
    <3> QED BY <2>1, <2>5, <3>1 DEF ImportStep, ImportCurrent, ImportSignIn, ImportFile
  <2>6. ASSUME NEW a \in Accounts, CommandStep(a) PROVE SelectionFollowsLive'
    BY <2>1, <2>6, CommandSelection
  <2>7. CASE SwitchProvider \/ CodexSignsOut
    BY <2>1, <2>7 DEF SwitchProvider, CodexSignsOut, SelectionStays
  <2>8. CASE Reconcile
    BY <2>8 DEF Reconcile, SelectionOfLive, SelectionFollowsLive
  <2>9. CASE CodexRenews BY <2>1, <2>9 DEF CodexRenews, SelectionStays, TypeOK, Login
  <2>10. CASE Crash BY <2>1, <2>10 DEF Crash, Crashes, SelectionStays
  <2>11. CASE UNCHANGED vars BY <2>1, <2>11 DEF vars, SelectionStays
  <2> QED
    BY <2>2, <2>3, <2>4, <2>5, <2>6, <2>7, <2>8, <2>9, <2>10, <2>11 DEF Next
<1> QED BY <1>1, <1>2, TypeCorrect, ComparedHolds, PTL DEF Spec
=============================================================================
