-------------------------- MODULE RemoteSyncProofs --------------------------
(***************************************************************************)
(* What RemoteSync promises, for every pool, any number of uploads at once *)
(* and of tasks of the daemon, and all values of the bounds: the pool goes *)
(* back to an older login only by an import, an upload that passes the     *)
(* check has merged what it replaces, and the newest stored login is not   *)
(* lost but in the two ways NewestKept names.                              *)
(***************************************************************************)
EXTENDS RemoteSync, TLAPS

\* The logins of a file are always a function on the accounts.
LEMMA LoginsType ==
  ASSUME NEW file \in Files
  PROVE  LoginsOf(file) \in Logins
<1>1. CASE file = None
  BY <1>1, SyncBounds DEF LoginsOf, Logins, Gen
<1>2. CASE file # None
  BY <1>2 DEF LoginsOf, Files, File
<1> QED BY <1>1, <1>2

\* Adopting newer logins gives each account the newer one, and adds none.
LEMMA Adopted ==
  ASSUME NEW logins \in Logins, NEW file \in Files
  PROVE  /\ AdoptNewer(logins, file) \in Logins
         /\ \A a \in Accounts :
              /\ AdoptNewer(logins, file)[a] >= logins[a]
              /\ AdoptNewer(logins, file)[a] # 0 => logins[a] # 0
              /\ AdoptNewer(logins, file)[a] # 0
                   => AdoptNewer(logins, file)[a] >= LoginsOf(file)[a]
              /\ \/ AdoptNewer(logins, file)[a] = logins[a]
                 \/ AdoptNewer(logins, file)[a] = LoginsOf(file)[a]
  BY LoginsType DEF AdoptNewer, NewerLogin, Logins, Gen

\* An exchange gives out the next generation, within the bound.
LEMMA ExchangeType ==
  ASSUME TypeOK, NEW a \in Accounts, NEW g \in Gen, Exchange(a, g)
  PROVE  /\ issued' \in Logins /\ spent' \in [Accounts -> SUBSET Gen]
         /\ issued'[a] = issued[a] + 1
         /\ \A b \in Accounts : issued'[b] >= issued[b]
  BY SyncBounds DEF TypeOK, Exchange, Logins, Gen

LEMMA SyncFields ==
  ASSUME TypeOK, NEW s \in Syncs, sync[s] # None
  PROVE  /\ sync[s] \in Sync
         /\ sync[s].snap \in Files /\ sync[s].payload \in Files
  BY DEF TypeOK, Sync

LEMMA TaskFields ==
  ASSUME TypeOK, NEW t \in Tasks, task[t] # None
  PROVE  /\ task[t] \in Work /\ task[t].of \in Accounts
         /\ task[t].from \in Gen /\ task[t].got \in Gen /\ task[t].file \in Files
  BY DEF TypeOK, Work

-----------------------------------------------------------------------------
(* Type correctness.                                                       *)

LEMMA SyncType ==
  ASSUME TypeOK, setBack' \subseteq Accounts, NEW s \in Syncs,
         SyncStep(s) \/ Lost(s) \/ \E deploy \in BOOLEAN : Start(s, deploy)
  PROVE  TypeOK'
<1> USE DEF server, issuer, bounds
<1>1. ASSUME NEW deploy \in BOOLEAN, Start(s, deploy) PROVE TypeOK'
  <2> DEFINE w == [pc |-> "snapshot", deploy |-> deploy, restart |-> ~deploy /\ running,
                   attempt |-> 1, snap |-> None, payload |-> None]
  <2>1. 1 \in 1..MaxAttempts /\ None \in Files
    BY SyncBounds DEF Files
  <2>2. w \in Sync
    BY <2>1 DEF Sync, TypeOK
  <2>3. sync' \in [Syncs -> Sync \cup {None}]
    BY <1>1, <2>2 DEF Start, TypeOK
  <2> QED BY <1>1, <2>3 DEF Start, TypeOK
<1>2. CASE Snapshot(s)
  <2>1. sync[s] \in Sync /\ remote \in Files
    BY <1>2, SyncFields DEF Snapshot, TypeOK
  <2>2. [sync[s] EXCEPT !.pc = "snapped", !.snap = remote] \in Sync
    BY <2>1 DEF Sync
  <2>3. sync' \in [Syncs -> Sync \cup {None}]
    BY <1>2, <2>2 DEF Snapshot, TypeOK
  <2> QED BY <1>2, <2>3 DEF Snapshot, TypeOK
<1>3. CASE Adopt(s)
  <2>1. local' \in Logins
    BY <1>3, Adopted, SyncFields DEF Adopt, TypeOK
  <2>2. sync' \in [Syncs -> Sync \cup {None}]
    BY <1>3, SyncFields DEF Adopt, TypeOK, Sync
  <2> QED BY <1>3, <2>1, <2>2 DEF Adopt, TypeOK
<1>4. CASE Upload(s)
  <2> DEFINE w == sync[s]
  <2>1. w \in Sync /\ Payload(w.snap) \in Files
    BY <1>4, Adopted, SyncFields DEF Upload, Payload, TypeOK, Files, File
  <2>2. [w EXCEPT !.pc = "uploaded", !.payload = Payload(w.snap)] \in Sync
    BY <2>1 DEF Sync
  <2>3. sync' \in [Syncs -> Sync \cup {None}]
    BY <1>4, <2>2 DEF Upload, TypeOK
  <2> QED BY <1>4, <2>3 DEF Upload, TypeOK
<1>5. CASE Check(s)
  <2>1. sync[s] \in Sync
    BY <1>5, SyncFields DEF Check
  <2>2. [sync[s] EXCEPT !.pc = "checked"] \in Sync
    BY <2>1 DEF Sync
  <2>3. MayRetry(sync[s]) => Retry(sync[s]) \in Sync
    <3>1. SUFFICES ASSUME MayRetry(sync[s]) PROVE Retry(sync[s]) \in Sync
      OBVIOUS
    <3>2. sync[s].attempt + 1 \in 1..MaxAttempts
      BY <2>1, <3>1, SyncBounds DEF MayRetry, Sync
    <3> QED BY <2>1, <3>2 DEF Retry, Sync
  <2>4. sync' \in [Syncs -> Sync \cup {None}]
    BY <1>5, <2>2, <2>3 DEF Check, TypeOK
  <2> QED BY <1>5, <2>4 DEF Check, TypeOK
<1>6. CASE Move(s)
  <2>1. sync[s] \in Sync /\ sync[s].payload \in Files
    BY <1>6, SyncFields DEF Move
  <2>2. sync' \in [Syncs -> Sync \cup {None}]
    BY <1>6, <2>1 DEF Move, TypeOK, Sync
  <2>3. installed' \in BOOLEAN
    BY <1>6, <2>1 DEF Move, TypeOK, Sync
  <2> QED BY <1>6, <2>1, <2>2, <2>3 DEF Move, TypeOK
<1>7. CASE Restart(s)
  BY <1>7 DEF Restart, TypeOK
<1>8. CASE Lost(s)
  BY <1>8 DEF Lost, TypeOK
<1> QED BY <1>1, <1>2, <1>3, <1>4, <1>5, <1>6, <1>7, <1>8 DEF SyncStep

LEMMA TaskType ==
  ASSUME TypeOK, setBack' \subseteq Accounts, NEW t \in Tasks, TaskStep(t)
  PROVE  TypeOK'
<1> USE DEF issuer, bounds
<1>1. ASSUME NEW a \in Accounts, Candidate(t, a) PROVE TypeOK'
  <2>1. LoginsOf(remote)[a] \in Gen
    BY LoginsType DEF TypeOK, Logins
  <2> QED BY <1>1, <2>1 DEF Candidate, TypeOK, Work, Files
<1>2. ASSUME NEW a \in Accounts, LoadUsage(t, a) PROVE TypeOK'
  <2>1. LoginsOf(remote)[a] \in Gen
    BY LoginsType DEF TypeOK, Logins
  <2>2. remote \in File
    BY <1>2 DEF LoadUsage, LoginsOf, TypeOK, Files
  <2>3. [remote EXCEPT !.usage = ~@] \in Files
    BY <2>2 DEF File, Files
  <2> QED BY <1>2, <2>1, <2>3 DEF LoadUsage, TypeOK, Work
<1>3. CASE Renew(t)
  <2>1. task[t] \in Work /\ task[t].of \in Accounts /\ task[t].from \in Gen
    BY <1>3, TaskFields DEF Renew
  <2>2. issued' \in Logins /\ spent' \in [Accounts -> SUBSET Gen]
    BY <1>3, <2>1, ExchangeType DEF Renew
  <2>3. issued'[task[t].of] \in Gen
    BY <2>1, <2>2 DEF Logins
  <2>4. task' \in [Tasks -> Work \cup {None}]
    BY <1>3, <2>1, <2>3 DEF Renew, TypeOK, Work
  <2> QED BY <1>3, <2>2, <2>4 DEF Renew, TypeOK
<1>4. CASE Served(t)
  BY <1>4 DEF Served, TypeOK
<1>5. CASE Load(t)
  <2> DEFINE w == task[t]
  <2>1. w \in Work /\ w.of \in Accounts /\ w.got \in Gen
    BY <1>5, TaskFields DEF Load
  <2>2. Replacing(w, remote) \in Files
    <3>1. CASE LoginsOf(remote)[w.of] = 0
      BY <3>1 DEF Replacing, TypeOK
    <3>2. CASE LoginsOf(remote)[w.of] # 0
      <4>1. remote \in File
        BY <2>1, <3>2 DEF LoginsOf, TypeOK, Files
      <4>2. [logins |-> [remote.logins EXCEPT ![w.of] = w.got], usage |-> ~remote.usage] \in File
        BY <2>1, <4>1 DEF File, Logins
      <4> QED BY <3>2, <4>2 DEF Replacing, Files
    <3> QED BY <3>1, <3>2
  <2>3. [w EXCEPT !.pc = "writing", !.file = Replacing(w, remote)] \in Work
    BY <2>1, <2>2 DEF Work
  <2>4. task' \in [Tasks -> Work \cup {None}]
    BY <1>5, <2>3 DEF Load, TypeOK
  <2> QED BY <1>5, <2>4 DEF Load, TypeOK
<1>6. CASE Save(t)
  BY <1>6, TaskFields DEF Save, Writing, TypeOK
<1> QED BY <1>1, <1>2, <1>3, <1>4, <1>5, <1>6 DEF TaskStep

LEMMA ImportType ==
  ASSUME TypeOK, NEW a \in Accounts, NEW gen \in Gen, ImportFile(a, gen),
         setBack' \subseteq Accounts
  PROVE  TypeOK'
<1> USE DEF server, issuer
<1>1. local' \in Logins
  BY DEF ImportFile, TypeOK, Logins
<1> QED BY <1>1, SyncBounds DEF ImportFile, TypeOK

LEMMA UserType ==
  ASSUME TypeOK, setBack' \subseteq Accounts,
         UnitStarts \/ UnitStops \/ DaemonCrashes \/ Uninstall
                 \/ \E a \in Accounts : LocalRenews(a) \/ LocalStores(a)
                                        \/ SignIn(a) \/ Remove(a)
  PROVE  TypeOK'
<1> USE DEF server, issuer, bounds
<1>1. CASE UnitStarts
  BY <1>1 DEF UnitStarts, TypeOK
<1>2. CASE UnitStops
  <2>1. Ended(FALSE) /\ UNCHANGED <<remote, installed>>
    BY <1>2 DEF UnitStops
  <2>2. stops' \in 0..MaxStops
    BY <2>1, SyncBounds DEF Ended, TypeOK
  <2> QED BY <2>1, <2>2 DEF Ended, TypeOK
<1>3. CASE DaemonCrashes
  <2>1. Ended(TRUE) /\ UNCHANGED <<remote, installed>>
    BY <1>3 DEF DaemonCrashes
  <2>2. stops' \in 0..MaxStops
    BY <2>1, SyncBounds DEF Ended, TypeOK
  <2> QED BY <2>1, <2>2 DEF Ended, TypeOK
<1>4. CASE Uninstall
  <2>1. stops' \in 0..MaxStops
    BY <1>4, SyncBounds DEF Uninstall, TypeOK
  <2>2. installed' \in BOOLEAN /\ running' \in BOOLEAN
    BY <1>4 DEF Uninstall
  <2> QED BY <1>4, <2>1, <2>2 DEF Uninstall, TypeOK, Files
<1>5. ASSUME NEW a \in Accounts, LocalRenews(a) PROVE TypeOK'
  <2>1. local[a] \in Gen
    BY DEF TypeOK, Logins
  <2>2. issued' \in Logins /\ spent' \in [Accounts -> SUBSET Gen]
    BY <1>5, <2>1, ExchangeType DEF LocalRenews
  <2>3. renewing' \in [Accounts -> Renewal \cup {None}]
    BY <1>5, <2>1, <2>2 DEF LocalRenews, TypeOK, Renewal, Logins
  <2> QED BY <1>5, <2>2, <2>3 DEF LocalRenews, TypeOK
<1>6. ASSUME NEW a \in Accounts, LocalStores(a) PROVE TypeOK'
  <2>1. renewing[a].got \in Gen
    BY <1>6 DEF LocalStores, TypeOK, Renewal
  <2>2. local' \in Logins
    BY <1>6, <2>1 DEF LocalStores, TypeOK, Logins
  <2> QED BY <1>6, <2>2 DEF LocalStores, TypeOK
<1>7. ASSUME NEW a \in Accounts, SignIn(a) PROVE TypeOK'
  <2>1. issued' \in Logins
    BY <1>7, SyncBounds DEF SignIn, TypeOK, Logins, Gen
  <2>2. local' \in Logins
    BY <1>7, <2>1 DEF SignIn, TypeOK, Logins
  <2> QED BY <1>7, <2>1, <2>2, SyncBounds DEF SignIn, TypeOK
<1>8. ASSUME NEW a \in Accounts, Remove(a) PROVE TypeOK'
  BY <1>8, SyncBounds DEF Remove, TypeOK, Logins, Gen
<1> QED BY <1>1, <1>2, <1>3, <1>4, <1>5, <1>6, <1>7, <1>8

LEMMA NextType == TypeOK /\ [Next]_vars => TypeOK'
<1> SUFFICES ASSUME TypeOK, [Next]_vars PROVE TypeOK'
  OBVIOUS
<1>1. CASE Step /\ Forgets
  <2>1. setBack' \subseteq Accounts
    BY <1>1 DEF Forgets, TypeOK
  <2> QED BY <1>1, <2>1, SyncType, TaskType, UserType DEF Step
<1>2. CASE UNCHANGED vars
  BY <1>2 DEF vars, TypeOK
<1>3. ASSUME NEW a \in Accounts, NEW gen \in Gen, ImportFile(a, gen),
             setBack' = IF AtWork /\ NewerLogin(issued[a], gen) THEN setBack \cup {a}
                        ELSE setBack
      PROVE  TypeOK'
  <2>1. setBack' \subseteq Accounts
    BY <1>3 DEF TypeOK
  <2> QED BY <1>3, <2>1, ImportType
<1> QED BY <1>1, <1>2, <1>3 DEF Next

-----------------------------------------------------------------------------
(* The invariant, one lemma per kind of step.                              *)

\* But for some accounts: those an import has set back.
Inductive(but) == Issued /\ Merged(but) /\ Saving(but)

\* Generations are numbers, here and in the next state.
LEMMA Numbers ==
  ASSUME TypeOK
  PROVE  \A a \in Accounts :
           /\ local[a] \in Nat /\ issued[a] \in Nat /\ LoginsOf(remote)[a] \in Nat
           /\ \A s \in Syncs : sync[s] # None =>
                LoginsOf(sync[s].snap)[a] \in Nat /\ LoginsOf(sync[s].payload)[a] \in Nat
           /\ \A t \in Tasks : task[t] # None =>
                LoginsOf(task[t].file)[a] \in Nat
  BY LoginsType, SyncFields, TaskFields DEF TypeOK, Logins, Gen

LEMMA LoginsOfFile ==
  ASSUME NEW file, file # None
  PROVE  LoginsOf(file) = file.logins
  BY DEF LoginsOf

LEMMA LoginsOfNone ==
  ASSUME NEW a \in Accounts
  PROVE  LoginsOf(None)[a] = 0
  BY DEF LoginsOf

\* What is known of an upload and an account in both states.
LEMMA UploadNumbers ==
  ASSUME TypeOK, NEW r \in Syncs, NEW a \in Accounts, sync[r] # None
  PROVE  /\ LoginsOf(sync[r].snap)[a] \in Nat
         /\ sync[r].payload # None => sync[r].payload.logins[a] \in Nat
  BY Numbers, LoginsOfFile

LEMMA SyncSafe ==
  ASSUME TypeOK, TypeOK', NEW X, Inductive(X), NEW s \in Syncs,
         SyncStep(s) \/ Lost(s) \/ \E deploy \in BOOLEAN : Start(s, deploy)
  PROVE  Inductive(X)'
<1> USE DEF server, issuer, bounds
<1>n. \A a \in Accounts : local[a] \in Nat /\ issued[a] \in Nat /\ LoginsOf(remote)[a] \in Nat
  BY Numbers
<1>1. ASSUME NEW deploy \in BOOLEAN, Start(s, deploy) PROVE Inductive(X)'
  <2>1. /\ sync[s] = None /\ \A r \in Syncs : r # s => sync'[r] = sync[r]
        /\ sync'[s].snap = None /\ sync'[s].payload = None
        /\ sync'[s].pc = "snapshot"
        /\ UNCHANGED <<local, renewing, remote, task, issued>>
    BY <1>1 DEF Start, TypeOK
  <2>2. Issued'
    BY <1>n, <2>1, LoginsOfNone DEF Inductive, Issued
  <2>3. Merged(X)'
    BY <2>1 DEF Inductive, Merged, PayloadKept, MergedFor
  <2>4. Saving(X)'
    BY <2>1 DEF Inductive, Saving, Writing
  <2> QED BY <2>2, <2>3, <2>4 DEF Inductive
<1>2. CASE Snapshot(s)
  <2>1. /\ sync[s] # None /\ \A r \in Syncs : r # s => sync'[r] = sync[r]
        /\ sync'[s].snap = remote /\ sync'[s].payload = sync[s].payload
        /\ sync'[s].pc = "snapped"
        /\ UNCHANGED <<local, renewing, remote, task, issued>>
    BY <1>2, SyncFields DEF Snapshot, TypeOK, Sync
  <2>2. Issued'
    BY <1>n, <2>1 DEF Inductive, Issued
  <2>3. Merged(X)'
    BY <2>1 DEF Inductive, Merged, PayloadKept, MergedFor
  <2>4. Saving(X)'
    BY <2>1 DEF Inductive, Saving, Writing
  <2> QED BY <2>2, <2>3, <2>4 DEF Inductive
<1>3. CASE Adopt(s)
  <2>1. /\ sync[s] # None /\ \A r \in Syncs : r # s => sync'[r] = sync[r]
        /\ sync'[s].snap = sync[s].snap /\ sync'[s].payload = sync[s].payload
        /\ sync'[s].pc = "adopted"
        /\ UNCHANGED <<renewing, remote, task, issued>>
        /\ local' = AdoptNewer(local, sync[s].snap)
    BY <1>3, SyncFields DEF Adopt, TypeOK, Sync
  <2>2. \A a \in Accounts :
          /\ local'[a] \in Nat /\ local'[a] >= local[a]
          /\ local'[a] # 0 => local[a] # 0 /\ local'[a] >= LoginsOf(sync[s].snap)[a]
          /\ local'[a] = local[a] \/ local'[a] = LoginsOf(sync[s].snap)[a]
    BY <2>1, Adopted, SyncFields DEF TypeOK, Logins, Gen
  <2>3. Issued'
    BY <2>1, <2>2 DEF Inductive, Issued
  <2>4. ASSUME NEW r \in Syncs, NEW a \in Accounts, r # s PROVE MergedFor(r, a, X)'
    BY <1>n, <2>1, <2>2, <2>4, UploadNumbers DEF Inductive, Merged, PayloadKept, MergedFor
  <2>5. ASSUME NEW a \in Accounts PROVE MergedFor(s, a, X)'
    BY <2>1, <2>2 DEF MergedFor
  <2>6. Saving(X)'
    BY <1>n, <2>1, <2>2 DEF Inductive, Saving, Writing
  <2>7. ASSUME NEW r \in Syncs PROVE PayloadKept(r)'
    BY <2>1 DEF Inductive, Merged, PayloadKept
  <2> QED BY <2>3, <2>4, <2>5, <2>6, <2>7 DEF Inductive, Merged
<1>4. CASE Upload(s)
  <2>1. CASE ~Usable(local)
    <3>1. /\ \A r \in Syncs : r # s => sync'[r] = sync[r]
          /\ sync'[s] = None
          /\ UNCHANGED <<local, renewing, remote, task, issued>>
      BY <1>4, <2>1 DEF Upload, TypeOK
    <3> QED BY <3>1 DEF Inductive, Issued, Merged, PayloadKept, MergedFor, Saving, Writing
  <2>2. CASE Usable(local)
    <3>1. /\ sync[s] # None /\ \A r \in Syncs : r # s => sync'[r] = sync[r]
          /\ sync[s].pc = "adopted" /\ sync'[s].pc = "uploaded"
          /\ sync'[s].snap = sync[s].snap
          /\ sync'[s].payload = Payload(sync[s].snap)
          /\ UNCHANGED <<local, renewing, remote, task, issued>>
      BY <1>4, <2>2, SyncFields DEF Upload, TypeOK, Sync
    <3>2. Payload(sync[s].snap) \in File /\ Payload(sync[s].snap) # None
      <4>1. local \in Logins /\ sync[s].snap \in Files
        BY <3>1, SyncFields DEF TypeOK
      <4>2. AdoptNewer(local, sync[s].snap) \in Logins
        BY <4>1, Adopted
      <4>3. Payload(sync[s].snap) \in File
        BY <4>2 DEF Payload, File
      <4> QED BY <4>3, SyncNone
    <3>3. \A a \in Accounts :
            /\ LoginsOf(Payload(sync[s].snap))[a] = AdoptNewer(local, sync[s].snap)[a]
            /\ Payload(sync[s].snap).logins[a] = AdoptNewer(local, sync[s].snap)[a]
      BY <3>2, LoginsOfFile DEF Payload
    <3>4. \A a \in Accounts :
            /\ AdoptNewer(local, sync[s].snap)[a] \in Nat
            /\ AdoptNewer(local, sync[s].snap)[a] # 0 =>
                 /\ local[a] # 0
                 /\ AdoptNewer(local, sync[s].snap)[a] >= LoginsOf(sync[s].snap)[a]
            /\ \/ AdoptNewer(local, sync[s].snap)[a] = local[a]
               \/ AdoptNewer(local, sync[s].snap)[a] = LoginsOf(sync[s].snap)[a]
      BY <3>1, Adopted, SyncFields DEF TypeOK, Logins, Gen
    <3>5. Issued'
      BY <1>n, <3>1, <3>3, <3>4 DEF Inductive, Issued
    <3>6. ASSUME NEW r \in Syncs, NEW a \in Accounts, r # s PROVE MergedFor(r, a, X)'
      BY <3>1, <3>6 DEF Inductive, Merged, PayloadKept, MergedFor
    <3>7. ASSUME NEW a \in Accounts PROVE MergedFor(s, a, X)'
      <4>1. local[a] # 0 /\ a \notin X => local[a] >= LoginsOf(sync[s].snap)[a]
        BY <3>1 DEF Inductive, Merged, PayloadKept, MergedFor
      <4> QED BY <1>n, <3>1, <3>2, <3>3, <3>4, <4>1, UploadNumbers DEF MergedFor
    <3>8. Saving(X)'
      BY <3>1 DEF Inductive, Saving, Writing
    <3>9. ASSUME NEW r \in Syncs PROVE PayloadKept(r)'
      BY <3>1, <3>2 DEF Inductive, Merged, PayloadKept
    <3> QED BY <3>5, <3>6, <3>7, <3>8, <3>9 DEF Inductive, Merged
  <2> QED BY <2>1, <2>2
<1>5. CASE Check(s)
  <2>1. /\ sync[s] # None /\ \A r \in Syncs : r # s => sync'[r] = sync[r]
        /\ sync[s].pc = "uploaded"
        /\ UNCHANGED <<local, renewing, remote, task, issued>>
        /\ \/ sync'[s] = None
           \/ /\ sync'[s].pc \in {"checked", "snapshot"}
              /\ sync'[s].snap = sync[s].snap /\ sync'[s].payload = sync[s].payload
    BY <1>5, SyncFields DEF Check, Retry, TypeOK, Sync
  <2>2. Issued'
    BY <2>1 DEF Inductive, Issued
  <2>3. Merged(X)'
    BY <2>1 DEF Inductive, Merged, PayloadKept, MergedFor
  <2>4. Saving(X)'
    BY <2>1 DEF Inductive, Saving, Writing
  <2> QED BY <2>2, <2>3, <2>4 DEF Inductive
<1>6. CASE Move(s)
  <2>1. /\ sync[s] # None /\ \A r \in Syncs : r # s => sync'[r] = sync[r]
        /\ sync[s].pc = "checked" /\ sync'[s].pc = "moved"
        /\ sync'[s].snap = sync[s].snap /\ sync'[s].payload = sync[s].payload
        /\ remote' = sync[s].payload
        /\ UNCHANGED <<local, renewing, task, issued>>
    BY <1>6, SyncFields DEF Move, TypeOK, Sync
  <2>2. /\ sync[s].payload # None
        /\ \A a \in Accounts : local[a] # 0 /\ a \notin X => local[a] >= LoginsOf(remote')[a]
    <3>1. sync[s].payload # None
      BY <2>1 DEF Inductive, Merged, PayloadKept
    <3>2. LoginsOf(remote') = sync[s].payload.logins
      BY <2>1, <3>1 DEF LoginsOf
    <3>3. ASSUME NEW a \in Accounts, local[a] # 0, a \notin X
          PROVE  local[a] >= sync[s].payload.logins[a]
      BY <2>1, <3>3 DEF Inductive, Merged, MergedFor
    <3> QED BY <3>1, <3>2, <3>3
  <2>3. Issued'
    BY <2>1 DEF Inductive, Issued
  <2>4. Merged(X)'
    BY <2>1 DEF Inductive, Merged, PayloadKept, MergedFor
  <2>5. Saving(X)'
    BY <2>1, <2>2 DEF Inductive, Saving, Writing
  <2> QED BY <2>3, <2>4, <2>5 DEF Inductive
<1>7. CASE Restart(s) \/ Lost(s)
  <2>1. /\ \A r \in Syncs : r # s => sync'[r] = sync[r]
        /\ sync'[s] = None
        /\ \A t \in Tasks : task'[t] # None => task'[t] = task[t]
        /\ UNCHANGED <<local, renewing, remote, issued>>
    BY <1>7 DEF Restart, Lost, TypeOK
  <2>2. Issued'
    BY <2>1 DEF Inductive, Issued
  <2>3. Merged(X)'
    BY <2>1 DEF Inductive, Merged, PayloadKept, MergedFor
  <2>4. Saving(X)'
    BY <2>1 DEF Inductive, Saving, Writing
  <2> QED BY <2>2, <2>3, <2>4 DEF Inductive
<1> QED BY <1>1, <1>2, <1>3, <1>4, <1>5, <1>6, <1>7 DEF SyncStep

LEMMA TaskSafe ==
  ASSUME TypeOK, TypeOK', NEW X, Inductive(X), NEW t \in Tasks, TaskStep(t)
  PROVE  Inductive(X)'
<1> USE DEF issuer, bounds
<1>n. /\ \A a \in Accounts :
           local[a] \in Nat /\ issued[a] \in Nat /\ LoginsOf(remote)[a] \in Nat
      /\ None \in Files
  BY Numbers DEF Files
<1>1. ASSUME NEW a \in Accounts, Candidate(t, a) PROVE Inductive(X)'
  <2>1. /\ \A u \in Tasks : u # t => task'[u] = task[u]
        /\ task'[t].pc = "asking" /\ task'[t].file = None
        /\ task'[t].of = a /\ task'[t].got = LoginsOf(remote)[a]
        /\ task'[t].from = LoginsOf(remote)[a]
        /\ UNCHANGED <<local, renewing, remote, sync, issued>>
    BY <1>1 DEF Candidate, TypeOK
  <2>2. remote # None
    BY <1>1, LoginsOfNone DEF Candidate
  <2>3. Issued'
    BY <1>n, <2>1, LoginsOfNone DEF Inductive, Issued
  <2>4. Merged(X)'
    BY <2>1 DEF Inductive, Merged, PayloadKept, MergedFor
  <2>5. Saving(X)'
    BY <2>1, <2>2 DEF Inductive, Saving, Writing
  <2> QED BY <2>3, <2>4, <2>5 DEF Inductive
<1>2. ASSUME NEW a \in Accounts, LoadUsage(t, a) PROVE Inductive(X)'
  <2>1. /\ \A u \in Tasks : u # t => task'[u] = task[u]
        /\ \A u \in Tasks : ~Writing(u)
        /\ task'[t].file = [remote EXCEPT !.usage = ~@]
        /\ task'[t].of = a /\ task'[t].got = LoginsOf(remote)[a]
        /\ task'[t].from = LoginsOf(remote)[a]
        /\ UNCHANGED <<local, renewing, remote, sync, issued>>
    BY <1>2 DEF LoadUsage, StoreFree, TypeOK
  <2>2. remote # None /\ remote \in File
    BY <1>2, LoginsOfNone DEF LoadUsage, TypeOK, Files
  <2>3. task'[t].file \in File /\ task'[t].file.logins = remote.logins
    BY <2>1, <2>2 DEF File
  <2>4. task'[t].file # None /\ LoginsOf(task'[t].file) = LoginsOf(remote)
    BY <2>2, <2>3, SyncNone DEF LoginsOf
  <2>5. Issued'
    BY <1>n, <2>1, <2>4 DEF Inductive, Issued
  <2>6. Merged(X)'
    BY <2>1 DEF Inductive, Merged, PayloadKept, MergedFor
  <2>7. \A b \in Accounts : task'[t].file.logins[b] = LoginsOf(remote)[b]
    BY <2>2, <2>3 DEF LoginsOf
  <2>8. Saving(X)'
    <3>1. \A u \in Tasks : u # t => ~Writing(u)'
      BY <2>1 DEF Writing
    <3>2. \A u \in Tasks : Writing(u)' => u = t
      BY <3>1
    <3>3. \A b \in Accounts : task'[t].file.logins[b] >= LoginsOf(remote')[b]
      BY <1>n, <2>1, <2>7
    <3> QED BY <2>1, <2>2, <2>4, <3>2, <3>3 DEF Saving
  <2> QED BY <2>5, <2>6, <2>8 DEF Inductive
<1>3. CASE Renew(t)
  <2> DEFINE w == task[t]
  <2>1. w # None /\ w.of \in Accounts /\ w.from \in Gen /\ Exchange(w.of, w.from)
    BY <1>3, TaskFields DEF Renew
  <2>2. /\ issued'[w.of] = issued[w.of] + 1
        /\ \A b \in Accounts : issued'[b] >= issued[b] /\ issued'[b] \in Nat
    BY <2>1, ExchangeType DEF TypeOK, Logins, Gen
  <2>3. /\ \A u \in Tasks : u # t => task'[u] = task[u]
        /\ task'[t].pc = "renewed" /\ task'[t].file = w.file
        /\ task'[t].of = w.of /\ task'[t].from = w.from
        /\ task'[t].got = issued'[w.of]
        /\ UNCHANGED <<local, renewing, remote, sync>>
    BY <1>3, <2>1, TaskFields DEF Renew, TypeOK, Work
  <2>4. w.from <= issued[w.of] /\ w.got \in Nat /\ w.from \in Nat
    BY <1>n, <2>1, TaskFields DEF Inductive, Issued, Gen
  <2>5. Issued'
    <3>1. ASSUME NEW a \in Accounts
          PROVE  /\ local[a] <= issued'[a] /\ LoginsOf(remote)[a] <= issued'[a]
                 /\ renewing[a] # None =>
                      renewing[a].from < renewing[a].got /\ renewing[a].got <= issued'[a]
      <4>1. renewing[a] # None => renewing[a].got \in Nat
        BY DEF TypeOK, Renewal, Gen
      <4> QED BY <1>n, <2>2, <4>1 DEF Inductive, Issued
    <3>2. ASSUME NEW a \in Accounts, NEW r \in Syncs, sync[r] # None
          PROVE  /\ LoginsOf(sync[r].snap)[a] <= issued'[a]
                 /\ LoginsOf(sync[r].payload)[a] <= issued'[a]
      BY <1>n, <2>2, <3>2, Numbers DEF Inductive, Issued
    <3>3. ASSUME NEW a \in Accounts, NEW u \in Tasks, u # t, task[u] # None
          PROVE  /\ task[u].of = a => /\ task[u].got <= issued'[a]
                                       /\ task[u].from <= task[u].got
                 /\ LoginsOf(task[u].file)[a] <= issued'[a]
      <4>1. task[u].got \in Nat /\ LoginsOf(task[u].file)[a] \in Nat
        BY <3>3, Numbers, TaskFields DEF Gen
      <4> QED BY <1>n, <2>2, <3>3, <4>1 DEF Inductive, Issued
    <3>4. ASSUME NEW a \in Accounts
          PROVE  /\ task'[t].of = a => /\ task'[t].got <= issued'[a]
                                        /\ task'[t].from <= task'[t].got
                 /\ LoginsOf(task'[t].file)[a] <= issued'[a]
      <4>1. LoginsOf(w.file)[a] \in Nat /\ LoginsOf(w.file)[a] <= issued[a]
        BY <2>1, Numbers DEF Inductive, Issued
      <4>2. LoginsOf(task'[t].file)[a] <= issued'[a]
        BY <1>n, <2>2, <2>3, <4>1
      <4>3. task'[t].of = a => /\ task'[t].got <= issued'[a]
                               /\ task'[t].from <= task'[t].got
        BY <1>n, <2>1, <2>2, <2>3, <2>4
      <4> QED BY <4>2, <4>3
    <3> QED BY <2>3, <3>1, <3>2, <3>3, <3>4 DEF Issued
  <2>6. Merged(X)'
    BY <2>3 DEF Inductive, Merged, PayloadKept, MergedFor
  <2>7. Saving(X)'
    <3>1. remote # None
      BY <2>1 DEF Inductive, Saving
    <3>2. ~Writing(t)'
      BY <2>3 DEF Writing
    <3>3. \A u \in Tasks : u # t => (Writing(u)' <=> Writing(u))
      BY <2>3 DEF Writing
    <3> HIDE DEF w
    <3> QED BY <2>3, <3>1, <3>2, <3>3 DEF Inductive, Saving
  <2> QED BY <2>5, <2>6, <2>7 DEF Inductive
<1>4. CASE Served(t)
  <2>1. /\ \A u \in Tasks : u # t => task'[u] = task[u]
        /\ task'[t] = None
        /\ UNCHANGED <<local, renewing, remote, sync, issued>>
    BY <1>4 DEF Served, TypeOK
  <2> QED BY <2>1 DEF Inductive, Issued, Merged, PayloadKept, MergedFor, Saving, Writing
<1>5. CASE Load(t)
  <2> DEFINE w == task[t]
  <2> DEFINE current == LoginsOf(remote)[w.of]
  <2> DEFINE f == Replacing(w, remote)
  <2>1. /\ w \in Work /\ w # None /\ w.of \in Accounts /\ w.got \in Nat /\ w.from \in Nat
        /\ \A u \in Tasks : ~Writing(u)
        /\ UNCHANGED <<local, renewing, remote, sync, issued>>
        /\ \A u \in Tasks : u # t => task'[u] = task[u]
    BY <1>5, TaskFields DEF Load, StoreFree, TypeOK, Gen
  <2>2. remote # None /\ remote \in File
    BY <2>1 DEF Inductive, Saving, TypeOK, Files
  <2>3. CASE current # 0 /\ ~RenewalReplaces(w.got, w.from, current)
    <3>1. task'[t] = None
      BY <1>5, <2>3 DEF Load, TypeOK
    <3> QED BY <2>1, <3>1
            DEF Inductive, Issued, Merged, PayloadKept, MergedFor, Saving, Writing
  <2>4. CASE ~(current # 0 /\ ~RenewalReplaces(w.got, w.from, current))
    <3>1. /\ task'[t].pc = "writing" /\ task'[t].file = f
          /\ task'[t].of = w.of /\ task'[t].got = w.got /\ task'[t].from = w.from
      BY <1>5, <2>1, <2>4 DEF Load, TypeOK, Work
    <3>2. LoginsOf(remote) = remote.logins /\ remote.logins \in Logins
      BY <2>2 DEF LoginsOf, File
    <3>3. f \in File /\ \A a \in Accounts :
            f.logins[a] = IF current # 0 /\ a = w.of THEN w.got ELSE LoginsOf(remote)[a]
      <4>1. CASE current = 0
        BY <2>2, <3>2, <4>1 DEF Replacing
      <4>2. CASE current # 0
        <5>1. f = [logins |-> [remote.logins EXCEPT ![w.of] = w.got], usage |-> ~remote.usage]
          BY <4>2 DEF Replacing
        <5>2. w.got \in Gen
          BY <2>1, TaskFields
        <5>3. f \in File /\ f.logins = [remote.logins EXCEPT ![w.of] = w.got]
          BY <2>1, <2>2, <3>2, <5>1, <5>2 DEF File, Logins
        <5> HIDE DEF f
        <5> QED BY <2>1, <3>2, <4>2, <5>3 DEF Logins
      <4> QED BY <4>1, <4>2
    <3>4. f # None /\ LoginsOf(f) = f.logins
      BY <3>3, SyncNone DEF LoginsOf
    <3>5. w.got <= issued[w.of] /\ w.from <= w.got
      BY <2>1 DEF Inductive, Issued
    <3>6. current # 0 => w.got >= current
      BY <1>n, <2>1, <2>4, <3>5 DEF RenewalReplaces, NewerLogin
    <3> HIDE DEF f, w, current
    <3>7. \A a \in Accounts :
            /\ f.logins[a] <= issued[a]
            /\ f.logins[a] >= LoginsOf(remote)[a]
      <4>1. current = LoginsOf(remote)[w.of]
        BY DEF current
      <4>2. \A a \in Accounts : LoginsOf(remote)[a] <= issued[a]
        BY DEF Inductive, Issued
      <4> QED BY <1>n, <2>1, <3>3, <3>5, <3>6, <4>1, <4>2
    <3>8. Issued'
      BY <2>1, <3>1, <3>4, <3>5, <3>7 DEF Inductive, Issued
    <3>9. Merged(X)'
      BY <2>1 DEF Inductive, Merged, PayloadKept, MergedFor
    <3>10. Saving(X)'
      BY <2>1, <2>2, <3>1, <3>4, <3>7 DEF Inductive, Saving, Writing
    <3> QED BY <3>8, <3>9, <3>10 DEF Inductive
  <2> QED BY <2>3, <2>4
<1>6. CASE Save(t)
  <2>1. /\ Writing(t) /\ task[t] # None
        /\ remote' = task[t].file /\ task'[t] = None
        /\ \A u \in Tasks : u # t => task'[u] = task[u]
        /\ UNCHANGED <<local, renewing, sync, issued>>
    BY <1>6 DEF Save, Writing, TypeOK
  <2>2. task[t].file # None /\ \A u \in Tasks : u # t => ~Writing(u)
    BY <2>1 DEF Inductive, Saving
  <2>3. Issued'
    BY <2>1 DEF Inductive, Issued
  <2>4. Merged(X)'
    BY <2>1 DEF Inductive, Merged, PayloadKept, MergedFor
  <2>5. Saving(X)'
    BY <2>1, <2>2 DEF Inductive, Saving, Writing
  <2> QED BY <2>3, <2>4, <2>5 DEF Inductive
<1> QED BY <1>1, <1>2, <1>3, <1>4, <1>5, <1>6 DEF TaskStep

LEMMA UserSafe ==
  ASSUME TypeOK, TypeOK', NEW X, Inductive(X),
         UnitStarts \/ UnitStops \/ DaemonCrashes \/ Uninstall
         \/ \E a \in Accounts : LocalRenews(a) \/ LocalStores(a)
                                \/ SignIn(a) \/ Remove(a)
  PROVE  Inductive(X)'
<1> USE DEF server, issuer, bounds
<1>n. \A a \in Accounts :
        local[a] \in Nat /\ issued[a] \in Nat /\ LoginsOf(remote)[a] \in Nat
  BY Numbers
<1>m. ASSUME NEW a \in Accounts, renewing[a] # None
      PROVE  /\ renewing[a].from \in Nat /\ renewing[a].got \in Nat
             /\ renewing[a].from < renewing[a].got /\ renewing[a].got <= issued[a]
  BY <1>m DEF TypeOK, Renewal, Gen, Inductive, Issued
<1>1. CASE UnitStarts
  BY <1>1 DEF UnitStarts, Inductive, Issued, Merged, PayloadKept, MergedFor, Saving, Writing
<1>2. CASE UnitStops \/ DaemonCrashes
  <2>1. /\ \A t \in Tasks : task'[t] = None
        /\ UNCHANGED <<local, renewing, remote, sync, issued>>
    BY <1>2 DEF UnitStops, DaemonCrashes, Ended
  <2> QED BY <2>1 DEF Inductive, Issued, Merged, PayloadKept, MergedFor, Saving, Writing
<1>3. CASE Uninstall
  <2>1. /\ remote' = None /\ \A t \in Tasks : task'[t] = None
        /\ UNCHANGED <<local, renewing, sync, issued>>
    BY <1>3 DEF Uninstall
  <2>2. Issued'
    BY <1>n, <2>1, LoginsOfNone DEF Inductive, Issued
  <2>3. Merged(X)' /\ Saving(X)'
    BY <2>1 DEF Inductive, Merged, PayloadKept, MergedFor, Saving, Writing
  <2> QED BY <2>2, <2>3 DEF Inductive
<1>4. ASSUME NEW a \in Accounts, LocalRenews(a) PROVE Inductive(X)'
  <2>1. local[a] \in Gen /\ Exchange(a, local[a])
    BY <1>4 DEF LocalRenews, TypeOK, Logins
  <2>2. /\ issued'[a] = issued[a] + 1
        /\ \A b \in Accounts : issued'[b] >= issued[b] /\ issued'[b] \in Nat
    BY <2>1, ExchangeType DEF TypeOK, Logins, Gen
  <2>3. /\ renewing'[a].from = local[a] /\ renewing'[a].got = issued'[a]
        /\ \A b \in Accounts : b # a => renewing'[b] = renewing[b]
        /\ UNCHANGED <<local, remote, task, sync>>
    BY <1>4 DEF LocalRenews, TypeOK
  <2>4. Issued'
    <3>1. ASSUME NEW b \in Accounts
          PROVE  local[b] <= issued'[b] /\ LoginsOf(remote)[b] <= issued'[b]
      BY <1>n, <2>2 DEF Inductive, Issued
    <3>2. ASSUME NEW b \in Accounts, renewing'[b] # None
          PROVE  renewing'[b].from < renewing'[b].got /\ renewing'[b].got <= issued'[b]
      <4>1. local[a] < issued'[a]
        BY <1>n, <2>2 DEF Inductive, Issued
      <4> QED BY <1>n, <1>m, <2>2, <2>3, <3>2, <4>1
    <3>3. ASSUME NEW b \in Accounts, NEW r \in Syncs, sync[r] # None
          PROVE  /\ LoginsOf(sync[r].snap)[b] <= issued'[b]
                 /\ LoginsOf(sync[r].payload)[b] <= issued'[b]
      BY <1>n, <2>2, <3>3, Numbers DEF Inductive, Issued
    <3>4. ASSUME NEW b \in Accounts, NEW u \in Tasks, task[u] # None
          PROVE  /\ task[u].of = b => /\ task[u].got <= issued'[b]
                                       /\ task[u].from <= task[u].got
                 /\ LoginsOf(task[u].file)[b] <= issued'[b]
      <4>1. task[u].got \in Nat /\ LoginsOf(task[u].file)[b] \in Nat
        BY <3>4, Numbers, TaskFields DEF Gen
      <4> QED BY <1>n, <2>2, <3>4, <4>1 DEF Inductive, Issued
    <3> QED BY <2>3, <3>1, <3>2, <3>3, <3>4 DEF Issued
  <2>5. Merged(X)' /\ Saving(X)'
    BY <2>3 DEF Inductive, Merged, PayloadKept, MergedFor, Saving, Writing
  <2> QED BY <2>4, <2>5 DEF Inductive
<1>5. ASSUME NEW a \in Accounts, LocalStores(a) PROVE Inductive(X)'
  <2>1. /\ renewing[a] # None /\ renewing'[a] = None
        /\ \A b \in Accounts : b # a => renewing'[b] = renewing[b] /\ local'[b] = local[b]
        /\ \/ local'[a] = local[a]
           \/ /\ local[a] # 0 /\ local'[a] = renewing[a].got
              /\ RenewalReplaces(renewing[a].got, renewing[a].from, local[a])
        /\ UNCHANGED <<remote, task, sync, issued>>
    BY <1>5 DEF LocalStores, TypeOK, Logins
  <2>2. \A b \in Accounts :
          /\ local'[b] \in Nat /\ local'[b] >= local[b] /\ local'[b] <= issued[b]
          /\ local'[b] # 0 => local[b] # 0
    <3>1. ASSUME NEW b \in Accounts, b # a
          PROVE  local'[b] = local[b] /\ local[b] <= issued[b]
      BY <2>1, <3>1 DEF Inductive, Issued
    <3>2. local[a] <= issued[a]
      BY DEF Inductive, Issued
    <3>3. local'[a] \in Nat /\ local'[a] >= local[a] /\ local'[a] <= issued[a]
      BY <1>n, <1>m, <2>1, <3>2 DEF RenewalReplaces, NewerLogin
    <3>4. local'[a] # 0 => local[a] # 0
      BY <2>1
    <3> QED BY <1>n, <3>1, <3>3, <3>4
  <2>3. Issued'
    BY <2>1, <2>2 DEF Inductive, Issued
  <2>4. ASSUME NEW r \in Syncs, NEW b \in Accounts PROVE MergedFor(r, b, X)'
    BY <1>n, <2>1, <2>2, UploadNumbers DEF Inductive, Merged, PayloadKept, MergedFor
  <2>5. ASSUME NEW r \in Syncs PROVE PayloadKept(r)'
    BY <2>1 DEF Inductive, Merged, PayloadKept
  <2>6. Saving(X)'
    BY <1>n, <2>1, <2>2 DEF Inductive, Saving, Writing
  <2> QED BY <2>3, <2>4, <2>5, <2>6 DEF Inductive, Merged
<1>6. ASSUME NEW a \in Accounts, SignIn(a) PROVE Inductive(X)'
  <2>1. /\ issued'[a] = issued[a] + 1 /\ local'[a] = issued[a] + 1
        /\ \A b \in Accounts : b # a => issued'[b] = issued[b] /\ local'[b] = local[b]
        /\ UNCHANGED <<renewing, remote, task, sync>>
    BY <1>6 DEF SignIn, TypeOK, Logins
  <2>2. Issued'
    <3>1. ASSUME NEW b \in Accounts
          PROVE  /\ local'[b] <= issued'[b] /\ LoginsOf(remote)[b] <= issued'[b]
                 /\ issued[b] <= issued'[b] /\ issued'[b] \in Nat
      BY <1>n, <2>1 DEF Inductive, Issued
    <3>2. ASSUME NEW b \in Accounts, renewing[b] # None
          PROVE  renewing[b].from < renewing[b].got /\ renewing[b].got <= issued'[b]
      BY <1>n, <1>m, <3>1, <3>2
    <3>3. ASSUME NEW b \in Accounts, NEW r \in Syncs, sync[r] # None
          PROVE  /\ LoginsOf(sync[r].snap)[b] <= issued'[b]
                 /\ LoginsOf(sync[r].payload)[b] <= issued'[b]
      BY <1>n, <3>1, <3>3, Numbers DEF Inductive, Issued
    <3>4. ASSUME NEW b \in Accounts, NEW u \in Tasks, task[u] # None
          PROVE  /\ task[u].of = b => /\ task[u].got <= issued'[b]
                                       /\ task[u].from <= task[u].got
                 /\ LoginsOf(task[u].file)[b] <= issued'[b]
      <4>1. task[u].got \in Nat /\ LoginsOf(task[u].file)[b] \in Nat
        BY <3>4, Numbers, TaskFields DEF Gen
      <4> QED BY <1>n, <3>1, <3>4, <4>1 DEF Inductive, Issued
    <3> QED BY <2>1, <3>1, <3>2, <3>3, <3>4 DEF Issued
  <2>3. ASSUME NEW r \in Syncs, NEW b \in Accounts PROVE MergedFor(r, b, X)'
    <3>1. CASE b # a
      BY <2>1, <3>1 DEF Inductive, Merged, MergedFor
    <3>2. CASE b = a /\ sync[r] # None
      <4>1. /\ LoginsOf(sync[r].snap)[a] <= issued[a]
            /\ LoginsOf(sync[r].payload)[a] <= issued[a]
        BY <3>2 DEF Inductive, Issued
      <4>2. PayloadKept(r) /\ MergedFor(r, a, X)
        BY DEF Inductive, Merged
      <4> QED BY <1>n, <2>1, <3>2, <4>1, <4>2, UploadNumbers, LoginsOfFile
              DEF PayloadKept, MergedFor
    <3>3. CASE sync[r] = None
      BY <2>1, <3>3 DEF MergedFor
    <3> QED BY <3>1, <3>2, <3>3
  <2>4. ASSUME NEW r \in Syncs PROVE PayloadKept(r)'
    BY <2>1 DEF Inductive, Merged, PayloadKept
  <2>5. Saving(X)'
    <3>1. \A b \in Accounts : local'[b] >= LoginsOf(remote)[b] \/ local'[b] = local[b]
      BY <1>n, <2>1 DEF Inductive, Issued
    <3> QED BY <2>1, <3>1 DEF Inductive, Saving, Writing
  <2> QED BY <2>2, <2>3, <2>4, <2>5 DEF Inductive, Merged
<1>7. ASSUME NEW a \in Accounts, Remove(a) PROVE Inductive(X)'
  <2>1. /\ local'[a] = 0 /\ \A b \in Accounts : b # a => local'[b] = local[b]
        /\ UNCHANGED <<renewing, remote, task, sync, issued>>
    BY <1>7 DEF Remove, TypeOK, Logins
  <2>2. Issued'
    BY <1>n, <2>1 DEF Inductive, Issued
  <2>3. Merged(X)'
    BY <2>1 DEF Inductive, Merged, PayloadKept, MergedFor
  <2>4. Saving(X)'
    BY <2>1 DEF Inductive, Saving, Writing
  <2> QED BY <2>2, <2>3, <2>4 DEF Inductive
<1> QED BY <1>1, <1>2, <1>3, <1>4, <1>5, <1>6, <1>7

\* An import may set its account back, unless it brings the newest login issued.
LEMMA ImportSafe ==
  ASSUME TypeOK, TypeOK', NEW X, Inductive(X), NEW Y, X \subseteq Y,
         NEW a \in Accounts, NEW gen \in Gen, ImportFile(a, gen),
         a \in Y \/ ~NewerLogin(issued[a], gen)
  PROVE  Inductive(Y)'
<1> USE DEF server, issuer
<1>n. \A b \in Accounts :
        local[b] \in Nat /\ issued[b] \in Nat /\ LoginsOf(remote)[b] \in Nat
  BY Numbers
<1>1. /\ gen \in Nat /\ gen <= issued[a] /\ local'[a] = gen
      /\ a \in Y \/ gen = issued[a]
      /\ \A b \in Accounts : b # a => local'[b] = local[b]
      /\ UNCHANGED <<renewing, remote, task, sync, issued>>
  BY <1>n DEF ImportFile, TypeOK, Logins, NewerLogin, Gen
<1>2. Issued'
  BY <1>1 DEF Inductive, Issued
<1>3. ASSUME NEW r \in Syncs, NEW b \in Accounts PROVE MergedFor(r, b, Y)'
  <2>1. CASE b # a
    BY <1>1, <2>1 DEF Inductive, Merged, MergedFor
  <2>2. CASE b = a /\ sync[r] # None
    <3>1. /\ LoginsOf(sync[r].snap)[a] <= issued[a]
          /\ LoginsOf(sync[r].payload)[a] <= issued[a]
      BY <2>2 DEF Inductive, Issued
    <3>2. PayloadKept(r) /\ MergedFor(r, a, X)
      BY DEF Inductive, Merged
    <3> QED BY <1>n, <1>1, <2>2, <3>1, <3>2, UploadNumbers, LoginsOfFile
            DEF PayloadKept, MergedFor
  <2>3. CASE sync[r] = None
    BY <1>1, <2>3 DEF MergedFor
  <2> QED BY <2>1, <2>2, <2>3
<1>4. ASSUME NEW r \in Syncs PROVE PayloadKept(r)'
  BY <1>1 DEF Inductive, Merged, PayloadKept
<1>5. Saving(Y)'
  <2>1. \A b \in Accounts \ Y : local'[b] >= LoginsOf(remote)[b] \/ local'[b] = local[b]
    BY <1>n, <1>1 DEF Inductive, Issued
  <2> QED BY <1>1, <2>1 DEF Inductive, Saving, Writing
<1> QED BY <1>2, <1>3, <1>4, <1>5 DEF Inductive, Merged

LEMMA InitHolds == Init => IInv
<1> SUFFICES ASSUME Init PROVE IInv
  OBVIOUS
<1>1. TypeOK
  <2>1. 0 \in Gen /\ 1 \in Gen /\ 0 \in 0..MaxEdits /\ 0 \in 0..MaxStops
    BY SyncBounds DEF Gen
  <2>2. local \in Logins /\ issued \in Logins
    BY <2>1 DEF Init, Logins
  <2> QED BY <2>1, <2>2 DEF Init, TypeOK, Files
<1>2. Issued
  BY <1>1, LoginsOfNone, Numbers DEF Init, Issued
<1>3. Merged(setBack) /\ Saving(setBack)
  BY DEF Init, Merged, PayloadKept, MergedFor, Saving, Writing
<1> QED BY <1>1, <1>2, <1>3 DEF IInv

\* A step keeps the invariant, whoever takes it.
LEMMA NextHolds == IInv /\ [Next]_vars => IInv'
<1> SUFFICES ASSUME IInv, [Next]_vars PROVE IInv'
  OBVIOUS
<1>1. PICK X : X = setBack
  OBVIOUS
<1>2. TypeOK /\ TypeOK' /\ Inductive(X)
  BY <1>1, NextType DEF IInv, Inductive, Merged, MergedFor, Saving
<1>3. ASSUME NEW Y, Y = setBack', Inductive(Y)' PROVE IInv'
  BY <1>2, <1>3 DEF IInv, Inductive, Merged, MergedFor, Saving
<1>4. CASE Step /\ Forgets
  <2>1. Inductive(X)'
    BY <1>2, <1>4, SyncSafe, TaskSafe, UserSafe DEF Step
  <2>2. CASE AtWork'
    BY <1>1, <1>3, <1>4, <2>1, <2>2 DEF Forgets
  <2>3. CASE ~AtWork'
    <3>1. setBack' = {} /\ (\A s \in Syncs : sync'[s] = None)
          /\ \A t \in Tasks : task'[t] = None
      BY <1>4, <2>3 DEF Forgets, AtWork
    <3>2. Inductive({})'
      BY <2>1, <3>1 DEF Inductive, Merged, PayloadKept, MergedFor, Saving, Writing
    <3> QED BY <1>3, <3>1, <3>2
  <2> QED BY <2>2, <2>3
<1>5. ASSUME NEW a \in Accounts, NEW gen \in Gen, ImportFile(a, gen),
             setBack' = IF AtWork /\ NewerLogin(issued[a], gen) THEN setBack \cup {a}
                        ELSE setBack
      PROVE  IInv'
  <2>1. PICK Y : Y = setBack'
    OBVIOUS
  <2>2. CASE AtWork
    <3>1. X \subseteq Y /\ (a \in Y \/ ~NewerLogin(issued[a], gen))
      BY <1>1, <1>5, <2>1, <2>2
    <3>2. Inductive(Y)'
      BY <1>2, <1>5, <3>1, ImportSafe
    <3> QED BY <1>3, <2>1, <3>2
  <2>3. CASE ~AtWork
    <3>1. /\ \A s \in Syncs : sync'[s] = None
          /\ \A t \in Tasks : task'[t] = None
      BY <1>5, <2>3 DEF ImportFile, AtWork, server
    <3>2. Issued'
      <4>1. X \subseteq X \cup {a}
        OBVIOUS
      <4>2. Inductive(X \cup {a})'
        BY <1>2, <1>5, <4>1, ImportSafe
      <4> QED BY <4>2 DEF Inductive
    <3>3. Inductive(Y)'
      BY <3>1, <3>2 DEF Inductive, Merged, PayloadKept, MergedFor, Saving, Writing
    <3> QED BY <1>3, <2>1, <3>3
  <2> QED BY <2>2, <2>3
<1>6. CASE UNCHANGED vars
  <2>1. Inductive(X)'
    BY <1>2, <1>6
       DEF vars, Inductive, Issued, Merged, PayloadKept, MergedFor, Saving, Writing
  <2> QED BY <1>1, <1>3, <1>6, <2>1 DEF vars
<1> QED BY <1>4, <1>5, <1>6 DEF Next

\* The invariant, with it type correctness, holds in every reachable state.
THEOREM InvariantHolds == Spec => []IInv
  BY InitHolds, NextHolds, PTL DEF Spec

-----------------------------------------------------------------------------
(* The properties of the runs.                                             *)

\* An upload gets past the check only when the file is still the one it merged.
LEMMA PassesUnchanged ==
  ASSUME TypeOK, [Next]_vars, NEW s \in Syncs,
         sync[s] # None, sync[s].pc = "uploaded",
         sync'[s] # None, sync'[s].pc = "checked"
  PROVE  remote = sync[s].snap
<1> USE DEF server, issuer, bounds
<1>1. ASSUME NEW r \in Syncs,
             (\E deploy \in BOOLEAN : Start(r, deploy)) \/ SyncStep(r) \/ Lost(r)
      PROVE  remote = sync[s].snap
  <2>1. CASE r # s
    <3>1. sync'[s] = sync[s]
      BY <1>1, <2>1
         DEF Start, SyncStep, Snapshot, Adopt, Upload, Check, Move, Restart, Lost, TypeOK
    <3> QED BY <3>1
  <2>2. CASE r = s
    <3>1. Check(s) \/ Lost(s)
      BY <1>1, <2>2 DEF Start, SyncStep, Snapshot, Adopt, Upload, Move, Restart
    <3>2. ~Lost(s)
      BY DEF Lost, TypeOK
    <3>3. UnchangedSince(sync[s])
      <4>1. MayRetry(sync[s]) => Retry(sync[s]).pc # "checked"
        BY SyncFields DEF Retry, Sync
      <4> QED BY <3>1, <3>2, <4>1 DEF Check, TypeOK
    <3> QED BY <3>3 DEF UnchangedSince
  <2> QED BY <2>1, <2>2
<1>2. CASE ~\E r \in Syncs :
             (\E deploy \in BOOLEAN : Start(r, deploy)) \/ SyncStep(r) \/ Lost(r)
  <2>1. sync' = sync
    BY <1>2
       DEF Next, Step, vars, TaskStep, Candidate, LoadUsage, Renew, Served, Load, Save,
           UnitStarts, UnitStops, DaemonCrashes, Ended, Uninstall,
           LocalRenews, LocalStores, SignIn, ImportFile, Remove
  <2> QED BY <2>1
<1> QED BY <1>1, <1>2

\* Whatever the daemon, the user and other uploads do, an upload that passes the
\* check holds no login older than the one in the file it is about to replace
\* (unchanged_since before the mv in install_command and sync_command).
THEOREM UploadsMerged == Spec => CheckedUploadMerged
<1> DEFINE A == \A s \in Syncs, a \in Accounts :
       /\ sync[s] # None /\ sync[s].pc = "uploaded" /\ sync[s].payload.logins[a] # 0
       /\ sync'[s] # None /\ sync'[s].pc = "checked"
       => sync[s].payload.logins[a] >= LoginsOf(remote)[a]
<1>1. IInv /\ [Next]_vars => A
  <2> SUFFICES ASSUME IInv, [Next]_vars, NEW s \in Syncs, NEW a \in Accounts,
                      sync[s] # None, sync[s].pc = "uploaded",
                      sync[s].payload.logins[a] # 0,
                      sync'[s] # None, sync'[s].pc = "checked"
               PROVE  sync[s].payload.logins[a] >= LoginsOf(remote)[a]
    OBVIOUS
  <2>1. remote = sync[s].snap
    BY PassesUnchanged DEF IInv
  <2>2. MergedFor(s, a, setBack)
    BY DEF IInv, Merged
  <2> QED BY <2>1, <2>2 DEF MergedFor
<1>2. IInv /\ [Next]_vars => [A]_vars
  BY <1>1
<1> HIDE DEF A
<1>3. Spec => [][A]_vars
  BY InvariantHolds, <1>2, PTL DEF Spec
<1> QED BY <1>3 DEF A, CheckedUploadMerged

\* What each step does to the pool's login of an account and to the daemon's:
\* neither goes back beyond the other.
LEMMA StepsForward ==
  ASSUME IInv, [Next]_vars, NEW a \in Accounts
  PROVE  /\ local'[a] # 0 /\ ~Imports(a) => local'[a] >= local[a]
         /\ \/ remote' = remote \/ remote' = None
            \/ \E t \in Tasks : Save(t)
            \/ \E s \in Syncs : Move(s)
  <1> USE DEF server, issuer, bounds
<1>t. TypeOK
  BY DEF IInv
<1>n. local[a] \in Nat /\ issued[a] \in Nat
  BY <1>t, Numbers
<1>1. ASSUME NEW s \in Syncs, Adopt(s)
      PROVE  local'[a] >= local[a] /\ remote' = remote
  BY <1>1, <1>t, Adopted, SyncFields DEF Adopt, TypeOK
<1>2. ASSUME NEW b \in Accounts, LocalStores(b)
      PROVE  local'[a] >= local[a] /\ remote' = remote
  <2>1. CASE a # b
    BY <1>2, <1>t, <1>n, <2>1 DEF LocalStores, TypeOK, Logins
  <2>2. CASE a = b
    <3>1. /\ renewing[a].from < renewing[a].got
          /\ renewing[a].from \in Nat /\ renewing[a].got \in Nat
      BY <1>2, <1>t, <2>2 DEF LocalStores, TypeOK, Renewal, Gen, IInv, Issued
    <3>2. local'[a] = local[a]
          \/ /\ local'[a] = renewing[a].got
             /\ RenewalReplaces(renewing[a].got, renewing[a].from, local[a])
      BY <1>2, <1>t, <2>2 DEF LocalStores, TypeOK, Logins
    <3> QED BY <1>2, <1>n, <3>1, <3>2 DEF LocalStores, RenewalReplaces, NewerLogin
  <2> QED BY <2>1, <2>2
<1>3. ASSUME NEW b \in Accounts, SignIn(b)
      PROVE  local'[a] >= local[a] /\ remote' = remote
  <2>1. local[a] <= issued[a]
    BY DEF IInv, Issued
  <2> QED BY <1>3, <1>t, <1>n, <2>1 DEF SignIn, TypeOK, Logins
<1>4. ASSUME NEW b \in Accounts, Remove(b)
      PROVE  (local'[a] # 0 => local'[a] >= local[a]) /\ remote' = remote
  BY <1>4, <1>t, <1>n DEF Remove, TypeOK, Logins
<1>5. CASE Uninstall
  BY <1>5, <1>n DEF Uninstall
<1>10. ASSUME NEW b \in Accounts, NEW gen \in Gen, ImportFile(b, gen)
       PROVE  (~Imports(a) => local'[a] = local[a]) /\ remote' = remote
  BY <1>10, <1>t DEF ImportFile, Imports, TypeOK, Logins
<1>6. ASSUME NEW t \in Tasks, Save(t) PROVE local' = local
  BY <1>6 DEF Save
<1>7. ASSUME NEW s \in Syncs, Move(s) PROVE local' = local
  BY <1>7 DEF Move
<1>8. CASE UNCHANGED <<local, remote>>
  BY <1>8, <1>n
<1>9. CASE ~UNCHANGED <<local, remote>>
  <2>1. \/ \E s \in Syncs : Adopt(s) \/ Move(s)
        \/ \E t \in Tasks : Save(t)
        \/ \E b \in Accounts : LocalStores(b) \/ SignIn(b) \/ Remove(b)
        \/ \E b \in Accounts, gen \in Gen : ImportFile(b, gen)
        \/ Uninstall
    BY <1>9
       DEF Next, Step, vars, SyncStep, Start, Snapshot, Upload, Check, Restart, Lost,
           TaskStep, Candidate, LoadUsage, Renew, Served, Load,
           UnitStarts, UnitStops, DaemonCrashes, Ended, LocalRenews
  <2> QED BY <1>n, <1>1, <1>2, <1>3, <1>4, <1>5, <1>6, <1>7, <1>10, <2>1
<1> QED BY <1>8, <1>9

\* The pool goes back to an older login of an account it keeps only by an import
\* (adopt_newer_logins and persist_refreshed_candidate_auth).
THEOREM PoolNeverGoesBack == Spec => PoolMovesForward
<1> DEFINE A == \A a \in Accounts : local'[a] # 0 /\ ~Imports(a) => local'[a] >= local[a]
<1>1. IInv /\ [Next]_vars => [A]_vars
  BY StepsForward
<1> HIDE DEF A
<1>2. Spec => [][A]_vars
  BY InvariantHolds, <1>1, PTL DEF Spec
<1> QED BY <1>2 DEF A, PoolMovesForward

\* The newest login of a kept account stored by Copool or the daemon survives
\* every step but an import, unless the daemon stored between an upload's check and
\* its mv, or an older login was imported while that was under way.
THEOREM NewestStays == Spec => NewestKept
<1> DEFINE A == \A a \in Accounts :
       /\ local[a] # 0 /\ local'[a] # 0 /\ remote' # None
       /\ ~Imports(a) /\ a \notin setBack
       /\ \A s \in Syncs : Move(s) => remote = sync[s].snap
       => Newest(a)' >= Newest(a)
<1>1. IInv /\ [Next]_vars => A
  <2> SUFFICES ASSUME IInv, [Next]_vars, NEW a \in Accounts,
                      local[a] # 0, local'[a] # 0, remote' # None,
                      ~Imports(a), a \notin setBack,
                      \A s \in Syncs : Move(s) => remote = sync[s].snap
               PROVE  Newest(a)' >= Newest(a)
    OBVIOUS
  <2>1. /\ local[a] \in Nat /\ LoginsOf(remote)[a] \in Nat
        /\ local'[a] \in Nat /\ LoginsOf(remote')[a] \in Nat
    <3>1. TypeOK /\ TypeOK'
      BY NextType DEF IInv
    <3> QED BY <3>1, LoginsType DEF TypeOK, Logins, Gen
  <2>2. local'[a] >= local[a]
    BY StepsForward
  <2>3. CASE remote' = remote
    BY <2>1, <2>2, <2>3 DEF Newest, NewerLogin
  <2>4. ASSUME NEW t \in Tasks, Save(t) PROVE Newest(a)' >= Newest(a)
    <3>1. remote' = task[t].file /\ Writing(t) /\ task[t].file # None
      BY <2>4 DEF Save, IInv, Saving
    <3>2. LoginsOf(remote')[a] = task[t].file.logins[a]
      BY <3>1 DEF LoginsOf
    <3>3. LoginsOf(remote')[a] >= LoginsOf(remote)[a] \/ local[a] >= LoginsOf(remote)[a]
      BY <3>1, <3>2 DEF IInv, Saving
    <3> QED BY <2>1, <2>2, <3>3 DEF Newest, NewerLogin
  <2>5. ASSUME NEW s \in Syncs, Move(s) PROVE Newest(a)' >= Newest(a)
    <3>1. remote = sync[s].snap /\ sync[s].pc = "checked" /\ sync[s] # None
      BY <2>5 DEF Move
    <3>2. local[a] >= LoginsOf(remote)[a]
      BY <3>1 DEF IInv, Merged, MergedFor
    <3> QED BY <2>1, <2>2, <3>2 DEF Newest, NewerLogin
  <2> QED BY <2>3, <2>4, <2>5, StepsForward
<1>2. IInv /\ [Next]_vars => [A]_vars
  BY <1>1
<1> HIDE DEF A
<1>3. Spec => [][A]_vars
  BY InvariantHolds, <1>2, PTL DEF Spec
<1> QED BY <1>3 DEF A, NewestKept
=============================================================================
