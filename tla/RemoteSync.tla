----------------------------- MODULE RemoteSync -----------------------------
(***************************************************************************)
(* Deploying the Codex pool to a remote daemon, and synchronising it: the  *)
(* accounts.json of the daemon is read, what the daemon renewed is adopted *)
(* by the pool, and the pool is uploaded over it, unless the daemon wrote  *)
(* meanwhile.  The daemon renews the same logins all along, and so does    *)
(* Copool; several synchronisations may run at once (remote_action takes   *)
(* no lock), and restarts of the daemon end what it is doing.              *)
(*                                                                         *)
(* A login is a generation of its account, as in CodexLogins, and 0 is no  *)
(* account.  There is one server.                                          *)
(***************************************************************************)
EXTENDS Naturals, FiniteSets

CONSTANTS
  Accounts,     \* identities (workspace, principal)
  Stored,       \* those in the pool from the start
  Syncs,        \* deployments and synchronisations that may run at once
  Tasks,        \* what the daemon does at once: requests, and its usage loop
  None,
  MaxAttempts,  \* uploads tried when the daemon keeps writing (3 in the code)
  MaxGen,       \* bound: generations the issuer gives one account
  MaxEdits,     \* bound: sign-ins, imports and removals of the user
  MaxStops      \* bound: times the daemon is stopped, crashes or is removed

ASSUME SyncPool == Stored \subseteq Accounts
ASSUME SyncBounds ==
  /\ MaxAttempts \in Nat \ {0} /\ MaxGen \in Nat \ {0}
  /\ MaxEdits \in Nat /\ MaxStops \in Nat

VARIABLES
  local,      \* accounts.json of Copool: the generation of each account, or 0
  renewing,   \* Copool's own renewal of each account, or None
  remote,     \* accounts.json of the daemon, or None
  installed,  \* the daemon and its unit are on the server
  running,    \* the unit is active
  task,       \* what each of the daemon's tasks is doing
  sync,       \* what each remote_action is doing
  issued,     \* the issuer: generations given out per account
  spent,      \* the issuer: generations exchanged
  edits, stops, \* bounds
  setBack     \* history: accounts whose login an import made older while a
              \* synchronisation or the daemon was at work, until none is

vars == <<local, renewing, remote, installed, running, task, sync, issued,
          spent, edits, stops, setBack>>
issuer == <<issued, spent>>
server == <<remote, installed, running, task>>
bounds == <<edits, stops>>

Gen == 0..MaxGen
Logins == [Accounts -> Gen]
\* usage: the rest of the file, which the daemon rewrites and a checksum covers.
File == [logins: Logins, usage: BOOLEAN]
Files == File \cup {None}
Renewal == [from: Gen, got: Gen]

Work == [pc: {"asking", "renewed", "writing"}, of: Accounts, from: Gen, got: Gen,
         file: Files]
Sync == [pc: {"snapshot", "snapped", "adopted", "uploaded", "checked", "moved"},
         deploy: BOOLEAN, restart: BOOLEAN, attempt: 1..MaxAttempts,
         snap: Files, payload: Files]
ASSUME SyncNone == None \notin File \cup Renewal \cup Work \cup Sync

TypeOK ==
  /\ local \in Logins
  /\ renewing \in [Accounts -> Renewal \cup {None}]
  /\ remote \in Files
  /\ installed \in BOOLEAN /\ running \in BOOLEAN
  /\ task \in [Tasks -> Work \cup {None}]
  /\ sync \in [Syncs -> Sync \cup {None}]
  /\ issued \in Logins /\ spent \in [Accounts -> SUBSET Gen]
  /\ edits \in 0..MaxEdits /\ stops \in 0..MaxStops
  /\ setBack \subseteq Accounts

Init ==
  /\ local = [a \in Accounts |-> IF a \in Stored THEN 1 ELSE 0]
  /\ renewing = [a \in Accounts |-> None]
  /\ remote = None /\ installed = FALSE /\ running = FALSE
  /\ task = [t \in Tasks |-> None]
  /\ sync = [s \in Syncs |-> None]
  /\ issued = local /\ spent = [a \in Accounts |-> {}]
  /\ edits = 0 /\ stops = 0 /\ setBack = {}

-----------------------------------------------------------------------------
(* Logins, and the file uploaded.                                          *)

NewerLogin(g, h) == g > h
AnyReplaces(got, from, current) == TRUE      \* variant: order not checked
RenewalReplaces(got, from, current) == current = from \/ NewerLogin(got, current)

\* The token endpoint: generation g is exchanged for the issuer's next.
Exchange(a, g) ==
  /\ g \notin spent[a] /\ issued[a] < MaxGen
  /\ spent' = [spent EXCEPT ![a] = @ \cup {g}]
  /\ issued' = [issued EXCEPT ![a] = @ + 1]

LoginsOf(file) == IF file = None THEN [a \in Accounts |-> 0] ELSE file.logins

\* adopt_newer_logins: which accounts there are is not changed.
AdoptAll(logins, file) ==                    \* variant: an older login as well
  [a \in Accounts |-> IF logins[a] # 0 /\ LoginsOf(file)[a] # 0
                      THEN LoginsOf(file)[a] ELSE logins[a]]
AdoptNewer(logins, file) ==
  [a \in Accounts |-> IF logins[a] # 0 /\ NewerLogin(LoginsOf(file)[a], logins[a])
                      THEN LoginsOf(file)[a] ELSE logins[a]]

\* accounts_payload
PayloadLocal(file) == [logins |-> local, usage |-> FALSE]  \* variant: not merged
Payload(file) == [logins |-> AdoptNewer(local, file), usage |-> FALSE]
Usable(logins) == \E a \in Accounts : logins[a] # 0

-----------------------------------------------------------------------------
(* A deployment or a synchronisation: remote_action.                       *)

\* The status is read first: a server without a daemon is left alone, and one
\* that was running is to be restarted.
Start(s, deploy) ==
  /\ sync[s] = None
  /\ deploy \/ installed
  /\ sync' = [sync EXCEPT ![s] =
       [pc |-> "snapshot", deploy |-> deploy, restart |-> ~deploy /\ running,
        attempt |-> 1, snap |-> None, payload |-> None]]
  /\ UNCHANGED <<local, renewing, server, issuer, bounds>>

\* snapshot_command: the copy and its checksum.
Snapshot(s) ==
  /\ sync[s] # None /\ sync[s].pc = "snapshot"
  /\ sync' = [sync EXCEPT ![s] = [@ EXCEPT !.pc = "snapped", !.snap = remote]]
  /\ UNCHANGED <<local, renewing, server, issuer, bounds>>

\* adopt_remote_logins, under store_lock
Adopt(s) ==
  /\ sync[s] # None /\ sync[s].pc = "snapped"
  /\ local' = AdoptNewer(local, sync[s].snap)
  /\ sync' = [sync EXCEPT ![s].pc = "adopted"]
  /\ UNCHANGED <<renewing, server, issuer, bounds>>

\* The payload is put on the stage, if it has any account.
Upload(s) ==
  /\ sync[s] # None /\ sync[s].pc = "adopted"
  /\ sync' = [sync EXCEPT ![s] =
       IF Usable(local)
         THEN [@ EXCEPT !.pc = "uploaded", !.payload = Payload(sync[s].snap)]
         ELSE None]
  /\ UNCHANGED <<local, renewing, server, issuer, bounds>>

\* unchanged_since, at the head of install_command and sync_command; what the
\* daemon wrote since is merged anew, a few times.
ChecksNothing(w) == TRUE                     \* variant: the checksum ignored
UnchangedSince(w) == remote = w.snap
MayRetry(w) == w.attempt < MaxAttempts
RetryAlways(w) == [w EXCEPT !.pc = "snapshot"]  \* variant: attempts not counted
Retry(w) == [w EXCEPT !.pc = "snapshot", !.attempt = @ + 1]

Check(s) ==
  /\ sync[s] # None /\ sync[s].pc = "uploaded"
  /\ sync' = [sync EXCEPT ![s] =
       IF UnchangedSince(@) THEN [@ EXCEPT !.pc = "checked"]
       ELSE IF MayRetry(@) THEN Retry(@) ELSE None]
  /\ UNCHANGED <<local, renewing, server, issuer, bounds>>

\* The rest of the command: the payload replaces the file.
Move(s) ==
  /\ sync[s] # None /\ sync[s].pc = "checked"
  /\ remote' = sync[s].payload
  /\ installed' = (installed \/ sync[s].deploy)
  /\ sync' = [sync EXCEPT ![s].pc = "moved"]
  /\ UNCHANGED <<local, renewing, running, task, issuer, bounds>>

\* A deployment starts the unit or restarts it, a synchronisation restarts it
\* if it was running; neither can once it was removed.
Restart(s) ==
  /\ sync[s] # None /\ sync[s].pc = "moved"
  /\ sync' = [sync EXCEPT ![s] = None]
  /\ IF installed /\ (sync[s].deploy \/ sync[s].restart)
       THEN running' = TRUE /\ task' = [t \in Tasks |-> None]
       ELSE UNCHANGED <<running, task>>
  /\ UNCHANGED <<local, renewing, remote, installed, issuer, bounds>>

\* The connection is lost, an upload times out, or Copool quits.
Lost(s) ==
  /\ sync[s] # None /\ sync' = [sync EXCEPT ![s] = None]
  /\ UNCHANGED <<local, renewing, server, issuer, bounds>>

-----------------------------------------------------------------------------
(* The daemon: requests renew the login of their candidate, and the usage   *)
(* loop rewrites the file; each loads and saves it under store_lock.        *)

Writing(t) == task[t] # None /\ task[t].pc = "writing"
StoreFree == \A t \in Tasks : ~Writing(t)

\* load_proxy_candidates, of which a request tries one.
Candidate(t, a) ==
  /\ running /\ task[t] = None /\ LoginsOf(remote)[a] # 0
  /\ task' = [task EXCEPT ![t] =
       [pc |-> "asking", of |-> a, from |-> LoginsOf(remote)[a],
        got |-> LoginsOf(remote)[a], file |-> None]]
  /\ UNCHANGED <<local, renewing, remote, installed, running, sync, issuer, bounds>>

\* refresh_chatgpt_auth_tokens; a request that is served, or whose renewal
\* fails, ends.
Renew(t) ==
  /\ task[t] # None /\ task[t].pc = "asking"
  /\ Exchange(task[t].of, task[t].from)
  /\ task' = [task EXCEPT ![t].pc = "renewed",
                               ![t].got = issued'[task[t].of]]
  /\ UNCHANGED <<local, renewing, remote, installed, running, sync, bounds>>

Served(t) ==
  /\ task[t] # None /\ task[t].pc = "asking"
  /\ task' = [task EXCEPT ![t] = None]
  /\ UNCHANGED <<local, renewing, remote, installed, running, sync, issuer, bounds>>

\* persist_refreshed_candidate_auth: the file loaded, with the renewed login in
\* it unless a newer one is stored.
Replacing(w, file) ==
  LET current == LoginsOf(file)[w.of] IN
  IF current = 0 THEN file
  ELSE [logins |-> [file.logins EXCEPT ![w.of] = w.got], usage |-> ~file.usage]
Load(t) ==
  LET w == task[t]
      current == LoginsOf(remote)[w.of]
  IN
  /\ w # None /\ w.pc = "renewed" /\ StoreFree
  /\ task' = [task EXCEPT ![t] =
       IF current # 0 /\ ~RenewalReplaces(w.got, w.from, current) THEN None
       ELSE [w EXCEPT !.pc = "writing", !.file = Replacing(w, remote)]]
  /\ UNCHANGED <<local, renewing, remote, installed, running, sync, issuer, bounds>>

\* persist_candidate_usage_result
LoadUsage(t, a) ==
  /\ running /\ task[t] = None /\ StoreFree /\ LoginsOf(remote)[a] # 0
  /\ task' = [task EXCEPT ![t] =
       [pc |-> "writing", of |-> a, from |-> LoginsOf(remote)[a],
        got |-> LoginsOf(remote)[a], file |-> [remote EXCEPT !.usage = ~@]]]
  /\ UNCHANGED <<local, renewing, remote, installed, running, sync, issuer, bounds>>

Save(t) ==
  /\ Writing(t)
  /\ remote' = task[t].file
  /\ task' = [task EXCEPT ![t] = None]
  /\ UNCHANGED <<local, renewing, installed, running, sync, issuer, bounds>>

\* The user starts the unit, stops it or uninstalls it; or it crashes, to be
\* started again by systemd.
UnitStarts ==
  /\ installed /\ ~running /\ running' = TRUE
  /\ UNCHANGED <<local, renewing, remote, installed, task, sync, issuer, bounds>>

Ended(still) ==
  /\ stops < MaxStops /\ stops' = stops + 1 /\ running
  /\ running' = still /\ task' = [t \in Tasks |-> None]
  /\ UNCHANGED <<local, renewing, sync, issuer, edits>>
UnitStops == Ended(FALSE) /\ UNCHANGED <<remote, installed>>
DaemonCrashes == Ended(TRUE) /\ UNCHANGED <<remote, installed>>

Uninstall ==
  /\ stops < MaxStops /\ stops' = stops + 1
  /\ installed /\ installed' = FALSE /\ running' = FALSE
  /\ remote' = None /\ task' = [t \in Tasks |-> None]
  /\ UNCHANGED <<local, renewing, sync, issuer, edits>>

-----------------------------------------------------------------------------
(* Copool's own pool.                                                      *)

LocalRenews(a) ==
  /\ local[a] # 0 /\ renewing[a] = None
  /\ Exchange(a, local[a])
  /\ renewing' = [renewing EXCEPT ![a] = [from |-> local[a], got |-> issued'[a]]]
  /\ UNCHANGED <<local, server, sync, bounds>>

\* refresh_usage_if_needed and persist_refreshed_candidate_auth, under
\* store_lock
LocalStores(a) ==
  LET w == renewing[a] IN
  /\ w # None /\ renewing' = [renewing EXCEPT ![a] = None]
  /\ local' = [local EXCEPT ![a] =
       IF @ # 0 /\ RenewalReplaces(w.got, w.from, @) THEN w.got ELSE @]
  /\ UNCHANGED <<server, sync, issuer, bounds>>

SignIn(a) ==
  /\ edits < MaxEdits /\ edits' = edits + 1 /\ issued[a] < MaxGen
  /\ issued' = [issued EXCEPT ![a] = @ + 1]
  /\ local' = [local EXCEPT ![a] = issued'[a]]
  /\ UNCHANGED <<renewing, server, sync, spent, stops>>

\* import_json: a login exported at any time replaces the stored one.
ImportFile(a, gen) ==
  /\ edits < MaxEdits /\ edits' = edits + 1
  /\ gen \in 1..issued[a]
  /\ local' = [local EXCEPT ![a] = gen]
  /\ UNCHANGED <<renewing, server, sync, issuer, stops>>

Remove(a) ==
  /\ edits < MaxEdits /\ edits' = edits + 1 /\ local[a] # 0
  /\ local' = [local EXCEPT ![a] = 0]
  /\ UNCHANGED <<renewing, server, sync, issuer, stops>>

SyncStep(s) ==
  Snapshot(s) \/ Adopt(s) \/ Upload(s) \/ Check(s) \/ Move(s) \/ Restart(s)

TaskStep(t) ==
  \/ \E a \in Accounts : Candidate(t, a) \/ LoadUsage(t, a)
  \/ Renew(t) \/ Served(t) \/ Load(t) \/ Save(t)

Step ==
  \/ \E s \in Syncs : (\E deploy \in BOOLEAN : Start(s, deploy)) \/ SyncStep(s) \/ Lost(s)
  \/ \E t \in Tasks : TaskStep(t)
  \/ UnitStarts \/ UnitStops \/ DaemonCrashes \/ Uninstall
  \/ \E a \in Accounts : LocalRenews(a) \/ LocalStores(a) \/ SignIn(a) \/ Remove(a)

AtWork == (\E s \in Syncs : sync[s] # None) \/ (\E t \in Tasks : task[t] # None)
Forgets == setBack' = IF AtWork' THEN setBack ELSE {}

Next ==
  \/ Step /\ Forgets
  \/ \E a \in Accounts, gen \in Gen :
       /\ ImportFile(a, gen)
       /\ setBack' = IF AtWork /\ NewerLogin(issued[a], gen) THEN setBack \cup {a}
                     ELSE setBack

Spec == Init /\ [][Next]_vars
SyncsFair == \A s \in Syncs : WF_vars(SyncStep(s) /\ Forgets)
FairSpec == Spec /\ SyncsFair

-----------------------------------------------------------------------------
(* What is promised.                                                       *)

\* An upload that passes the check holds, for each account it keeps, the login
\* in the file it is to replace or a newer one.
CheckedUploadMerged ==
  [][\A s \in Syncs, a \in Accounts :
       /\ sync[s] # None /\ sync[s].pc = "uploaded" /\ sync[s].payload.logins[a] # 0
       /\ sync'[s] # None /\ sync'[s].pc = "checked"
       => sync[s].payload.logins[a] >= LoginsOf(remote)[a]]_vars

\* The newest login of a kept account that Copool or the daemon stored is never
\* replaced by an older one in both places, whatever runs at once.  Excepted are
\* an import, which replaces a login whatever its age, what was under way when it
\* put an older one in the pool (setBack), and an upload whose check the daemon
\* wrote after.
Newest(a) ==
  IF NewerLogin(LoginsOf(remote)[a], local[a]) THEN LoginsOf(remote)[a] ELSE local[a]
Imports(a) == \E gen \in Gen : ImportFile(a, gen)
NewestKept ==
  [][\A a \in Accounts :
       /\ local[a] # 0 /\ local'[a] # 0 /\ remote' # None
       /\ ~Imports(a) /\ a \notin setBack
       /\ \A s \in Syncs : Move(s) => remote = sync[s].snap
       => Newest(a)' >= Newest(a)]_vars

\* The pool's login of an account goes back to an older one only by an import of
\* that login, whichever of Copool and the daemon renewed it last and whenever
\* its answer arrives.
PoolMovesForward ==
  [][\A a \in Accounts :
       local'[a] # 0 /\ ~Imports(a) => local'[a] >= local[a]]_vars

\* A synchronisation ends, though the daemon writes without end.
SyncsEnd == \A s \in Syncs : sync[s] # None ~> sync[s] = None

\* remote_runtime.rs: "logins it renewed are kept, and an upload made while it
\* renews again is merged anew rather than replacing them".
UploadKeepsRenewals ==
  [][\A s \in Syncs, a \in Accounts :
       Move(s) /\ local[a] # 0 /\ sync[s].payload.logins[a] # 0
       => sync[s].payload.logins[a] >= LoginsOf(remote)[a]]_vars

-----------------------------------------------------------------------------
(* The inductive invariant behind the theorems of RemoteSyncProofs.         *)

\* Nobody holds a login the issuer has not given out, and a renewal holds a
\* newer one than it was made from.
Issued ==
  \A a \in Accounts :
    /\ local[a] <= issued[a] /\ LoginsOf(remote)[a] <= issued[a]
    /\ renewing[a] # None =>
         renewing[a].from < renewing[a].got /\ renewing[a].got <= issued[a]
    /\ \A s \in Syncs : sync[s] # None =>
         /\ LoginsOf(sync[s].snap)[a] <= issued[a]
         /\ LoginsOf(sync[s].payload)[a] <= issued[a]
    /\ \A t \in Tasks : task[t] # None =>
         /\ task[t].of = a => /\ task[t].got <= issued[a]
                               /\ task[t].from <= task[t].got
         /\ LoginsOf(task[t].file)[a] <= issued[a]

\* The pool holds what an upload merged and carries, for accounts it keeps and
\* no import has set back.
PayloadKept(s) ==
  sync[s] # None /\ sync[s].pc \in {"uploaded", "checked"} => sync[s].payload # None
MergedFor(s, a, but) ==
  sync[s] # None =>
    /\ sync[s].pc \in {"adopted", "uploaded", "checked"} /\ local[a] # 0 /\ a \notin but
         => local[a] >= LoginsOf(sync[s].snap)[a]
    /\ sync[s].pc \in {"uploaded", "checked"} =>
         /\ local[a] # 0 /\ a \notin but => local[a] >= sync[s].payload.logins[a]
         /\ sync[s].payload.logins[a] # 0
              => sync[s].payload.logins[a] >= LoginsOf(sync[s].snap)[a]
Merged(but) == \A s \in Syncs : PayloadKept(s) /\ \A a \in Accounts : MergedFor(s, a, but)

\* One task saves at a time, and what it is about to save takes no newer login
\* of the file away that the pool does not hold.
Saving(but) ==
  /\ \A t \in Tasks : task[t] # None => remote # None
  /\ \A t, u \in Tasks : Writing(t) /\ Writing(u) => t = u
  /\ \A t \in Tasks : Writing(t) => task[t].file # None
  /\ \A t \in Tasks, a \in Accounts : Writing(t) /\ local[a] # 0 /\ a \notin but =>
       \/ task[t].file.logins[a] >= LoginsOf(remote)[a]
       \/ local[a] >= LoginsOf(remote)[a]

IInv == TypeOK /\ Issued /\ Merged(setBack) /\ Saving(setBack)
=============================================================================
