---------------------------- MODULE RemoteServers ----------------------------
(***************************************************************************)
(* The remote servers of the settings (remote_runtime.rs, remote.rs): each *)
(* has a configuration in settings.json, a password and a private key in   *)
(* the Keychain, and a unit of its own name on the machine.  Saves and     *)
(* removals hold the operations lock, actions on a server hold none; what  *)
(* they do to the accounts and to running daemons is RemoteSync's.  There  *)
(* is one machine.                                                         *)
(***************************************************************************)
EXTENDS Naturals, FiniteSets

CONSTANTS
  ServerIds,     \* ids, of which each makes the name of a unit
  Sites,         \* the directories and ports to install at: pairs
  Wrong,         \* one that is none: no such host, port or directory
  Forms,         \* how a card logs in, and the secrets given with it: pairs
  Jobs,          \* remote_action calls at once
  MaxSaves,      \* bound: saves and removals
  MaxMishaps     \* bound: steps that fail, and crashes

ASSUME ServerBounds ==
  /\ Wrong \notin Sites
  /\ MaxSaves \in Nat /\ MaxMishaps \in Nat

VARIABLES
  servers,     \* settings.json: the configuration of each server it lists
  secret,     \* the Keychain: "ssh-password:<id>", "ssh-key:<id>", or 0
  save,       \* the save or removal under way
  job,        \* what each remote_action is doing
  bundled,    \* where the app has a daemon to install
  units,      \* the machine: the site of each unit
  owed,       \* history: the secrets a server may have, {} if it was given none, 0 if
              \* it may have lost its own
  met,        \* history: the servers whose units were placed since an installation cleared
  crossed,    \* history: pairs of servers, the second unit placed by such an installation
  savings, serverMishaps

serverVars ==
  <<servers, secret, save, job, bundled, units, owed, met, crossed, savings, serverMishaps>>
overlaps == <<met, crossed>>

SecretKinds == {"password", "key"}
Config == [site : Sites \cup {Wrong}, mode : {form[1] : form \in Forms}]
NoServer == [mode |-> "none"]
NoUnit == <<>>
NoSave == [pc |-> "none"]
NoJob == [pc |-> "none"]
Listed == {s \in ServerIds : servers[s] # NoServer}
Installed == {s \in ServerIds : units[s] # NoUnit}

ServersInit ==
  /\ servers = [s \in ServerIds |-> NoServer] /\ secret = [k \in SecretKinds |-> [s \in ServerIds |-> 0]]
  /\ save = NoSave /\ job = [j \in Jobs |-> NoJob]
  /\ bundled \in {"repository", "archive", "broken", "nowhere"}
  \* nothing, or what another Copool installed
  /\ \E s \in ServerIds, site \in Sites \cup {NoUnit} :
       units = [t \in ServerIds |-> IF t = s THEN site ELSE NoUnit]
  /\ owed = [k \in SecretKinds |-> [s \in ServerIds |-> {}]]
  /\ met = [j \in Jobs |-> {}] /\ crossed = {}
  /\ savings = 0 /\ serverMishaps = 0

-----------------------------------------------------------------------------
(* save_remote and remove_remote.                                          *)

\* A new card, an edited one, or one that takes over a unit found on the machine, with
\* its id, directory and port. Secrets are given or left as they are; blank ones are not
\* given.
SaveBegins(s, old, conf, filled) ==
  /\ save = NoSave /\ savings < MaxSaves /\ savings' = savings + 1
  /\ save' = [pc |-> "password", id |-> s, old |-> old, conf |-> conf, filled |-> filled,
              due |-> {}]
  /\ UNCHANGED <<servers, secret, job, bundled, units, owed, overlaps, serverMishaps>>
SaveStarts(s) ==
  \E site \in Sites \cup {Wrong}, form \in Forms :
    SaveBegins(s, s, [site |-> site, mode |-> form[1]], form[2])
AdoptStarts(s, old) ==
  \E form \in Forms :
    /\ s # old /\ s \in Installed /\ old \in Listed /\ form[1] = servers[old].mode
    /\ SaveBegins(s, old, [site |-> units[s], mode |-> form[1]], form[2])

Renames == save.old # save.id
Stores(kind, pc) ==
  /\ save.pc = kind
  /\ IF kind \in save.filled
     THEN /\ secret' = [secret EXCEPT ![kind][save.id] = savings]
          /\ owed' = [owed EXCEPT ![kind][save.id] = IF @ = {} THEN {} ELSE @ \cup {savings}]
     ELSE UNCHANGED <<secret, owed>>
  /\ save' = [save EXCEPT !.pc = pc]
  /\ UNCHANGED <<servers, job, bundled, units, overlaps, savings, serverMishaps>>
StoresPassword == Stores("password", "key")
StoresKey == Stores("key", "carry")

\* Renamed, the server keeps the secret of its mode, unless another is given with the
\* new id; the other kind of secret stays behind under the old id.
MovesSecret == Renames /\ save.conf.mode \in SecretKinds
CarriedAnyway(kind) == secret[kind][save.old] # 0        \* variant: whatever is given
Carried(kind) == kind \notin save.filled /\ secret[kind][save.old] # 0
Carries ==
  LET mode == save.conf.mode IN
  /\ save.pc = "carry"
  /\ save' = [save EXCEPT !.pc = "forget", !.due = IF MovesSecret THEN owed[mode][save.old] ELSE {}]
  /\ IF MovesSecret /\ Carried(mode)
     THEN /\ secret' = [secret EXCEPT ![mode][save.id] = secret[mode][save.old]]
          /\ owed' = [owed EXCEPT ![mode][save.id] =
                        IF @ = {} THEN {} ELSE @ \cup {secret[mode][save.old]}]
     ELSE UNCHANGED <<secret, owed>>
  /\ UNCHANGED <<servers, job, bundled, units, overlaps, savings, serverMishaps>>
ForgetsOld ==
  LET mode == save.conf.mode IN
  /\ save.pc = "forget" /\ save' = [save EXCEPT !.pc = "persist"]
  /\ IF MovesSecret
     THEN /\ secret' = [secret EXCEPT ![mode][save.old] = 0]
          /\ owed' = [owed EXCEPT ![mode][save.old] = IF @ = {} THEN {} ELSE @ \cup {0}]
     ELSE UNCHANGED <<secret, owed>>
  /\ UNCHANGED <<servers, job, bundled, units, overlaps, savings, serverMishaps>>

\* What a server may have once it is saved: what was given, or its own under its old id,
\* or, if it may have lost that, what was left under the new id; else as before.
Due(kind) ==
  LET before == IF save.id \in Listed THEN owed[kind][save.id] ELSE {}
  IN  CASE kind \in save.filled -> {savings}
        [] kind \notin save.filled /\ kind = save.conf.mode /\ save.due # {} ->
             IF 0 \in save.due THEN save.due \cup {secret[kind][save.id]} ELSE save.due
        [] OTHER -> before
Persists ==
  /\ save.pc = "persist" /\ save' = NoSave
  /\ servers' = [s \in ServerIds |-> CASE s = save.id -> save.conf
                                      [] s # save.id /\ s = save.old -> NoServer
                                      [] OTHER -> servers[s]]
  /\ owed' = [k \in SecretKinds |-> [s \in ServerIds |-> CASE s = save.id -> Due(k)
                                                     [] s # save.id /\ s = save.old -> {}
                                                     [] OTHER -> owed[k][s]]]
  /\ UNCHANGED <<secret, job, bundled, units, overlaps, savings, serverMishaps>>

\* The settings forget the server first, then its password, then its key.
RemoveStarts(s) ==
  /\ save = NoSave /\ savings < MaxSaves /\ savings' = savings + 1 /\ s \in Listed
  /\ save' = [pc |-> "unlisted", id |-> s, old |-> s, left |-> SecretKinds]
  /\ servers' = [servers EXCEPT ![s] = NoServer]
  /\ owed' = [k \in SecretKinds |-> [owed[k] EXCEPT ![s] = {}]]
  /\ UNCHANGED <<secret, job, bundled, units, overlaps, serverMishaps>>
ForgetsRemoved(kind) ==
  /\ save.pc = "unlisted" /\ kind \in save.left /\ (kind = "key" => save.left = {"key"})
  /\ secret' = [secret EXCEPT ![kind][save.id] = 0]
  /\ save' = IF kind = "key" THEN NoSave ELSE [save EXCEPT !.left = {"key"}]
  /\ UNCHANGED <<servers, job, bundled, units, owed, overlaps, savings, serverMishaps>>

\* A step fails, or the app quits: what was done stays.
SaveStops ==
  /\ save # NoSave /\ serverMishaps < MaxMishaps /\ serverMishaps' = serverMishaps + 1
  /\ save' = NoSave
  /\ UNCHANGED <<servers, secret, job, bundled, units, owed, overlaps, savings>>

-----------------------------------------------------------------------------
(* remote_action.                                                          *)

\* find_root, prebuilt: the repository's daemon, else the archive's, unpacked.
HasDaemon == bundled \in {"repository", "archive"}

\* Cards are saved as they are, and validated by each action.
Valid(conf) == conf.site # Wrong
JobStarts(j, s, action) ==
  /\ job[j] = NoJob /\ s \in Listed /\ Valid(servers[s])
  /\ job' = [job EXCEPT ![j] = [pc |-> "secret", id |-> s, conf |-> servers[s],
                                action |-> action]]
  /\ UNCHANGED <<servers, secret, save, bundled, units, owed, overlaps, savings, serverMishaps>>

\* Each step is an ssh command of its own; the last one asks for the status.
JobEnds(j) == job' = [job EXCEPT ![j] = NoJob]
JobGoesTo(j, pc) == job' = [job EXCEPT ![j] = [@ EXCEPT !.pc = pc]]

\* The secret is read after the configuration; without it nothing is run.
ReadsSecret(j) ==
  /\ job[j].pc = "secret"
  /\ IF job[j].conf.mode \in SecretKinds /\ secret[job[j].conf.mode][job[j].id] = 0
     THEN JobEnds(j) ELSE JobGoesTo(j, job[j].action)
  /\ UNCHANGED <<servers, secret, save, bundled, units, owed, overlaps, savings, serverMishaps>>

\* The status, the logs and the units of the machine are only looked at.
Looks(j) ==
  /\ job[j].pc = "look" /\ JobEnds(j)
  /\ UNCHANGED <<servers, secret, save, bundled, units, owed, overlaps, savings, serverMishaps>>
\* The unit of the server's name, whatever its directory.
Uninstalls(j) ==
  /\ job[j].pc = "uninstall" /\ JobEnds(j)
  /\ units' = [units EXCEPT ![job[j].id] = NoUnit]
  /\ UNCHANGED <<servers, secret, save, bundled, owed, overlaps, savings, serverMishaps>>

\* A daemon for the machine's architecture is uploaded; then the script of
\* install_command removes the units in its way, and places its own.
Deploys(j) ==
  /\ job[j].pc = "deploy"
  /\ \/ HasDaemon /\ JobGoesTo(j, "clear")
     \/ JobEnds(j)
  /\ UNCHANGED <<servers, secret, save, bundled, units, owed, overlaps, savings, serverMishaps>>
InTheWayByDir(unit, site) == unit[1] = site[1]      \* variant: the port is not looked at
InTheWay(unit, site) == unit[1] = site[1] \/ unit[2] = site[2]
Clears(j) ==
  /\ job[j].pc = "clear"
  /\ units' = [s \in ServerIds |->
       IF s # job[j].id /\ units[s] # NoUnit /\ InTheWay(units[s], job[j].conf.site)
       THEN NoUnit ELSE units[s]]
  /\ JobGoesTo(j, "place")
  /\ UNCHANGED <<servers, secret, save, bundled, owed, overlaps, savings, serverMishaps>>
Places(j) ==
  /\ job[j].pc = "place" /\ JobEnds(j)
  /\ units' = [units EXCEPT ![job[j].id] = job[j].conf.site]
  /\ met' = [i \in Jobs |-> IF i # j /\ job[i].pc = "place" THEN met[i] \cup {job[j].id} ELSE {}]
  /\ crossed' = {pair \in crossed : job[j].id \notin pair}
                 \cup {{job[j].id, s} : s \in met[j] \ {job[j].id}}
  /\ UNCHANGED <<servers, secret, save, bundled, owed, savings, serverMishaps>>

\* The connection breaks or times out: what the machine did stays.
JobFails(j) ==
  /\ job[j] # NoJob /\ serverMishaps < MaxMishaps /\ serverMishaps' = serverMishaps + 1 /\ JobEnds(j)
  /\ met' = [met EXCEPT ![j] = {}]
  /\ UNCHANGED <<servers, secret, save, bundled, units, owed, crossed, savings>>

-----------------------------------------------------------------------------
ServersNext ==
  \/ StoresPassword \/ StoresKey \/ Carries \/ ForgetsOld \/ Persists \/ SaveStops
  \/ \E kind \in SecretKinds : ForgetsRemoved(kind)
  \/ \E s \in ServerIds : SaveStarts(s) \/ RemoveStarts(s)
  \/ \E s, old \in ServerIds : AdoptStarts(s, old)
  \/ \E j \in Jobs :
       \/ \E s \in ServerIds, action \in {"look", "uninstall", "deploy"} :
            JobStarts(j, s, action)
       \/ ReadsSecret(j) \/ Looks(j) \/ Uninstalls(j) \/ Deploys(j) \/ Clears(j) \/ Places(j) \/ JobFails(j)

ServersSpec == ServersInit /\ [][ServersNext]_serverVars

ServersTypeOK ==
  /\ servers \in [ServerIds -> Config \cup {NoServer}]
  /\ secret \in [SecretKinds -> [ServerIds -> 0..MaxSaves]]
  /\ units \in [ServerIds -> Sites \cup {NoUnit}]
  /\ owed \in [SecretKinds -> [ServerIds -> SUBSET (0..MaxSaves)]]
  /\ met \in [Jobs -> SUBSET ServerIds] /\ crossed \in SUBSET (SUBSET ServerIds)

-----------------------------------------------------------------------------
(* What is promised.                                                       *)

\* A listed server has the secret it was given last, also under another id, and after
\* saves and removals that stopped at any step; a rename that stopped may have given it to
\* the other id.
SecretsKept ==
  \A s \in Listed :
    LET mode == servers[s].mode IN
    mode \in SecretKinds /\ owed[mode][s] # {} => secret[mode][s] \in owed[mode][s]

\* However servers are edited, renamed, removed and deployed, several at a time and from
\* configurations read earlier, no two units of the machine share a directory or a port,
\* unless the earlier was placed while the installation of the later had already cleared
\* its way: two installations that overlap on the machine.
UnitsApart ==
  \A s, t \in Installed : s # t /\ {s, t} \notin crossed =>
    units[s][1] # units[t][1] /\ units[s][2] # units[t][2]

RemotesKept == SecretsKept /\ UnitsApart
=============================================================================
