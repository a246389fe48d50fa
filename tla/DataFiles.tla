----------------------------- MODULE DataFiles ------------------------------
(***************************************************************************)
(* Copool's data directory: settings.json, accounts.json and the file of   *)
(* the local proxy's API key.  Account changes run under the store lock,   *)
(* settings and provider cards under the lock of the operations, proxy     *)
(* commands under a third; each loads both files, edits its copy and saves *)
(* it later.  Only single loads and saves exclude one another, and a save  *)
(* writes both files one after the other.                                  *)
(*                                                                         *)
(* The model keeps one value of each kind: of an account and of its proxy, *)
(* which account changes own, of the preferences and of a provider's       *)
(* cards, which the operations own, and the key.  A change gives its own   *)
(* values a new number.                                                    *)
(***************************************************************************)
EXTENDS Integers

CONSTANTS
  MaxChanges,   \* bound: changes and new keys
  MaxSlips      \* bound: writes that fail, and crashes

ASSUME DataBounds == MaxChanges \in Nat /\ MaxSlips \in Nat

VARIABLES
  accountsFile,  \* accounts.json: the account, and cachedAccounts
  settingsFile,  \* settings.json: accountProxyURLs, the preferences, apiProxyApiKey
  keyFile,       \* the key's own file; 0 when there is none
  files,         \* who holds the mutex of single loads and saves
  pooling,       \* the change that holds the store lock
  configuring,   \* the operation that holds the operations lock
  keying,        \* the proxy command that runs
  asking,        \* a status that found no key file
  server,        \* the key of the running proxy; 0 when it is stopped
  expected,      \* what each value may be, from the saves that were made
  keysTold,      \* what the key may be
  overwritten,   \* a late status has given the key's file another key than its own
  changes, slips \* bounds

dataVars == <<accountsFile, settingsFile, keyFile, files, pooling, configuring, keying,
              asking, server, expected, keysTold, overwritten, changes, slips>>
dataFiles == <<accountsFile, settingsFile>>
dataActors == <<pooling, configuring>>
keyVars == <<keyFile, keying, asking, server, keysTold, overwritten>>

Numbers == 0..MaxChanges
AccountsFile == [account: Numbers, cards: Numbers]
SettingsFile == [proxy: Numbers, prefs: Numbers, key: Numbers]
Idle == [pc |-> "idle"]
Owned == {"account", "proxy", "prefs", "cards"}

DataTypeOK ==
  /\ accountsFile \in AccountsFile /\ settingsFile \in SettingsFile /\ keyFile \in Numbers
  /\ files \in {"free", "pool", "config"}
  /\ pooling.pc \in {"idle", "changing", "settings", "accounts", "keyfile"}
  /\ configuring.pc \in {"idle", "changing", "accounts", "settings"}
  /\ keying.pc \in {"idle", "rotating", "starting", "saving", "saved"}
  /\ asking \in {"no", "yes"} /\ server \in Numbers
  /\ expected \in [Owned -> SUBSET Numbers] /\ keysTold \in SUBSET Numbers
  /\ overwritten \in BOOLEAN /\ changes \in Numbers /\ slips \in 0..MaxSlips

\* A key kept in the settings by an earlier version, or none; the proxy is stopped.
DataInit ==
  /\ accountsFile = [account |-> 0, cards |-> 0]
  /\ changes \in {0, 1} \cap Numbers
  /\ settingsFile = [proxy |-> 0, prefs |-> 0, key |-> changes]
  /\ keyFile \in {0, changes}
  /\ files = "free" /\ pooling = Idle /\ configuring = Idle /\ keying = Idle
  /\ asking = "no" /\ server = 0
  /\ expected = [d \in Owned |-> {0}] /\ keysTold = {changes}
  /\ overwritten = FALSE /\ slips = 0

Changes == changes < MaxChanges /\ changes' = changes + 1
Slips == slips < MaxSlips /\ slips' = slips + 1
May(kinds, n) == [d \in Owned |-> IF d \in kinds THEN expected[d] \cup {n} ELSE expected[d]]
Must(kinds, n) == [d \in Owned |-> IF d \in kinds THEN {n} ELSE expected[d]]

-----------------------------------------------------------------------------
(* save_accounts, and what runs under the store lock.                      *)

\* load_accounts, and the change to its copy: an account, or its proxy.
PoolLoads(kinds) ==
  /\ pooling = Idle /\ files = "free" /\ Changes
  /\ pooling' = [pc |-> "changing", kinds |-> kinds, new |-> changes', by |-> "pool",
                 account |-> IF "account" \in kinds THEN changes' ELSE accountsFile.account,
                 proxy |-> IF "proxy" \in kinds THEN changes' ELSE settingsFile.proxy,
                 key |-> settingsFile.key, cards |-> accountsFile.cards]
  /\ UNCHANGED <<dataFiles, keyVars, files, configuring, expected, slips>>

PoolSavesItsCards ==                             \* variant: as it loaded them
  /\ pooling.pc = "changing" /\ files = "free"
  /\ files' = "pool"
  /\ pooling' = [pooling EXCEPT !.pc = "settings"]
  /\ UNCHANGED <<dataFiles, keyVars, configuring, expected, changes, slips>>

\* The cards are read again from the file as it is now.
PoolSaves ==
  /\ pooling.pc = "changing" /\ files = "free"
  /\ files' = "pool"
  /\ pooling' = [pooling EXCEPT !.pc = "settings", !.cards = accountsFile.cards]
  /\ UNCHANGED <<dataFiles, keyVars, configuring, expected, changes, slips>>

\* save_accounts_inner, which reads the settings as they are now.
PoolWritesSettings ==
  /\ pooling.pc = "settings"
  /\ settingsFile' = [settingsFile EXCEPT !.proxy = pooling.proxy,
                        !.key = IF pooling.key = 0 THEN settingsFile.key ELSE pooling.key]
  /\ expected' = May(pooling.kinds \ {"account"}, pooling.new)
  /\ pooling' = [pooling EXCEPT !.pc = "accounts"]
  /\ UNCHANGED <<accountsFile, keyVars, files, configuring, changes, slips>>

PoolWritesAccounts ==
  /\ pooling.pc = "accounts"
  /\ accountsFile' = [account |-> pooling.account, cards |-> pooling.cards]
  /\ expected' = Must(pooling.kinds, pooling.new)
  /\ files' = "free"
  /\ pooling' = IF pooling.by = "start" THEN [pooling EXCEPT !.pc = "keyfile"] ELSE Idle
  /\ IF pooling.by = "rotate"
     THEN keying' = [keying EXCEPT !.pc = "saved"]
     ELSE keying' = keying
  /\ UNCHANGED <<settingsFile, keyFile, asking, server, keysTold, overwritten, configuring, changes, slips>>

\* Either write fails; the other file is not written back.
PoolFails ==
  /\ pooling.pc \in {"settings", "accounts"} /\ Slips
  /\ files' = "free" /\ pooling' = Idle
  /\ keying' = IF pooling.by = "pool" THEN keying ELSE Idle
  /\ UNCHANGED <<dataFiles, keyFile, asking, server, keysTold, overwritten, configuring, expected,
                 changes>>

-----------------------------------------------------------------------------
(* configuration and persist_configuration, under the operations lock.     *)

ConfigLoads(kinds) ==
  /\ configuring = Idle /\ files = "free" /\ Changes
  /\ configuring' =
       [pc |-> "changing", kinds |-> kinds, new |-> changes',
        prefs |-> IF "prefs" \in kinds THEN changes' ELSE settingsFile.prefs,
        cards |-> IF "cards" \in kinds THEN changes' ELSE accountsFile.cards,
        key |-> settingsFile.key, proxy |-> settingsFile.proxy, before |-> accountsFile]
  /\ UNCHANGED <<dataFiles, keyVars, files, pooling, expected, slips>>

\* save_settings loads the accounts and takes the proxies as they are now.
ConfigSaves ==
  /\ configuring.pc = "changing" /\ files = "free"
  /\ files' = "config"
  /\ configuring' = [configuring EXCEPT !.pc = "accounts", !.before = accountsFile,
                                        !.proxy = settingsFile.proxy]
  /\ UNCHANGED <<dataFiles, keyVars, pooling, expected, changes, slips>>

ConfigWritesAccounts ==
  /\ configuring.pc = "accounts"
  /\ accountsFile' = [configuring.before EXCEPT !.cards = configuring.cards]
  /\ expected' = May(configuring.kinds \cap {"cards"}, configuring.new)
  /\ configuring' = [configuring EXCEPT !.pc = "settings"]
  /\ UNCHANGED <<settingsFile, keyVars, files, pooling, changes, slips>>

ConfigWritesSettings ==
  /\ configuring.pc = "settings"
  /\ settingsFile' = [proxy |-> configuring.proxy, prefs |-> configuring.prefs,
                      key |-> configuring.key]
  /\ expected' = Must(configuring.kinds, configuring.new)
  /\ files' = "free" /\ configuring' = Idle
  /\ UNCHANGED <<accountsFile, keyVars, pooling, changes, slips>>

\* The settings cannot be written: accounts.json gets its bytes back.
ConfigLeavesAccounts ==                          \* variant: it does not
  /\ configuring.pc = "settings" /\ Slips
  /\ expected' = [d \in Owned |-> expected[d] \ {configuring.new}]
  /\ files' = "free" /\ configuring' = Idle
  /\ UNCHANGED <<dataFiles, keyVars, pooling, changes>>
ConfigFails ==
  /\ configuring.pc = "settings" /\ Slips
  /\ accountsFile' = configuring.before
  /\ expected' = [d \in Owned |-> expected[d] \ {configuring.new}]
  /\ files' = "free" /\ configuring' = Idle
  /\ UNCHANGED <<settingsFile, keyVars, pooling, changes>>

-----------------------------------------------------------------------------
(* The proxy's key: rotate_proxy_key, start_proxy and proxy_status.        *)

\* regenerate_persisted_api_proxy_key writes the key's file before it has the lock.
RotateStarts ==
  /\ keying = Idle /\ Changes
  /\ keyFile' = changes'
  /\ keysTold' = keysTold \cup {changes'}
  /\ keying' = [pc |-> "rotating", key |-> changes']
  /\ overwritten' = FALSE
  /\ UNCHANGED <<dataFiles, files, dataActors, asking, server, expected, slips>>

RotateLoads ==
  /\ keying.pc = "rotating" /\ pooling = Idle /\ files = "free"
  /\ pooling' = [pc |-> "changing", kinds |-> {}, new |-> keying.key, by |-> "rotate",
                 account |-> accountsFile.account, proxy |-> settingsFile.proxy,
                 key |-> keying.key, cards |-> accountsFile.cards]
  /\ keying' = [keying EXCEPT !.pc = "saving"]
  /\ UNCHANGED <<dataFiles, keyFile, asking, server, keysTold, overwritten, files, configuring,
                 expected, changes, slips>>

\* The running proxy takes the new key, and the user is shown it.
RotateEnds ==
  /\ keying.pc = "saved"
  /\ server' = IF server = 0 THEN 0 ELSE keying.key
  /\ keysTold' = {keying.key}
  /\ keying' = Idle
  /\ UNCHANGED <<dataFiles, keyFile, asking, overwritten, files, dataActors, expected, changes,
                 slips>>

\* ensure_persisted_api_proxy_key: the key's file comes first.
Starts ==
  /\ keying = Idle /\ server = 0
  /\ IF keyFile # 0
     THEN /\ server' = keyFile /\ keysTold' = {keyFile} /\ overwritten' = FALSE
          /\ keying' = keying
     ELSE keying' = [pc |-> "starting", key |-> 0] /\ UNCHANGED <<server, keysTold, overwritten>>
  /\ UNCHANGED <<dataFiles, keyFile, asking, files, dataActors, expected, changes, slips>>

\* The key of the settings, or a new one, which is saved before it has a file.
StartLoads ==
  /\ keying.pc = "starting" /\ pooling = Idle /\ files = "free"
  /\ IF settingsFile.key # 0
     THEN /\ pooling' = [pc |-> "keyfile", kinds |-> {}, new |-> settingsFile.key, by |-> "start",
                         account |-> 0, proxy |-> 0, key |-> settingsFile.key, cards |-> 0]
          /\ UNCHANGED <<changes, keysTold>>
     ELSE /\ Changes
          /\ keysTold' = keysTold \cup {changes'}
          /\ pooling' = [pc |-> "changing", kinds |-> {}, new |-> changes', by |-> "start",
                         account |-> accountsFile.account, proxy |-> settingsFile.proxy,
                         key |-> changes', cards |-> accountsFile.cards]
  /\ keying' = [keying EXCEPT !.pc = "saving"]
  /\ UNCHANGED <<dataFiles, keyFile, asking, server, overwritten, files, configuring, expected,
                 slips>>

StartEnds ==
  /\ pooling.pc = "keyfile"
  /\ keyFile' = pooling.key /\ server' = pooling.key /\ keysTold' = {pooling.key}
  /\ pooling' = Idle /\ keying' = Idle
  /\ UNCHANGED <<dataFiles, asking, overwritten, files, configuring, expected, changes, slips>>

Stops ==
  /\ keying = Idle /\ server # 0
  /\ server' = 0
  /\ UNCHANGED <<dataFiles, keyFile, keying, asking, keysTold, overwritten, files, dataActors,
                 expected, changes, slips>>

\* read_persisted_api_proxy_key, which no lock of the proxy commands orders.
StatusFindsNoFile ==
  /\ asking = "no" /\ server = 0 /\ keyFile = 0
  /\ asking' = "yes"
  /\ UNCHANGED <<dataFiles, keyFile, keying, server, keysTold, overwritten, files, dataActors,
                 expected, changes, slips>>

\* It gives the key of the settings a file, though a rotation may have made one since.
StatusWritesFile ==
  /\ asking = "yes" /\ pooling = Idle /\ files = "free"
  /\ keyFile' = IF settingsFile.key = 0 THEN keyFile ELSE settingsFile.key
  /\ overwritten' = (overwritten \/ keyFile \notin {0, keyFile'})
  /\ asking' = "no"
  /\ UNCHANGED <<dataFiles, keying, server, keysTold, files, dataActors,
                 expected, changes, slips>>

-----------------------------------------------------------------------------
(* Crashes.                                                                *)

DataCrash ==
  /\ Slips
  /\ files' = "free" /\ pooling' = Idle /\ configuring' = Idle
  /\ keying' = Idle /\ asking' = "no" /\ server' = 0
  /\ UNCHANGED <<dataFiles, keyFile, expected, keysTold, overwritten, changes>>

DataNext ==
  \/ \E kinds \in {{"account"}, {"proxy"}} : PoolLoads(kinds)
  \/ PoolSaves \/ PoolWritesSettings \/ PoolWritesAccounts \/ PoolFails
  \/ \E kinds \in {{"prefs"}, {"cards"}, {"prefs", "cards"}} : ConfigLoads(kinds)
  \/ ConfigSaves \/ ConfigWritesAccounts \/ ConfigWritesSettings \/ ConfigFails
  \/ RotateStarts \/ RotateLoads \/ RotateEnds
  \/ Starts \/ StartLoads \/ StartEnds \/ Stops
  \/ StatusFindsNoFile \/ StatusWritesFile
  \/ DataCrash

DataSpec == DataInit /\ [][DataNext]_dataVars

-----------------------------------------------------------------------------
(* What is promised.                                                       *)

\* A save never takes back what another lock's holder saved: every value on disk is
\* the last one saved by its owner, or one whose save failed or was cut off, though
\* all of them share two files and each save writes both from a copy loaded earlier.
SavesKeepTheOthers ==
  /\ accountsFile.account \in expected["account"] /\ settingsFile.proxy \in expected["proxy"]
  /\ settingsFile.prefs \in expected["prefs"] /\ accountsFile.cards \in expected["cards"]

\* The key a start would take, read from its file first.
StartKeyFromSettings ==                          \* variant: the settings first
  IF settingsFile.key # 0 THEN settingsFile.key ELSE keyFile
StartKey == IF keyFile # 0 THEN keyFile ELSE settingsFile.key

\* The proxy accepts the key last shown to the user or that of a rotation that failed,
\* whatever copies of the settings are saved late; and so it will after the next start,
\* unless a status that found no file for the key has since written the key of the
\* settings over the one a rotation gave the file meanwhile.
KeyAsShown ==
  /\ ~overwritten => StartKey \in keysTold
  /\ server # 0 => server \in keysTold

\* However saves, starts, rotations and status requests interleave, the two files hold
\* what was saved last, and the proxy's key is one the user was shown; only the key of the
\* next start may not be, after a status that overtook a rotation as KeyAsShown says.
FilesAgree == SavesKeepTheOthers /\ KeyAsShown
=============================================================================
