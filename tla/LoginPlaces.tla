------------------------------ MODULE LoginPlaces ------------------------------
(***************************************************************************)
(* Where Claude Code's login is kept (claude.rs, keychain.rs): entries of  *)
(* a Keychain service, one for each account name, else a credentials file; *)
(* and the account's name in one of two configuration files.  A switch or  *)
(* a write-back reads the login and replaces it where it was read, in      *)
(* several steps, each of which may fail; a switch then rolls back.        *)
(*                                                                         *)
(* ClaudeLogins has one login in one place and what the pool does with it. *)
(***************************************************************************)
EXTENDS Naturals, FiniteSets

CONSTANTS
  Others,        \* account names other than $USER
  NoLogin,
  MaxMoves,      \* bound: sign-ins and sign-outs of Claude Code
  MaxRefused,    \* bound: failed reads and writes
  MaxReplaced    \* bound: switches and write-backs

ASSUME PlacesBounds ==
  /\ MaxMoves \in Nat /\ MaxRefused \in Nat /\ MaxReplaced \in Nat
  /\ IsFiniteSet(Others)

VARIABLES
  place,         \* Location, and whether $USER is known
  entries,       \* the service's items, by account name
  credentials,   \* .credentials.json
  named,         \* oauthAccount, in the configuration file of each directory
  move,          \* the switch or write-back under way
  moves, refused, replaced

placeVars == <<place, entries, credentials, named, move, moves, refused, replaced>>
placeBounds == <<moves, refused, replaced>>
keptVars == <<place, entries, credentials, named>>

User == "$USER"
Names == {User} \cup Others

-----------------------------------------------------------------------------
(* Location::resolve.                                                      *)

Unset == "unset"
Blank == ""
\* The variables that decide; the address of sign-in may be in the settings too.
EnvironmentOf == [copool : BOOLEAN, config : {Unset, Blank, "config"},
                  storage : {Unset, Blank, "storage"},
                  oauth : {Unset, Blank, "approved", "foreign"},
                  settings : {Unset, Blank, "approved", "foreign"},
                  macOS : BOOLEAN, user : BOOLEAN]

Filled(value) == value \notin {Unset, Blank}
CustomOauth(e) == IF e.settings # Unset THEN e.settings ELSE e.oauth
ConfigDir(e) == IF Filled(e.config) THEN e.config ELSE "home/.claude"
GlobalConfig(e) == IF Filled(e.config) THEN e.config ELSE "home"
StorageDir(e) == CASE e.storage = Unset -> ConfigDir(e)
                   [] e.storage = Blank -> "home/.claude"
                   [] OTHER -> e.storage
\* The service's suffix and the directory whose hash it ends with.
Service(e) == [custom |-> Filled(CustomOauth(e)),
               of |-> IF (e.storage = Unset /\ ~Filled(e.config)) \/ e.storage = Blank
                      THEN NoLogin ELSE StorageDir(e)]

Resolve(e) ==
  IF e.copool
  THEN [config |-> "isolated", global |-> "isolated", storage |-> "isolated",
        keychain |-> NoLogin, user |-> e.user]
  ELSE [config |-> ConfigDir(e), global |-> GlobalConfig(e), storage |-> StorageDir(e),
        keychain |-> IF e.macOS /\ CustomOauth(e) # "foreign" THEN Service(e) ELSE NoLogin,
        user |-> e.user]

ConfigDirs == {"isolated", "config", "home", "home/.claude"}

\* account_file: the configuration file inside the directory only when it alone names one.
AccountFile(accounts) ==
  IF accounts[place.global] = NoLogin /\ accounts[place.config] # NoLogin
  THEN place.config ELSE place.global

-----------------------------------------------------------------------------
\* A document: the login, and the other members, which stay those of the place.
Logins == {"user's", "other's", "file's", "new", "target"}
Docs == [login : Logins, rest : Logins \cup {NoLogin}]
Doc(login, rest) == [login |-> login, rest |-> rest]
AccountNames == {"first", "second", "new", "target"}
ASSUME NoLoginIsNone == NoLogin \notin Docs \cup AccountNames \cup {"keychain", "file"}

NoMove == [pc |-> "idle"]
MovePCs == {"reading", "reading file", "reading account", "updating", "listing",
        "updating other", "creating", "filing", "naming", "saving", "restoring",
        "deleting", "clearing", "replaced", "rolled back", "broken"}
Replacements == [pc : MovePCs, switch : BOOLEAN, interactive : BOOLEAN, held : {NoLogin, "keychain", "file"},
          before : Docs \cup {NoLogin}, named : AccountNames \cup {NoLogin}, back : BOOLEAN,
          misnamed : BOOLEAN, places : SUBSET Names, raced : BOOLEAN]

PlacesTypeOK ==
  /\ place \in [config : ConfigDirs, global : ConfigDirs,
                storage : ConfigDirs \cup {"storage"}, user : BOOLEAN,
                keychain : {NoLogin} \cup
                  [custom : BOOLEAN, of : {NoLogin, "config", "home/.claude", "storage"}]]
  /\ entries \in [Names -> Docs \cup {NoLogin}]
  /\ credentials \in Docs \cup {NoLogin}
  /\ named \in [ConfigDirs -> AccountNames \cup {NoLogin}]
  /\ move \in Replacements \cup {NoMove}
  /\ moves \in 0..MaxMoves /\ refused \in 0..MaxRefused /\ replaced \in 0..MaxReplaced

PlacesInit ==
  /\ place \in {Resolve(e) : e \in EnvironmentOf}
  /\ entries \in {k \in [Names -> {NoLogin, Doc("user's", "user's"), Doc("other's", "other's")}] :
       \A n \in Names : k[n] # NoLogin => place.keychain # NoLogin /\
                                       (k[n].login = "user's" <=> n = User)}
  /\ credentials \in {NoLogin, Doc("file's", "file's")}
  /\ named \in {f \in [ConfigDirs -> {NoLogin, "first", "second"}] :
       \A d \in ConfigDirs : f[d] # NoLogin => IF d = place.global THEN f[d] = "first"
                                            ELSE d = place.config /\ f[d] = "second"}
  /\ move = NoMove
  /\ moves = 0 /\ refused = 0 /\ replaced = 0

Doing(pc) == move.pc = pc
Then(pc) == move' = [move EXCEPT !.pc = pc]
Denied == refused < MaxRefused /\ refused' = refused + 1 /\ UNCHANGED <<moves, replaced>>
MoveEnds == move' = NoMove

-----------------------------------------------------------------------------
(* read_live_with_access.                                                  *)

\* The user's item, or else any of the service.
FoundBy(user) ==
  IF user /\ entries[User] # NoLogin THEN {entries[User]}
  ELSE {entries[n] : n \in {m \in Names : entries[m] # NoLogin}}

Start(switch, interactive) ==
  /\ move = NoMove /\ replaced < MaxReplaced /\ replaced' = replaced + 1
  /\ move' = [pc |-> "reading", switch |-> switch, interactive |-> interactive, held |-> NoLogin,
              before |-> NoLogin, named |-> NoLogin, back |-> FALSE, misnamed |-> FALSE,
              places |-> {n \in Names : entries[n] # NoLogin}, raced |-> FALSE]
  /\ UNCHANGED <<keptVars, moves, refused>>

ReadKeychain ==
  /\ Doing("reading")
  /\ \/ /\ place.keychain # NoLogin
        /\ \E d \in FoundBy(place.user) :
             move' = [move EXCEPT !.pc = "reading account", !.held = "keychain", !.before = d]
     \/ (place.keychain = NoLogin \/ FoundBy(place.user) = {}) /\ Then("reading file")
  /\ UNCHANGED <<keptVars, placeBounds>>

\* Only an absent item allows the file; a read that fails ends the operation.
ReadFails ==
  /\ \/ Doing("reading") /\ place.keychain # NoLogin
     \/ Doing("reading file") /\ credentials # NoLogin
  /\ Denied /\ MoveEnds /\ UNCHANGED keptVars

\* A write-back needs a login to replace.
ReadFile ==
  /\ Doing("reading file")
  /\ IF credentials # NoLogin
     THEN move' = [move EXCEPT !.pc = "reading account", !.held = "file", !.before = credentials]
     ELSE IF move.switch THEN Then("updating") ELSE MoveEnds
  /\ UNCHANGED <<keptVars, placeBounds>>

ReadAccount ==
  /\ Doing("reading account")
  /\ move' = [move EXCEPT !.pc = "updating", !.named = named[AccountFile(named)]]
  /\ UNCHANGED <<keptVars, placeBounds>>

-----------------------------------------------------------------------------
(* write_credentials.                                                      *)

Target == Doc("target", IF move.before = NoLogin THEN NoLogin ELSE move.before.rest)
Written == IF move.back THEN move.before ELSE Target

WritesItemAlways == place.keychain # NoLogin   \* variant: wherever it was read
WritesItem == place.keychain # NoLogin /\ move.held # "file"

\* What follows a write of credentials, and what a failed one.
Placed == IF move.back THEN "rolled back" ELSE IF move.switch THEN "naming" ELSE "replaced"
RollsBack ==
  IF move.back \/ ~move.switch THEN Then("broken")
  ELSE move' = [move EXCEPT !.pc = IF move.before = NoLogin THEN "deleting" ELSE "updating",
                            !.back = TRUE]

\* The user's item is replaced, if there is one.
UpdateUsers ==
  /\ Doing("updating") /\ (WritesItem => place.user)
  /\ IF ~WritesItem THEN Then("filing") /\ UNCHANGED entries
     ELSE IF entries[User] # NoLogin
     THEN entries' = [entries EXCEPT ![User] = Written] /\ Then("filing")
     ELSE Then("listing") /\ UNCHANGED entries
  /\ UNCHANGED <<place, credentials, named, placeBounds>>

\* Else the one item under another name; of several, none.
ListAccounts ==
  LET others == {n \in Names : entries[n] # NoLogin} IN
  /\ Doing("listing")
  /\ IF others \in {{}, {User}} THEN Then("creating")
     ELSE IF Cardinality(others) = 1 THEN Then("updating other") ELSE RollsBack
  /\ UNCHANGED <<keptVars, placeBounds>>

UpdateOther ==
  /\ Doing("updating other")
  /\ \/ \E n \in Others : /\ entries[n] # NoLogin
                          /\ entries' = [entries EXCEPT ![n] = Written] /\ Then("filing")
     \/ (\A n \in Others : entries[n] = NoLogin) /\ Then("creating") /\ UNCHANGED entries
  /\ UNCHANGED <<place, credentials, named, placeBounds>>

\* In the user's presence only, and never over an item made meanwhile.
CreateUsers ==
  /\ Doing("creating")
  /\ IF move.interactive /\ entries[User] = NoLogin
     THEN entries' = [entries EXCEPT ![User] = Written] /\ Then("filing")
     ELSE RollsBack /\ UNCHANGED entries
  /\ UNCHANGED <<place, credentials, named, placeBounds>>

\* The file Claude Code falls back to must not keep the old login.
FilesNoFallback == ~WritesItem   \* variant
FilesToo == ~WritesItem \/ credentials # NoLogin
WriteFile ==
  /\ Doing("filing")
  /\ credentials' = IF FilesToo THEN Written ELSE credentials
  /\ Then(Placed)
  /\ UNCHANGED <<place, entries, named, placeBounds>>

\* The Keychain refuses, has no name to write under or no room; the disk is full.
WritingFails ==
  /\ \/ Doing("updating") /\ WritesItem /\ ~place.user /\ UNCHANGED placeBounds
     \/ /\ \/ Doing("updating") /\ WritesItem
           \/ Doing("listing") \/ Doing("updating other") \/ Doing("creating")
           \/ Doing("filing") /\ FilesToo
        /\ Denied
  /\ RollsBack
  /\ UNCHANGED keptVars

-----------------------------------------------------------------------------
(* write_account, and the end of a switch.                                 *)

WriteAccount ==
  /\ Doing("naming")
  /\ named' = [named EXCEPT ![AccountFile(named)] = "target"]
  /\ Then("saving")
  /\ UNCHANGED <<place, entries, credentials, placeBounds>>

WriteAccountFails ==
  /\ Doing("naming") /\ Denied /\ RollsBack /\ UNCHANGED keptVars

\* The settings and the pool are saved.
SaveSwitch ==
  /\ Doing("saving") /\ Then("replaced") /\ UNCHANGED <<keptVars, placeBounds>>
SavingFails ==
  /\ Doing("saving") /\ Denied /\ Then("restoring") /\ UNCHANGED keptVars

\* restore_account: whether it succeeds is not looked at.
RestoreAccount ==
  /\ Doing("restoring")
  /\ named' = [named EXCEPT ![AccountFile(named)] = move.named]
  /\ RollsBack
  /\ UNCHANGED <<place, entries, credentials, placeBounds>>
RestoreFails ==
  /\ Doing("restoring") /\ Denied
  /\ move' = [move EXCEPT !.pc = IF move.before = NoLogin THEN "deleting" ELSE "updating",
                          !.back = TRUE, !.misnamed = TRUE]
  /\ UNCHANGED keptVars

-----------------------------------------------------------------------------
(* remove_credentials.                                                     *)

DeleteUsers ==
  /\ Doing("deleting") /\ (place.keychain # NoLogin => place.user)
  /\ entries' = [entries EXCEPT ![User] = NoLogin]
  /\ Then("clearing")
  /\ UNCHANGED <<place, credentials, named, placeBounds>>
ClearFile ==
  /\ Doing("clearing") /\ credentials' = NoLogin /\ Then("rolled back")
  /\ UNCHANGED <<place, entries, named, placeBounds>>
RemoveFails ==
  /\ \/ Doing("deleting") /\ place.keychain # NoLogin /\ ~place.user /\ UNCHANGED placeBounds
     \/ /\ \/ Doing("deleting") /\ place.keychain # NoLogin
           \/ Doing("clearing") /\ credentials # NoLogin
        /\ Denied
  /\ Then("broken") /\ UNCHANGED keptVars

MoveEnd ==
  /\ move.pc \in {"replaced", "rolled back", "broken"} /\ MoveEnds
  /\ UNCHANGED <<keptVars, placeBounds>>

-----------------------------------------------------------------------------
(* Claude Code.                                                            *)

Races == move' = IF move = NoMove THEN NoMove ELSE [move EXCEPT !.raced = TRUE]
MovesOnce == moves < MaxMoves /\ moves' = moves + 1 /\ UNCHANGED <<refused, replaced>>

ClaudeSignsInHere ==
  /\ MovesOnce /\ Races
  /\ IF place.keychain # NoLogin
     THEN entries' = [entries EXCEPT ![User] = Doc("new", "new")] /\ UNCHANGED credentials
     ELSE credentials' = Doc("new", "new") /\ UNCHANGED entries
  /\ named' = [named EXCEPT ![place.global] = "new"]
  /\ UNCHANGED place

ClaudeSignsOutHere ==
  /\ MovesOnce /\ Races
  /\ entries' = [entries EXCEPT ![User] = NoLogin] /\ credentials' = NoLogin
  /\ named' = [named EXCEPT ![place.global] = NoLogin]
  /\ UNCHANGED place

PlacesNext ==
  \/ \E switch \in BOOLEAN, interactive \in BOOLEAN : Start(switch, interactive)
  \/ ReadKeychain \/ ReadFails \/ ReadFile \/ ReadAccount
  \/ UpdateUsers \/ ListAccounts \/ UpdateOther \/ CreateUsers \/ WriteFile \/ WritingFails
  \/ WriteAccount \/ WriteAccountFails \/ SaveSwitch \/ SavingFails
  \/ RestoreAccount \/ RestoreFails \/ DeleteUsers \/ ClearFile \/ RemoveFails \/ MoveEnd
  \/ ClaudeSignsInHere \/ ClaudeSignsOutHere

PlacesSpec == PlacesInit /\ [][PlacesNext]_placeVars

-----------------------------------------------------------------------------
(* What is promised.                                                       *)

\* What Claude Code finds: one login, one account, and no other in the file.
FoundIs(doc, account) ==
  /\ IF place.keychain # NoLogin /\ FoundBy(place.user) # {}
     THEN FoundBy(place.user) = {doc} /\ (credentials = NoLogin \/ credentials.login = doc.login)
     ELSE credentials = doc
  /\ account # "any" => named[AccountFile(named)] = account

\* A login is replaced where Claude Code reads it: after a switch or a write-back,
\* with Claude Code idle meanwhile, Claude Code finds the written login and its
\* account whichever place it falls back to, and no place was added beside the one
\* that was read; after a switch that failed and was rolled back, it finds the login
\* it had.
ReplacedWhereRead ==
  ~(move # NoMove => move.raced) =>
    /\ move.pc = "replaced" =>
         /\ FoundIs(Target, IF move.switch THEN "target" ELSE "any")
         /\ move.held # NoLogin => move.places = {n \in Names : entries[n] # NoLogin}
    /\ move.pc = "rolled back" =>
         IF move.before = NoLogin THEN credentials = NoLogin /\ \A n \in Names : entries[n] = NoLogin
         ELSE FoundIs(move.before, IF move.misnamed THEN "any" ELSE move.named)
=============================================================================
