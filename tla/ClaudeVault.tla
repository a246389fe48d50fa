---------------------------- MODULE ClaudeVault -----------------------------
(***************************************************************************)
(* Where the Claude pool keeps its tokens on macOS: in Copool's Keychain   *)
(* item, while claude-accounts.json keeps the accounts without them.  What *)
(* cannot be written to the item stays in the file, and an account whose   *)
(* tokens the file has is not looked up in the item.  The item is read     *)
(* once and cached, by saves under the pool's lock, by lists that hold no  *)
(* lock and by user actions that may make the Keychain ask.                *)
(*                                                                         *)
(* Tokens are numbers, new ones for each change of an account; a secret's  *)
(* alternates go with them.  The names begin with Vault so that a model of *)
(* several services can extend this module with others.                    *)
(***************************************************************************)
EXTENDS Integers

CONSTANTS
  Accounts,
  Changing,      \* those whose login changes
  None,
  Foreign,       \* an item of another version, or not Copool's
  MaxTokens,     \* bound: token changes of an account
  MaxTurns,      \* bound: changes of what the Keychain shows, and writes it fails
  MaxFailures    \* bound: file writes that fail, and crashes

ASSUME VaultBounds == MaxTokens \in Nat \ {0} /\ MaxTurns \in Nat /\ MaxFailures \in Nat
ASSUME VaultChanging == Changing \subseteq Accounts
VARIABLES
  file,      \* claude-accounts.json: the tokens of each account, Moved or None
  item,      \* the pool's section of the item, None or Foreign
  shows,     \* what the Keychain shows without asking: the item, nothing, or refused
  cache,     \* State.secrets: the section as last read or written, or None
  saving,    \* the change that holds the pool's lock, or None
  listing,   \* the accounts without tokens that a list read in the file, or None
  unlocking, \* a user action or start that reads the item, or None
  given,     \* the newest tokens of each account
  stale,     \* history: a user action cached what it read before the item changed, until
             \* no cache and no save holds it
  turns, failures  \* bounds

vaultVars == <<file, item, shows, cache, saving, listing, unlocking, given, stale, turns, failures>>
disk == <<file, item>>
others == <<listing, unlocking>>

Moved == 0
Tokens == 1..MaxTokens
Section == [Accounts -> 0..MaxTokens]      \* 0: none of the account
Empty == [a \in Accounts |-> 0]
Cards == [Accounts -> {None} \cup 0..MaxTokens]
Saving == [pc: {"saving", "writing", "checking", "stripping", "keeping"},
           of: Accounts \cup {None}, store: Cards, next: Section]
Listing == [moved: SUBSET Accounts]
Unlocking == [pc: {"asking", "caching", "migrating"}, moved: SUBSET Accounts, read: Section]

ASSUME VaultNone ==
  /\ None # Foreign /\ Foreign \notin Section
  /\ None \notin Int \cup Accounts \cup Section \cup Saving \cup Listing \cup Unlocking
  /\ None \notin [of: Accounts, to: Tokens \cup {None}]

KeptTypeOK ==
  /\ file \in Cards
  /\ item \in Section \cup {None, Foreign}
  /\ shows \in {"item", "missing", "refused"}
  /\ cache \in Section \cup {None}
  /\ saving \in Saving \cup {None}
  /\ listing \in Listing \cup {None}
  /\ unlocking \in Unlocking \cup {None}
  /\ given \in [Accounts -> 0..MaxTokens]
  /\ turns \in 0..MaxTurns /\ failures \in 0..MaxFailures
VaultTypeOK == KeptTypeOK /\ stale \in BOOLEAN

\* A pool kept from an earlier run, its tokens still in the file, in the item, or
\* nothing yet; or an item that is not Copool's.
VaultInit ==
  /\ given \in [Accounts -> 0..1]
  /\ \/ /\ file = [a \in Accounts |-> IF given[a] = 0 THEN None ELSE given[a]]
        /\ item \in {None, Foreign}
     \/ file = [a \in Accounts |-> IF given[a] = 0 THEN None ELSE Moved] /\ item = given
  /\ shows \in {"item", "refused"} /\ cache = None
  /\ saving = None /\ listing = None /\ unlocking = None
  /\ stale = FALSE /\ turns = 0 /\ failures = 0

Turn == turns < MaxTurns /\ turns' = turns + 1
Failure == failures < MaxFailures /\ failures' = failures + 1

-----------------------------------------------------------------------------
(* Reading the item: claude_secrets.                                       *)

\* moved_ids
MovedIn(cards) == {a \in Accounts : cards[a] = Moved}

\* vault_mismatch: tokens that were moved to the item must be in it.
Lacks(section, moved) == \E a \in moved : section[a] = 0

\* Section::read and parse_secrets, None when there is no answer to trust.
ShownAsIs(seen) ==                              \* variant: of any version
  IF seen = "refused" THEN None
  ELSE IF seen = "missing" \/ item = None THEN Empty
  ELSE item
Shown(seen) ==
  IF seen = "refused" \/ (seen = "item" /\ item = Foreign) THEN None
  ELSE IF seen = "missing" \/ item = None THEN Empty
  ELSE item

\* What the pool knows of the item, which is then cached or no longer is.
Secrets(moved) ==
  LET known == IF cache = None THEN Shown(shows) ELSE cache
  IN  IF known = None THEN None
      ELSE IF Lacks(known, moved) THEN None ELSE known

-----------------------------------------------------------------------------
(* A change of one account under claude.lock: claude_load, the change, and *)
(* claude_save.                                                            *)

\* The tokens of the file first, then the item's.
Loaded ==
  LET known == Secrets(MovedIn(file))
  IN  [a \in Accounts |-> IF file[a] = Moved /\ known # None THEN known[a] ELSE file[a]]
CachedByLoad == IF MovedIn(file) = {} THEN cache ELSE Secrets(MovedIn(file))

\* The change made to the cards loaded; of None when none is.
Save(a, cards) ==
  /\ saving = None
  /\ saving' = [pc |-> "saving", of |-> a, store |-> cards, next |-> Empty]
  /\ cache' = CachedByLoad

\* An account adopts, renews or imports a login, or is added.
Change(a) ==
  /\ a \in Changing /\ given[a] < MaxTokens
  /\ given' = [given EXCEPT ![a] = @ + 1]
  /\ Save(a, [Loaded EXCEPT ![a] = given[a] + 1])
  /\ UNCHANGED <<disk, shows, others, turns, failures>>

Delete(a) ==
  /\ file[a] # None
  /\ Save(a, [Loaded EXCEPT ![a] = None])
  /\ UNCHANGED <<disk, shows, others, given, turns, failures>>

InStep(pc) == saving # None /\ saving.pc = pc

\* claude_vault_save: the section to write, with the tokens the item keeps of
\* accounts that could not be read.  None when the item cannot be known.
NextForgets(known, store) ==                    \* variant: only what was loaded
  [a \in Accounts |-> IF store[a] = None THEN 0 ELSE store[a]]
NextSection(known, store) ==
  [a \in Accounts |-> IF store[a] = None THEN 0
                      ELSE IF store[a] = Moved THEN known[a] ELSE store[a]]

SaveReadsItem ==
  LET known == Secrets(MovedIn(saving.store))
      next == NextSection(known, saving.store)
  IN
  /\ InStep("saving")
  /\ cache' = known
  /\ saving' =
       IF known = None THEN [saving EXCEPT !.pc = "keeping"]
       ELSE [saving EXCEPT !.pc = IF next = known THEN "stripping" ELSE "writing",
                           !.next = next]
  /\ UNCHANGED <<disk, shows, others, given, turns, failures>>

\* Section::write, which reads the item before it writes it.  The Keychain may not
\* keep what it is given.
SaveWritesItem ==
  /\ InStep("writing") /\ Shown(shows) # None
  /\ \/ item' = saving.next /\ UNCHANGED turns
     \/ Turn /\ UNCHANGED item
  /\ saving' = [saving EXCEPT !.pc = "checking"]
  /\ UNCHANGED <<file, shows, cache, others, given, failures>>

\* Refused, or an error, after which what the item holds is not known.
SaveRefused ==
  /\ InStep("writing")
  /\ \/ Shown(shows) = None /\ UNCHANGED <<item, turns>>
     \/ Shown(shows) # None /\ Turn /\ item' \in {item, saving.next}
  /\ cache' = None
  /\ saving' = [saving EXCEPT !.pc = "keeping"]
  /\ UNCHANGED <<file, shows, others, given, failures>>

\* The tokens leave the file only when the item reads back as written.
ReadsBackAnything ==                            \* variant: not compared
  /\ InStep("checking")
  /\ cache' = saving.next
  /\ saving' = [saving EXCEPT !.pc = "stripping"]
  /\ UNCHANGED <<disk, shows, others, given, turns, failures>>
SaveReadsBack ==
  LET kept == Shown(shows) = saving.next
  IN
  /\ InStep("checking")
  /\ cache' = IF kept THEN saving.next ELSE None
  /\ saving' = [saving EXCEPT !.pc = IF kept THEN "stripping" ELSE "keeping"]
  /\ UNCHANGED <<disk, shows, others, given, turns, failures>>
Stripped(cards) == [a \in Accounts |-> IF cards[a] = None THEN None ELSE Moved]

SaveWritesFile ==
  /\ InStep("stripping") \/ InStep("keeping")
  /\ file' = IF saving.pc = "stripping" THEN Stripped(saving.store) ELSE saving.store
  /\ saving' = None
  /\ UNCHANGED <<item, shows, cache, others, given, turns, failures>>

SaveFails ==
  /\ InStep("stripping") \/ InStep("keeping")
  /\ Failure
  /\ saving' = None
  /\ UNCHANGED <<disk, shows, cache, others, given, turns>>

-----------------------------------------------------------------------------
(* Lists, which load without the lock, and claude_unlock.                  *)

ListReadsFile ==
  /\ listing = None
  /\ listing' = [moved |-> MovedIn(file)]
  /\ UNCHANGED <<disk, shows, cache, saving, unlocking, given, turns, failures>>

ListReadsItem ==
  /\ listing # None
  /\ cache' = IF listing.moved = {} THEN cache ELSE Secrets(listing.moved)
  /\ listing' = None
  /\ UNCHANGED <<disk, shows, saving, unlocking, given, turns, failures>>

UnlockStarts ==
  /\ unlocking = None
  /\ unlocking' = [pc |-> IF cache = None THEN "asking" ELSE "migrating",
                   moved |-> MovedIn(file), read |-> Empty]
  /\ UNCHANGED <<disk, shows, cache, saving, listing, given, turns, failures>>

Unlock(pc) == unlocking # None /\ unlocking.pc = pc

\* The Keychain asks: access may be given, from now on, or not.
UnlockAsks ==
  /\ Unlock("asking")
  /\ \E seen \in {shows, "item"} :
       LET section == Shown(seen) IN
       /\ shows' = seen
       /\ unlocking' =
            IF section = None THEN None
            ELSE IF Lacks(section, unlocking.moved) THEN None
            ELSE [unlocking EXCEPT !.pc = "caching", !.read = section]
  /\ UNCHANGED <<disk, cache, saving, listing, given, turns, failures>>

\* What was read before a save is out of date, and is cached if nothing else is.
CacheIsOld == cache \notin {None, Empty, item}
StillStale == stale /\ (saving' # None \/ CacheIsOld')

\* Nothing keeps a save from coming between the read and this.
UnlockCaches ==
  /\ Unlock("caching")
  /\ cache' = IF cache = None THEN unlocking.read ELSE cache
  /\ unlocking' = [unlocking EXCEPT !.pc = "migrating"]
  /\ UNCHANGED <<disk, shows, saving, listing, given, turns, failures>>
  /\ stale' = (StillStale \/ (cache = None /\ CacheIsOld'))

\* Tokens still in the file are moved to the item.
UnlockMigrates ==
  /\ Unlock("migrating")
  /\ Save(None, Loaded)
  /\ unlocking' = None
  /\ UNCHANGED <<disk, shows, listing, given, turns, failures>>

-----------------------------------------------------------------------------
(* The Keychain, and crashes.                                              *)

\* Another signature of Copool is refused; a locked Keychain may report the item
\* missing.
KeychainTurns ==
  /\ Turn
  /\ shows' \in {"item", "missing", "refused"}
  /\ UNCHANGED <<disk, cache, saving, others, given, failures>>

VaultCrash ==
  /\ Failure
  /\ saving' = None /\ listing' = None /\ unlocking' = None /\ cache' = None
  /\ UNCHANGED <<disk, shows, given, turns>>

VaultNext ==
  \/ UnlockCaches
  \/ /\ \/ \E a \in Accounts : Change(a) \/ Delete(a)
        \/ SaveReadsItem \/ SaveWritesItem \/ SaveRefused \/ SaveReadsBack
        \/ SaveWritesFile \/ SaveFails
        \/ ListReadsFile \/ ListReadsItem
        \/ UnlockStarts \/ UnlockAsks \/ UnlockMigrates
        \/ KeychainTurns \/ VaultCrash
     /\ stale' = StillStale

VaultSpec == VaultInit /\ [][VaultNext]_vaultVars

-----------------------------------------------------------------------------
(* What is promised.                                                       *)

\* Where each account's tokens are: those of the file win.
Kept ==
  [a \in Accounts |->
     IF file[a] # Moved THEN file[a]
     ELSE IF item \in {None, Foreign} THEN None
     ELSE IF item[a] = 0 THEN None ELSE item[a]]

\* The change being saved; a migration changes nothing.
Request ==
  IF saving = None THEN None ELSE IF saving.of = None THEN None
  ELSE [of |-> saving.of, to |-> saving.store[saving.of]]

Atomic == INSTANCE AtomicPool WITH pool <- Kept, request <- Request

\* The file and the item together are one pool with atomic saves: no change,
\* migration, refusal, failed write or crash takes another account's tokens, and a
\* save that succeeds has kept the new ones. Only while a cache or a save holds what a
\* user action read before an earlier save (claude_unlock) may others' tokens change.
SavesAreAtomic ==
  Atomic!Init /\ [][Atomic!Next \/ stale]_(Atomic!vars)
=============================================================================
