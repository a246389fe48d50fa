------------------------ MODULE ClaudeStorageProofs -------------------------
(***************************************************************************)
(* Proofs about where the Claude pool and Claude Code keep their logins,   *)
(* for any accounts, processes, threads and account names: the file and the*)
(* Keychain item together are one pool with atomic saves; a section of the *)
(* item is never lost to another's write; and a login is replaced where it *)
(* was read, or put back.                                                  *)
(***************************************************************************)
EXTENDS ClaudeVault, KeychainItem, LoginPlaces, FiniteSetTheorems, TLAPS

-----------------------------------------------------------------------------
(* The vault.                                                              *)

\* The cache is the item's section, or empty when the item is reported missing,
\* except between a write and its reading back.
CacheFollows == InStep("checking") \/ ~CacheIsOld

\* What a save still holds of the accounts it does not change.
HoldsOther(a) ==
  /\ saving.store[a] = None <=> file[a] = None
  /\ file[a] \in Tokens => saving.store[a] = file[a]
  /\ file[a] = Moved /\ saving.store[a] # Moved
       => item \in Section /\ item[a] = saving.store[a]
HoldsOthers == saving # None => \A a \in Accounts \ {saving.of} : HoldsOther(a)

\* The account that changes has its new tokens, or none any more.
HoldsChange ==
  saving # None /\ saving.of # None => saving.store[saving.of] # Moved

\* What is written to the item: the tokens of the save, and of the accounts it
\* could not read those the item has.
NextHolds(a) ==
  /\ saving.store[a] = None => saving.next[a] = 0
  /\ saving.store[a] \in Tokens => saving.next[a] = saving.store[a]
  /\ saving.store[a] = Moved
       => saving.next[a] # 0 /\ item \in Section /\ item[a] = saving.next[a]
Writing == InStep("writing") \/ InStep("checking") \/ InStep("stripping")
WritesAll == Writing => \A a \in Accounts : NextHolds(a)

\* When the tokens leave the file, the item has them.
ItemHolds(a) ==
  saving.store[a] # None
    => item \in Section /\ item[a] = saving.next[a] /\ saving.next[a] # 0
StripsWritten == InStep("stripping") => \A a \in Accounts : ItemHolds(a)

VaultInv ==
  KeptTypeOK /\ CacheFollows /\ HoldsOthers /\ HoldsChange /\ WritesAll /\ StripsWritten

\* None of it is known while a cache or a save holds what was read before a save.
StaleInv == KeptTypeOK /\ (stale \/ VaultInv)

-----------------------------------------------------------------------------
(* What is read of the item, and what is loaded.                           *)

LEMMA EmptyType == Empty \in Section /\ Section \subseteq [Accounts -> Int]
  BY VaultBounds DEF Empty, Section

\* The Keychain shows the item, nothing, or refuses.
LEMMA ShownType ==
  ASSUME KeptTypeOK, NEW seen \in {"item", "missing", "refused"}
  PROVE  Shown(seen) \in Section \cup {None} /\ Shown(seen) \in {None, Empty, item}
  BY EmptyType DEF KeptTypeOK, Shown

\* The pool knows the item as cached or shown, and every account looked for in it.
LEMMA SecretsType ==
  ASSUME KeptTypeOK, NEW moved \in SUBSET Accounts
  PROVE  /\ Secrets(moved) \in Section \cup {None}
         /\ Secrets(moved) \in {None, cache, Shown(shows)}
         /\ Secrets(moved) # None => \A a \in moved : Secrets(moved)[a] # 0
  BY ShownType DEF KeptTypeOK, Secrets, Lacks

LEMMA SecretsFollow ==
  ASSUME KeptTypeOK, CacheFollows, NEW moved \in SUBSET Accounts
  PROVE  InStep("checking") \/ Secrets(moved) \in {None, Empty, item}
  BY SecretsType, ShownType DEF CacheIsOld, CacheFollows, KeptTypeOK

\* A known token of the item is the one it has.
LEMMA KnownIsKept ==
  ASSUME KeptTypeOK, NEW seen \in Section, seen \in {None, Empty, item},
         NEW a \in Accounts, seen[a] # 0
  PROVE  item \in Section /\ item[a] = seen[a]
  BY VaultNone DEF Empty

LEMMA LoadedHolds ==
  ASSUME KeptTypeOK, CacheFollows, saving = None
  PROVE  /\ Loaded \in Cards
         /\ \A a \in Accounts :
              /\ Loaded[a] = None <=> file[a] = None
              /\ file[a] \in Tokens => Loaded[a] = file[a]
              /\ file[a] = Moved /\ Loaded[a] # Moved
                   => item \in Section /\ item[a] = Loaded[a]
<1> DEFINE moved == MovedIn(file)
<1> DEFINE seen == Secrets(moved)
<1>1. moved \in SUBSET Accounts
  BY DEF MovedIn
<1>2. seen \in Section \cup {None} /\ seen \in {None, Empty, item}
  BY <1>1, SecretsType, SecretsFollow DEF InStep
<1>3. seen # None => \A a \in moved : seen[a] # 0
  BY <1>1, SecretsType
<1>4. Loaded = [a \in Accounts |-> IF file[a] = Moved /\ seen # None THEN seen[a] ELSE file[a]]
  BY DEF Loaded
<1> HIDE DEF seen
<1>5. ASSUME NEW a \in Accounts
      PROVE  /\ Loaded[a] \in {None} \cup 0..MaxTokens
             /\ Loaded[a] = None <=> file[a] = None
             /\ file[a] \in Tokens => Loaded[a] = file[a]
             /\ file[a] = Moved /\ Loaded[a] # Moved
                  => item \in Section /\ item[a] = Loaded[a]
  <2>1. file[a] \in {None} \cup 0..MaxTokens
    BY DEF KeptTypeOK, Cards
  <2>2. CASE file[a] = Moved /\ seen # None
    <3>1. seen \in Section /\ a \in moved
      BY <1>2, <2>2 DEF MovedIn
    <3>2. seen[a] # 0 /\ seen[a] \in 0..MaxTokens
      BY <3>1, <1>3, <2>2 DEF Section
    <3>3. item \in Section /\ item[a] = seen[a]
      BY <3>1, <3>2, <1>2, KnownIsKept
    <3> QED
      BY <2>2, <3>2, <3>3, <1>4, VaultNone, VaultBounds DEF Tokens, Moved
  <2>3. CASE ~(file[a] = Moved /\ seen # None)
    BY <2>1, <2>3, <1>4
  <2> QED BY <2>2, <2>3
<1>6. Loaded \in Cards
  BY <1>4, <1>5 DEF Cards
<1> QED BY <1>5, <1>6

-----------------------------------------------------------------------------
(* The invariant holds.                                                    *)

LEMMA VaultInitInv == VaultInit => VaultInv
<1> SUFFICES ASSUME VaultInit PROVE VaultInv
  OBVIOUS
<1>1. KeptTypeOK
  <2>1. file \in Cards /\ given \in [Accounts -> 0..MaxTokens]
    BY VaultBounds DEF VaultInit, Cards, Moved
  <2>2. item \in Section \cup {None, Foreign}
    BY <2>1 DEF VaultInit, Section
  <2> QED BY <2>1, <2>2, VaultBounds DEF VaultInit, KeptTypeOK
<1> QED
  BY <1>1 DEF VaultInit, VaultInv, CacheFollows, CacheIsOld, HoldsOthers, HoldsChange, WritesAll,
     Writing, StripsWritten, InStep

\* A save that begins holds what was loaded, but for the account it changes.
LEMMA SaveHolds ==
  ASSUME VaultInv, NEW a \in Accounts \cup {None}, NEW cards \in Cards,
         \A b \in Accounts \ {a} : cards[b] = Loaded[b],
         a # None => cards[a] # Moved,
         Save(a, cards), UNCHANGED disk
  PROVE  /\ saving' \in Saving \cup {None} /\ cache' \in Section \cup {None}
         /\ CacheFollows' /\ HoldsOthers' /\ HoldsChange' /\ WritesAll' /\ StripsWritten'
<1> DEFINE start == [pc |-> "saving", of |-> a, store |-> cards, next |-> Empty]
<1>1. saving = None /\ saving' = start /\ cache' = CachedByLoad
  BY DEF Save
<1>2. start \in Saving
  BY EmptyType DEF Saving
<1>3. file' = file /\ item' = item
  BY DEF disk
<1>4. /\ Loaded \in Cards
      /\ \A b \in Accounts :
           /\ Loaded[b] = None <=> file[b] = None
           /\ file[b] \in Tokens => Loaded[b] = file[b]
           /\ file[b] = Moved /\ Loaded[b] # Moved
                => item \in Section /\ item[b] = Loaded[b]
  BY <1>1, LoadedHolds DEF VaultInv
<1>5. cache' \in Section \cup {None} /\ cache' \in {None, Empty, item}
  <2>1. MovedIn(file) \in SUBSET Accounts
    BY DEF MovedIn
  <2>2. cache \in Section \cup {None} /\ cache \in {None, Empty, item}
    BY <1>1 DEF VaultInv, KeptTypeOK, CacheFollows, CacheIsOld, InStep
  <2> QED BY <2>1, <2>2, <1>1, SecretsType, SecretsFollow DEF VaultInv, CachedByLoad, InStep
<1>6. CacheFollows'
  BY <1>5, <1>3 DEF CacheIsOld, CacheFollows
<1>7. HoldsOthers' /\ HoldsChange'
  BY <1>1, <1>3, <1>4 DEF HoldsOthers, HoldsOther, HoldsChange
<1>8. WritesAll' /\ StripsWritten'
  BY <1>1 DEF WritesAll, Writing, StripsWritten, InStep
<1> QED BY <1>1, <1>2, <1>5, <1>6, <1>7, <1>8

\* A change, a removal and a migration.
LEMMA ChangeInv == ASSUME VaultInv, NEW a \in Accounts, Change(a) PROVE VaultInv'
<1> DEFINE cards == [Loaded EXCEPT ![a] = given[a] + 1]
<1>1. Loaded \in Cards /\ UNCHANGED disk /\ Save(a, cards)
  BY LoadedHolds DEF VaultInv, Change, Save
<1>2. given[a] + 1 \in 1..MaxTokens /\ given' \in [Accounts -> 0..MaxTokens]
  BY VaultBounds DEF VaultInv, KeptTypeOK, Change
<1>3. cards \in Cards /\ cards[a] # Moved /\ \A b \in Accounts \ {a} : cards[b] = Loaded[b]
  BY <1>1, <1>2 DEF Cards, Moved
<1> HIDE DEF cards
<1>4. /\ saving' \in Saving \cup {None} /\ cache' \in Section \cup {None}
      /\ CacheFollows' /\ HoldsOthers' /\ HoldsChange' /\ WritesAll' /\ StripsWritten'
  BY <1>1, <1>3, SaveHolds
<1> QED BY <1>2, <1>4 DEF VaultInv, KeptTypeOK, Change, disk, others

LEMMA DeleteInv == ASSUME VaultInv, NEW a \in Accounts, Delete(a) PROVE VaultInv'
<1> DEFINE cards == [Loaded EXCEPT ![a] = None]
<1>1. Loaded \in Cards /\ UNCHANGED disk /\ Save(a, cards)
  BY LoadedHolds DEF VaultInv, Delete, Save
<1>2. cards \in Cards /\ cards[a] # Moved /\ \A b \in Accounts \ {a} : cards[b] = Loaded[b]
  BY <1>1, VaultNone DEF Cards, Moved
<1> HIDE DEF cards
<1>3. /\ saving' \in Saving \cup {None} /\ cache' \in Section \cup {None}
      /\ CacheFollows' /\ HoldsOthers' /\ HoldsChange' /\ WritesAll' /\ StripsWritten'
  BY <1>1, <1>2, SaveHolds
<1> QED BY <1>3 DEF VaultInv, KeptTypeOK, Delete, disk, others

LEMMA UnlockMigratesInv == ASSUME VaultInv, UnlockMigrates PROVE VaultInv'
<1>1. Loaded \in Cards /\ UNCHANGED disk /\ Save(None, Loaded)
  BY LoadedHolds DEF VaultInv, UnlockMigrates, Save
<1>2. /\ saving' \in Saving \cup {None} /\ cache' \in Section \cup {None}
      /\ CacheFollows' /\ HoldsOthers' /\ HoldsChange' /\ WritesAll' /\ StripsWritten'
  BY <1>1, SaveHolds
<1> QED BY <1>2 DEF VaultInv, KeptTypeOK, UnlockMigrates, disk

\* A save under way goes on with what it holds.
LEMMA SavingFields ==
  ASSUME KeptTypeOK, saving # None
  PROVE  /\ saving \in Saving /\ saving.of \in Accounts \cup {None}
         /\ saving.store \in Cards /\ saving.next \in Section
  BY DEF KeptTypeOK, Saving

LEMMA SavingAt ==
  ASSUME KeptTypeOK, saving # None,
         NEW pc \in {"saving", "writing", "checking", "stripping", "keeping"}
  PROVE  LET s == [saving EXCEPT !.pc = pc] IN
         /\ s \in Saving /\ s.pc = pc /\ s.of = saving.of
         /\ s.store = saving.store /\ s.next = saving.next
  BY SavingFields DEF Saving

\* It is untouched by what leaves the item and the file alone.
LEMMA SavingSame ==
  ASSUME VaultInv, UNCHANGED <<disk, saving>>
  PROVE  HoldsOthers' /\ HoldsChange' /\ WritesAll' /\ StripsWritten'
  BY DEF VaultInv, disk, HoldsOthers, HoldsOther, HoldsChange, WritesAll, NextHolds,
     Writing, StripsWritten, ItemHolds, InStep

\* When the file is about to be written, and while nothing is saved, nothing is left
\* to hold.
LEMMA NothingSaved ==
  ASSUME saving' = None
  PROVE  HoldsOthers' /\ HoldsChange' /\ WritesAll' /\ StripsWritten'
  BY DEF HoldsOthers, HoldsChange, WritesAll, Writing, StripsWritten, InStep

LEMMA SaveReadsItemInv ==
  ASSUME VaultInv, SaveReadsItem
  PROVE  /\ VaultInv' /\ saving' \in Saving
         /\ saving'.of = saving.of /\ saving'.store = saving.store
<1> DEFINE seen == Secrets(MovedIn(saving.store))
<1> DEFINE next == NextSection(seen, saving.store)
<1>1. /\ saving # None /\ InStep("saving") /\ cache' = seen
      /\ file' = file /\ item' = item
  BY DEF SaveReadsItem, InStep, disk
<1>2. /\ seen \in Section \cup {None} /\ seen \in {None, Empty, item}
      /\ seen # None => \A a \in MovedIn(saving.store) : seen[a] # 0
  <2>1. MovedIn(saving.store) \in SUBSET Accounts /\ ~InStep("checking")
    BY <1>1 DEF MovedIn, InStep
  <2> QED BY <2>1, SecretsType, SecretsFollow DEF VaultInv
<1>3. CacheFollows'
  BY <1>1, <1>2 DEF CacheIsOld, CacheFollows
<1>4. saving \in Saving /\ saving.store \in Cards
  BY <1>1, SavingFields DEF VaultInv
<1>5. CASE seen = None
  <2>1. saving' = [saving EXCEPT !.pc = "keeping"]
    BY <1>5 DEF SaveReadsItem
  <2>2. /\ saving' \in Saving /\ saving'.pc = "keeping"
        /\ saving'.of = saving.of /\ saving'.store = saving.store
    BY <2>1, <1>1, SavingAt DEF VaultInv
  <2>3. HoldsOthers' /\ HoldsChange' /\ WritesAll' /\ StripsWritten'
    BY <2>2, <1>1 DEF VaultInv, HoldsOthers, HoldsOther, HoldsChange, WritesAll, Writing,
       StripsWritten, InStep
  <2> QED BY <2>2, <2>3, <1>1, <1>2, <1>3 DEF VaultInv, KeptTypeOK, SaveReadsItem, others
<1>6. CASE seen # None
  <2>1. seen \in Section
    BY <1>2, <1>6
  <2>2. ASSUME NEW a \in Accounts
        PROVE  /\ next[a] \in 0..MaxTokens
               /\ saving.store[a] = None => next[a] = 0
               /\ saving.store[a] \in Tokens => next[a] = saving.store[a]
               /\ saving.store[a] = Moved
                    => next[a] # 0 /\ item \in Section /\ item[a] = next[a]
    <3>1. saving.store[a] \in {None} \cup 0..MaxTokens /\ seen[a] \in 0..MaxTokens
      BY <1>4, <2>1 DEF Cards, Section
    <3>2. CASE saving.store[a] = Moved
      <4>1. seen[a] # 0
        BY <3>2, <1>2, <1>6 DEF MovedIn
      <4>2. item \in Section /\ item[a] = seen[a]
        BY <4>1, <2>1, <1>2, KnownIsKept DEF VaultInv
      <4>3. next[a] = seen[a]
        BY <3>2, VaultNone DEF NextSection, Moved
      <4> QED BY <3>1, <3>2, <4>1, <4>2, <4>3, VaultNone DEF Tokens, Moved
    <3>3. CASE saving.store[a] # Moved
      BY <3>1, <3>3, VaultNone, VaultBounds DEF NextSection, Tokens, Moved
    <3> QED BY <3>2, <3>3
  <2>3. next = [a \in Accounts |-> next[a]]
    BY DEF NextSection
  <2>4. next \in Section
    BY <2>2, <2>3 DEF Section
  <2> DEFINE pc == IF next = seen THEN "stripping" ELSE "writing"
  <2>5. saving' = [saving EXCEPT !.pc = pc, !.next = next]
    BY <1>6 DEF SaveReadsItem
  <2> HIDE DEF next, seen
  <2>6. /\ saving' \in Saving /\ saving'.pc = pc /\ saving'.next = next
        /\ saving'.of = saving.of /\ saving'.store = saving.store
    BY <2>4, <2>5, <1>4 DEF Saving
  <2>7. HoldsOthers' /\ HoldsChange'
    BY <2>6, <1>1 DEF VaultInv, HoldsOthers, HoldsOther, HoldsChange
  <2>8. WritesAll'
    BY <2>2, <2>6, <1>1 DEF WritesAll, NextHolds
  <2>9. StripsWritten'
    <3> SUFFICES ASSUME next = seen, NEW a \in Accounts, saving.store[a] # None
                 PROVE  item \in Section /\ item[a] = next[a] /\ next[a] # 0
      BY <2>6, <1>1 DEF StripsWritten, ItemHolds, InStep
    <3>1. saving.store[a] \in 0..MaxTokens
      BY <1>4 DEF Cards
    <3>2. next[a] # 0
      BY <3>1, <2>2, VaultBounds DEF Tokens, Moved
    <3> QED BY <3>2, <2>1, <1>2, KnownIsKept DEF VaultInv
  <2> QED BY <2>6, <2>7, <2>8, <2>9, <1>1, <1>2, <1>3 DEF VaultInv, KeptTypeOK, SaveReadsItem, others
<1> QED BY <1>5, <1>6

\* A write, whether or not the item keeps it, leaves the item with what is held of
\* the other accounts.
LEMMA WrittenHolds ==
  ASSUME VaultInv, InStep("writing"), item' \in {item, saving.next}, file' = file,
         saving' # None, saving'.of = saving.of, saving'.store = saving.store
  PROVE  item' \in Section \cup {None, Foreign} /\ HoldsOthers' /\ HoldsChange'
<1>1. saving # None /\ saving.store \in Cards /\ saving.next \in Section
  BY SavingFields DEF InStep, VaultInv
<1>2. ASSUME NEW a \in Accounts \ {saving.of} PROVE HoldsOther(a)'
  <2>1. HoldsOther(a) /\ NextHolds(a)
    BY <1>1, <1>2 DEF VaultInv, HoldsOthers, WritesAll, Writing
  <2>2. CASE item' = item
    BY <2>1, <2>2 DEF HoldsOther
  <2>3. CASE item' = saving.next
    <3>1. saving.store[a] \in {None} \cup 0..MaxTokens
      BY <1>1 DEF Cards
    <3>2. file[a] = Moved => saving.store[a] # None
      BY <2>1, VaultNone DEF HoldsOther, Moved
    <3>3. file[a] = Moved /\ saving.store[a] # Moved => saving.store[a] \in Tokens
      BY <3>1, <3>2, VaultBounds DEF Tokens, Moved
    <3> QED BY <2>1, <2>3, <3>3, <1>1 DEF HoldsOther, NextHolds
  <2> QED BY <2>2, <2>3
<1>3. HoldsOthers' /\ HoldsChange'
  BY <1>1, <1>2 DEF VaultInv, HoldsOthers, HoldsChange
<1> QED BY <1>1, <1>3 DEF VaultInv, KeptTypeOK

LEMMA SaveWritesItemInv == ASSUME VaultInv, SaveWritesItem PROVE VaultInv'
<1>1. saving # None /\ InStep("writing") /\ item' \in {item, saving.next} /\ file' = file
  BY DEF SaveWritesItem, InStep
<1>2. /\ saving' \in Saving /\ saving'.pc = "checking" /\ saving'.of = saving.of
      /\ saving'.store = saving.store /\ saving'.next = saving.next
  BY <1>1, SavingAt DEF VaultInv, SaveWritesItem
<1>3. saving' # None /\ InStep("checking")'
  BY <1>2, VaultNone DEF InStep
<1>4. item' \in Section \cup {None, Foreign} /\ HoldsOthers' /\ HoldsChange'
  BY <1>1, <1>2, <1>3, WrittenHolds
<1>5. CacheFollows'
  BY <1>3 DEF CacheIsOld, CacheFollows
<1>6. WritesAll'
  BY <1>1, <1>2, SavingFields DEF VaultInv, WritesAll, NextHolds, Writing
<1>7. StripsWritten'
  BY <1>2 DEF StripsWritten, InStep
<1>8. turns' \in 0..MaxTurns
  BY VaultBounds DEF VaultInv, KeptTypeOK, SaveWritesItem, Turn
<1> QED
  BY <1>1, <1>2, <1>4, <1>5, <1>6, <1>7, <1>8 DEF VaultInv, KeptTypeOK, SaveWritesItem, others

LEMMA SaveRefusedInv == ASSUME VaultInv, SaveRefused PROVE VaultInv'
<1>1. saving # None /\ InStep("writing") /\ item' \in {item, saving.next} /\ file' = file
  BY DEF SaveRefused, InStep
<1>2. /\ saving' \in Saving /\ saving'.pc = "keeping" /\ saving'.of = saving.of
      /\ saving'.store = saving.store
  BY <1>1, SavingAt DEF VaultInv, SaveRefused
<1>3. item' \in Section \cup {None, Foreign} /\ HoldsOthers' /\ HoldsChange'
  BY <1>1, <1>2, WrittenHolds, VaultNone
<1>4. CacheFollows' /\ WritesAll' /\ StripsWritten'
  BY <1>2 DEF SaveRefused, CacheFollows, CacheIsOld, WritesAll, Writing, StripsWritten, InStep
<1>5. turns' \in 0..MaxTurns
  BY VaultBounds DEF VaultInv, KeptTypeOK, SaveRefused, Turn
<1> QED
  BY <1>1, <1>2, <1>3, <1>4, <1>5 DEF VaultInv, KeptTypeOK, SaveRefused, others

LEMMA SaveReadsBackInv == ASSUME VaultInv, SaveReadsBack PROVE VaultInv'
<1> DEFINE kept == Shown(shows) = saving.next
<1> DEFINE pc == IF kept THEN "stripping" ELSE "keeping"
<1>1. saving # None /\ InStep("checking") /\ item' = item /\ file' = file
  BY DEF SaveReadsBack, InStep, disk
<1>2. saving' = [saving EXCEPT !.pc = pc] /\ cache' = IF kept THEN saving.next ELSE None
  BY DEF SaveReadsBack
<1>3. saving.store \in Cards /\ saving.next \in Section
  BY <1>1, SavingFields DEF VaultInv
<1>4. Shown(shows) \in {None, Empty, item} /\ None \notin Section
  BY ShownType, VaultNone DEF VaultInv, KeptTypeOK
<1> HIDE DEF kept
<1>5. /\ saving' \in Saving /\ saving'.pc = pc /\ saving'.of = saving.of
      /\ saving'.store = saving.store /\ saving'.next = saving.next
  BY <1>1, <1>2, SavingAt DEF VaultInv
<1>6. CacheFollows'
  BY <1>1, <1>2, <1>4 DEF CacheIsOld, CacheFollows, kept
<1>7. HoldsOthers' /\ HoldsChange'
  BY <1>1, <1>5 DEF VaultInv, HoldsOthers, HoldsOther, HoldsChange
<1>8. WritesAll'
  BY <1>1, <1>5 DEF VaultInv, WritesAll, NextHolds, Writing
<1>9. StripsWritten'
  <2> SUFFICES ASSUME kept, NEW a \in Accounts, saving.store[a] # None
               PROVE  item \in Section /\ item[a] = saving.next[a] /\ saving.next[a] # 0
    BY <1>1, <1>5 DEF StripsWritten, ItemHolds, InStep
  <2>1. saving.store[a] \in 0..MaxTokens /\ NextHolds(a)
    BY <1>1, <1>3 DEF Cards, VaultInv, WritesAll, Writing
  <2>2. saving.next[a] # 0
    BY <2>1, VaultBounds DEF NextHolds, Tokens, Moved
  <2>3. saving.next \in {None, Empty, item}
    BY <1>4 DEF kept
  <2> QED BY <2>2, <2>3, <1>3, KnownIsKept DEF VaultInv
<1> QED
  BY <1>1, <1>2, <1>3, <1>5, <1>6, <1>7, <1>8, <1>9 DEF VaultInv, KeptTypeOK, SaveReadsBack, others

LEMMA SaveWritesFileInv == ASSUME VaultInv, SaveWritesFile PROVE VaultInv'
<1>1. saving # None /\ saving' = None
  BY DEF SaveWritesFile, InStep
<1>2. HoldsOthers' /\ HoldsChange' /\ WritesAll' /\ StripsWritten'
  BY <1>1, NothingSaved
<1>3. CacheFollows'
  BY DEF VaultInv, CacheFollows, CacheIsOld, SaveWritesFile, InStep
<1>4. file' \in Cards
  BY <1>1, SavingFields, VaultBounds DEF VaultInv, SaveWritesFile, Stripped, Cards, Moved
<1> QED BY <1>1, <1>2, <1>3, <1>4 DEF VaultInv, KeptTypeOK, SaveWritesFile, others

LEMMA SaveFailsInv == ASSUME VaultInv, SaveFails PROVE VaultInv'
<1>1. HoldsOthers' /\ HoldsChange' /\ WritesAll' /\ StripsWritten'
  BY NothingSaved DEF SaveFails
<1>2. CacheFollows'
  BY DEF VaultInv, CacheFollows, CacheIsOld, SaveFails, InStep, disk
<1> QED
  BY <1>1, <1>2, VaultBounds DEF VaultInv, KeptTypeOK, SaveFails, Failure, disk, others

LEMMA VaultCrashInv == ASSUME VaultInv, VaultCrash PROVE VaultInv'
<1>1. HoldsOthers' /\ HoldsChange' /\ WritesAll' /\ StripsWritten'
  BY NothingSaved DEF VaultCrash
<1>2. CacheFollows'
  BY DEF CacheIsOld, CacheFollows, VaultCrash
<1> QED
  BY <1>1, <1>2, VaultBounds DEF VaultInv, KeptTypeOK, VaultCrash, Failure, disk

\* Lists and user actions change no more than the cache.
LEMMA ListReadsFileInv == ASSUME VaultInv, ListReadsFile PROVE VaultInv'
  BY SavingSame DEF VaultInv, KeptTypeOK, ListReadsFile, Listing, MovedIn, CacheFollows, CacheIsOld,
     InStep, disk

LEMMA ListReadsItemInv == ASSUME VaultInv, ListReadsItem PROVE VaultInv'
<1>1. HoldsOthers' /\ HoldsChange' /\ WritesAll' /\ StripsWritten'
  BY SavingSame DEF ListReadsItem
<1>2. listing.moved \in SUBSET Accounts
  BY DEF VaultInv, KeptTypeOK, Listing, ListReadsItem
<1>3. cache' \in Section \cup {None} /\ (InStep("checking") \/ cache' \in {None, Empty, item})
  BY <1>2, SecretsType, SecretsFollow DEF VaultInv, KeptTypeOK, CacheFollows, CacheIsOld, ListReadsItem
<1> QED
  BY <1>1, <1>3 DEF VaultInv, KeptTypeOK, CacheFollows, CacheIsOld, InStep, ListReadsItem, disk

LEMMA UnlockStartsInv == ASSUME VaultInv, UnlockStarts PROVE VaultInv'
<1>1. unlocking' \in Unlocking
  BY EmptyType DEF UnlockStarts, Unlocking, MovedIn
<1> QED
  BY <1>1, SavingSame DEF VaultInv, KeptTypeOK, CacheFollows, CacheIsOld, InStep, UnlockStarts, disk

LEMMA UnlockAsksInv == ASSUME VaultInv, UnlockAsks PROVE VaultInv'
<1>1. unlocking \in Unlocking
  BY DEF VaultInv, KeptTypeOK, UnlockAsks, Unlock
<1>2. PICK seen \in {shows, "item"} :
        /\ shows' = seen
        /\ unlocking' \in {None, [unlocking EXCEPT !.pc = "caching", !.read = Shown(seen)]}
        /\ Shown(seen) = None => unlocking' = None
  BY DEF UnlockAsks
<1>3. seen \in {"item", "missing", "refused"}
  BY DEF VaultInv, KeptTypeOK
<1>4. Shown(seen) \in Section \cup {None}
  BY <1>3, ShownType DEF VaultInv
<1>5. unlocking' \in Unlocking \cup {None}
  BY <1>1, <1>2, <1>4 DEF Unlocking
<1> QED
  BY <1>2, <1>3, <1>5, SavingSame DEF VaultInv, KeptTypeOK, CacheFollows, CacheIsOld, InStep, UnlockAsks, disk

LEMMA UnlockCachesInv ==
  ASSUME VaultInv, UnlockCaches, cache = None => ~CacheIsOld'
  PROVE  VaultInv'
<1>1. unlocking \in Unlocking /\ unlocking.read \in Section
  BY DEF VaultInv, KeptTypeOK, UnlockCaches, Unlock, Unlocking
<1>2. unlocking' \in Unlocking
  BY <1>1 DEF UnlockCaches, Unlocking
<1>3. CacheFollows'
  BY DEF VaultInv, CacheFollows, CacheIsOld, InStep, UnlockCaches, disk
<1> QED
  BY <1>1, <1>2, <1>3, SavingSame DEF VaultInv, KeptTypeOK, UnlockCaches, disk

LEMMA KeychainTurnsInv == ASSUME VaultInv, KeychainTurns PROVE VaultInv'
  BY SavingSame, VaultBounds DEF VaultInv, KeptTypeOK, CacheFollows, CacheIsOld, InStep, KeychainTurns,
     Turn, disk, others

\* The types are kept whatever the cache holds.
LEMMA LoadedType == KeptTypeOK => Loaded \in Cards
<1> SUFFICES ASSUME KeptTypeOK, NEW a \in Accounts PROVE Loaded[a] \in {None} \cup 0..MaxTokens
  BY DEF Loaded, Cards
<1>1. MovedIn(file) \in SUBSET Accounts BY DEF MovedIn
<1>2. Secrets(MovedIn(file)) \in Section \cup {None} BY <1>1, SecretsType
<1>3. file[a] \in {None} \cup 0..MaxTokens BY DEF KeptTypeOK, Cards
<1> QED BY <1>2, <1>3 DEF Loaded, Section

LEMMA SaveTypes ==
  ASSUME KeptTypeOK, NEW a \in Accounts \cup {None}, NEW cards \in Cards, Save(a, cards)
  PROVE  saving' \in Saving /\ cache' \in Section \cup {None}
<1>1. [pc |-> "saving", of |-> a, store |-> cards, next |-> Empty] \in Saving
  BY EmptyType DEF Saving
<1>2. MovedIn(file) \in SUBSET Accounts BY DEF MovedIn
<1>3. CachedByLoad \in Section \cup {None} BY <1>2, SecretsType DEF CachedByLoad, KeptTypeOK
<1> QED BY <1>1, <1>3 DEF Save

LEMMA BeginsTypes ==
  ASSUME KeptTypeOK, NEW a \in Accounts, Change(a) \/ Delete(a)
  PROVE  KeptTypeOK'
<1>1. Loaded \in Cards BY LoadedType
<1>2. CASE Change(a)
  <2> DEFINE cards == [Loaded EXCEPT ![a] = given[a] + 1]
  <2>1. given[a] + 1 \in 1..MaxTokens /\ given' \in [Accounts -> 0..MaxTokens]
    BY <1>2, VaultBounds DEF KeptTypeOK, Change
  <2>2. cards \in Cards BY <1>1, <2>1 DEF Cards
  <2>3. Save(a, cards) BY <1>2 DEF Change
  <2> HIDE DEF cards
  <2>4. saving' \in Saving /\ cache' \in Section \cup {None} BY <2>2, <2>3, SaveTypes
  <2> QED BY <1>2, <2>1, <2>4 DEF KeptTypeOK, Change, disk, others
<1>3. CASE Delete(a)
  <2> DEFINE cards == [Loaded EXCEPT ![a] = None]
  <2>1. cards \in Cards BY <1>1 DEF Cards
  <2>2. Save(a, cards) BY <1>3 DEF Delete
  <2> HIDE DEF cards
  <2>3. saving' \in Saving /\ cache' \in Section \cup {None} BY <2>1, <2>2, SaveTypes
  <2> QED BY <1>3, <2>3 DEF KeptTypeOK, Delete, disk, others
<1> QED BY <1>2, <1>3

LEMMA MigratesTypes == ASSUME KeptTypeOK, UnlockMigrates PROVE KeptTypeOK'
<1>1. saving' \in Saving /\ cache' \in Section \cup {None}
  BY LoadedType, SaveTypes DEF UnlockMigrates
<1> QED BY <1>1 DEF KeptTypeOK, UnlockMigrates, disk

LEMMA ReadsTypes == ASSUME KeptTypeOK, SaveReadsItem PROVE KeptTypeOK'
<1> DEFINE seen == Secrets(MovedIn(saving.store))
           next == NextSection(seen, saving.store)
<1>1. saving # None /\ saving \in Saving /\ saving.store \in Cards
  BY SavingFields DEF SaveReadsItem, InStep
<1>2. MovedIn(saving.store) \in SUBSET Accounts BY DEF MovedIn
<1>3. seen \in Section \cup {None} BY <1>2, SecretsType
<1>4. ASSUME seen # None PROVE next \in Section
  <2>1. seen \in Section BY <1>3, <1>4
  <2> HIDE DEF seen
  <2>2. \A a \in Accounts : saving.store[a] \in {None} \cup 0..MaxTokens BY <1>1 DEF Cards
  <2> QED BY <2>1, <2>2, VaultBounds DEF NextSection, Section
<1>5. saving' \in Saving
  <2>1. CASE seen = None
    <3>1. saving' = [saving EXCEPT !.pc = "keeping"] BY <2>1 DEF SaveReadsItem
    <3> QED BY <1>1, <3>1, SavingAt
  <2>2. CASE seen # None
    <3> DEFINE pc == IF next = seen THEN "stripping" ELSE "writing"
    <3>1. saving' = [saving EXCEPT !.pc = pc, !.next = next] BY <2>2 DEF SaveReadsItem
    <3>2. next \in Section BY <1>4, <2>2
    <3> HIDE DEF next, seen
    <3> QED BY <1>1, <3>1, <3>2 DEF Saving
  <2> QED BY <2>1, <2>2
<1> QED BY <1>3, <1>5 DEF KeptTypeOK, SaveReadsItem, disk, others

LEMMA WritesTypes ==
  ASSUME KeptTypeOK, SaveWritesItem \/ SaveRefused \/ SaveReadsBack PROVE KeptTypeOK'
<1>1. saving # None /\ saving.next \in Section
  BY SavingFields DEF SaveWritesItem, SaveRefused, SaveReadsBack, InStep
<1>2. PICK pc \in {"checking", "keeping", "stripping"} : saving' = [saving EXCEPT !.pc = pc]
  BY DEF SaveWritesItem, SaveRefused, SaveReadsBack
<1>3. saving' \in Saving BY <1>1, <1>2, SavingAt
<1>4. item' \in {item, saving.next} /\ cache' \in {cache, None, saving.next}
  BY DEF SaveWritesItem, SaveRefused, SaveReadsBack, disk
<1>5. turns' \in 0..MaxTurns
  BY VaultBounds DEF KeptTypeOK, SaveWritesItem, SaveRefused, SaveReadsBack, Turn
<1> QED
  BY <1>1, <1>3, <1>4, <1>5 DEF KeptTypeOK, SaveWritesItem, SaveRefused, SaveReadsBack, disk, others

LEMMA EndsTypes ==
  ASSUME KeptTypeOK, SaveWritesFile \/ SaveFails \/ VaultCrash PROVE KeptTypeOK'
<1>1. CASE SaveWritesFile
  <2>1. saving # None BY <1>1 DEF SaveWritesFile, InStep
  <2>2. file' \in Cards
    BY <1>1, <2>1, SavingFields, VaultBounds DEF SaveWritesFile, Stripped, Cards, Moved
  <2> QED BY <1>1, <2>2 DEF KeptTypeOK, SaveWritesFile, others
<1>2. CASE SaveFails BY <1>2, VaultBounds DEF KeptTypeOK, SaveFails, Failure, disk, others
<1>3. CASE VaultCrash BY <1>3, VaultBounds DEF KeptTypeOK, VaultCrash, Failure, disk
<1> QED BY <1>1, <1>2, <1>3

LEMMA AsidesTypes ==
  ASSUME KeptTypeOK,
         ListReadsFile \/ ListReadsItem \/ UnlockStarts \/ UnlockAsks \/ UnlockCaches \/ KeychainTurns
  PROVE  KeptTypeOK'
<1>1. CASE ListReadsFile BY <1>1 DEF KeptTypeOK, ListReadsFile, Listing, MovedIn, disk
<1>2. CASE ListReadsItem
  <2>1. listing.moved \in SUBSET Accounts BY <1>2 DEF KeptTypeOK, Listing, ListReadsItem
  <2>2. cache' \in Section \cup {None} BY <1>2, <2>1, SecretsType DEF KeptTypeOK, ListReadsItem
  <2> QED BY <1>2, <2>2 DEF KeptTypeOK, ListReadsItem, disk
<1>3. CASE UnlockStarts
  <2>1. unlocking' \in Unlocking BY <1>3, EmptyType DEF UnlockStarts, Unlocking, MovedIn
  <2> QED BY <1>3, <2>1 DEF KeptTypeOK, UnlockStarts, disk
<1>4. CASE UnlockAsks
  <2>1. unlocking \in Unlocking BY <1>4 DEF KeptTypeOK, UnlockAsks, Unlock
  <2>2. PICK seen \in {shows, "item"} :
          /\ shows' = seen
          /\ unlocking' \in {None, [unlocking EXCEPT !.pc = "caching", !.read = Shown(seen)]}
          /\ Shown(seen) = None => unlocking' = None
    BY <1>4 DEF UnlockAsks
  <2>3. seen \in {"item", "missing", "refused"} BY DEF KeptTypeOK
  <2>4. Shown(seen) \in Section \cup {None} BY <2>3, ShownType
  <2>5. unlocking' \in Unlocking \cup {None} BY <2>1, <2>2, <2>4 DEF Unlocking
  <2> QED BY <1>4, <2>2, <2>3, <2>5 DEF KeptTypeOK, UnlockAsks, disk
<1>5. CASE UnlockCaches
  <2>1. unlocking \in Unlocking BY <1>5 DEF KeptTypeOK, UnlockCaches, Unlock
  <2>2. unlocking.read \in Section /\ unlocking' \in Unlocking
    BY <1>5, <2>1 DEF UnlockCaches, Unlocking
  <2> QED BY <1>5, <2>2 DEF KeptTypeOK, UnlockCaches, disk
<1>6. CASE KeychainTurns BY <1>6, VaultBounds DEF KeptTypeOK, KeychainTurns, Turn, disk, others
<1> QED BY <1>1, <1>2, <1>3, <1>4, <1>5, <1>6

LEMMA TypesStep == ASSUME KeptTypeOK, [VaultNext]_vaultVars PROVE KeptTypeOK'
<1>1. CASE UNCHANGED vaultVars BY <1>1 DEF KeptTypeOK, vaultVars
<1>2. CASE VaultNext
  BY <1>2, BeginsTypes, ReadsTypes, WritesTypes, EndsTypes, AsidesTypes, MigratesTypes
     DEF VaultNext
<1> QED BY <1>1, <1>2

\* What was read before a save is known to be gone once no save is under way and the
\* cache is as the item; until then only the types are.
LEMMA VaultNextInv ==
  ASSUME StaleInv, [VaultNext]_vaultVars
  PROVE  StaleInv'
<1>1. KeptTypeOK' BY TypesStep DEF StaleInv
<1>2. CASE stale' BY <1>1, <1>2 DEF StaleInv
<1>3. CASE ~stale' /\ stale
  <2>1. ~StillStale
    BY <1>3 DEF VaultNext, UnlockCaches, vaultVars
  <2>2. saving' = None /\ ~CacheIsOld' BY <1>3, <2>1 DEF StillStale
  <2>3. HoldsOthers' /\ HoldsChange' /\ WritesAll' /\ StripsWritten' BY <2>2, NothingSaved
  <2> QED BY <1>1, <2>2, <2>3 DEF StaleInv, VaultInv, CacheFollows
<1>4. CASE ~stale' /\ ~stale
  <2>1. VaultInv BY <1>4 DEF StaleInv
  <2>2. CASE UNCHANGED vaultVars
    BY <2>1, <2>2, SavingSame DEF VaultInv, KeptTypeOK, StaleInv, CacheFollows, CacheIsOld, InStep,
       vaultVars, disk
  <2>3. CASE UnlockCaches
    <3>1. cache = None => ~CacheIsOld' BY <1>4, <2>3 DEF UnlockCaches
    <3> QED BY <1>1, <2>1, <2>3, <3>1, UnlockCachesInv DEF StaleInv
  <2>4. CASE VaultNext /\ ~UnlockCaches
    <3>1. VaultInv'
      BY <2>1, <2>4, ChangeInv, DeleteInv, SaveReadsItemInv, SaveWritesItemInv, SaveRefusedInv,
         SaveReadsBackInv, SaveWritesFileInv, SaveFailsInv, ListReadsFileInv, ListReadsItemInv,
         UnlockStartsInv, UnlockAsksInv, UnlockMigratesInv, KeychainTurnsInv, VaultCrashInv
         DEF VaultNext
    <3> QED BY <1>1, <3>1 DEF StaleInv
  <2> QED BY <2>2, <2>3, <2>4
<1> QED BY <1>2, <1>3, <1>4

StaleTyped == stale \in BOOLEAN
LEMMA StaleStep == ASSUME StaleTyped, [VaultNext]_vaultVars PROVE StaleTyped'
<1> USE DEF StaleTyped
<1>1. CASE UNCHANGED vaultVars BY <1>1 DEF vaultVars
<1>2. CASE VaultNext
  <2>1. stale' = StillStale \/ stale' = (StillStale \/ (cache = None /\ CacheIsOld'))
    BY <1>2 DEF VaultNext, UnlockCaches
  <2> QED BY <2>1 DEF StillStale
<1> QED BY <1>1, <1>2

\* Every variable of the vault keeps its type, whatever the Keychain shows and whenever
\* a user action caches what it read (claude.rs, claude_secrets, claude_save,
\* claude_unlock).
THEOREM VaultTyped == VaultSpec => []VaultTypeOK
<1>1. VaultInit => StaleInv /\ StaleTyped
  BY VaultInitInv DEF StaleInv, StaleTyped, VaultInv, VaultInit
<1>2. StaleInv /\ StaleTyped /\ [VaultNext]_vaultVars => StaleInv' /\ StaleTyped'
  BY VaultNextInv, StaleStep
<1>3. StaleInv /\ StaleTyped => VaultTypeOK
  BY DEF StaleInv, StaleTyped, VaultTypeOK
<1> QED BY <1>1, <1>2, <1>3, PTL DEF VaultSpec

-----------------------------------------------------------------------------
(* Every step is one of AtomicPool, or changes nothing it sees.            *)

LEMMA KeptType == ASSUME KeptTypeOK PROVE Kept \in [Accounts -> Tokens \cup {None}]
<1>1. ASSUME NEW a \in Accounts PROVE Kept[a] \in Tokens \cup {None}
  <2>1. file[a] \in {None} \cup 0..MaxTokens /\ (item \notin {None, Foreign} => item[a] \in 0..MaxTokens)
    BY DEF KeptTypeOK, Cards, Section
  <2> QED BY <2>1, VaultBounds DEF Kept, Tokens, Moved
<1>2. Kept = [a \in Accounts |-> Kept[a]]
  BY DEF Kept
<1> QED BY <1>1, <1>2

\* The item's tokens are kept where the file says so.
LEMMA KeptInItem ==
  ASSUME KeptTypeOK, NEW a \in Accounts
  PROVE  /\ file[a] # Moved => Kept[a] = file[a]
         /\ file[a] = Moved /\ item \in Section
              => Kept[a] = IF item[a] = 0 THEN None ELSE item[a]
  BY VaultNone DEF Kept

LEMMA KeptSame == ASSUME UNCHANGED disk PROVE Kept' = Kept
  BY DEF Kept, disk

LEMMA AtomicInit == ASSUME VaultInit PROVE Atomic!Init
<1>1. KeptTypeOK
  BY VaultInitInv DEF VaultInv
<1> QED BY <1>1, KeptType DEF VaultInit, Atomic!Init, Request

\* Steps of a save that leave the file and the item alone.
LEMMA AtomicStutter ==
  ASSUME UNCHANGED <<disk, failures>>, Request' = Request
  PROVE  UNCHANGED Atomic!vars
  BY KeptSame DEF Atomic!vars

LEMMA RequestSame ==
  ASSUME saving # None, saving' # None, saving'.of = saving.of, saving'.store = saving.store
  PROVE  Request' = Request
  BY DEF Request

LEMMA AtomicChange ==
  ASSUME VaultInv, NEW a \in Accounts, Change(a)
  PROVE  Atomic!Begin(a, given[a] + 1) /\ given[a] + 1 \in Tokens
<1>1. Loaded \in Cards /\ given[a] + 1 \in Tokens
  BY LoadedHolds, VaultBounds DEF VaultInv, KeptTypeOK, Change, Save, Tokens
<1> DEFINE cards == [Loaded EXCEPT ![a] = given[a] + 1]
<1>2. cards \in Cards /\ cards[a] = given[a] + 1
  BY <1>1, VaultBounds DEF Cards, Tokens
<1>3. /\ saving = None
      /\ saving' = [pc |-> "saving", of |-> a, store |-> cards, next |-> Empty]
  BY DEF Change, Save
<1>4. saving' \in Saving
  BY <1>2, <1>3, EmptyType DEF Saving
<1>5. Request = None /\ Request' = [of |-> a, to |-> given[a] + 1]
  BY <1>2, <1>3, <1>4, VaultNone DEF Request
<1> QED BY <1>1, <1>5, KeptSame DEF Change, Atomic!Begin

LEMMA AtomicDelete ==
  ASSUME VaultInv, NEW a \in Accounts, Delete(a)
  PROVE  Atomic!Begin(a, None)
<1>1. Loaded \in Cards
  BY LoadedHolds DEF VaultInv, Delete, Save
<1> DEFINE cards == [Loaded EXCEPT ![a] = None]
<1>2. cards \in Cards /\ cards[a] = None
  BY <1>1 DEF Cards
<1>3. /\ saving = None
      /\ saving' = [pc |-> "saving", of |-> a, store |-> cards, next |-> Empty]
  BY DEF Delete, Save
<1>4. saving' \in Saving
  BY <1>2, <1>3, EmptyType DEF Saving
<1>5. Request = None /\ Request' = [of |-> a, to |-> None]
  BY <1>2, <1>3, <1>4, VaultNone DEF Request
<1> QED BY <1>5, KeptSame DEF Delete, Atomic!Begin

LEMMA AtomicMigrates == ASSUME VaultInv, UnlockMigrates PROVE UNCHANGED Atomic!vars
<1>1. Request' = Request
  BY DEF UnlockMigrates, Save, Request
<1> QED BY <1>1, AtomicStutter DEF UnlockMigrates

\* A write of the item changes what is kept of the account of the save, or nothing.
LEMMA WrittenKept ==
  ASSUME VaultInv, InStep("writing"), item' \in {item, saving.next}, file' = file,
         NEW a \in Accounts
  PROVE  Kept'[a] = Kept[a] \/ (a = saving.of /\ Kept'[a] = saving.store[a])
<1>1. saving # None /\ saving.store \in Cards /\ saving.next \in Section
  BY SavingFields DEF InStep, VaultInv
<1>2. NextHolds(a) /\ saving.store[a] \in {None} \cup 0..MaxTokens
  BY <1>1 DEF VaultInv, WritesAll, Writing, Cards
<1>3. CASE item' = item \/ file[a] # Moved
  BY <1>3 DEF Kept
<1>4. CASE item' = saving.next /\ file[a] = Moved
  <2>1. Kept'[a] = IF saving.next[a] = 0 THEN None ELSE saving.next[a]
    BY <1>1, <1>4, VaultNone DEF Kept
  <2>2. CASE saving.store[a] = Moved
    <3>1. saving.next[a] # 0 /\ item \in Section /\ item[a] = saving.next[a]
      BY <1>2, <2>2 DEF NextHolds
    <3> QED BY <3>1, <2>1, <1>4, KeptInItem DEF VaultInv
  <2>3. CASE saving.store[a] \in Tokens
    <3>1. saving.next[a] = saving.store[a] /\ saving.next[a] # 0
      BY <1>2, <2>3, VaultBounds DEF NextHolds, Tokens
    <3>2. CASE a = saving.of
      BY <3>1, <3>2, <2>1
    <3>3. CASE a # saving.of
      <4>1. item \in Section /\ item[a] = saving.store[a]
        BY <1>1, <1>4, <2>3, <3>3, VaultBounds DEF VaultInv, HoldsOthers, HoldsOther, Tokens, Moved
      <4> QED BY <4>1, <3>1, <2>1, <1>4, KeptInItem DEF VaultInv
    <3> QED BY <3>2, <3>3
  <2>4. CASE saving.store[a] = None
    <3>1. a = saving.of
      BY <1>1, <1>4, <2>4, VaultNone DEF VaultInv, HoldsOthers, HoldsOther, Moved
    <3> QED BY <3>1, <2>4, <2>1, <1>2 DEF NextHolds
  <2> QED BY <1>2, <2>2, <2>3, <2>4, VaultBounds DEF Tokens, Moved
<1> QED BY <1>1, <1>3, <1>4

LEMMA RequestOf ==
  ASSUME KeptTypeOK, HoldsChange, saving # None, saving.of # None
  PROVE  Request = [of |-> saving.of, to |-> saving.store[saving.of]] /\ Request # None
<1>1. saving.of \in Accounts /\ saving.store[saving.of] \in {None} \cup 0..MaxTokens
  BY SavingFields DEF Cards
<1>2. saving.store[saving.of] \in Tokens \cup {None}
  BY <1>1, VaultBounds DEF HoldsChange, Tokens, Moved
<1>3. Request = [of |-> saving.of, to |-> saving.store[saving.of]]
  BY DEF Request
<1>4. Request \in [of: Accounts, to: Tokens \cup {None}]
  BY <1>1, <1>2, <1>3
<1> QED BY <1>3, <1>4, VaultNone

LEMMA AtomicWritten ==
  ASSUME VaultInv, InStep("writing"), item' \in {item, saving.next}, file' = file,
         saving' # None, saving'.of = saving.of, saving'.store = saving.store,
         UNCHANGED failures
  PROVE  Atomic!Apply \/ UNCHANGED Atomic!vars
<1>1. saving # None /\ Request' = Request
  BY RequestSame DEF InStep
<1>2. Kept = [a \in Accounts |-> Kept[a]] /\ Kept' = [a \in Accounts |-> Kept'[a]]
  BY DEF Kept
<1>3. CASE \A a \in Accounts : Kept'[a] = Kept[a]
  <2>1. Kept' = Kept
    BY <1>2, <1>3
  <2> QED BY <2>1, <1>1 DEF Atomic!vars
<1>4. CASE ~\A a \in Accounts : Kept'[a] = Kept[a]
  <2>1. /\ saving.of \in Accounts /\ Kept'[saving.of] = saving.store[saving.of]
        /\ \A a \in Accounts \ {saving.of} : Kept'[a] = Kept[a]
    BY <1>4, WrittenKept
  <2>2. Kept' = [Kept EXCEPT ![saving.of] = saving.store[saving.of]]
    BY <1>2, <2>1
  <2>3. Request = [of |-> saving.of, to |-> saving.store[saving.of]] /\ Request # None
    BY <1>1, <2>1, VaultNone, RequestOf DEF VaultInv
  <2> QED BY <1>1, <2>2, <2>3 DEF Atomic!Apply
<1> QED BY <1>3, <1>4

\* The write of the file ends the save.
LEMMA AtomicEnds ==
  ASSUME VaultInv, SaveWritesFile
  PROVE  Atomic!End \/ UNCHANGED Atomic!vars
<1>1. /\ saving # None /\ saving' = None /\ Request' = None
      /\ InStep("stripping") \/ InStep("keeping")
  BY DEF SaveWritesFile, InStep, Request
<1>2. saving.store \in Cards /\ saving.of \in Accounts \cup {None}
  BY <1>1, SavingFields DEF VaultInv
<1>3. Kept = [a \in Accounts |-> Kept[a]] /\ Kept' = [a \in Accounts |-> Kept'[a]]
  BY DEF Kept
<1>4. ASSUME NEW a \in Accounts
      PROVE  IF a = saving.of THEN Kept'[a] = saving.store[a] ELSE Kept'[a] = Kept[a]
  <2>1. /\ saving.store[a] \in {None} \cup 0..MaxTokens
        /\ a # saving.of => HoldsOther(a)
        /\ a = saving.of => saving.store[a] # Moved
    BY <1>1, <1>2, VaultNone DEF Cards, VaultInv, HoldsOthers, HoldsChange
  <2>2. file[a] \in {None} \cup 0..MaxTokens
    BY DEF VaultInv, KeptTypeOK, Cards
  <2>3. CASE InStep("stripping")
    <3>1. ItemHolds(a) /\ NextHolds(a)
      BY <1>1, <2>3 DEF VaultInv, StripsWritten, WritesAll, Writing
    <3>2. file'[a] = IF saving.store[a] = None THEN None ELSE Moved
      BY <2>3 DEF SaveWritesFile, Stripped, InStep
    <3>3. CASE saving.store[a] = None
      <4>1. Kept'[a] = None
        BY <3>2, <3>3, VaultNone DEF Kept, Moved
      <4>2. a # saving.of => file[a] = None
        BY <2>1, <3>3 DEF HoldsOther
      <4> QED BY <3>3, <4>1, <4>2, KeptInItem, VaultNone DEF VaultInv, Moved
    <3>4. CASE saving.store[a] # None
      <4>1. item \in Section /\ item[a] = saving.next[a] /\ saving.next[a] # 0
        BY <3>1, <3>4 DEF ItemHolds
      <4>2. Kept'[a] = saving.next[a]
        BY <3>2, <3>4, <4>1, VaultNone DEF Kept, SaveWritesFile
      <4>3. CASE a = saving.of
        BY <2>1, <3>1, <3>4, <4>2, <4>3, VaultBounds DEF NextHolds, Tokens, Moved
      <4>4. CASE a # saving.of /\ file[a] = Moved
        BY <4>1, <4>2, <4>4, KeptInItem DEF VaultInv
      <4>5. CASE a # saving.of /\ file[a] # Moved
        BY <2>1, <2>2, <3>1, <3>4, <4>2, <4>5, KeptInItem, VaultBounds
           DEF VaultInv, HoldsOther, NextHolds, Tokens, Moved
      <4> QED BY <4>3, <4>4, <4>5
    <3> QED BY <3>3, <3>4
  <2>4. CASE InStep("keeping")
    <3>1. file'[a] = saving.store[a] /\ item' = item
      BY <2>4 DEF SaveWritesFile, InStep
    <3>2. saving.store[a] # Moved => Kept'[a] = saving.store[a]
      BY <3>1 DEF Kept
    <3>3. CASE a = saving.of
      BY <2>1, <3>2, <3>3
    <3>4. CASE a # saving.of /\ saving.store[a] = Moved
      <4>1. file[a] = Moved
        BY <2>1, <2>2, <3>4, VaultNone, VaultBounds DEF HoldsOther, Tokens, Moved
      <4> QED BY <3>1, <3>4, <4>1 DEF Kept
    <3>5. CASE a # saving.of /\ saving.store[a] # Moved
      <4>1. CASE file[a] = Moved
        <5>1. item \in Section /\ item[a] = saving.store[a]
          BY <2>1, <3>5, <4>1 DEF HoldsOther
        <5> QED BY <3>2, <3>5, <4>1, <5>1, KeptInItem DEF VaultInv, Moved
      <4>2. CASE file[a] # Moved
        <5>1. saving.store[a] = file[a]
          BY <2>1, <2>2, <3>5, <4>2, VaultBounds DEF HoldsOther, Tokens, Moved
        <5> QED BY <3>2, <3>5, <4>2, <5>1, KeptInItem DEF VaultInv
      <4> QED BY <4>1, <4>2
    <3> QED BY <3>3, <3>4, <3>5
  <2> QED BY <1>1, <2>3, <2>4
<1>5. CASE saving.of = None
  <2>1. Kept' = Kept
    BY <1>3, <1>4, <1>5, VaultNone
  <2>2. Request = None
    BY <1>5 DEF Request
  <2> QED BY <1>1, <2>1, <2>2 DEF Atomic!vars, SaveWritesFile
<1>6. CASE saving.of # None
  <2>1. Kept' = [Kept EXCEPT ![saving.of] = saving.store[saving.of]]
    BY <1>2, <1>3, <1>4, <1>6
  <2>2. Request = [of |-> saving.of, to |-> saving.store[saving.of]] /\ Request # None
    BY <1>1, <1>6, RequestOf DEF VaultInv
  <2> QED BY <1>1, <2>1, <2>2 DEF Atomic!End, SaveWritesFile
<1> QED BY <1>5, <1>6

\* A save that fails and a crash end it as well, as the pool then is.
LEMMA AtomicFails == ASSUME VaultInv, SaveFails \/ VaultCrash PROVE Atomic!Fail
<1>1. Request' = None /\ Kept' = Kept
  BY KeptSame DEF SaveFails, VaultCrash, Request
<1> QED BY <1>1 DEF SaveFails, VaultCrash, Failure, Atomic!Fail

LEMMA AtomicReadsItem ==
  ASSUME VaultInv, SaveReadsItem \/ SaveReadsBack PROVE UNCHANGED Atomic!vars
<1>1. saving # None
  BY DEF SaveReadsItem, SaveReadsBack, InStep
<1>2. saving \in Saving
  BY <1>1, SavingFields DEF VaultInv
<1>3. Request' = Request
  <2>1. saving' # None /\ saving'.of = saving.of /\ saving'.store = saving.store
    <3>1. CASE SaveReadsBack
      <4>1. PICK pc \in {"stripping", "keeping"} : saving' = [saving EXCEPT !.pc = pc]
        BY <3>1 DEF SaveReadsBack
      <4> QED BY <4>1, <1>1, SavingAt, VaultNone DEF VaultInv
    <3>2. CASE SaveReadsItem
      BY <3>2, SaveReadsItemInv, VaultNone
    <3> QED BY <3>1, <3>2
  <2> QED BY <1>1, <2>1, RequestSame
<1> QED BY <1>3, AtomicStutter DEF SaveReadsItem, SaveReadsBack

LEMMA AtomicWrites ==
  ASSUME VaultInv, SaveWritesItem \/ SaveRefused
  PROVE  Atomic!Apply \/ UNCHANGED Atomic!vars
<1>1. /\ InStep("writing") /\ saving # None
      /\ item' \in {item, saving.next} /\ file' = file /\ UNCHANGED failures
  BY DEF SaveWritesItem, SaveRefused, InStep
<1>2. PICK pc \in {"checking", "keeping"} : saving' = [saving EXCEPT !.pc = pc]
  BY DEF SaveWritesItem, SaveRefused
<1>3. saving' # None /\ saving'.of = saving.of /\ saving'.store = saving.store
  BY <1>1, <1>2, SavingAt, VaultNone DEF VaultInv
<1> QED BY <1>1, <1>3, AtomicWritten

\* Lists, unlocks and the Keychain do not change the pool.
LEMMA AtomicIdle ==
  ASSUME UNCHANGED <<disk, saving, failures>> PROVE UNCHANGED Atomic!vars
  BY AtomicStutter DEF Request

LEMMA AtomicNext ==
  ASSUME VaultInv, [VaultNext]_vaultVars PROVE [Atomic!Next]_(Atomic!vars)
<1>1. CASE UNCHANGED vaultVars
  BY <1>1, AtomicIdle DEF vaultVars, disk
<1>2. ASSUME NEW a \in Accounts, Change(a) \/ Delete(a) PROVE Atomic!Next
  BY <1>2, AtomicChange, AtomicDelete DEF Atomic!Next
<1>3. CASE SaveWritesItem \/ SaveRefused
  BY <1>3, AtomicWrites DEF Atomic!Next
<1>4. CASE SaveReadsItem \/ SaveReadsBack
  BY <1>4, AtomicReadsItem
<1>5. CASE SaveWritesFile
  BY <1>5, AtomicEnds DEF Atomic!Next
<1>6. CASE SaveFails \/ VaultCrash
  BY <1>6, AtomicFails DEF Atomic!Next
<1>7. CASE UnlockMigrates
  BY <1>7, AtomicMigrates
<1>8. CASE ListReadsFile \/ ListReadsItem \/ UnlockStarts \/ UnlockAsks \/ UnlockCaches \/ KeychainTurns
  BY <1>8, AtomicIdle DEF ListReadsFile, ListReadsItem, UnlockStarts, UnlockAsks,
     UnlockCaches, KeychainTurns
<1> QED
  BY <1>1, <1>2, <1>3, <1>4, <1>5, <1>6, <1>7, <1>8 DEF VaultNext

\* The file and the item together are one pool with atomic saves, but while a cache or a
\* save holds what a user action read before an earlier save (claude.rs, claude_save,
\* claude_unlock).
THEOREM VaultAtomic == VaultSpec => SavesAreAtomic
<1>1. VaultInit => StaleInv /\ Atomic!Init
  BY VaultInitInv, AtomicInit DEF StaleInv, VaultInv
<1>2. StaleInv /\ [VaultNext]_vaultVars => StaleInv'
  BY VaultNextInv
<1>3. StaleInv /\ [VaultNext]_vaultVars => [Atomic!Next \/ stale]_(Atomic!vars)
  BY AtomicNext DEF StaleInv
<1> QED BY <1>1, <1>2, <1>3, PTL DEF VaultSpec, SavesAreAtomic

-----------------------------------------------------------------------------
(* The places of Claude Code's login.                                      *)

(* The names the service has an item under, and what Claude Code finds.    *)
Has == {n \in Names : entries[n] # NoLogin}
FoundDoc(doc) == FoundIs(doc, "any")

(* Without a Keychain there are no items.                                  *)
NoStrays == place.keychain = NoLogin => Has = {}

(* An item is written where items are.                                     *)
ItemsOnly == move.pc \in {"listing", "updating other", "creating"} => WritesItem

(* What was read, and that only known places were written since.           *)
HeldAsRead ==
  /\ move.held # NoLogin => move.before # NoLogin
  /\ move.held = "keychain" => place.keychain # NoLogin /\ Has # {}
  /\ move.held = "file" => Has = {}
  /\ move.before = NoLogin /\ move.pc # "reading" => Has \subseteq {User}
  /\ (move.held # NoLogin \/ move.pc \in {"reading", "reading file"}) /\ ~move.back => move.places = Has
ReadInTurn ==
  /\ move.pc \in {"reading", "reading file"} => move.held = NoLogin /\ move.before = NoLogin
  /\ move.pc \in {"reading", "reading file", "reading account", "naming", "saving", "restoring"} => ~move.back
  /\ move.pc = "reading file" => Has = {}

(* Each step towards a write leaves one item to write, or none.            *)
OneToWrite ==
  /\ move.pc \in {"listing", "updating other"} => entries[User] = NoLogin
  /\ move.pc = "updating other" => \E n \in Names : Has = {n}
  /\ move.pc = "creating" => Has = {}
  /\ move.pc = "filing" /\ WritesItem => FoundBy(place.user) = {Written}
  /\ move.pc \in {"naming", "saving"} => FoundDoc(Target)

(* The account's name is as it was read, or can be made so.                *)
Recorded == move.named = named[AccountFile(named)]
Restorable ==
  /\ AccountFile(named) = place.global /\ move.named = NoLogin =>
       place.config = place.global \/ named[place.config] = NoLogin
  /\ AccountFile(named) # place.global => move.named # NoLogin
NameKept ==
  /\ move.before # NoLogin /\ ~move.misnamed =>
       /\ move.pc \in {"updating", "listing", "updating other", "creating", "filing", "naming"} => Recorded
       /\ move.pc \in {"saving", "restoring"} => Restorable
  /\ move.pc = "saving" => named[AccountFile(named)] = "target"

(* A roll back restores what was read, or removes all.                     *)
RollsBackInTurn ==
  /\ move.pc \in {"deleting", "clearing"} => move.before = NoLogin
  /\ move.pc = "clearing" => Has = {}
  /\ move.back /\ move.pc \in {"updating", "listing", "updating other", "creating", "filing"} =>
       move.before # NoLogin

Unraced == move # NoMove /\ ~move.raced
StepsKept == HeldAsRead /\ ReadInTurn /\ OneToWrite /\ NameKept /\ RollsBackInTurn
PlacesInv == PlacesTypeOK /\ NoStrays /\ ItemsOnly /\ (Unraced => StepsKept /\ ReplacedWhereRead)

-----------------------------------------------------------------------------
(* The record of a replacement, moved on, and turned back.                 *)
MovedTo(m, pc) == [m EXCEPT !.pc = pc]
Turned(m, pc) == [m EXCEPT !.pc = pc, !.back = TRUE]
SameBut(m, n) ==
  /\ n.switch = m.switch /\ n.interactive = m.interactive /\ n.held = m.held
  /\ n.before = m.before /\ n.named = m.named /\ n.misnamed = m.misnamed
  /\ n.places = m.places /\ n.raced = m.raced

LEMMA MoveGoes ==
  ASSUME NEW m \in Replacements, NEW pc \in MovePCs
  PROVE  /\ MovedTo(m, pc) \in Replacements /\ MovedTo(m, pc).pc = pc
         /\ MovedTo(m, pc).back = m.back /\ SameBut(m, MovedTo(m, pc))
BY DEF Replacements, MovedTo, SameBut

LEMMA MoveTurns ==
  ASSUME NEW m \in Replacements, NEW pc \in MovePCs
  PROVE  /\ Turned(m, pc) \in Replacements /\ Turned(m, pc).pc = pc
         /\ Turned(m, pc).back = TRUE /\ SameBut(m, Turned(m, pc))
BY DEF Replacements, Turned, SameBut

LEMMA Underway ==
  ASSUME PlacesTypeOK, move.pc # "idle" PROVE move \in Replacements /\ move # NoMove
BY DEF PlacesTypeOK, NoMove

LEMMA NoMoveIdle == \A m \in Replacements : m # NoMove
<1> SUFFICES ASSUME NEW m \in Replacements, m = NoMove PROVE FALSE
  OBVIOUS
<1>1. m.pc \in MovePCs BY DEF Replacements
<1>2. m.pc = "idle" BY DEF NoMove
<1> QED BY <1>1, <1>2 DEF MovePCs

LEMMA PlaceTypes ==
  PlacesTypeOK =>
    /\ entries \in [Names -> Docs \cup {NoLogin}] /\ credentials \in Docs \cup {NoLogin}
    /\ named \in [ConfigDirs -> AccountNames \cup {NoLogin}]
    /\ place.config \in ConfigDirs /\ place.global \in ConfigDirs /\ place.user \in BOOLEAN
BY DEF PlacesTypeOK

(* What is written is a login.                                             *)
LEMMA WrittenTyped ==
  ASSUME move \in Replacements
  PROVE  Target \in Docs /\ Written \in Docs \cup {NoLogin}
         /\ (~move.back \/ move.before # NoLogin => Written \in Docs)
<1>1. "target" \in Logins BY DEF Logins
<1>2. move.before \in Docs \cup {NoLogin} BY DEF Replacements
<1>3. move.before \in Docs => move.before.rest \in Logins \cup {NoLogin} BY DEF Docs
<1>4. Target \in Docs BY <1>1, <1>2, <1>3 DEF Target, Doc, Docs
<1> QED BY <1>2, <1>4 DEF Written

LEMMA PlacesStart == PlacesInit => PlacesInv
<1> SUFFICES ASSUME PlacesInit PROVE PlacesInv
  OBVIOUS
<1>1. PICK e \in EnvironmentOf : place = Resolve(e) BY DEF PlacesInit
<1>2. /\ e.copool \in BOOLEAN /\ e.config \in {Unset, Blank, "config"} /\ e.user \in BOOLEAN
      /\ e.storage \in {Unset, Blank, "storage"}
  BY DEF EnvironmentOf
<1>3. /\ ConfigDir(e) \in {"config", "home/.claude"} /\ GlobalConfig(e) \in {"config", "home"}
      /\ StorageDir(e) \in {"config", "home/.claude", "storage"}
  BY <1>2 DEF ConfigDir, GlobalConfig, StorageDir, Filled, Unset, Blank
<1>4. Service(e) \in [custom : BOOLEAN, of : {NoLogin, "config", "home/.claude", "storage"}]
  <2>1. Filled(CustomOauth(e)) \in BOOLEAN BY DEF Filled
  <2> QED BY <1>3, <2>1 DEF Service
<1>5. place \in [config : ConfigDirs, global : ConfigDirs,
                 storage : ConfigDirs \cup {"storage"}, user : BOOLEAN,
                 keychain : {NoLogin} \cup
                   [custom : BOOLEAN, of : {NoLogin, "config", "home/.claude", "storage"}]]
  BY <1>1, <1>2, <1>3, <1>4 DEF Resolve, ConfigDirs
<1>6. \A l \in Logins : Doc(l, l) \in Docs BY DEF Doc, Docs
<1>7. {"user's", "other's", "file's"} \subseteq Logins BY DEF Logins
<1>8. entries \in [Names -> Docs \cup {NoLogin}] /\ credentials \in Docs \cup {NoLogin}
  BY <1>6, <1>7 DEF PlacesInit
<1>9. named \in [ConfigDirs -> AccountNames \cup {NoLogin}] BY DEF PlacesInit, AccountNames
<1>10. move = NoMove /\ moves \in 0..MaxMoves /\ refused \in 0..MaxRefused /\ replaced \in 0..MaxReplaced
  BY PlacesBounds DEF PlacesInit
<1>11. PlacesTypeOK BY <1>5, <1>8, <1>9, <1>10 DEF PlacesTypeOK
<1>12. NoStrays BY DEF NoStrays, Has, PlacesInit
<1> QED BY <1>10, <1>11, <1>12 DEF PlacesInv, Unraced, NoMove, ItemsOnly

(* A step that leaves what is stored alone.                                *)
LEMMA OnlyMoves ==
  ASSUME PlacesInv, UNCHANGED keptVars, move' \in Replacements \cup {NoMove},
         UNCHANGED placeBounds \/ Denied
  PROVE  /\ PlacesTypeOK' /\ NoStrays'
         /\ Has' = Has /\ AccountFile(named)' = AccountFile(named)
<1>1. UNCHANGED <<place, entries, credentials, named>> BY DEF keptVars
<1>2. moves' \in 0..MaxMoves /\ refused' \in 0..MaxRefused /\ replaced' \in 0..MaxReplaced
  BY PlacesBounds DEF PlacesInv, PlacesTypeOK, Denied, placeBounds
<1>3. PlacesTypeOK' BY <1>1, <1>2 DEF PlacesInv, PlacesTypeOK
<1>4. Has' = Has BY <1>1 DEF Has
<1>5. NoStrays' BY <1>1, <1>4 DEF PlacesInv, NoStrays
<1>6. AccountFile(named)' = AccountFile(named) BY <1>1 DEF AccountFile
<1> QED BY <1>3, <1>4, <1>5, <1>6

LEMMA StartKeepsPlaces ==
  ASSUME PlacesInv, NEW switch \in BOOLEAN, NEW interactive \in BOOLEAN, Start(switch, interactive)
  PROVE  PlacesInv'
<1>1. /\ UNCHANGED keptVars /\ UNCHANGED <<moves, refused>>
      /\ replaced < MaxReplaced /\ replaced' = replaced + 1
      /\ move' = [pc |-> "reading", switch |-> switch, interactive |-> interactive, held |-> NoLogin,
                  before |-> NoLogin, named |-> NoLogin, back |-> FALSE, misnamed |-> FALSE,
                  places |-> Has, raced |-> FALSE]
  BY DEF Start, Has
<1>2. move' \in Replacements BY <1>1 DEF Replacements, MovePCs, Has
<1>3. replaced' \in 0..MaxReplaced BY <1>1, PlacesBounds DEF PlacesInv, PlacesTypeOK
<1>4. PlacesTypeOK' BY <1>1, <1>2, <1>3 DEF PlacesInv, PlacesTypeOK, keptVars
<1>5. Has' = Has /\ NoStrays' BY <1>1 DEF PlacesInv, Has, NoStrays, keptVars
<1>6. /\ move'.pc = "reading" /\ move'.held = NoLogin /\ move'.before = NoLogin /\ move'.back = FALSE
      /\ move'.places = Has
  BY <1>1
<1>7. HeldAsRead' BY <1>5, <1>6, NoLoginIsNone DEF HeldAsRead
<1>8. StepsKept'
  BY <1>6, <1>7 DEF StepsKept, ReadInTurn, OneToWrite, NameKept, RollsBackInTurn
<1>9. ReplacedWhereRead' BY <1>6 DEF ReplacedWhereRead
<1> QED BY <1>4, <1>5, <1>6, <1>8, <1>9 DEF PlacesInv, ItemsOnly

(* Reading: the Keychain's item, else the file, then the account's name.   *)
LEMMA ReadKeychainKeeps == ASSUME PlacesInv, ReadKeychain PROVE PlacesInv'
<1>1. /\ move.pc = "reading" /\ UNCHANGED keptVars /\ UNCHANGED placeBounds
      /\ UNCHANGED <<place, entries, credentials, named>>
  BY DEF ReadKeychain, Doing, keptVars
<1>2. move \in Replacements /\ move # NoMove BY <1>1, Underway DEF PlacesInv
<1>3. CASE move' = MovedTo(move, "reading file") /\ (place.keychain = NoLogin \/ FoundBy(place.user) = {})
  <2>1. /\ move' \in Replacements /\ move'.pc = "reading file"
        /\ move'.back = move.back /\ SameBut(move, move')
    BY <1>2, <1>3, MoveGoes DEF MovePCs
  <2>2. PlacesTypeOK' /\ NoStrays' /\ Has' = Has BY <1>1, <2>1, OnlyMoves
  <2>3. Has = {} BY <1>3 DEF PlacesInv, NoStrays, Has, FoundBy
  <2>4. ASSUME ~move.raced PROVE StepsKept' /\ ReplacedWhereRead'
    <3>1. HeldAsRead /\ ReadInTurn BY <1>2, <2>4 DEF PlacesInv, Unraced, StepsKept
    <3>2. HeldAsRead' /\ ReadInTurn'
      BY <1>1, <2>1, <2>2, <2>3, <3>1 DEF HeldAsRead, ReadInTurn, SameBut
    <3>3. OneToWrite' /\ NameKept' /\ RollsBackInTurn' /\ ReplacedWhereRead'
      BY <2>1 DEF OneToWrite, NameKept, RollsBackInTurn, ReplacedWhereRead
    <3> QED BY <3>2, <3>3 DEF StepsKept
  <2> QED BY <2>1, <2>2, <2>4 DEF PlacesInv, Unraced, ItemsOnly, SameBut
<1>4. ASSUME place.keychain # NoLogin, NEW d \in FoundBy(place.user),
             move' = [move EXCEPT !.pc = "reading account", !.held = "keychain", !.before = d]
      PROVE  PlacesInv'
  <2>1. d \in Docs /\ Has # {}
    BY PlaceTypes DEF PlacesInv, FoundBy, Has, Names
  <2>2. move' \in Replacements BY <1>2, <1>4, <2>1 DEF Replacements, MovePCs
  <2>3. /\ move'.pc = "reading account" /\ move'.held = "keychain" /\ move'.before = d
        /\ move'.back = move.back /\ move'.raced = move.raced /\ move'.places = move.places
    BY <1>2, <1>4 DEF Replacements
  <2>4. PlacesTypeOK' /\ NoStrays' /\ Has' = Has BY <1>1, <2>2, OnlyMoves
  <2>5. ASSUME ~move.raced PROVE StepsKept' /\ ReplacedWhereRead'
    <3>1. HeldAsRead /\ ReadInTurn BY <1>2, <2>5 DEF PlacesInv, Unraced, StepsKept
    <3>2. HeldAsRead'
      BY <1>1, <1>4, <2>1, <2>3, <2>4, <3>1, NoLoginIsNone DEF HeldAsRead
    <3>3. ReadInTurn' BY <1>1, <2>3, <3>1 DEF ReadInTurn
    <3>4. OneToWrite' /\ NameKept' /\ RollsBackInTurn' /\ ReplacedWhereRead'
      BY <2>3 DEF OneToWrite, NameKept, RollsBackInTurn, ReplacedWhereRead
    <3> QED BY <3>2, <3>3, <3>4 DEF StepsKept
  <2> QED BY <2>2, <2>3, <2>4, <2>5 DEF PlacesInv, Unraced, ItemsOnly
<1> QED BY <1>3, <1>4 DEF ReadKeychain, Then, MovedTo

LEMMA EndKeepsPlaces ==
  ASSUME PlacesInv, UNCHANGED keptVars, MoveEnds, UNCHANGED placeBounds \/ Denied
  PROVE  PlacesInv'
<1>1. move' = NoMove BY DEF MoveEnds
<1>2. PlacesTypeOK' /\ NoStrays' BY <1>1, OnlyMoves
<1> QED BY <1>1, <1>2 DEF PlacesInv, Unraced, ItemsOnly, NoMove

LEMMA ReadFileKeeps == ASSUME PlacesInv, ReadFile PROVE PlacesInv'
<1>1. /\ move.pc = "reading file" /\ UNCHANGED keptVars /\ UNCHANGED placeBounds
      /\ UNCHANGED <<place, entries, credentials, named>>
  BY DEF ReadFile, Doing, keptVars
<1>2. move \in Replacements /\ move # NoMove BY <1>1, Underway DEF PlacesInv
<1>3. credentials \in Docs \cup {NoLogin} BY PlaceTypes DEF PlacesInv
<1>4. CASE credentials # NoLogin
  <2>1. move' = [move EXCEPT !.pc = "reading account", !.held = "file", !.before = credentials]
    BY <1>4 DEF ReadFile
  <2>2. move' \in Replacements BY <1>2, <1>3, <2>1 DEF Replacements, MovePCs
  <2>3. /\ move'.pc = "reading account" /\ move'.held = "file" /\ move'.before = credentials
        /\ move'.back = move.back /\ move'.raced = move.raced /\ move'.places = move.places
    BY <1>2, <2>1 DEF Replacements
  <2>4. PlacesTypeOK' /\ NoStrays' /\ Has' = Has BY <1>1, <2>2, OnlyMoves
  <2>5. ASSUME ~move.raced PROVE StepsKept' /\ ReplacedWhereRead'
    <3>1. HeldAsRead /\ ReadInTurn /\ Has = {} /\ place' = place
      BY <1>1, <1>2, <2>5 DEF PlacesInv, Unraced, StepsKept, ReadInTurn
    <3>2. HeldAsRead'
      <4>1. move.held = NoLogin BY <1>1, <3>1 DEF ReadInTurn
      <4>2. ~move.back => move'.places = Has
        BY <1>1, <2>3, <3>1, <4>1 DEF HeldAsRead, ReadInTurn
      <4> QED BY <1>4, <2>3, <2>4, <3>1, <4>2, NoLoginIsNone DEF HeldAsRead
    <3>3. ReadInTurn' BY <1>1, <2>3, <3>1 DEF ReadInTurn
    <3>4. OneToWrite' /\ NameKept' /\ RollsBackInTurn' /\ ReplacedWhereRead'
      BY <2>3 DEF OneToWrite, NameKept, RollsBackInTurn, ReplacedWhereRead
    <3> QED BY <3>2, <3>3, <3>4 DEF StepsKept
  <2> QED BY <2>2, <2>3, <2>4, <2>5 DEF PlacesInv, Unraced, ItemsOnly
<1>5. CASE credentials = NoLogin /\ move.switch
  <2>1. move' = MovedTo(move, "updating") BY <1>5 DEF ReadFile, Then, MovedTo
  <2>2. /\ move' \in Replacements /\ move'.pc = "updating"
        /\ move'.back = move.back /\ SameBut(move, move')
    BY <1>2, <2>1, MoveGoes DEF MovePCs
  <2>3. PlacesTypeOK' /\ NoStrays' /\ Has' = Has BY <1>1, <2>2, OnlyMoves
  <2>4. ASSUME ~move.raced PROVE StepsKept' /\ ReplacedWhereRead'
    <3>1. HeldAsRead /\ ReadInTurn BY <1>2, <2>4 DEF PlacesInv, Unraced, StepsKept
    <3>2. move'.before = NoLogin /\ move'.held = NoLogin /\ ~move'.back /\ Has = {}
      BY <1>1, <2>2, <3>1 DEF ReadInTurn, SameBut
    <3>3. HeldAsRead' BY <1>1, <2>2, <2>3, <3>2, NoLoginIsNone DEF HeldAsRead
    <3>4. ReadInTurn' /\ OneToWrite' /\ NameKept' /\ RollsBackInTurn' /\ ReplacedWhereRead'
      BY <2>2, <3>2 DEF ReadInTurn, OneToWrite, NameKept, RollsBackInTurn, ReplacedWhereRead
    <3> QED BY <3>3, <3>4 DEF StepsKept
  <2> QED BY <2>2, <2>3, <2>4 DEF PlacesInv, Unraced, ItemsOnly, SameBut
<1>6. CASE credentials = NoLogin /\ ~move.switch
  BY <1>1, <1>6, EndKeepsPlaces DEF ReadFile
<1> QED BY <1>4, <1>5, <1>6

LEMMA ReadAccountKeeps == ASSUME PlacesInv, ReadAccount PROVE PlacesInv'
<1>1. /\ move.pc = "reading account" /\ UNCHANGED keptVars /\ UNCHANGED placeBounds
      /\ UNCHANGED <<place, entries, credentials, named>>
      /\ move' = [move EXCEPT !.pc = "updating", !.named = named[AccountFile(named)]]
  BY DEF ReadAccount, Doing, keptVars
<1>2. move \in Replacements /\ move # NoMove BY <1>1, Underway DEF PlacesInv
<1>3. named[AccountFile(named)] \in AccountNames \cup {NoLogin}
  BY PlaceTypes DEF PlacesInv, AccountFile
<1> DEFINE name == named[AccountFile(named)]
<1> HIDE DEF name
<1>4. move' = [move EXCEPT !.pc = "updating", !.named = name] BY <1>1 DEF name
<1>5. name \in AccountNames \cup {NoLogin} BY <1>3 DEF name
<1>6. /\ move' \in Replacements /\ move'.pc = "updating" /\ move'.named = name
      /\ move'.held = move.held /\ move'.before = move.before /\ move'.back = move.back
      /\ move'.raced = move.raced /\ move'.places = move.places
  BY <1>2, <1>4, <1>5 DEF Replacements, MovePCs
<1>7. PlacesTypeOK' /\ NoStrays' /\ Has' = Has /\ AccountFile(named)' = AccountFile(named)
  BY <1>1, <1>6, OnlyMoves
<1>8. ASSUME ~move.raced PROVE StepsKept' /\ ReplacedWhereRead'
  <2>1. HeldAsRead /\ ReadInTurn BY <1>2, <1>8 DEF PlacesInv, Unraced, StepsKept
  <2>2. HeldAsRead' BY <1>1, <1>6, <1>7, <2>1 DEF HeldAsRead
  <2>3. ~move'.back BY <1>1, <1>6, <2>1 DEF ReadInTurn
  <2>4. Recorded' BY <1>1, <1>6, <1>7 DEF Recorded, name
  <2>5. NameKept' BY <1>6, <2>4 DEF NameKept
  <2>6. ReadInTurn' /\ OneToWrite' /\ RollsBackInTurn' /\ ReplacedWhereRead'
    BY <1>6, <2>3 DEF ReadInTurn, OneToWrite, RollsBackInTurn, ReplacedWhereRead
  <2> QED BY <2>2, <2>5, <2>6 DEF StepsKept
<1> QED BY <1>6, <1>7, <1>8 DEF PlacesInv, Unraced, ItemsOnly

-----------------------------------------------------------------------------
(* WritingItem: what stays as it is from one step to the next.                 *)
WritingItem == {"updating", "listing", "updating other", "creating"}
LEMMA SameWritten ==
  ASSUME place' = place, SameBut(move, move'), move'.back = move.back
  PROVE  Written' = Written /\ Target' = Target /\ WritesItem' = WritesItem
BY DEF SameBut, Written, Target, WritesItem

LEMMA SameName ==
  ASSUME UNCHANGED <<place, named>>, SameBut(move, move')
  PROVE  /\ Recorded' = Recorded /\ Restorable' = Restorable
         /\ AccountFile(named)' = AccountFile(named)
<1>1. AccountFile(named)' = AccountFile(named) BY DEF AccountFile
<1> QED BY <1>1 DEF SameBut, Recorded, Restorable

LEMMA WritingGoesOn ==
  ASSUME StepsKept, move.pc \in WritingItem,
         move'.pc \in {"listing", "updating other", "creating", "filing"},
         SameBut(move, move'), move'.back = move.back, UNCHANGED <<place, named>>,
         HeldAsRead', OneToWrite'
  PROVE  StepsKept' /\ ReplacedWhereRead'
<1>1. NameKept' BY SameName DEF StepsKept, NameKept, WritingItem, SameBut
<1>2. ReadInTurn' /\ ReplacedWhereRead' BY DEF ReadInTurn, ReplacedWhereRead
<1>3. RollsBackInTurn' BY DEF StepsKept, RollsBackInTurn, WritingItem, SameBut
<1> QED BY <1>1, <1>2, <1>3 DEF StepsKept

LEMMA RollsBackGoes ==
  ASSUME RollsBack
  PROVE  \/ move' = MovedTo(move, "broken")
         \/ move.before = NoLogin /\ move' = Turned(move, "deleting")
         \/ move.before # NoLogin /\ move' = Turned(move, "updating")
<1>1. CASE move.back \/ ~move.switch BY <1>1 DEF RollsBack, Then, MovedTo
<1>2. CASE ~(move.back \/ ~move.switch) /\ move.before = NoLogin BY <1>2 DEF RollsBack, Turned
<1>3. CASE ~(move.back \/ ~move.switch) /\ move.before # NoLogin BY <1>3 DEF RollsBack, Turned
<1> QED BY <1>1, <1>2, <1>3

(* A failed write is rolled back: written again as it was, or removed.     *)
LEMMA TurnKeeps ==
  ASSUME PlacesTypeOK, NoStrays, move \in Replacements, UNCHANGED <<place, entries, credentials>>,
         move.pc \in WritingItem \cup {"filing", "naming", "restoring"}, RollsBack,
         PlacesTypeOK',
         ~move.raced => StepsKept /\ (move.before # NoLogin /\ ~move.misnamed => Recorded')
  PROVE  PlacesInv'
<1>1. Has' = Has BY DEF Has
<1>2. NoStrays' BY <1>1 DEF NoStrays
<1>3. CASE move' = MovedTo(move, "broken")
  <2>1. /\ move'.pc = "broken" /\ move'.back = move.back /\ SameBut(move, move')
    BY <1>3, MoveGoes DEF MovePCs
  <2>2. ASSUME ~move.raced PROVE StepsKept' /\ ReplacedWhereRead'
    <3>1. HeldAsRead /\ ReadInTurn BY <2>2 DEF StepsKept
    <3>2. HeldAsRead' BY <1>1, <2>1, <3>1 DEF HeldAsRead, SameBut, WritingItem
    <3>3. ReadInTurn' /\ OneToWrite' /\ NameKept' /\ RollsBackInTurn' /\ ReplacedWhereRead'
      BY <2>1 DEF ReadInTurn, OneToWrite, NameKept, RollsBackInTurn, ReplacedWhereRead
    <3> QED BY <3>2, <3>3 DEF StepsKept
  <2> QED BY <1>2, <2>1, <2>2 DEF PlacesInv, Unraced, ItemsOnly, SameBut
<1>4. ASSUME NEW pc \in {"deleting", "updating"}, move' = Turned(move, pc),
             pc = "deleting" <=> move.before = NoLogin
      PROVE  PlacesInv'
  <2>1. move'.pc = pc /\ move'.back = TRUE /\ SameBut(move, move')
    <3>1. pc \in MovePCs BY DEF MovePCs
    <3> QED BY ONLY <1>4, <3>1, move \in Replacements, MoveTurns
  <2>2. ASSUME ~move.raced PROVE StepsKept' /\ ReplacedWhereRead'
    <3>1. HeldAsRead BY <2>2 DEF StepsKept
    <3>2. HeldAsRead' BY <1>1, <2>1, <3>1 DEF HeldAsRead, SameBut, WritingItem
    <3>3. NameKept' BY <2>1, <2>2, <1>4 DEF NameKept, SameBut
    <3>4. ReadInTurn' /\ OneToWrite' /\ RollsBackInTurn' /\ ReplacedWhereRead'
      BY <1>4, <2>1 DEF ReadInTurn, OneToWrite, RollsBackInTurn, ReplacedWhereRead, SameBut
    <3> QED BY <3>2, <3>3, <3>4 DEF StepsKept
  <2> QED BY <1>2, <2>1, <2>2 DEF PlacesInv, Unraced, ItemsOnly, SameBut
<1> QED BY <1>3, <1>4, RollsBackGoes

(* An item is written, in a place that has a Keychain.                     *)
LEMMA ItemWritten ==
  ASSUME PlacesInv, move \in Replacements, NEW n \in Names, WritesItem,
         entries' = [entries EXCEPT ![n] = Written], move' \in Replacements,
         UNCHANGED <<place, credentials, named, placeBounds>>
  PROVE  /\ PlacesTypeOK' /\ NoStrays'
         /\ \A m \in Names : entries'[m] = IF m = n THEN Written ELSE entries[m]
<1>1. entries \in [Names -> Docs \cup {NoLogin}] BY PlaceTypes DEF PlacesInv
<1>2. entries' \in [Names -> Docs \cup {NoLogin}] BY <1>1, WrittenTyped
<1>3. UNCHANGED <<moves, refused, replaced>> BY DEF placeBounds
<1>4. PlacesTypeOK' BY <1>2, <1>3 DEF PlacesInv, PlacesTypeOK
<1>5. NoStrays' BY DEF NoStrays, WritesItem
<1> QED BY <1>1, <1>4, <1>5

(* A step of the writing that writes nothing.                              *)
LEMMA WritingMoves ==
  ASSUME PlacesInv, move \in Replacements, move.pc \in WritingItem, UNCHANGED <<keptVars, placeBounds>>,
         NEW pc \in {"listing", "updating other", "creating", "filing"}, move' = MovedTo(move, pc),
         pc # "filing" => WritesItem,
         ~move.raced =>
           /\ pc = "filing" => ~WritesItem
           /\ pc \in {"listing", "updating other"} => entries[User] = NoLogin
           /\ pc = "updating other" => \E n \in Names : Has = {n}
           /\ pc = "creating" => Has = {}
  PROVE  PlacesInv'
<1>1. /\ move' \in Replacements /\ move'.pc = pc /\ move'.back = move.back /\ SameBut(move, move')
  <2>1. pc \in MovePCs BY DEF MovePCs
  <2> QED BY ONLY <2>1, move' = MovedTo(move, pc), move \in Replacements, MoveGoes
<1>2. UNCHANGED <<place, entries, credentials, named>> BY DEF keptVars
<1>3. PlacesTypeOK' /\ NoStrays' /\ Has' = Has BY <1>1, OnlyMoves
<1>4. ASSUME ~move.raced PROVE StepsKept' /\ ReplacedWhereRead'
  <2>1. StepsKept BY <1>4, NoMoveIdle DEF PlacesInv, Unraced, ItemsOnly
  <2>2. WritesItem' = WritesItem BY <1>1, <1>2, SameWritten
  <2>3. HeldAsRead' BY <1>1, <1>2, <1>3, <2>1 DEF StepsKept, HeldAsRead, SameBut, WritingItem
  <2>4. OneToWrite' BY <1>1, <1>2, <1>3, <1>4, <2>2 DEF OneToWrite
  <2> QED BY <1>1, <1>2, <2>1, <2>3, <2>4, WritingGoesOn
<1>5. ItemsOnly' BY <1>1, <1>2, SameWritten DEF ItemsOnly
<1> QED BY <1>1, <1>3, <1>4, <1>5 DEF PlacesInv, Unraced, SameBut

(* A step that writes the one item there is, or the first.                 *)
LEMMA WritesOne ==
  ASSUME PlacesInv, move \in Replacements, move.pc \in WritingItem, WritesItem, NEW n \in Names,
         entries' = [entries EXCEPT ![n] = Written], move' = MovedTo(move, "filing"),
         UNCHANGED <<place, credentials, named, placeBounds>>,
         ~move.raced =>
           /\ entries[n] # NoLogin \/ Has = {}
           /\ (n = User /\ place.user) \/ Has \subseteq {n}
           /\ place.user => n = User \/ entries[User] = NoLogin
           /\ move.before = NoLogin => n = User
  PROVE  PlacesInv'
<1>1. /\ move' \in Replacements /\ move'.pc = "filing" /\ move'.back = move.back /\ SameBut(move, move')
  <2>1. "filing" \in MovePCs BY DEF MovePCs
  <2> QED BY ONLY <2>1, move' = MovedTo(move, "filing"), move \in Replacements, MoveGoes
<1>2. PlacesTypeOK' /\ NoStrays' /\ \A m \in Names : entries'[m] = IF m = n THEN Written ELSE entries[m]
  BY <1>1, ItemWritten
<1>3. ASSUME ~move.raced PROVE StepsKept' /\ ReplacedWhereRead'
  <2>1. StepsKept BY <1>3, NoMoveIdle DEF PlacesInv, Unraced, ItemsOnly
  <2>2. Written' = Written /\ WritesItem' = WritesItem BY <1>1, SameWritten
  <2>3. Written # NoLogin
    BY <2>1, WrittenTyped, NoLoginIsNone DEF StepsKept, RollsBackInTurn, WritingItem
  <2>4. Has' = Has \cup {n} BY <1>2, <2>3 DEF Has
  <2>5. FoundBy(place.user)' = {Written}
    <3>1. CASE n = User /\ place.user
      BY <1>2, <2>3, <3>1 DEF FoundBy
    <3>2. CASE Has \subseteq {n} /\ ~(n = User /\ place.user)
      <4>1. {m \in Names : entries'[m] # NoLogin} = {n} BY <2>4, <3>2 DEF Has
      <4>2. {entries'[m] : m \in {k \in Names : entries'[k] # NoLogin}} = {Written}
        BY <1>2, <4>1
      <4>3. ~(place.user /\ entries'[User] # NoLogin)
        BY <1>2, <1>3, <3>2 DEF Names
      <4> QED BY <4>2, <4>3 DEF FoundBy
    <3> QED BY <1>3, <3>1, <3>2
  <2>6. HeldAsRead'
    <3>1. HeldAsRead BY <2>1 DEF StepsKept
    <3>2. move.held # "file" BY DEF WritesItem
    <3>3. move.held # NoLogin => Has' = Has /\ move.held = "keychain"
      BY <1>3, <2>4, <3>1, <3>2 DEF HeldAsRead, Has, Replacements
    <3>4. move.before = NoLogin => Has' \subseteq {User}
      BY <1>3, <2>4, <3>1 DEF HeldAsRead, WritingItem
    <3> QED BY <1>1, <2>4, <3>1, <3>2, <3>3, <3>4 DEF HeldAsRead, SameBut, WritingItem
  <2>7. OneToWrite' BY <1>1, <2>2, <2>5 DEF OneToWrite
  <2> QED BY <1>1, <2>1, <2>6, <2>7, WritingGoesOn
<1> QED BY <1>1, <1>2, <1>3 DEF PlacesInv, Unraced, ItemsOnly, SameBut

LEMMA UpdateUsersKeeps == ASSUME PlacesInv, UpdateUsers PROVE PlacesInv'
<1>1. /\ move.pc = "updating" /\ UNCHANGED <<place, credentials, named, placeBounds>>
      /\ WritesItem => place.user
  BY DEF UpdateUsers, Doing
<1>2. move \in Replacements /\ move.pc \in WritingItem BY <1>1, Underway DEF PlacesInv, WritingItem
<1>3. CASE ~WritesItem
  <2>1. move' = MovedTo(move, "filing") /\ UNCHANGED entries
    BY <1>3 DEF UpdateUsers, Then, MovedTo
  <2> QED BY <1>1, <1>2, <1>3, <2>1, WritingMoves DEF keptVars
<1>4. CASE WritesItem /\ entries[User] = NoLogin
  <2>1. move' = MovedTo(move, "listing") /\ UNCHANGED entries
    BY <1>4 DEF UpdateUsers, Then, MovedTo
  <2> QED BY <1>1, <1>2, <1>4, <2>1, WritingMoves DEF keptVars
<1>5. CASE WritesItem /\ entries[User] # NoLogin
  <2>1. entries' = [entries EXCEPT ![User] = Written] /\ move' = MovedTo(move, "filing")
    BY <1>5 DEF UpdateUsers, Then, MovedTo
  <2>2. User \in Names BY DEF Names
  <2> QED BY <1>1, <1>2, <1>5, <2>1, <2>2, WritesOne
<1> QED BY <1>3, <1>4, <1>5

(* Turned back before anything of the account's name was written.          *)
LEMMA TurnEarly ==
  ASSUME PlacesInv, UNCHANGED keptVars, UNCHANGED placeBounds \/ Denied, RollsBack,
         move.pc \in WritingItem \cup {"filing", "naming"}
  PROVE  PlacesInv'
<1>1. move \in Replacements BY Underway DEF PlacesInv, WritingItem
<1>2. UNCHANGED <<place, entries, credentials, named>> BY DEF keptVars
<1>3. move' \in Replacements /\ move'.named = move.named
  <2>1. "broken" \in MovePCs /\ "deleting" \in MovePCs /\ "updating" \in MovePCs BY DEF MovePCs
  <2>2. MovedTo(move, "broken") \in Replacements /\ MovedTo(move, "broken").named = move.named
    BY <1>1, <2>1, MoveGoes DEF SameBut
  <2>3. Turned(move, "deleting") \in Replacements /\ Turned(move, "deleting").named = move.named
    BY <1>1, <2>1, MoveTurns DEF SameBut
  <2>4. Turned(move, "updating") \in Replacements /\ Turned(move, "updating").named = move.named
    BY <1>1, <2>1, MoveTurns DEF SameBut
  <2> QED BY <2>2, <2>3, <2>4, RollsBackGoes
<1>4. PlacesTypeOK' /\ AccountFile(named)' = AccountFile(named) BY <1>3, OnlyMoves
<1>5. ~move.raced => StepsKept /\ (move.before # NoLogin /\ ~move.misnamed => Recorded')
  <2> SUFFICES ASSUME ~move.raced PROVE StepsKept /\ (move.before # NoLogin /\ ~move.misnamed => Recorded')
    OBVIOUS
  <2>1. StepsKept BY <1>1, NoMoveIdle DEF PlacesInv, Unraced, ItemsOnly
  <2>2. move.before # NoLogin /\ ~move.misnamed => Recorded
    BY <2>1 DEF StepsKept, NameKept, WritingItem
  <2>3. Recorded' = Recorded BY <1>2, <1>3, <1>4 DEF Recorded
  <2> QED BY <2>1, <2>2, <2>3
<1> QED BY <1>1, <1>2, <1>4, <1>5, TurnKeeps DEF PlacesInv

LEMMA ListAccountsKeeps == ASSUME PlacesInv, ListAccounts PROVE PlacesInv'
<1>1. move.pc = "listing" /\ UNCHANGED <<keptVars, placeBounds>> BY DEF ListAccounts, Doing
<1>2. move \in Replacements /\ move.pc \in WritingItem BY <1>1, Underway DEF PlacesInv, WritingItem
<1>3. ASSUME ~move.raced PROVE entries[User] = NoLogin
  BY <1>1, <1>2, <1>3, NoMoveIdle DEF PlacesInv, Unraced, StepsKept, OneToWrite
<1>7. WritesItem BY <1>1 DEF PlacesInv, ItemsOnly
<1>4. CASE Has \in {{}, {User}}
  <2>1. move' = MovedTo(move, "creating") BY <1>4 DEF ListAccounts, Has, Then, MovedTo
  <2>2. entries[User] = NoLogin => Has = {} BY <1>4 DEF Has
  <2> QED BY <1>1, <1>2, <1>3, <1>7, <2>1, <2>2, WritingMoves
<1>5. CASE Has \notin {{}, {User}} /\ Cardinality(Has) = 1
  <2>1. move' = MovedTo(move, "updating other") BY <1>5 DEF ListAccounts, Has, Then, MovedTo
  <2>2. IsFiniteSet(Has)
    <3>1. IsFiniteSet(Others) BY PlacesBounds
    <3>2. IsFiniteSet(Names) BY <3>1, FS_Singleton, FS_Union DEF Names
    <3> QED BY <3>2, FS_Subset DEF Has
  <2>3. \E n \in Names : Has = {n}
    <3>1. \E n : Has = {n} BY <1>5, <2>2, FS_Singleton
    <3> QED BY <3>1 DEF Has
  <2> QED BY <1>1, <1>2, <1>3, <1>7, <2>1, <2>3, WritingMoves
<1>6. CASE Has \notin {{}, {User}} /\ Cardinality(Has) # 1
  <2>1. RollsBack BY <1>6 DEF ListAccounts, Has
  <2> QED BY <1>1, <1>2, <2>1, TurnEarly
<1> QED BY <1>4, <1>5, <1>6

LEMMA UpdateOtherKeeps == ASSUME PlacesInv, UpdateOther PROVE PlacesInv'
<1>1. move.pc = "updating other" /\ UNCHANGED <<place, credentials, named, placeBounds>>
  BY DEF UpdateOther, Doing
<1>2. move \in Replacements /\ move.pc \in WritingItem BY <1>1, Underway DEF PlacesInv, WritingItem
<1>3. ASSUME ~move.raced
      PROVE  StepsKept /\ entries[User] = NoLogin /\ \E n \in Names : Has = {n}
  BY <1>1, <1>2, <1>3, NoMoveIdle DEF PlacesInv, Unraced, StepsKept, OneToWrite
<1>4. WritesItem BY <1>1 DEF PlacesInv, ItemsOnly
<1>5. ASSUME NEW n \in Others, entries[n] # NoLogin, entries' = [entries EXCEPT ![n] = Written],
             Then("filing")
      PROVE  PlacesInv'
  <2>1. n \in Names /\ move' = MovedTo(move, "filing") BY <1>5 DEF Names, Then, MovedTo
  <2>2. ASSUME ~move.raced
        PROVE  Has \subseteq {n} /\ entries[User] = NoLogin /\ move.before # NoLogin
    <3>1. Has = {n} /\ n # User BY <1>3, <1>5, <2>1, <2>2 DEF Has
    <3>2. move.before # NoLogin
      BY <1>1, <1>3, <2>2, <3>1 DEF StepsKept, HeldAsRead
    <3> QED BY <1>3, <2>2, <3>1, <3>2
  <2> QED BY <1>1, <1>2, <1>4, <1>5, <2>1, <2>2, WritesOne
<1>6. CASE (\A n \in Others : entries[n] = NoLogin) /\ Then("creating") /\ UNCHANGED entries
  <2>1. move' = MovedTo(move, "creating") BY <1>6 DEF Then, MovedTo
  <2>2. ASSUME ~move.raced PROVE FALSE BY <1>3, <1>6, <2>2 DEF Has, Names
  <2> QED BY <1>1, <1>2, <1>4, <1>6, <2>1, <2>2, WritingMoves DEF keptVars
<1> QED BY <1>5, <1>6 DEF UpdateOther

LEMMA CreateUsersKeeps == ASSUME PlacesInv, CreateUsers PROVE PlacesInv'
<1>1. move.pc = "creating" /\ UNCHANGED <<place, credentials, named, placeBounds>>
  BY DEF CreateUsers, Doing
<1>2. move \in Replacements /\ move.pc \in WritingItem BY <1>1, Underway DEF PlacesInv, WritingItem
<1>3. ASSUME ~move.raced PROVE Has = {}
  BY <1>1, <1>2, <1>3, NoMoveIdle DEF PlacesInv, Unraced, StepsKept, OneToWrite
<1>4. WritesItem BY <1>1 DEF PlacesInv, ItemsOnly
<1>5. CASE entries' = [entries EXCEPT ![User] = Written] /\ Then("filing")
  <2>1. User \in Names /\ move' = MovedTo(move, "filing") BY <1>5 DEF Names, Then, MovedTo
  <2> QED BY <1>1, <1>2, <1>3, <1>4, <1>5, <2>1, WritesOne
<1>6. CASE RollsBack /\ UNCHANGED entries
  BY <1>1, <1>2, <1>6, TurnEarly DEF keptVars
<1> QED BY <1>5, <1>6 DEF CreateUsers

(* The file is written where no item is, and beside the item if it exists. *)
LEMMA WriteFileKeeps == ASSUME PlacesInv, WriteFile PROVE PlacesInv'
<1>1. /\ move.pc = "filing" /\ UNCHANGED <<place, entries, named, placeBounds>>
      /\ credentials' = IF FilesToo THEN Written ELSE credentials
      /\ move' = MovedTo(move, Placed)
  BY DEF WriteFile, Doing, Then, MovedTo
<1>2. move \in Replacements /\ move # NoMove BY <1>1, Underway DEF PlacesInv
<1>3. Placed \in {"rolled back", "naming", "replaced"}
      /\ (Placed = "rolled back" <=> move.back) BY DEF Placed
<1>4. /\ move' \in Replacements /\ move'.pc = Placed /\ move'.back = move.back /\ SameBut(move, move')
  <2>1. Placed \in MovePCs BY <1>3 DEF MovePCs
  <2> QED BY ONLY <1>1, <1>2, <2>1, MoveGoes
<1>5. PlacesTypeOK'
  <2>1. credentials' \in Docs \cup {NoLogin} BY <1>1, <1>2, WrittenTyped DEF PlacesInv, PlacesTypeOK
  <2>2. UNCHANGED <<moves, refused, replaced>> BY <1>1 DEF placeBounds
  <2> QED BY <1>1, <1>4, <2>1, <2>2 DEF PlacesInv, PlacesTypeOK
<1>6. Has' = Has BY <1>1 DEF Has
<1>7. NoStrays' /\ ItemsOnly' BY <1>1, <1>3, <1>4, <1>6 DEF PlacesInv, NoStrays, ItemsOnly
<1>8. ASSUME ~move.raced PROVE StepsKept' /\ ReplacedWhereRead'
  <2>1. StepsKept /\ NoStrays BY <1>2, <1>8 DEF PlacesInv, Unraced
  <2>2. Written # NoLogin /\ Written \in Docs
    BY <1>1, <1>2, <2>1, WrittenTyped, NoLoginIsNone DEF StepsKept, RollsBackInTurn
  <2>3. Written' = Written /\ Target' = Target BY <1>1, <1>4, SameWritten
  <2>4. FoundBy(place.user)' = FoundBy(place.user) BY <1>1 DEF FoundBy
  <2>5. FoundDoc(Written)'
    <3>1. CASE WritesItem
      <4>1. FoundBy(place.user) = {Written} BY <1>1, <2>1, <3>1 DEF StepsKept, OneToWrite
      <4>2. credentials' \in {NoLogin, Written} BY <1>1, <3>1 DEF FilesToo
      <4> QED BY <1>1, <2>3, <2>4, <3>1, <4>1, <4>2 DEF FoundDoc, FoundIs, WritesItem
    <3>2. CASE ~WritesItem
      <4>1. Has = {} BY <2>1, <3>2 DEF StepsKept, HeldAsRead, NoStrays, WritesItem
      <4>2. FoundBy(place.user) = {} BY <4>1 DEF Has, FoundBy, Names
      <4>3. credentials' = Written BY <1>1, <3>2 DEF FilesToo
      <4> QED BY <2>3, <2>4, <4>2, <4>3 DEF FoundDoc, FoundIs
    <3> QED BY <3>1, <3>2
  <2>6. HeldAsRead' BY <1>1, <1>3, <1>4, <1>6, <2>1 DEF StepsKept, HeldAsRead, SameBut
  <2>7. ReadInTurn' BY <1>3, <1>4 DEF ReadInTurn
  <2>8. OneToWrite' BY <1>3, <1>4, <2>3, <2>5 DEF OneToWrite, Written
  <2>9. Recorded' = Recorded /\ AccountFile(named)' = AccountFile(named) BY <1>1, <1>4, SameName
  <2>10. NameKept' BY <1>1, <1>3, <1>4, <2>1, <2>9 DEF StepsKept, NameKept, SameBut
  <2>11. RollsBackInTurn' BY <1>3, <1>4 DEF RollsBackInTurn
  <2>12. ReplacedWhereRead'
    <3>1. CASE Placed = "naming" BY <1>4, <3>1 DEF ReplacedWhereRead
    <3>2. CASE Placed = "replaced"
      <4>1. ~move.back /\ ~move.switch BY <1>3, <3>2 DEF Placed
      <4>2. FoundDoc(Target)' BY <2>3, <2>5, <4>1 DEF Written
      <4>3. ~move'.switch /\ (move'.held # NoLogin => move'.places = Has')
        BY <1>4, <2>6, <4>1 DEF HeldAsRead, SameBut
      <4> QED BY <1>4, <3>2, <4>2, <4>3 DEF ReplacedWhereRead, FoundDoc, Has
    <3>3. CASE Placed = "rolled back"
      <4>1. move.back /\ move.before # NoLogin
        BY <1>1, <1>3, <2>1, <3>3 DEF StepsKept, RollsBackInTurn
      <4>2. FoundDoc(move.before)' BY <1>4, <2>5, <4>1 DEF Written, SameBut
      <4>3. ~move'.misnamed => Recorded'
        BY <1>1, <1>4, <2>1, <2>9, <4>1 DEF StepsKept, NameKept, SameBut
      <4> QED BY <1>4, <3>3, <4>1, <4>2, <4>3 DEF ReplacedWhereRead, FoundDoc, FoundIs, Recorded, SameBut
    <3> QED BY <1>3, <3>1, <3>2, <3>3
  <2> QED BY <2>6, <2>7, <2>8, <2>10, <2>11, <2>12 DEF StepsKept
<1> QED BY <1>4, <1>5, <1>7, <1>8 DEF PlacesInv, Unraced, SameBut

(* Nothing was written, or the account's name only.                        *)
LEMMA PassesOn ==
  ASSUME PlacesInv, UNCHANGED keptVars, UNCHANGED placeBounds \/ Denied,
         move \in Replacements, NEW pc \in MovePCs \ {"listing", "updating other", "creating"},
         move' = MovedTo(move, pc), ~move.raced => StepsKept' /\ ReplacedWhereRead'
  PROVE  PlacesInv'
<1>1. move' \in Replacements /\ move'.pc = pc /\ SameBut(move, move')
  BY ONLY move \in Replacements, pc \in MovePCs, move' = MovedTo(move, pc), MoveGoes
<1>2. PlacesTypeOK' /\ NoStrays' BY <1>1, OnlyMoves
<1> QED BY <1>1, <1>2 DEF PlacesInv, Unraced, ItemsOnly, SameBut

LEMMA PassedOn ==
  ASSUME UNCHANGED keptVars, move \in Replacements, NEW pc \in MovePCs, move' = MovedTo(move, pc)
  PROVE  /\ move'.pc = pc /\ move'.back = move.back /\ SameBut(move, move')
         /\ Has' = Has /\ FoundDoc(Target)' = FoundDoc(Target)
         /\ Recorded' = Recorded /\ Restorable' = Restorable
         /\ named' = named /\ AccountFile(named)' = AccountFile(named)
<1>1. move'.pc = pc /\ move'.back = move.back /\ SameBut(move, move')
  BY ONLY move \in Replacements, pc \in MovePCs, move' = MovedTo(move, pc), MoveGoes
<1>2. UNCHANGED <<place, entries, credentials, named>> BY DEF keptVars
<1>3. Target' = Target BY <1>1, <1>2, SameWritten
<1>4. FoundBy(place.user)' = FoundBy(place.user) BY <1>2 DEF FoundBy
<1>5. FoundDoc(Target)' = FoundDoc(Target) BY <1>2, <1>3, <1>4 DEF FoundDoc, FoundIs
<1> QED BY <1>1, <1>2, <1>5, SameName DEF Has

LEMMA SaveSwitchKeeps == ASSUME PlacesInv, SaveSwitch PROVE PlacesInv'
<1>1. /\ move.pc = "saving" /\ UNCHANGED keptVars /\ UNCHANGED placeBounds
      /\ move' = MovedTo(move, "replaced")
  BY DEF SaveSwitch, Doing, Then, MovedTo
<1>2. move \in Replacements /\ move # NoMove BY <1>1, Underway DEF PlacesInv
<1>3. "replaced" \in MovePCs \ {"listing", "updating other", "creating"} BY DEF MovePCs
<1>4. ASSUME ~move.raced PROVE StepsKept' /\ ReplacedWhereRead'
  <2>1. StepsKept BY <1>2, <1>4 DEF PlacesInv, Unraced
  <2>2. /\ move'.pc = "replaced" /\ move'.back = move.back /\ SameBut(move, move') /\ Has' = Has
        /\ FoundDoc(Target)' = FoundDoc(Target) /\ named' = named
        /\ AccountFile(named)' = AccountFile(named)
    BY ONLY <1>1, <1>2, <1>3, PassedOn
  <2>3. ~move.back /\ FoundDoc(Target) /\ named[AccountFile(named)] = "target"
    BY <1>1, <2>1 DEF StepsKept, ReadInTurn, OneToWrite, NameKept
  <2>4. HeldAsRead' BY <1>1, <2>1, <2>2, <2>3 DEF StepsKept, HeldAsRead, SameBut, keptVars
  <2>5. ReadInTurn' /\ OneToWrite' /\ NameKept' /\ RollsBackInTurn'
    BY <2>2, <2>3 DEF ReadInTurn, OneToWrite, NameKept, RollsBackInTurn
  <2>6. FoundDoc(Target)' /\ (named[AccountFile(named)])' = "target" BY <2>2, <2>3
  <2>7. move'.held # NoLogin => move'.places = Has'
    BY <2>2, <2>3, <2>4 DEF HeldAsRead
  <2>8. ReplacedWhereRead'
    BY <2>2, <2>6, <2>7 DEF ReplacedWhereRead, FoundDoc, FoundIs, Has
  <2> QED BY <2>4, <2>5, <2>8 DEF StepsKept
<1> QED BY ONLY PlacesInv, <1>1, <1>2, <1>3, <1>4, PassesOn

LEMMA SavingFailsKeeps == ASSUME PlacesInv, SavingFails PROVE PlacesInv'
<1>1. /\ move.pc = "saving" /\ UNCHANGED keptVars /\ Denied
      /\ move' = MovedTo(move, "restoring")
  BY DEF SavingFails, Doing, Then, MovedTo
<1>2. move \in Replacements /\ move # NoMove BY <1>1, Underway DEF PlacesInv
<1>3. "restoring" \in MovePCs \ {"listing", "updating other", "creating"} BY DEF MovePCs
<1>4. ASSUME ~move.raced PROVE StepsKept' /\ ReplacedWhereRead'
  <2>1. StepsKept BY <1>2, <1>4 DEF PlacesInv, Unraced
  <2>2. /\ move'.pc = "restoring" /\ move'.back = move.back /\ SameBut(move, move') /\ Has' = Has
        /\ Restorable' = Restorable
    BY ONLY <1>1, <1>2, <1>3, PassedOn
  <2>3. ~move.back BY <1>1, <2>1 DEF StepsKept, ReadInTurn
  <2>4. HeldAsRead' BY <1>1, <2>1, <2>2, <2>3 DEF StepsKept, HeldAsRead, SameBut, keptVars
  <2>5. NameKept' BY <1>1, <2>1, <2>2 DEF StepsKept, NameKept, SameBut
  <2>6. ReadInTurn' /\ OneToWrite' /\ RollsBackInTurn' /\ ReplacedWhereRead'
    BY <2>2, <2>3 DEF ReadInTurn, OneToWrite, RollsBackInTurn, ReplacedWhereRead
  <2> QED BY <2>4, <2>5, <2>6 DEF StepsKept
<1> QED BY ONLY PlacesInv, <1>1, <1>2, <1>3, <1>4, PassesOn

LEMMA WriteAccountKeeps == ASSUME PlacesInv, WriteAccount PROVE PlacesInv'
<1>1. /\ move.pc = "naming" /\ UNCHANGED <<place, entries, credentials, placeBounds>>
      /\ named' = [named EXCEPT ![AccountFile(named)] = "target"]
      /\ move' = MovedTo(move, "saving")
  BY DEF WriteAccount, Doing, Then, MovedTo
<1>2. move \in Replacements /\ move # NoMove BY <1>1, Underway DEF PlacesInv
<1>3. /\ move' \in Replacements /\ move'.pc = "saving" /\ move'.back = move.back /\ SameBut(move, move')
  <2>1. "saving" \in MovePCs BY DEF MovePCs
  <2> QED BY ONLY <1>1, <1>2, <2>1, MoveGoes
<1>4. /\ named \in [ConfigDirs -> AccountNames \cup {NoLogin}]
      /\ place.config \in ConfigDirs /\ place.global \in ConfigDirs
  BY PlaceTypes DEF PlacesInv
<1>5. AccountFile(named) \in {place.config, place.global} BY DEF AccountFile
<1>6. \A d \in ConfigDirs : named'[d] = IF d = AccountFile(named) THEN "target" ELSE named[d]
  BY <1>1, <1>4
<1>7. "target" # NoLogin BY NoLoginIsNone DEF AccountNames
<1>8. AccountFile(named)' = AccountFile(named) BY <1>1, <1>4, <1>5, <1>6, <1>7 DEF AccountFile
<1>9. PlacesTypeOK'
  <2>1. named' \in [ConfigDirs -> AccountNames \cup {NoLogin}] BY <1>1, <1>4 DEF AccountNames
  <2>2. UNCHANGED <<moves, refused, replaced>> BY <1>1 DEF placeBounds
  <2> QED BY <1>1, <1>3, <2>1, <2>2 DEF PlacesInv, PlacesTypeOK
<1>10. Has' = Has BY <1>1 DEF Has
<1>11. NoStrays' /\ ItemsOnly' BY <1>1, <1>3, <1>10 DEF PlacesInv, NoStrays, ItemsOnly
<1>12. ASSUME ~move.raced PROVE StepsKept' /\ ReplacedWhereRead'
  <2>1. StepsKept BY <1>2, <1>12 DEF PlacesInv, Unraced
  <2>2. ~move.back BY <1>1, <2>1 DEF StepsKept, ReadInTurn
  <2>3. HeldAsRead' BY <1>1, <1>3, <1>10, <2>1, <2>2 DEF StepsKept, HeldAsRead, SameBut
  <2>4. OneToWrite'
    <3>1. FoundDoc(Target) BY <1>1, <2>1 DEF StepsKept, OneToWrite
    <3>2. Target' = Target BY <1>1, <1>3, SameWritten
    <3>3. FoundBy(place.user)' = FoundBy(place.user) BY <1>1 DEF FoundBy
    <3>4. FoundDoc(Target)' BY <1>1, <3>1, <3>2, <3>3 DEF FoundDoc, FoundIs
    <3> QED BY <1>3, <3>4 DEF OneToWrite
  <2>5. Recorded => Restorable'
    <3> SUFFICES ASSUME Recorded PROVE Restorable'
      OBVIOUS
    <3>1. place' = place /\ move'.named = move.named BY <1>1, <1>3 DEF SameBut
    <3>2. CASE AccountFile(named) = place.global
      BY <1>4, <1>6, <1>8, <3>1, <3>2 DEF Recorded, Restorable, AccountFile
    <3>3. CASE AccountFile(named) # place.global
      BY <1>4, <1>8, <3>1, <3>3 DEF Recorded, Restorable, AccountFile
    <3> QED BY <3>2, <3>3
  <2>6. NameKept'
    <3>1. named'[AccountFile(named)'] = "target" BY <1>4, <1>5, <1>6, <1>8
    <3> QED BY <1>1, <1>3, <2>1, <2>5, <3>1 DEF StepsKept, NameKept, SameBut
  <2>7. ReadInTurn' /\ RollsBackInTurn' /\ ReplacedWhereRead'
    BY <1>3, <2>2 DEF ReadInTurn, RollsBackInTurn, ReplacedWhereRead
  <2> QED BY <2>3, <2>4, <2>6, <2>7 DEF StepsKept
<1> QED BY <1>3, <1>9, <1>11, <1>12 DEF PlacesInv, Unraced, SameBut

LEMMA RestoreAccountKeeps == ASSUME PlacesInv, RestoreAccount PROVE PlacesInv'
<1>1. /\ move.pc = "restoring" /\ UNCHANGED <<place, entries, credentials, placeBounds>>
      /\ named' = [named EXCEPT ![AccountFile(named)] = move.named] /\ RollsBack
  BY DEF RestoreAccount, Doing
<1>2. move \in Replacements /\ move # NoMove BY <1>1, Underway DEF PlacesInv
<1>3. /\ named \in [ConfigDirs -> AccountNames \cup {NoLogin}]
      /\ place.config \in ConfigDirs /\ place.global \in ConfigDirs
  BY PlaceTypes DEF PlacesInv
<1>4. AccountFile(named) \in {place.config, place.global} BY DEF AccountFile
<1>5. \A d \in ConfigDirs : named'[d] = IF d = AccountFile(named) THEN move.named ELSE named[d]
  BY <1>1, <1>3
<1>6. move' \in Replacements /\ move'.named = move.named
  <2>1. "broken" \in MovePCs /\ "deleting" \in MovePCs /\ "updating" \in MovePCs BY DEF MovePCs
  <2>2. MovedTo(move, "broken") \in Replacements /\ MovedTo(move, "broken").named = move.named
    BY <1>2, <2>1, MoveGoes DEF SameBut
  <2>3. Turned(move, "deleting") \in Replacements /\ Turned(move, "deleting").named = move.named
    BY <1>2, <2>1, MoveTurns DEF SameBut
  <2>4. Turned(move, "updating") \in Replacements /\ Turned(move, "updating").named = move.named
    BY <1>2, <2>1, MoveTurns DEF SameBut
  <2> QED BY <1>1, <2>2, <2>3, <2>4, RollsBackGoes
<1>7. PlacesTypeOK'
  <2>1. move.named \in AccountNames \cup {NoLogin} BY <1>2 DEF Replacements
  <2>2. named' \in [ConfigDirs -> AccountNames \cup {NoLogin}] BY <1>1, <1>3, <2>1
  <2>3. UNCHANGED <<moves, refused, replaced>> BY <1>1 DEF placeBounds
  <2> QED BY <1>1, <1>6, <2>2, <2>3 DEF PlacesInv, PlacesTypeOK
<1>8. Restorable => Recorded'
  <2> SUFFICES ASSUME Restorable PROVE Recorded'
    OBVIOUS
  <2>1. place' = place BY <1>1
  <2>2. CASE AccountFile(named) = place.global
    BY <1>3, <1>5, <1>6, <2>1, <2>2 DEF Restorable, Recorded, AccountFile
  <2>3. CASE AccountFile(named) # place.global
    <3>1. /\ AccountFile(named) = place.config /\ named[place.global] = NoLogin
          /\ move.named # NoLogin
      BY <1>4, <2>3 DEF Restorable, AccountFile
    <3>2. named'[place.config] = move.named /\ named'[place.global] = NoLogin
      BY <1>3, <1>5, <2>3, <3>1
    <3> QED BY <1>6, <2>1, <3>1, <3>2 DEF Recorded, AccountFile
  <2> QED BY <2>2, <2>3
<1>9. ~move.raced => StepsKept /\ (move.before # NoLogin /\ ~move.misnamed => Recorded')
  <2> SUFFICES ASSUME ~move.raced PROVE StepsKept /\ (move.before # NoLogin /\ ~move.misnamed => Recorded')
    OBVIOUS
  <2>1. StepsKept BY <1>2 DEF PlacesInv, Unraced
  <2> QED BY <1>1, <1>8, <2>1 DEF StepsKept, NameKept
<1> QED BY <1>1, <1>2, <1>7, <1>9, TurnKeeps DEF PlacesInv

(* The name could not be put back: then it is not promised.                *)
LEMMA RestoreFailsKeeps == ASSUME PlacesInv, RestoreFails PROVE PlacesInv'
<1>1. move.pc = "restoring" /\ UNCHANGED keptVars /\ Denied BY DEF RestoreFails, Doing
<1>2. move \in Replacements /\ move # NoMove BY <1>1, Underway DEF PlacesInv
<1> DEFINE pc == IF move.before = NoLogin THEN "deleting" ELSE "updating"
<1>3. pc \in MovePCs /\ pc \in {"deleting", "updating"} BY DEF MovePCs
<1>4. move' = [move EXCEPT !.pc = pc, !.back = TRUE, !.misnamed = TRUE] BY DEF RestoreFails
<1>5. pc = "deleting" <=> move.before = NoLogin OBVIOUS
<1> HIDE DEF pc
<1>6. /\ move' \in Replacements /\ move'.pc = pc /\ move'.back = TRUE /\ move'.misnamed = TRUE
      /\ move'.held = move.held /\ move'.before = move.before /\ move'.raced = move.raced
  BY <1>2, <1>3, <1>4 DEF Replacements
<1>7. PlacesTypeOK' /\ NoStrays' /\ Has' = Has BY <1>1, <1>6, OnlyMoves
<1>8. ASSUME ~move.raced PROVE StepsKept' /\ ReplacedWhereRead'
  <2>1. StepsKept BY <1>2, <1>8 DEF PlacesInv, Unraced
  <2>2. HeldAsRead' BY <1>1, <1>3, <1>6, <1>7, <2>1 DEF StepsKept, HeldAsRead, keptVars
  <2>3. ReadInTurn' /\ OneToWrite' /\ NameKept' /\ RollsBackInTurn' /\ ReplacedWhereRead'
    BY <1>3, <1>5, <1>6 DEF ReadInTurn, OneToWrite, NameKept, RollsBackInTurn, ReplacedWhereRead
  <2> QED BY <2>2, <2>3 DEF StepsKept
<1> QED BY <1>3, <1>6, <1>7, <1>8 DEF PlacesInv, Unraced, ItemsOnly

(* Removing: the user's item, which is all there can be, and the file.     *)
LEMMA DeleteUsersKeeps == ASSUME PlacesInv, DeleteUsers PROVE PlacesInv'
<1>1. /\ move.pc = "deleting" /\ UNCHANGED <<place, credentials, named, placeBounds>>
      /\ entries' = [entries EXCEPT ![User] = NoLogin]
      /\ move' = MovedTo(move, "clearing")
  BY DEF DeleteUsers, Doing, Then, MovedTo
<1>2. move \in Replacements /\ move # NoMove BY <1>1, Underway DEF PlacesInv
<1>3. /\ move' \in Replacements /\ move'.pc = "clearing" /\ move'.back = move.back /\ SameBut(move, move')
  <2>1. "clearing" \in MovePCs BY DEF MovePCs
  <2> QED BY ONLY <1>1, <1>2, <2>1, MoveGoes
<1>4. entries \in [Names -> Docs \cup {NoLogin}] BY PlaceTypes DEF PlacesInv
<1>5. Has' = Has \ {User} BY <1>1, <1>4 DEF Has, Names
<1>6. PlacesTypeOK'
  <2>1. entries' \in [Names -> Docs \cup {NoLogin}] BY <1>1, <1>4
  <2>2. UNCHANGED <<moves, refused, replaced>> BY <1>1 DEF placeBounds
  <2> QED BY <1>1, <1>3, <2>1, <2>2 DEF PlacesInv, PlacesTypeOK
<1>7. NoStrays' /\ ItemsOnly' BY <1>1, <1>3, <1>5 DEF PlacesInv, NoStrays, ItemsOnly
<1>8. ASSUME ~move.raced PROVE StepsKept' /\ ReplacedWhereRead'
  <2>1. StepsKept BY <1>2, <1>8 DEF PlacesInv, Unraced
  <2>2. move.before = NoLogin /\ move.held = NoLogin
    BY <1>1, <2>1 DEF StepsKept, RollsBackInTurn, HeldAsRead
  <2>3. Has' = {} BY <1>1, <1>5, <2>1, <2>2 DEF StepsKept, HeldAsRead
  <2>4. HeldAsRead' BY <1>3, <2>2, <2>3, NoLoginIsNone DEF HeldAsRead, SameBut
  <2>5. ReadInTurn' /\ OneToWrite' /\ NameKept' /\ RollsBackInTurn' /\ ReplacedWhereRead'
    BY <1>3, <2>2, <2>3
    DEF ReadInTurn, OneToWrite, NameKept, RollsBackInTurn, ReplacedWhereRead, SameBut
  <2> QED BY <2>4, <2>5 DEF StepsKept
<1> QED BY <1>3, <1>6, <1>7, <1>8 DEF PlacesInv, Unraced, SameBut

LEMMA ClearFileKeeps == ASSUME PlacesInv, ClearFile PROVE PlacesInv'
<1>1. /\ move.pc = "clearing" /\ UNCHANGED <<place, entries, named, placeBounds>>
      /\ credentials' = NoLogin /\ move' = MovedTo(move, "rolled back")
  BY DEF ClearFile, Doing, Then, MovedTo
<1>2. move \in Replacements /\ move # NoMove BY <1>1, Underway DEF PlacesInv
<1>3. /\ move' \in Replacements /\ move'.pc = "rolled back" /\ move'.back = move.back /\ SameBut(move, move')
  <2>1. "rolled back" \in MovePCs BY DEF MovePCs
  <2> QED BY ONLY <1>1, <1>2, <2>1, MoveGoes
<1>4. Has' = Has BY <1>1 DEF Has
<1>5. PlacesTypeOK'
  <2>1. UNCHANGED <<moves, refused, replaced>> BY <1>1 DEF placeBounds
  <2> QED BY <1>1, <1>3, <2>1 DEF PlacesInv, PlacesTypeOK
<1>6. NoStrays' /\ ItemsOnly' BY <1>1, <1>3, <1>4 DEF PlacesInv, NoStrays, ItemsOnly
<1>7. ASSUME ~move.raced PROVE StepsKept' /\ ReplacedWhereRead'
  <2>1. StepsKept BY <1>2, <1>7 DEF PlacesInv, Unraced
  <2>2. move.before = NoLogin /\ move.held = NoLogin /\ Has = {}
    BY <1>1, <2>1 DEF StepsKept, RollsBackInTurn, HeldAsRead
  <2>3. HeldAsRead' BY <1>3, <1>4, <2>2, NoLoginIsNone DEF HeldAsRead, SameBut
  <2>4. ReadInTurn' /\ OneToWrite' /\ NameKept' /\ RollsBackInTurn'
    BY <1>3, <2>2 DEF ReadInTurn, OneToWrite, NameKept, RollsBackInTurn, SameBut
  <2>5. \A n \in Names : entries'[n] = NoLogin BY <1>4, <2>2 DEF Has
  <2>6. ReplacedWhereRead'
    BY <1>1, <1>3, <2>2, <2>5 DEF ReplacedWhereRead, SameBut
  <2> QED BY <2>3, <2>4, <2>6 DEF StepsKept
<1> QED BY <1>3, <1>5, <1>6, <1>7 DEF PlacesInv, Unraced, SameBut

LEMMA RemoveFailsKeeps == ASSUME PlacesInv, RemoveFails PROVE PlacesInv'
<1>1. /\ move.pc \in {"deleting", "clearing"} /\ UNCHANGED keptVars
      /\ UNCHANGED placeBounds \/ Denied
      /\ move' = MovedTo(move, "broken")
  BY DEF RemoveFails, Doing, Then, MovedTo
<1>2. move \in Replacements /\ move # NoMove BY <1>1, Underway DEF PlacesInv
<1>3. "broken" \in MovePCs \ {"listing", "updating other", "creating"} BY DEF MovePCs
<1>4. ASSUME ~move.raced PROVE StepsKept' /\ ReplacedWhereRead'
  <2>1. StepsKept BY <1>2, <1>4 DEF PlacesInv, Unraced
  <2>2. move'.pc = "broken" /\ move'.back = move.back /\ SameBut(move, move') /\ Has' = Has
    BY ONLY <1>1, <1>2, <1>3, PassedOn
  <2>3. HeldAsRead' BY <1>1, <2>1, <2>2 DEF StepsKept, HeldAsRead, SameBut, keptVars
  <2>4. ReadInTurn' /\ OneToWrite' /\ NameKept' /\ RollsBackInTurn' /\ ReplacedWhereRead'
    BY <2>2 DEF ReadInTurn, OneToWrite, NameKept, RollsBackInTurn, ReplacedWhereRead
  <2> QED BY <2>3, <2>4 DEF StepsKept
<1> QED BY ONLY PlacesInv, <1>1, <1>2, <1>3, <1>4, PassesOn

(* Claude Code signs in or out: a replacement under way is raced.          *)
LEMMA RacedMove ==
  ASSUME PlacesTypeOK, Races
  PROVE  /\ move' \in Replacements \cup {NoMove}
         /\ move' # NoMove => move # NoMove /\ move'.raced
         /\ move'.pc = move.pc
         /\ move'.pc \in {"listing", "updating other", "creating"} => move'.held = move.held
<1>1. CASE move = NoMove BY <1>1 DEF Races, NoMove
<1>2. CASE move # NoMove
  <2>1. move \in Replacements /\ move' = [move EXCEPT !.raced = TRUE]
    BY <1>2 DEF PlacesTypeOK, Races
  <2> QED BY <1>2, <2>1 DEF Replacements
<1> QED BY <1>1, <1>2

LEMMA RacesKeep ==
  ASSUME PlacesInv, Races, UNCHANGED place, MovesOnce, NoStrays',
         entries' \in [Names -> Docs \cup {NoLogin}], credentials' \in Docs \cup {NoLogin},
         NEW a \in AccountNames \cup {NoLogin}, named' = [named EXCEPT ![place.global] = a]
  PROVE  PlacesInv'
<1>1. move' \in Replacements \cup {NoMove} /\ (move' # NoMove => move'.raced)
  BY RacedMove DEF PlacesInv
<1>2. PlacesTypeOK'
  <2>1. moves' \in 0..MaxMoves /\ UNCHANGED <<refused, replaced>>
    BY PlacesBounds DEF PlacesInv, PlacesTypeOK, MovesOnce
  <2>2. named' \in [ConfigDirs -> AccountNames \cup {NoLogin}] BY PlaceTypes DEF PlacesInv
  <2> QED BY <1>1, <2>1, <2>2 DEF PlacesInv, PlacesTypeOK
<1>3. ItemsOnly' BY RacedMove DEF PlacesInv, ItemsOnly, WritesItem
<1> QED BY <1>1, <1>2, <1>3 DEF PlacesInv, Unraced

LEMMA ClaudeSignsInKeeps == ASSUME PlacesInv, ClaudeSignsInHere PROVE PlacesInv'
<1>1. /\ MovesOnce /\ Races /\ UNCHANGED place
      /\ named' = [named EXCEPT ![place.global] = "new"]
  BY DEF ClaudeSignsInHere
<1>2. "new" \in AccountNames /\ Doc("new", "new") \in Docs /\ User \in Names
  BY DEF AccountNames, Doc, Docs, Logins, Names
<1>3. /\ entries \in [Names -> Docs \cup {NoLogin}] /\ credentials \in Docs \cup {NoLogin}
      /\ NoStrays
  BY PlaceTypes DEF PlacesInv
<1>4. CASE place.keychain # NoLogin
  <2>1. entries' = [entries EXCEPT ![User] = Doc("new", "new")] /\ UNCHANGED credentials
    BY <1>4 DEF ClaudeSignsInHere
  <2>2. entries' \in [Names -> Docs \cup {NoLogin}] BY <1>2, <1>3, <2>1
  <2>3. NoStrays' BY <1>1, <1>4 DEF NoStrays
  <2> QED BY <1>1, <1>2, <1>3, <2>1, <2>2, <2>3, RacesKeep
<1>5. CASE place.keychain = NoLogin
  <2>1. credentials' = Doc("new", "new") /\ UNCHANGED entries
    BY <1>5 DEF ClaudeSignsInHere
  <2>2. NoStrays' BY <1>1, <1>3, <2>1 DEF NoStrays, Has
  <2> QED BY <1>1, <1>2, <1>3, <2>1, <2>2, RacesKeep
<1> QED BY <1>4, <1>5

LEMMA ClaudeSignsOutKeeps == ASSUME PlacesInv, ClaudeSignsOutHere PROVE PlacesInv'
<1>1. /\ MovesOnce /\ Races /\ UNCHANGED place
      /\ entries' = [entries EXCEPT ![User] = NoLogin] /\ credentials' = NoLogin
      /\ named' = [named EXCEPT ![place.global] = NoLogin]
  BY DEF ClaudeSignsOutHere
<1>2. entries \in [Names -> Docs \cup {NoLogin}] /\ NoStrays
  BY PlaceTypes DEF PlacesInv
<1>3. entries' \in [Names -> Docs \cup {NoLogin}] BY <1>1, <1>2
<1>4. Has' \subseteq Has BY <1>1, <1>2 DEF Has, Names
<1>5. NoStrays' BY <1>1, <1>2, <1>4 DEF NoStrays
<1> QED BY <1>1, <1>3, <1>5, RacesKeep

LEMMA PlacesStep == PlacesInv /\ [PlacesNext]_placeVars => PlacesInv'
<1> SUFFICES ASSUME PlacesInv, [PlacesNext]_placeVars PROVE PlacesInv'
  OBVIOUS
<1>1. CASE \E switch \in BOOLEAN, interactive \in BOOLEAN : Start(switch, interactive)
  BY <1>1, StartKeepsPlaces
<1>2. CASE ReadKeychain BY <1>2, ReadKeychainKeeps
<1>3. CASE ReadFails BY <1>3, EndKeepsPlaces DEF ReadFails
<1>4. CASE ReadFile BY <1>4, ReadFileKeeps
<1>5. CASE ReadAccount BY <1>5, ReadAccountKeeps
<1>6. CASE UpdateUsers BY <1>6, UpdateUsersKeeps
<1>7. CASE ListAccounts BY <1>7, ListAccountsKeeps
<1>8. CASE UpdateOther BY <1>8, UpdateOtherKeeps
<1>9. CASE CreateUsers BY <1>9, CreateUsersKeeps
<1>10. CASE WriteFile BY <1>10, WriteFileKeeps
<1>11. CASE WritingFails
  BY <1>11, TurnEarly DEF WritingFails, Doing, WritingItem
<1>12. CASE WriteAccount BY <1>12, WriteAccountKeeps
<1>13. CASE WriteAccountFails BY <1>13, TurnEarly DEF WriteAccountFails, Doing
<1>14. CASE SaveSwitch BY <1>14, SaveSwitchKeeps
<1>15. CASE SavingFails BY <1>15, SavingFailsKeeps
<1>16. CASE RestoreAccount BY <1>16, RestoreAccountKeeps
<1>17. CASE RestoreFails BY <1>17, RestoreFailsKeeps
<1>18. CASE DeleteUsers BY <1>18, DeleteUsersKeeps
<1>19. CASE ClearFile BY <1>19, ClearFileKeeps
<1>20. CASE RemoveFails BY <1>20, RemoveFailsKeeps
<1>21. CASE MoveEnd BY <1>21, EndKeepsPlaces DEF MoveEnd
<1>22. CASE ClaudeSignsInHere BY <1>22, ClaudeSignsInKeeps
<1>23. CASE ClaudeSignsOutHere BY <1>23, ClaudeSignsOutKeeps
<1>24. CASE UNCHANGED placeVars
  <2>1. UNCHANGED <<place, entries, credentials, named, move, moves, refused, replaced>>
    BY <1>24 DEF placeVars
  <2>2. PlacesTypeOK' BY <2>1 DEF PlacesInv, PlacesTypeOK
  <2>3. Has' = Has /\ WritesItem' = WritesItem /\ Target' = Target /\ Written' = Written
    BY <2>1 DEF Has, WritesItem, Target, Written
  <2>4. FoundBy(place.user)' = FoundBy(place.user) /\ AccountFile(named)' = AccountFile(named)
    BY <2>1 DEF FoundBy, AccountFile
  <2>5. NoStrays' /\ ItemsOnly' BY <2>1, <2>3 DEF PlacesInv, NoStrays, ItemsOnly
  <2>6. ASSUME Unraced PROVE StepsKept' /\ ReplacedWhereRead'
    <3>1. StepsKept /\ ReplacedWhereRead BY <2>6 DEF PlacesInv
    <3>2. HeldAsRead' /\ ReadInTurn' /\ RollsBackInTurn'
      BY <2>1, <2>3, <3>1 DEF StepsKept, HeldAsRead, ReadInTurn, RollsBackInTurn
    <3>3. FoundDoc(Target)' = FoundDoc(Target) BY <2>1, <2>3, <2>4 DEF FoundDoc, FoundIs
    <3>4. OneToWrite' BY <2>1, <2>3, <2>4, <3>1, <3>3 DEF StepsKept, OneToWrite
    <3>5. NameKept' BY <2>1, <2>4, <3>1 DEF StepsKept, NameKept, Recorded, Restorable
    <3>6. ReplacedWhereRead'
      BY <2>1, <2>3, <2>4, <3>1 DEF ReplacedWhereRead, FoundIs
    <3> QED BY <3>2, <3>4, <3>5, <3>6 DEF StepsKept
  <2>7. Unraced' = Unraced BY <2>1 DEF Unraced
  <2> QED BY <2>2, <2>5, <2>6, <2>7 DEF PlacesInv
<1> QED
  BY <1>1, <1>2, <1>3, <1>4, <1>5, <1>6, <1>7, <1>8, <1>9, <1>10, <1>11, <1>12, <1>13, <1>14,
     <1>15, <1>16, <1>17, <1>18, <1>19, <1>20, <1>21, <1>22, <1>23, <1>24
  DEF PlacesNext

(* For any other account names: a switch or a write-back that Claude Code  *)
(* did not race leaves the written login, and its account, where Claude    *)
(* Code reads them; one that was rolled back leaves what was there         *)
(* (write_credentials, restore_live).                                      *)
THEOREM LoginReplacedInPlace == PlacesSpec => []ReplacedWhereRead
<1>1. PlacesInit => PlacesInv BY PlacesStart
<1>2. PlacesInv /\ [PlacesNext]_placeVars => PlacesInv' BY PlacesStep
<1>3. PlacesInv => ReplacedWhereRead
  <2>1. Unraced \/ ~(~(move # NoMove => move.raced)) BY DEF Unraced
  <2> QED BY <2>1 DEF PlacesInv, ReplacedWhereRead
<1> QED BY <1>1, <1>2, <1>3, PTL DEF PlacesSpec

-----------------------------------------------------------------------------
(* The item: within a process the operation that writes holds the cache.   *)

InCache == {"asks", "updates", "writes", "checks"}

(* An operation past its wait holds its process's cache.                   *)
WritersHold ==
  \A p \in Copools, t \in Threads : op[p][t].pc \in InCache => holder[p] = t

(* What is about to be written was read from the item as it still is,      *)
(* unless another process wrote it meanwhile.                              *)
WritesWhatItRead ==
  \A p \in Copools, t \in Threads :
    OpAt(p, t, "writes") => op[p][t].raced \/ op[p][t].doc = document

BegunIsCounted == \A s \in Sections : begun[s] <= calls

ItemInv == ItemTypeOK /\ BegunIsCounted /\ WritersHold /\ WritesWhatItRead

USE ItemBounds

(* The types one by one, with the operations and the document closed.      *)
LEMMA Types ==
  /\ ItemTypeOK <=>
       /\ document \in Documents \cup {ForeignItem} /\ trusted \subseteq Copools
       /\ known \in [Copools -> Documents \cup {Unread}] /\ mayAsk \in [Copools -> BOOLEAN]
       /\ holder \in [Copools -> Threads \cup {Unheld}]
       /\ op \in [Copools -> [Threads -> Ops \cup {NoOp}]]
       /\ calls \in 0..MaxCalls /\ begun \in [Sections -> 0..MaxCalls]
  /\ ItemTypeOK' <=>
       /\ document' \in Documents \cup {ForeignItem} /\ trusted' \subseteq Copools
       /\ known' \in [Copools -> Documents \cup {Unread}] /\ mayAsk' \in [Copools -> BOOLEAN]
       /\ holder' \in [Copools -> Threads \cup {Unheld}]
       /\ op' \in [Copools -> [Threads -> Ops \cup {NoOp}]]
       /\ calls' \in 0..MaxCalls /\ begun' \in [Sections -> 0..MaxCalls]
BY DEF ItemTypeOK

LEMMA InvInit == ItemInit => ItemInv
<1> SUFFICES ASSUME ItemInit PROVE ItemInv
  OBVIOUS
<1> USE DEF ItemInit
<1>1. [s \in Sections |-> 0] \in Documents /\ [s \in Sections |-> 0] \in [Sections -> 0..MaxCalls]
  BY DEF Documents
<1>2. ItemTypeOK BY <1>1, Types
<1>3. \A p \in Copools, t \in Threads : op[p][t].pc = "idle" BY DEF NoOp
<1>4. WritersHold /\ WritesWhatItRead
  BY <1>3 DEF WritersHold, WritesWhatItRead, InCache, OpAt
<1>5. BegunIsCounted BY DEF BegunIsCounted
<1> QED BY <1>2, <1>4, <1>5 DEF ItemInv

(* A step that puts an operation elsewhere leaves the others alone.        *)
LEMMA PlacedItem ==
  ASSUME ItemTypeOK, NEW p \in Copools, NEW t \in Threads, NEW o \in Ops \cup {NoOp},
         op' = [op EXCEPT ![p][t] = o]
  PROVE  /\ op' \in [Copools -> [Threads -> Ops \cup {NoOp}]]
         /\ op'[p][t] = o
         /\ \A q \in Copools, u \in Threads : <<q, u>> # <<p, t>> => op'[q][u] = op[q][u]
<1>1. op \in [Copools -> [Threads -> Ops \cup {NoOp}]] BY Types
<1> QED BY <1>1

LEMMA OpsTyped ==
  ASSUME ItemTypeOK, NEW p \in Copools, NEW t \in Threads, op[p][t].pc # "idle"
  PROVE  /\ op[p][t] \in Ops /\ op[p][t].doc \in Documents /\ op[p][t].section \in Sections
         /\ op[p][t].pc \in Steps
<1>1. op[p][t] \in Ops \cup {NoOp} BY Types
<1>2. op[p][t] \in Ops BY <1>1 DEF NoOp
<1> QED BY <1>2 DEF Ops

(* What an operation is after a step.                                     *)
LEMMA Stepped ==
  ASSUME NEW o \in Ops, NEW step \in Steps
  PROVE  [o EXCEPT !.pc = step] \in Ops /\ [o EXCEPT !.pc = step].pc = step
BY DEF Ops

(* A step of one operation that leaves the document alone: the operation   *)
(* holds the cache where it must, and another never gains or loses it.     *)
LEMMA StepKeeps ==
  ASSUME ItemInv, NEW p \in Copools, NEW t \in Threads, NEW o \in Ops \cup {NoOp},
         op' = [op EXCEPT ![p][t] = o], document' = document,
         \/ holder' = holder
         \/ holder[p] = Unheld /\ holder' = [holder EXCEPT ![p] = t]
         \/ op[p][t].pc \in InCache /\ holder' = [holder EXCEPT ![p] = Unheld],
         o.pc \in InCache => holder'[p] = t,
         o.pc = "writes" => o.doc = document
  PROVE  WritersHold' /\ WritesWhatItRead' /\ holder' \in [Copools -> Threads \cup {Unheld}]
<1> USE DEF ItemInv
<1>1. holder \in [Copools -> Threads \cup {Unheld}] BY Types
<1>2. /\ op'[p][t] = o
      /\ \A q \in Copools, u \in Threads : <<q, u>> # <<p, t>> => op'[q][u] = op[q][u]
  <2>1. op \in [Copools -> [Threads -> Ops \cup {NoOp}]] BY Types
  <2>2. op'[p] = [op[p] EXCEPT ![t] = o] BY <2>1
  <2>3. \A q \in Copools \ {p} : op'[q] = op[q] BY <2>1
  <2>4. op[p] \in [Threads -> Ops \cup {NoOp}] BY <2>1
  <2>5. op'[p][t] = o /\ \A u \in Threads \ {t} : op'[p][u] = op[p][u] BY <2>2, <2>4
  <2> QED BY <2>3, <2>5
<1>3. WritersHold'
  <2> SUFFICES ASSUME NEW q \in Copools, NEW u \in Threads, op'[q][u].pc \in InCache
               PROVE  holder'[q] = u
    BY DEF WritersHold
  <2>1. CASE q = p /\ u = t BY <1>2, <2>1
  <2>2. CASE q # p
    <3>1. op[q][u].pc \in InCache BY <1>2, <2>2
    <3>2. holder'[q] = holder[q] BY <1>1, <2>2
    <3> QED BY <3>1, <3>2 DEF WritersHold
  <2>3. CASE q = p /\ u # t
    <3>1. op[p][u].pc \in InCache BY <1>2, <2>3
    <3>2. holder[p] = u BY <2>3, <3>1 DEF WritersHold
    <3>3. u # Unheld BY ThreadsNamed DEF Unheld
    <3>4. op[p][t].pc \notin InCache BY <2>3, <3>2 DEF WritersHold
    <3> QED BY <2>3, <3>2, <3>3, <3>4
  <2> QED BY <2>1, <2>2, <2>3
<1>4. WritesWhatItRead'
  <2> SUFFICES ASSUME NEW q \in Copools, NEW u \in Threads, op'[q][u].pc = "writes"
               PROVE  op'[q][u].raced \/ op'[q][u].doc = document'
    BY DEF WritesWhatItRead, OpAt
  <2>1. CASE q = p /\ u = t BY <1>2, <2>1
  <2>2. CASE <<q, u>> # <<p, t>>
    BY <1>2, <2>2 DEF WritesWhatItRead, OpAt
  <2> QED BY <2>1, <2>2
<1> QED BY <1>1, <1>3, <1>4

(* The operation a call begins with.                                       *)
LEMMA BeginsAs ==
  ASSUME NEW p \in Copools, NEW t \in Threads, NEW call \in Calls, NEW b \in BOOLEAN,
         NEW s \in Sections, NEW step \in Steps, Begins(p, t, call, b, s, step)
  PROVE  \E o \in Ops : op' = [op EXCEPT ![p][t] = o] /\ o.pc = step
<1> DEFINE o == [pc |-> step, call |-> call, interactive |-> b, section |-> s,
                 doc |-> [x \in Sections |-> 0], raced |-> FALSE]
<1>1. [x \in Sections |-> 0] \in Documents BY DEF Documents
<1>2. o \in Ops BY <1>1 DEF Ops
<1>3. o.pc = step OBVIOUS
<1>4. op' = [op EXCEPT ![p][t] = o] BY DEF Begins
<1> HIDE DEF o
<1> QED BY <1>2, <1>3, <1>4

(* The calls that begin.                                                   *)
LEMMA BeginKeepsInv ==
  ASSUME ItemInv, NEW p \in Copools, NEW t \in Threads,
         \/ Get(p, t) \/ Authorize(p, t)
         \/ \E b \in BOOLEAN : Fetch(p, t, b)
         \/ \E s \in Sections, b \in BOOLEAN : Set(p, t, s, b)
  PROVE  ItemInv'
<1> USE DEF ItemInv
<1> DEFINE Begun(o) ==
      /\ op' = [op EXCEPT ![p][t] = o]
      /\ \/ o.pc \in {"looksUp", "waits", "reads"} /\ holder' = holder
         \/ o.pc = "updates" /\ holder[p] = Unheld /\ holder' = [holder EXCEPT ![p] = t]
<1>1. \E o \in Ops : Begun(o)
  <2>1. {"get", "authorize", "fetch", "set"} \subseteq Calls BY DEF Calls
  <2>2. {"looksUp", "waits", "reads", "updates"} \subseteq Steps BY DEF Steps
  <2>3. "secrets" \in Sections /\ "claude" \in Sections BY DEF Sections
  <2>4. CASE Get(p, t)
    <3>1. PICK b \in BOOLEAN : Begins(p, t, "get", b, "secrets", "looksUp") /\ holder' = holder
      BY <2>4 DEF Get
    <3>2. \E o \in Ops : op' = [op EXCEPT ![p][t] = o] /\ o.pc = "looksUp"
      BY <2>1, <2>2, <2>3, <3>1, BeginsAs
    <3> QED BY <3>1, <3>2
  <2>5. CASE Authorize(p, t)
    <3>1. PICK b \in BOOLEAN : Begins(p, t, "authorize", b, "secrets", "looksUp") /\ holder' = holder
      BY <2>5 DEF Authorize
    <3>2. \E o \in Ops : op' = [op EXCEPT ![p][t] = o] /\ o.pc = "looksUp"
      BY <2>1, <2>2, <2>3, <3>1, BeginsAs
    <3> QED BY <3>1, <3>2
  <2>6. ASSUME NEW b \in BOOLEAN, Fetch(p, t, b) PROVE \E o \in Ops : Begun(o)
    <3>1. PICK step \in {"waits", "reads"} :
            Begins(p, t, "fetch", b, "claude", step) /\ holder' = holder
      BY <2>6 DEF Fetch
    <3>2. \E o \in Ops : op' = [op EXCEPT ![p][t] = o] /\ o.pc = step
      BY <2>1, <2>2, <2>3, <3>1, BeginsAs
    <3> QED BY <3>1, <3>2
  <2>7. ASSUME NEW s \in Sections, NEW b \in BOOLEAN, Set(p, t, s, b)
        PROVE  \E o \in Ops : Begun(o)
    <3>1. CASE Begins(p, t, "set", b, s, "waits") /\ holder' = holder
      <4>1. \E o \in Ops : op' = [op EXCEPT ![p][t] = o] /\ o.pc = "waits"
        BY <2>1, <2>2, <3>1, BeginsAs
      <4> QED BY <3>1, <4>1
    <3>2. CASE Begins(p, t, "set", b, s, "updates") /\ holder[p] = Unheld /\ Locks(p, t)
      <4>1. \E o \in Ops : op' = [op EXCEPT ![p][t] = o] /\ o.pc = "updates"
        BY <2>1, <2>2, <3>2, BeginsAs
      <4> QED BY <3>2, <4>1 DEF Locks
    <3> QED BY <2>7, <3>1, <3>2 DEF Set
  <2> HIDE DEF Begun
  <2> QED BY <2>4, <2>5, <2>6, <2>7
<1>2. /\ UNCHANGED <<document, trusted, known>> /\ mayAsk' \in [Copools -> BOOLEAN]
      /\ calls' \in 0..MaxCalls /\ begun' \in [Sections -> 0..MaxCalls] /\ BegunIsCounted'
  <2>1. /\ calls' = calls + 1 /\ calls < MaxCalls /\ calls \in Nat
        /\ UNCHANGED <<document, trusted, known>>
    BY Types DEF Get, Authorize, Fetch, Set, Begins
  <2>2. begun \in [Sections -> 0..MaxCalls] /\ mayAsk \in [Copools -> BOOLEAN] BY Types
  <2>3. mayAsk' \in [Copools -> BOOLEAN] BY <2>2 DEF Get, Authorize, Fetch, Set
  <2>4. UNCHANGED begun \/ \E s \in Sections : begun' = [begun EXCEPT ![s] = @ + 1]
    BY DEF Get, Authorize, Fetch, Set
  <2>5. begun' \in [Sections -> 0..MaxCalls] /\ BegunIsCounted'
    BY <2>1, <2>2, <2>4 DEF BegunIsCounted
  <2> QED BY <2>1, <2>3, <2>5
<1>3. PICK o \in Ops : Begun(o) BY <1>1
<1>4. WritersHold' /\ WritesWhatItRead' /\ holder' \in [Copools -> Threads \cup {Unheld}]
  <2>1. o.pc \in InCache => holder'[p] = t
    <3>1. holder \in [Copools -> Threads \cup {Unheld}] BY Types
    <3> QED BY <1>3, <3>1 DEF InCache
  <2>2. o.pc # "writes" BY <1>3
  <2> QED BY <1>2, <1>3, <2>1, <2>2, StepKeeps
<1>5. ItemTypeOK'
  <2>1. op' \in [Copools -> [Threads -> Ops \cup {NoOp}]] BY <1>3, PlacedItem
  <2> QED BY <1>2, <1>4, <2>1, Types
<1> QED BY <1>2, <1>4, <1>5

(* Steps of an operation that leave the document alone.                    *)
LEMMA StepKeepsInv ==
  ASSUME ItemInv, NEW p \in Copools, NEW t \in Threads,
         \/ LooksUp(p, t) \/ Enters(p, t) \/ Reads(p, t) \/ Caches(p, t)
         \/ WriteFails(p, t) \/ Checks(p, t)
         \/ \E b \in BOOLEAN : AsksUser(p, t, b) \/ Updates(p, t, b)
  PROVE  ItemInv'
<1> USE DEF ItemInv
<1>1. op[p][t].pc # "idle"
  BY DEF LooksUp, Enters, Reads, Caches, WriteFails, Checks, AsksUser, Updates, OpAt
<1>2. op[p][t] \in Ops /\ op[p][t].doc \in Documents /\ op[p][t].pc \in Steps BY <1>1, OpsTyped
<1> DEFINE Fits(o) ==
      /\ op' = [op EXCEPT ![p][t] = o]
      /\ o.pc \in InCache => holder'[p] = t
      /\ o.pc = "writes" => o.doc = document
      /\ \/ holder' = holder
         \/ holder[p] = Unheld /\ holder' = [holder EXCEPT ![p] = t]
         \/ op[p][t].pc \in InCache /\ holder' = [holder EXCEPT ![p] = Unheld]
<1>3. \E o \in Ops \cup {NoOp} : Fits(o)
  <2> DEFINE Step(step) == [op[p][t] EXCEPT !.pc = step]
             With(step) == [op[p][t] EXCEPT !.pc = step, !.doc = document]
             Put(o) == op' = [op EXCEPT ![p][t] = o]
             Done == \E o \in Ops \cup {NoOp} : Fits(o)
  <2>1. /\ {"waits", "reads", "asks", "updates", "caches", "writes"} \subseteq Steps
        /\ {"waits", "reads", "caches"} \cap InCache = {}
        /\ {"asks", "updates", "writes", "checks"} \subseteq InCache
    BY DEF Steps, InCache
  <2>2. \A step \in Steps : Step(step) \in Ops /\ Step(step).pc = step BY <1>2, Stepped
  <2>3. ASSUME document \in Documents, NEW step \in Steps
        PROVE  With(step) \in Ops /\ With(step).pc = step /\ With(step).doc = document
    BY <1>2, <2>3 DEF Ops
  <2> HIDE DEF Step, With, Fits, Put, Done
  <2>4. holder \in [Copools -> Threads \cup {Unheld}] BY Types
  <2>5. ASSUME Put(NoOp),
               holder' = holder \/ (Unlocks(p) /\ op[p][t].pc \in InCache)
        PROVE  Done
    <3>1. NoOp.pc = "idle" BY DEF NoOp
    <3>2. Fits(NoOp) BY <2>5, <3>1 DEF Unlocks, InCache, Fits, Put
    <3> QED BY <3>2 DEF Done
  <2>6. ASSUME NEW step \in {"waits", "reads"}, Put(Step(step)),
               holder' = holder
        PROVE  Done
    <3>1. Step(step) \in Ops /\ Step(step).pc = step /\ step \notin InCache BY <2>1, <2>2, <2>6
    <3>2. Fits(Step(step)) BY <2>6, <3>1 DEF Fits, Put
    <3> QED BY <3>1, <3>2 DEF Done
  <2>7. ASSUME NEW step \in {"asks", "updates"}, Put(Step(step)),
               holder[p] = Unheld, Locks(p, t)
        PROVE  Done
    <3>1. Step(step) \in Ops /\ Step(step).pc = step BY <2>1, <2>2, <2>7
    <3>2. holder' = [holder EXCEPT ![p] = t] /\ holder'[p] = t BY <2>4, <2>7 DEF Locks
    <3>3. Fits(Step(step)) BY <2>7, <3>1, <3>2 DEF Fits, Put
    <3> QED BY <3>1, <3>3 DEF Done
  <2>8. CASE LooksUp(p, t)
    <3>1. \/ Put(Step("waits")) \/ Put(Step("reads"))
          \/ Put(NoOp)
      BY <2>8 DEF LooksUp, Goes, OpEnds, Step, Put
    <3>2. holder' = holder BY <2>8 DEF LooksUp
    <3>3. CASE Put(Step("waits")) BY <3>2, <3>3, <2>6 DEF Done
    <3>4. CASE Put(Step("reads")) BY <3>2, <3>4, <2>6 DEF Done
    <3>5. CASE Put(NoOp) BY <3>2, <3>5, <2>5 DEF Done
    <3> QED BY <3>1, <3>3, <3>4, <3>5
  <2>9. CASE Enters(p, t)
    <3>1. \/ Put(NoOp) /\ holder' = holder
          \/ /\ holder[p] = Unheld /\ Locks(p, t)
             /\ \/ Put(Step("asks"))
                \/ Put(Step("updates"))
      BY <2>9 DEF Enters, Goes, OpEnds, Step, Put
    <3>2. CASE Put(NoOp) /\ holder' = holder BY <3>2, <2>5 DEF Done
    <3>3. CASE Put(Step("asks")) /\ holder[p] = Unheld /\ Locks(p, t) BY <3>3, <2>7 DEF Done
    <3>4. CASE Put(Step("updates")) /\ holder[p] = Unheld /\ Locks(p, t) BY <3>4, <2>7 DEF Done
    <3> QED BY <3>1, <3>2, <3>3, <3>4
  <2>10. CASE Reads(p, t)
    <3>1. CASE Put(With("caches")) /\ holder' = holder
                 /\ document # ForeignItem
      <4>1. document \in Documents BY <3>1, Types
      <4>2. With("caches") \in Ops /\ With("caches").pc = "caches" BY <2>1, <2>3, <4>1
      <4>3. Fits(With("caches")) BY <2>1, <3>1, <4>2 DEF Fits, Put
      <4> QED BY <4>2, <4>3 DEF Done
    <3>2. \/ Put(NoOp) /\ holder' = holder
          \/ /\ Put(With("caches")) /\ holder' = holder
             /\ document # ForeignItem
      BY <2>10 DEF Reads, OpEnds, Readable, With, Put
    <3>3. CASE Put(NoOp) /\ holder' = holder BY <3>3, <2>5 DEF Done
    <3> QED BY <3>1, <3>2, <3>3
  <2>11. CASE Caches(p, t)
    <3>1. Put(NoOp) /\ holder' = holder BY <2>11 DEF Caches, OpEnds, Put
    <3> QED BY <2>5, <3>1 DEF Done
  <2>12. CASE WriteFails(p, t) \/ Checks(p, t) \/ \E b \in BOOLEAN : AsksUser(p, t, b)
    <3>1. Put(NoOp) /\ Unlocks(p)
      BY <2>12 DEF WriteFails, Checks, AsksUser, OpEnds, Put
    <3>2. op[p][t].pc \in InCache
      BY <2>12 DEF WriteFails, Checks, AsksUser, OpAt, InCache
    <3> QED BY <2>5, <3>1, <3>2 DEF Done
  <2>13. ASSUME NEW b \in BOOLEAN, Updates(p, t, b) PROVE Done
    <3>1. op[p][t].pc \in InCache BY <2>13 DEF Updates, OpAt, InCache
    <3>2. CASE Put(With("writes")) /\ holder' = holder
                 /\ document # ForeignItem
      <4>1. document \in Documents BY <3>2, Types
      <4>2. /\ With("writes") \in Ops /\ With("writes").pc = "writes"
            /\ With("writes").doc = document
        BY <2>1, <2>3, <4>1
      <4>3. holder[p] = t BY <3>1 DEF WritersHold
      <4>4. Fits(With("writes")) BY <3>2, <4>2, <4>3 DEF Fits, Put
      <4> QED BY <4>2, <4>4 DEF Done
    <3>3. \/ Put(NoOp) /\ Unlocks(p)
          \/ /\ Put(With("writes")) /\ holder' = holder
             /\ document # ForeignItem
      BY <2>13 DEF Updates, OpEnds, Readable, Edited, With, Put
    <3> QED BY <2>5, <3>1, <3>2, <3>3
  <2> QED BY <2>8, <2>9, <2>10, <2>11, <2>12, <2>13 DEF Done
<1>4. PICK o \in Ops \cup {NoOp} : Fits(o) BY <1>3
<1>5. /\ UNCHANGED <<document, calls, begun>> /\ trusted' \subseteq Copools
      /\ mayAsk' \in [Copools -> BOOLEAN]
  <2>1. trusted \subseteq Copools /\ mayAsk \in [Copools -> BOOLEAN] BY Types
  <2>2. UNCHANGED trusted \/ trusted' = trusted \cup {p}
    BY DEF LooksUp, Enters, Reads, Caches, WriteFails, Checks, AsksUser, Updates,
           KeychainAnswers, threadVars
  <2>3. UNCHANGED mayAsk \/ \E b \in BOOLEAN : mayAsk' = [mayAsk EXCEPT ![p] = b]
    BY DEF LooksUp, Enters, Reads, Caches, WriteFails, Checks, AsksUser, Updates, Readable
  <2>4. UNCHANGED <<document, calls, begun>>
    BY DEF LooksUp, Enters, Reads, Caches, WriteFails, Checks, AsksUser, Updates, threadVars
  <2> QED BY <2>1, <2>2, <2>3, <2>4
<1>6. known' \in [Copools -> Documents \cup {Unread}]
  <2>1. /\ known \in [Copools -> Documents \cup {Unread}]
        /\ document \in Documents \cup {ForeignItem}
    BY Types
  <2>2. \/ UNCHANGED known
        \/ \E d \in Documents \cup {Unread} : known' = [known EXCEPT ![p] = d]
    <3>1. CASE LooksUp(p, t) \/ Enters(p, t) \/ Reads(p, t) BY <3>1 DEF LooksUp, Enters, Reads
    <3>2. CASE Caches(p, t) BY <1>2, <2>1, <3>2 DEF Caches
    <3>3. CASE WriteFails(p, t) BY <3>3 DEF WriteFails
    <3>4. CASE Checks(p, t) BY <1>2, <2>1, <3>4 DEF Checks
    <3>5. ASSUME NEW b \in BOOLEAN, AsksUser(p, t, b)
          PROVE  \E d \in Documents \cup {Unread} : known' = [known EXCEPT ![p] = d]
      BY <2>1, <3>5 DEF AsksUser, Readable
    <3>6. ASSUME NEW b \in BOOLEAN, Updates(p, t, b) PROVE UNCHANGED known
      BY <3>6 DEF Updates
    <3> QED BY <3>1, <3>2, <3>3, <3>4, <3>5, <3>6
  <2> QED BY <2>1, <2>2
<1>7. WritersHold' /\ WritesWhatItRead' /\ holder' \in [Copools -> Threads \cup {Unheld}]
  BY <1>4, <1>5, StepKeeps
<1>8. op' \in [Copools -> [Threads -> Ops \cup {NoOp}]] BY <1>4, PlacedItem
<1>9. ItemTypeOK' BY <1>5, <1>6, <1>7, <1>8, Types
<1>10. BegunIsCounted' BY <1>5 DEF BegunIsCounted
<1> QED BY <1>7, <1>9, <1>10

(* The write itself.                                                       *)
LEMMA WriteKeepsInv ==
  ASSUME ItemInv, NEW p \in Copools, NEW t \in Threads, Writes(p, t)
  PROVE  /\ ItemInv'
         /\ \A s \in Sections \ {op[p][t].section} :
              op[p][t].raced \/ document'[s] = document[s]
<1> USE DEF ItemInv
<1> DEFINE section == op[p][t].section
           next == [op[p][t].doc EXCEPT ![section] = begun[section]]
           told == [op[p][t] EXCEPT !.pc = "checks", !.doc = next]
<1>1. op[p][t].pc = "writes" /\ holder[p] = t BY DEF Writes, OpAt, WritersHold, InCache
<1>2. op[p][t] \in Ops /\ op[p][t].doc \in Documents /\ section \in Sections
  BY <1>1, OpsTyped
<1>3. next \in Documents
  <2>1. begun[section] \in 0..MaxCalls BY <1>2, Types
  <2> QED BY <1>2, <2>1 DEF Documents
<1>4. told \in Ops /\ told.pc = "checks"
  <2>1. "checks" \in Steps BY DEF Steps
  <2> HIDE DEF next
  <2> QED BY <1>2, <1>3, <2>1 DEF Ops
<1>5. document' = next /\ UNCHANGED <<trusted, known, mayAsk, holder, calls, begun>>
  BY DEF Writes
<1>6. Raced(p) \in [Copools -> [Threads -> Ops \cup {NoOp}]]
  <2>1. \A q \in Copools, u \in Threads : op[q][u] \in Ops \cup {NoOp} BY Types
  <2>2. \A o \in Ops : [o EXCEPT !.raced = TRUE] \in Ops BY DEF Ops
  <2> QED BY <2>1, <2>2 DEF Raced
<1>7. Raced(p)[p][t] = op[p][t] BY DEF Raced
<1>8. op' = [Raced(p) EXCEPT ![p][t] = told] BY <1>7 DEF Writes
<1>9. op' \in [Copools -> [Threads -> Ops \cup {NoOp}]] BY <1>4, <1>6, <1>8
<1>10. op'[p][t] = told BY <1>6, <1>8
<1>11. \A u \in Threads \ {t} : op'[p][u] = op[p][u] BY <1>6, <1>8 DEF Raced
<1>12. \A q \in Copools \ {p}, u \in Threads :
         op'[q][u] = IF op[q][u] # NoOp THEN [op[q][u] EXCEPT !.raced = TRUE] ELSE op[q][u]
  BY <1>6, <1>8 DEF Raced
<1>13. \A q \in Copools \ {p}, u \in Threads :
         op'[q][u].pc = op[q][u].pc /\ (op[q][u].pc = "writes" => op'[q][u].raced)
  <2> SUFFICES ASSUME NEW q \in Copools \ {p}, NEW u \in Threads
               PROVE  op'[q][u].pc = op[q][u].pc /\ (op[q][u].pc = "writes" => op'[q][u].raced)
    OBVIOUS
  <2>1. op[q][u] \in Ops \cup {NoOp} BY Types
  <2>2. CASE op[q][u] = NoOp BY <1>12, <2>2 DEF NoOp
  <2>3. CASE op[q][u] # NoOp
    <3>1. op[q][u] \in Ops BY <2>1, <2>3
    <3>2. [op[q][u] EXCEPT !.raced = TRUE].pc = op[q][u].pc
            /\ [op[q][u] EXCEPT !.raced = TRUE].raced = TRUE
      BY <3>1 DEF Ops
    <3> QED BY <1>12, <2>3, <3>2
  <2> QED BY <2>2, <2>3
<1> HIDE DEF told, next, section
<1>14. ItemTypeOK' BY <1>3, <1>5, <1>9, Types
<1>15. WritersHold'
  <2> SUFFICES ASSUME NEW q \in Copools, NEW u \in Threads, op'[q][u].pc \in InCache
               PROVE  holder'[q] = u
    BY DEF WritersHold
  <2>1. CASE q = p /\ u = t BY <1>1, <1>5, <2>1
  <2>2. CASE q = p /\ u # t BY <1>5, <1>11, <2>2 DEF WritersHold
  <2>3. CASE q # p BY <1>5, <1>13, <2>3 DEF WritersHold
  <2> QED BY <2>1, <2>2, <2>3
<1>16. WritesWhatItRead'
  <2> SUFFICES ASSUME NEW q \in Copools, NEW u \in Threads, op'[q][u].pc = "writes"
               PROVE  op'[q][u].raced
    BY DEF WritesWhatItRead, OpAt
  <2>1. CASE q = p /\ u = t BY <1>4, <1>10, <2>1
  <2>2. CASE q = p /\ u # t
    <3>1. holder[p] = u BY <1>11, <2>2 DEF WritersHold, InCache
    <3> QED BY <1>1, <2>2, <3>1
  <2>3. CASE q # p BY <1>13, <2>3
  <2> QED BY <2>1, <2>2, <2>3
<1>17. BegunIsCounted' BY <1>5 DEF BegunIsCounted
<1>18. ASSUME NEW s \in Sections \ {section} PROVE op[p][t].raced \/ document'[s] = document[s]
  <2>1. document'[s] = op[p][t].doc[s] BY <1>2, <1>5 DEF next, Documents
  <2>2. op[p][t].raced \/ op[p][t].doc = document BY <1>1 DEF WritesWhatItRead, OpAt
  <2> QED BY <2>1, <2>2
<1> QED BY <1>14, <1>15, <1>16, <1>17, <1>18 DEF section

LEMMA InvInductive == ItemInv /\ [ItemNext]_itemVars => ItemInv'
<1>1. ItemInv /\ ItemNext => ItemInv' BY BeginKeepsInv, StepKeepsInv, WriteKeepsInv DEF ItemNext
<1>2. ItemInv /\ UNCHANGED itemVars => ItemInv'
  BY Types DEF ItemInv, itemVars, BegunIsCounted, WritersHold, WritesWhatItRead, OpAt
<1> QED BY <1>1, <1>2

(* Every variable of the item, its caches and operations keeps its type,   *)
(* for any number of processes and threads (vault.rs).                     *)
THEOREM ItemTyped == ItemSpec => []ItemTypeOK
BY InvInit, InvInductive, PTL DEF ItemSpec, ItemInv

(* A write of one section never changes the other, unless another process  *)
(* wrote the item between its read and its write (vault.rs, update).       *)
THEOREM OtherSectionKept == ItemSpec => SectionsKept
<1> DEFINE OtherKept ==
      \A p \in Copools, t \in Threads : OpAt(p, t, "writes") /\ OpAt(p, t, "checks")' =>
        \A s \in Sections \ {op[p][t].section} :
          op[p][t].raced \/ document'[s] = document[s]
<1>1. ItemInv /\ [ItemNext]_itemVars => [OtherKept]_itemVars
  <2> SUFFICES ASSUME ItemInv, ItemNext, NEW p \in Copools, NEW t \in Threads,
                      op[p][t].pc = "writes", op'[p][t].pc = "checks",
                      NEW s \in Sections \ {op[p][t].section}
               PROVE  op[p][t].raced \/ document'[s] = document[s]
    BY DEF OpAt
  <2>1. PICK q \in Copools, u \in Threads :
          \/ Get(q, u) \/ Authorize(q, u) \/ LooksUp(q, u) \/ Enters(q, u) \/ Reads(q, u)
          \/ Caches(q, u) \/ Writes(q, u) \/ WriteFails(q, u) \/ Checks(q, u)
          \/ \E b \in BOOLEAN : Fetch(q, u, b) \/ AsksUser(q, u, b) \/ Updates(q, u, b)
          \/ \E x \in Sections, b \in BOOLEAN : Set(q, u, x, b)
    BY DEF ItemNext
  <2>2. CASE q = p /\ u = t /\ Writes(q, u) BY <2>2, WriteKeepsInv
  <2>3. CASE ~Writes(q, u)
    BY <2>1, <2>3 DEF Get, Authorize, LooksUp, Enters, Reads, Caches, WriteFails, Checks, Fetch,
       AsksUser, Updates, Set, threadVars
  <2>4. CASE Writes(q, u) /\ ~(q = p /\ u = t)
    <3>1. op[p][t].pc = "writes" /\ holder[p] = t BY DEF ItemInv, WritersHold, InCache
    <3>2. q # p BY <2>4, <3>1 DEF ItemInv, WritersHold, InCache, Writes, OpAt
    <3>3. op'[p][t].pc = op[p][t].pc
      <4>1. op \in [Copools -> [Threads -> Ops \cup {NoOp}]] BY Types DEF ItemInv
      <4>2. op'[p][t] = Raced(q)[p][t] BY <2>4, <3>2 DEF Writes, Raced
      <4>3. op[p][t] \in Ops BY <3>1, <4>1 DEF NoOp
      <4> QED BY <3>2, <4>2, <4>3 DEF Raced, Ops
    <3> QED BY <3>1, <3>3
  <2> QED BY <2>2, <2>3, <2>4
<1> QED BY <1>1, InvInit, InvInductive, PTL DEF ItemSpec, SectionsKept
=============================================================================
