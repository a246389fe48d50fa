---------------------------- MODULE KeychainItem ----------------------------
(***************************************************************************)
(* Copool's own Keychain item on macOS (vault.rs): one document with a     *)
(* section for the Claude pool's tokens and one for other secrets, so that *)
(* the user is asked for access once.  A process reads it once and keeps   *)
(* it; a read that may ask holds the cache, a background read never waits. *)
(* Several Copools may run, each with its own cache.                       *)
(*                                                                         *)
(* A section is the number of its last write; what is written is always    *)
(* new.  ClaudeVault models what the Claude pool does with its section.    *)
(***************************************************************************)
EXTENDS Naturals

CONSTANTS
  Copools,     \* processes
  Threads,     \* of each process: the operations it may have under way
  MaxCalls     \* bound: calls

ASSUME ItemBounds == MaxCalls \in Nat
ASSUME ThreadsNamed == [free |-> TRUE] \notin Threads

VARIABLES
  document,    \* the item, or foreign: of another version, not Copool's
  trusted,     \* processes that read the item without the user being asked
  known,       \* each process: the document as last read or written, or nothing
  mayAsk,      \* each process: Item.ask
  holder,      \* each process: the operation that holds its cache, or none
  op,          \* the operation of each thread
  calls,       \* calls made
  begun        \* writes begun, of each section

itemVars == <<document, trusted, known, mayAsk, holder, op, calls, begun>>
threadVars == <<document, trusted, calls, begun>>

Sections == {"claude", "secrets"}
Documents == [Sections -> 0..MaxCalls]
ForeignItem == [foreign |-> TRUE]
Unread == [nothing |-> TRUE]
Unheld == [free |-> TRUE]
NoOp == [pc |-> "idle"]

\* get: ItemSecrets; fetch: Section::read; set: of either section.
Calls == {"get", "authorize", "fetch", "set"}
Steps == {"looksUp", "waits", "asks", "reads", "caches", "updates", "writes", "checks"}
Ops == [pc : Steps, call : Calls, interactive : BOOLEAN, section : Sections,
        doc : Documents, raced : BOOLEAN]

ItemTypeOK ==
  /\ document \in Documents \cup {ForeignItem}
  /\ trusted \subseteq Copools
  /\ known \in [Copools -> Documents \cup {Unread}]
  /\ mayAsk \in [Copools -> BOOLEAN]
  /\ holder \in [Copools -> Threads \cup {Unheld}]
  /\ op \in [Copools -> [Threads -> Ops \cup {NoOp}]]
  /\ calls \in 0..MaxCalls /\ begun \in [Sections -> 0..MaxCalls]

ItemInit ==
  /\ document \in {[s \in Sections |-> 0], ForeignItem}
  /\ trusted = {}
  /\ known = [p \in Copools |-> Unread] /\ mayAsk = [p \in Copools |-> TRUE]
  /\ holder = [p \in Copools |-> Unheld]
  /\ op = [p \in Copools |-> [t \in Threads |-> NoOp]]
  /\ calls = 0 /\ begun = [s \in Sections |-> 0]

OpAt(p, t, step) == op[p][t].pc = step
Goes(p, t, step) == op' = [op EXCEPT ![p][t] = [@ EXCEPT !.pc = step]]
OpEnds(p, t) == op' = [op EXCEPT ![p][t] = NoOp]
Locks(p, t) == holder' = [holder EXCEPT ![p] = t]
Unlocks(p) == holder' = [holder EXCEPT ![p] = Unheld]

Begins(p, t, call, interactive, section, step) ==
  /\ op[p][t] = NoOp /\ calls < MaxCalls /\ calls' = calls + 1
  /\ op' = [op EXCEPT ![p][t] =
       [pc |-> step, call |-> call, interactive |-> interactive, section |-> section,
        doc |-> [s \in Sections |-> 0], raced |-> FALSE]]

-----------------------------------------------------------------------------
(* Calls.                                                                  *)

\* A lookup of a secret.
Get(p, t) ==
  /\ Begins(p, t, "get", FALSE, "secrets", "looksUp")
  /\ UNCHANGED <<document, trusted, begun, known, mayAsk, holder>>

Authorize(p, t) ==
  /\ Begins(p, t, "authorize", TRUE, "secrets", "looksUp")
  /\ mayAsk' = [mayAsk EXCEPT ![p] = TRUE]
  /\ UNCHANGED <<document, trusted, begun, known, holder>>

\* The pool's section is read from the Keychain every time.
Fetch(p, t, interactive) ==
  /\ Begins(p, t, "fetch", interactive, "claude", IF interactive THEN "waits" ELSE "reads")
  /\ UNCHANGED <<document, trusted, begun, known, mayAsk, holder>>

\* Passwords are saved by the user; the pool's tokens also in the background, which
\* gives up while the item is being read.
Set(p, t, section, interactive) ==
  /\ section = "secrets" => interactive
  /\ \/ interactive /\ Begins(p, t, "set", interactive, section, "waits") /\ UNCHANGED holder
     \/ ~interactive /\ holder[p] = Unheld
        /\ Begins(p, t, "set", interactive, section, "updates") /\ Locks(p, t)
  /\ begun' = [begun EXCEPT ![section] = @ + 1]
  /\ UNCHANGED <<document, trusted, known, mayAsk>>

-----------------------------------------------------------------------------
(* cached and read.                                                        *)

LooksUp(p, t) ==
  /\ OpAt(p, t, "looksUp")
  /\ IF mayAsk[p] THEN Goes(p, t, "waits")
     ELSE IF holder[p] = Unheld /\ known[p] # Unread THEN OpEnds(p, t)
     ELSE Goes(p, t, "reads")
  /\ UNCHANGED <<threadVars, known, mayAsk, holder>>

\* The cache is free: a lookup that finds it filled needs no answer any more.
Enters(p, t) ==
  /\ OpAt(p, t, "waits") /\ holder[p] = Unheld
  /\ IF op[p][t].call \in {"get", "authorize"} /\ known[p] # Unread
     THEN OpEnds(p, t) /\ UNCHANGED holder
     ELSE Locks(p, t) /\ Goes(p, t, IF op[p][t].call = "set" THEN "updates" ELSE "asks")
  /\ UNCHANGED <<threadVars, known, mayAsk>>

\* The Keychain's answer, for which a user may have been asked.
KeychainAnswers(p, interactive, allowed) ==
  /\ allowed => interactive \/ p \in trusted
  /\ ~allowed => p \notin trusted
  /\ trusted' = IF allowed THEN trusted \cup {p} ELSE trusted
Readable(allowed) == allowed /\ document # ForeignItem

AsksUser(p, t, allowed) ==
  /\ OpAt(p, t, "asks")
  /\ KeychainAnswers(p, TRUE, allowed)
  /\ mayAsk' = [mayAsk EXCEPT ![p] = Readable(allowed)]
  /\ known' = [known EXCEPT ![p] = IF Readable(allowed) THEN document ELSE @]
  /\ Unlocks(p) /\ OpEnds(p, t)
  /\ UNCHANGED <<document, calls, begun>>

Reads(p, t) ==
  /\ OpAt(p, t, "reads")
  /\ IF Readable(p \in trusted)
     THEN op' = [op EXCEPT ![p][t] = [@ EXCEPT !.pc = "caches", !.doc = document]]
     ELSE OpEnds(p, t)
  /\ UNCHANGED <<threadVars, known, mayAsk, holder>>

\* What a background read heard is kept, unless the cache is in use.
Caches(p, t) ==
  /\ OpAt(p, t, "caches")
  /\ known' = [known EXCEPT ![p] = IF holder[p] = Unheld THEN op[p][t].doc ELSE @]
  /\ OpEnds(p, t)
  /\ UNCHANGED <<threadVars, mayAsk, holder>>

-----------------------------------------------------------------------------
(* update.                                                                 *)

EditedCopy(p) == IF known[p] = Unread THEN document ELSE known[p]  \* variant: as cached
Edited(p) == document
Updates(p, t, allowed) ==
  /\ OpAt(p, t, "updates")
  /\ KeychainAnswers(p, op[p][t].interactive, allowed)
  /\ IF Readable(allowed)
     THEN /\ op' = [op EXCEPT ![p][t] = [@ EXCEPT !.pc = "writes", !.doc = Edited(p)]]
          /\ UNCHANGED holder
     ELSE OpEnds(p, t) /\ Unlocks(p)
  /\ UNCHANGED <<document, known, mayAsk, calls, begun>>

\* An operation under way in another process is raced by a write.
Raced(p) ==
  [q \in Copools |-> [t \in Threads |->
     IF q # p /\ op[q][t] # NoOp THEN [op[q][t] EXCEPT !.raced = TRUE] ELSE op[q][t]]]
Writes(p, t) ==
  LET next == [op[p][t].doc EXCEPT ![op[p][t].section] = begun[op[p][t].section]] IN
  /\ OpAt(p, t, "writes")
  /\ document' = next
  /\ op' = [Raced(p) EXCEPT ![p][t] = [@ EXCEPT !.pc = "checks", !.doc = next]]
  /\ UNCHANGED <<trusted, known, mayAsk, holder, calls, begun>>

\* The Keychain refuses the write, or to read it back: what it holds is not known.
WriteFails(p, t) ==
  /\ OpAt(p, t, "writes") \/ OpAt(p, t, "checks")
  /\ known' = [known EXCEPT ![p] = Unread]
  /\ Unlocks(p) /\ OpEnds(p, t)
  /\ UNCHANGED <<threadVars, mayAsk>>

Checks(p, t) ==
  /\ OpAt(p, t, "checks")
  /\ known' = [known EXCEPT ![p] = IF document = op[p][t].doc THEN document ELSE Unread]
  /\ Unlocks(p) /\ OpEnds(p, t)
  /\ UNCHANGED <<threadVars, mayAsk>>

ItemNext ==
  \E p \in Copools, t \in Threads :
    \/ Get(p, t) \/ Authorize(p, t) \/ LooksUp(p, t) \/ Enters(p, t) \/ Reads(p, t)
    \/ Caches(p, t) \/ Writes(p, t) \/ WriteFails(p, t) \/ Checks(p, t)
    \/ \E b \in BOOLEAN : Fetch(p, t, b) \/ AsksUser(p, t, b) \/ Updates(p, t, b)
    \/ \E s \in Sections, b \in BOOLEAN : Set(p, t, s, b)

ItemSpec == ItemInit /\ [][ItemNext]_itemVars

-----------------------------------------------------------------------------
(* What is promised.                                                       *)

\* A write of one section keeps the other as the Keychain holds it, whatever the
\* process has cached and its other threads do at the time: only a write of another
\* process, between the read and the write of this one, can be lost.
SectionsKept ==
  [][\A p \in Copools, t \in Threads : OpAt(p, t, "writes") /\ OpAt(p, t, "checks")' =>
       \A s \in Sections \ {op[p][t].section} :
         op[p][t].raced \/ document'[s] = document[s]]_itemVars
=============================================================================
