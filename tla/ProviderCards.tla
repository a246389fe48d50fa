---------------------------- MODULE ProviderCards ----------------------------
(***************************************************************************)
(* The cards of a Sub2api provider in the Codex pool or in the Claude      *)
(* pool.  A refresh of the provider or of one card, or a sync the user     *)
(* asked for, reads the pool, asks Sub2api without a lock and then applies *)
(* the answer to the pool as it is by then: the user may have removed      *)
(* cards or the provider, and other refreshes may have landed.             *)
(*                                                                         *)
(* A card is an account Sub2api serves, which it may stop doing.  Of its   *)
(* usage the model keeps whether it was read; a provider has a password,   *)
(* kept in the system's credential store.                                  *)
(***************************************************************************)
EXTENDS Integers, FiniteSets

CONSTANTS
  CardIds,         \* accounts of Sub2api
  MaxCardEdits,    \* bound: removals by the user, saved forms, changes at Sub2api
  MaxCardErrors,   \* bound: requests and saves that fail
  MaxInFlight      \* bound: requests at a time

ASSUME CardBounds == MaxCardEdits \in Nat /\ MaxCardErrors \in Nat
ASSUME CardLimits == MaxInFlight \in Nat \ {0}
ASSUME CardsFinite == IsFiniteSet(CardIds)

VARIABLES
  pool,        \* "codex" or "claude"
  serves,      \* the accounts Sub2api serves
  listed,      \* the provider is in the pool
  cards,       \* its cards: imported_account_ids and cached_accounts
  password,    \* the credential store has its password
  storing,     \* a form's password was kept, the provider not yet
  forgetting,  \* removals that are still to forget the password
  deprived,    \* a removal has forgotten the password of a provider saved again since
  requests,    \* the refreshes and the sync in flight, by what they are of
  cardEdits, cardErrors   \* bounds

cardVars ==
  <<pool, serves, listed, cards, password, storing, forgetting, deprived, requests,
    cardEdits, cardErrors>>
cardBounds == <<cardEdits, cardErrors>>

\* A refresh of the provider, a sync, or a refresh of one card.
Kinds == {"provider", "sync"} \cup CardIds
States == {"shown", "error", "missing"}
CardSets == UNION {[ids -> States] : ids \in SUBSET CardIds}
NoRequest == [pc |-> "none"]

CardsTypeOK ==
  /\ pool \in {"codex", "claude"} /\ serves \in SUBSET CardIds
  /\ listed \in BOOLEAN /\ cards \in CardSets /\ password \in BOOLEAN
  /\ storing \in BOOLEAN /\ forgetting \in 0..MaxCardEdits /\ deprived \in BOOLEAN
  /\ DOMAIN requests = Kinds /\ \A k \in Kinds : requests[k].pc \in {"none", "asking", "landing"}
  /\ cardEdits \in 0..MaxCardEdits /\ cardErrors \in 0..MaxCardErrors

CardsStart ==
  /\ serves = CardIds /\ listed = TRUE /\ password = TRUE
  /\ cards = [c \in CardIds |-> "shown"]
  /\ storing = FALSE /\ forgetting = 0 /\ deprived = FALSE /\ requests = [k \in Kinds |-> NoRequest]
  /\ cardEdits = 0 /\ cardErrors = 0
CardsInit == pool \in {"codex", "claude"} /\ CardsStart

CardEdit == cardEdits < MaxCardEdits /\ cardEdits' = cardEdits + 1
CardError == cardErrors < MaxCardErrors /\ cardErrors' = cardErrors + 1

\* The Claude pool lets go of its lock before a removal forgets the password.
Unlocked == ~storing /\ (forgetting = 0 \/ pool = "claude")
NoCards == [c \in {} |-> "shown"]

-----------------------------------------------------------------------------
(* Asking Sub2api.                                                         *)

\* Only a sync asks for a provider whose cards were all removed.
Asks(k) ==
  /\ requests[k] = NoRequest /\ listed
  /\ Cardinality({r \in Kinds : requests[r] # NoRequest}) < MaxInFlight
  /\ k # "sync" => DOMAIN cards # {}
  /\ k \in CardIds => k \in DOMAIN cards
  /\ requests' = [requests EXCEPT ![k] = [pc |-> "asking", had |-> cards]]
  /\ UNCHANGED <<pool, serves, listed, cards, password, storing, forgetting, deprived, cardBounds>>

Asked(k) == IF k \in CardIds THEN {k} ELSE CardIds

\* fetch_platform_accounts: what Sub2api serves now, of what was asked for.
Answers(k) ==
  /\ requests[k].pc = "asking" /\ password
  /\ requests' = [requests EXCEPT ![k] =
       [pc |-> "landing", whole |-> TRUE,
        got |-> [c \in serves \cap Asked(k) |-> "shown"]]]
  /\ UNCHANGED <<pool, serves, listed, cards, password, storing, forgetting, deprived, cardBounds>>

\* A refresh that cannot read the list gives the cards the snapshot had, with the
\* error; a sync, a card of the Codex pool and a missing password give the error
\* alone.
AnswersNothing(k) ==
  /\ requests[k].pc = "asking"
  /\ CardError \/ (~password /\ UNCHANGED cardErrors)
  /\ requests' = [requests EXCEPT ![k] =
       [pc |-> "landing", whole |-> FALSE,
        got |-> IF k = "sync" \/ (pool = "codex" /\ k \in CardIds) \/ ~password THEN NoCards
                ELSE [c \in DOMAIN requests[k].had \cap Asked(k) |-> "error"]]]
  /\ UNCHANGED <<pool, serves, listed, cards, password, storing, forgetting, deprived, cardEdits>>

-----------------------------------------------------------------------------
(* Applying what came, under the lock, to the pool as it is then.          *)

With(old, new) ==
  [c \in DOMAIN old \cup DOMAIN new |-> IF c \in DOMAIN new THEN new[c] ELSE old[c]]
Marked(ids, state) == [c \in DOMAIN cards |-> IF c \in ids THEN state ELSE cards[c]]

\* record_provider_refresh_error, and the Claude pool's own.
ErrorShown(k) == IF k = "sync" THEN cards ELSE Marked(Asked(k), "error")

\* apply_provider_refresh takes the answer for the cards; refresh_provider_card keeps
\* to cards that are still there.
CodexCards(k, got) ==
  IF k \in CardIds THEN [c \in DOMAIN cards |-> IF c \in DOMAIN got THEN got[c] ELSE cards[c]]
  ELSE got

\* claude_refresh_sub2api adds and marks; a sync takes the answer.
ClaudeCardsAdded(k, got, whole) ==               \* variant: nothing is marked
  IF k = "sync" THEN got ELSE With(cards, got)
ClaudeCards(k, got, whole) ==
  IF k = "sync" THEN got
  ELSE With(IF whole THEN Marked(Asked(k) \ DOMAIN got, "missing") ELSE cards, got)

Failing(request) == ~request.whole /\ request.got = NoCards

Applied(k) ==
  IF Failing(requests[k]) THEN ErrorShown(k)
  ELSE IF pool = "codex" THEN CodexCards(k, requests[k].got)
  ELSE ClaudeCards(k, requests[k].got, requests[k].whole)

LandsOnWhatWasThere(k) ==                        \* variant: removed or not
  /\ requests[k].pc = "landing" /\ Unlocked
  /\ requests' = [requests EXCEPT ![k] = NoRequest]
  /\ cards' = IF ~listed THEN cards ELSE Applied(k)
  /\ UNCHANGED <<pool, serves, listed, password, storing, forgetting, deprived, cardBounds>>
Lands(k) ==
  /\ requests[k].pc = "landing" /\ Unlocked
  /\ requests' = [requests EXCEPT ![k] = NoRequest]
  /\ cards' = IF ~listed \/ (k # "sync" /\ DOMAIN cards = {}) THEN cards ELSE Applied(k)
  /\ UNCHANGED <<pool, serves, listed, password, storing, forgetting, deprived, cardBounds>>

-----------------------------------------------------------------------------
(* The user.                                                               *)

RemovesCard(c) ==
  /\ CardEdit /\ Unlocked
  /\ listed /\ c \in DOMAIN cards
  /\ cards' = [d \in DOMAIN cards \ {c} |-> cards[d]]
  /\ UNCHANGED <<pool, serves, listed, password, storing, forgetting, deprived, requests, cardErrors>>

\* The password is forgotten once the provider is not listed.
RemovesProvider ==
  /\ CardEdit /\ Unlocked
  /\ listed
  /\ listed' = FALSE /\ cards' = NoCards
  /\ forgetting' = forgetting + 1
  /\ UNCHANGED <<pool, serves, password, storing, deprived, requests, cardErrors>>

\* In the Claude pool the form of the same provider may have been saved meanwhile.
ForgetsPassword ==
  /\ forgetting > 0
  /\ password' = FALSE /\ forgetting' = forgetting - 1
  /\ deprived' = (deprived \/ (pool = "claude" /\ (listed \/ storing)))
  /\ UNCHANGED <<pool, serves, listed, cards, storing, requests, cardBounds>>

\* A form is saved with a password, which a provider that is not listed must have,
\* or without.  A provider that is listed keeps its cards.
SavesAnyForm ==                                  \* variant: without one in any case
  /\ CardEdit /\ Unlocked
  /\ password' \in {password, TRUE} /\ storing' = TRUE
  /\ deprived' = (deprived /\ ~password')
  /\ UNCHANGED <<pool, serves, listed, cards, forgetting, requests, cardErrors>>
SavesPassword ==
  /\ CardEdit /\ Unlocked
  /\ password' \in (IF listed THEN {password} ELSE {}) \cup {TRUE} /\ storing' = TRUE
  /\ deprived' = (deprived /\ ~password')
  /\ UNCHANGED <<pool, serves, listed, cards, forgetting, requests, cardErrors>>

SavesForm ==
  /\ storing
  /\ listed' = TRUE /\ storing' = FALSE
  /\ UNCHANGED <<pool, serves, cards, password, forgetting, deprived, requests, cardBounds>>

\* The pool or the credential store cannot be written.
EditFails ==
  /\ CardError
  /\ \/ storing /\ storing' = FALSE /\ UNCHANGED forgetting
     \/ forgetting > 0 /\ forgetting' = forgetting - 1 /\ UNCHANGED storing
  /\ UNCHANGED <<pool, serves, listed, cards, password, deprived, requests, cardEdits>>

\* Copool ends, and is started again.
CardsCrash ==
  /\ CardError
  /\ storing' = FALSE /\ forgetting' = 0 /\ requests' = [k \in Kinds |-> NoRequest]
  /\ UNCHANGED <<pool, serves, listed, cards, password, deprived, cardEdits>>

ServesOthers(c) ==
  /\ CardEdit
  /\ serves' = IF c \in serves THEN serves \ {c} ELSE serves \cup {c}
  /\ UNCHANGED <<pool, listed, cards, password, storing, forgetting, deprived, requests, cardErrors>>

CardsNext ==
  \/ \E k \in Kinds : Asks(k) \/ Answers(k) \/ AnswersNothing(k) \/ Lands(k)
  \/ \E c \in CardIds : RemovesCard(c) \/ ServesOthers(c)
  \/ RemovesProvider \/ ForgetsPassword \/ SavesPassword \/ SavesForm
  \/ EditFails \/ CardsCrash

\* The background schedule asks for every provider again and again; requests end.
CardsFair ==
  /\ WF_cardVars(Asks("provider"))
  /\ \A k \in Kinds : WF_cardVars(Answers(k) \/ AnswersNothing(k)) /\ WF_cardVars(Lands(k))
  /\ WF_cardVars(ForgetsPassword) /\ WF_cardVars(SavesForm)

CardsSpec == CardsInit /\ [][CardsNext]_cardVars
LiveCardsSpec == CardsSpec /\ CardsFair

-----------------------------------------------------------------------------
(* What is promised.                                                       *)

\* A provider whose cards were all removed, itself or with them, gets cards only from
\* a sync: no refresh that was in flight brings them back, whatever was saved since.
RemovalWins ==
  [][DOMAIN cards = {} /\ DOMAIN cards' # {}
       => requests["sync"].pc = "landing" /\ requests'["sync"] = NoRequest]_cardVars

\* A provider that is listed can be asked: it has its password, whichever of the two
\* stores could not be written and wherever Copool ended.  In the Claude pool it may have
\* lost it to a removal that forgot the password after the same provider was saved again,
\* until the user enters it once more.
ListedHasPassword == listed /\ ~deprived => password

\* A card of the Codex pool is one Sub2api serves and was read; the Claude pool
\* also says which of its cards Sub2api no longer serves.
AsServed ==
  /\ serves \subseteq DOMAIN cards
  /\ \A c \in DOMAIN cards :
       IF c \in serves THEN cards[c] = "shown" ELSE pool = "claude" /\ cards[c] = "missing"

\* In the end the cards of a provider that has its password are as Sub2api serves its
\* accounts, though refreshes of the provider and of its cards land in any order, with
\* answers older than the cards.
CardsConverge == <>[](listed /\ password /\ DOMAIN cards # {} => AsServed)
=============================================================================
