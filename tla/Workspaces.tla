----------------------------- MODULE Workspaces -----------------------------
(***************************************************************************)
(* The workspaces a user may sign in to but has no account of in the Codex *)
(* pool, as kept beside the accounts (workspace_directory.rs): a directory *)
(* row each, which is offered as pending until it is dismissed.  A sync    *)
(* asks OpenAI with the logins of the pool, without a lock, and merges     *)
(* what it heard into the directory of by then; imports, deletions,        *)
(* refreshes and dismissals change cards and rows meanwhile.               *)
(*                                                                         *)
(* The model keeps one login per workspace, and of a row what decides      *)
(* whether it is offered and kept.                                         *)
(***************************************************************************)
EXTENDS Naturals

CONSTANTS
  Spaces,        \* workspaces
  MaxSpaceEdits  \* bound: what the user and OpenAI do

ASSUME SpaceBounds == MaxSpaceEdits \in Nat

VARIABLES
  upstream,    \* what OpenAI lists a workspace as
  card,        \* the account of a workspace in the pool
  rows,        \* the directory
  sync,        \* a sync under way
  consent,     \* workspaces a sign-in agreed to, not yet in the directory
  refreshing,  \* cards with a refresh in flight
  spaceEdits

spaceVars == <<upstream, card, rows, sync, consent, refreshing, spaceEdits>>

NoRow == [status |-> "none"]
Rows0 == [status : {"active", "deactivated"}, visibility : {"visible", "deleted"},
          source : {"metadata", "consent", "deactivated"}]
Listings == {"visible", "hidden", "gone"}  \* hidden: named as disabled or personal
NoSync == [pc |-> "idle"]

SpacesTypeOK ==
  /\ upstream \in [Spaces -> Listings]
  /\ card \in [Spaces -> {"none", "waiting", "list", "deactivated", "deleted"}]
  /\ rows \in [Spaces -> Rows0 \cup {NoRow}]
  /\ sync.pc \in {"idle", "asking"}
  /\ consent \subseteq Spaces /\ refreshing \subseteq Spaces
  /\ spaceEdits \in 0..MaxSpaceEdits

SpacesInit ==
  /\ upstream = [w \in Spaces |-> "visible"]
  /\ card \in [Spaces -> {"none", "list"}]
  /\ rows = [w \in Spaces |-> NoRow]
  /\ sync = NoSync /\ consent = {} /\ refreshing = {}
  /\ spaceEdits = 0

SpaceEdit == spaceEdits < MaxSpaceEdits /\ spaceEdits' = spaceEdits + 1
Authorized == {w \in Spaces : card[w] \in {"waiting", "list"}}

-----------------------------------------------------------------------------
(* A sync: one request for each login that may be used, in turn.           *)

\* A sync takes the place of the one under way.
SyncStarts ==
  /\ \E w \in Spaces : card[w] = "list"
  /\ sync' = [pc |-> "asking", left |-> {w \in Spaces : card[w] = "list"},
              found |-> [w \in Spaces |-> "gone"], before |-> rows]
  /\ UNCHANGED <<upstream, card, rows, consent, refreshing, spaceEdits>>

\* The first login that sees a workspace describes it.
SyncAnswered(w) ==
  /\ sync.pc = "asking" /\ w \in sync.left
  /\ sync' = [sync EXCEPT !.left = @ \ {w},
                !.found = [u \in Spaces |-> IF @[u] = "gone" THEN upstream[u] ELSE @[u]]]
  /\ UNCHANGED <<upstream, card, rows, consent, refreshing, spaceEdits>>

\* A request fails, or the page cancels the sync.
SyncDropped ==
  /\ sync.pc = "asking"
  /\ sync' = NoSync
  /\ UNCHANGED <<upstream, card, rows, consent, refreshing, spaceEdits>>

VisibilityAsked(w) ==                            \* variant: as the sync began
  LET row == IF sync = NoSync THEN rows[w] ELSE sync.before[w]
  IN  IF row = NoRow THEN "visible" ELSE row.visibility
VisibilityKept(w) == IF rows[w] = NoRow THEN "visible" ELSE rows[w].visibility
Discovered(w) ==
  [status |-> IF rows[w].status = "deactivated" THEN "deactivated" ELSE "active",
   visibility |-> VisibilityKept(w), source |-> "metadata"]
StaysUnlisted(row) ==
  row # NoRow
    /\ (row.status = "deactivated" \/ row.visibility = "deleted" \/ row.source = "consent")

SyncApplies ==
  /\ sync.pc = "asking" /\ sync.left = {}
  /\ rows' = [w \in Spaces |->
       CASE sync.found[w] = "gone" -> IF StaysUnlisted(rows[w]) THEN rows[w] ELSE NoRow
         [] sync.found[w] = "hidden" \/ (sync.found[w] = "visible" /\ w \in Authorized) -> NoRow
         [] OTHER -> Discovered(w)]
  /\ sync' = NoSync
  /\ UNCHANGED <<upstream, card, consent, refreshing, spaceEdits>>

-----------------------------------------------------------------------------
(* The user's accounts and workspaces.                                     *)

\* A new account may have to wait for its first refresh.
Imports(w, waits) ==
  /\ SpaceEdit
  /\ card' = [card EXCEPT ![w] = IF @ = "waiting" \/ (@ = "none" /\ waits) THEN "waiting"
                                 ELSE "list"]
  /\ rows' = [u \in Spaces |-> IF u \in Authorized \cup {w} THEN NoRow ELSE rows[u]]
  /\ consent' \in {consent, Spaces \ {w}}
  /\ UNCHANGED <<upstream, sync, refreshing>>

\* OpenAI says the workspace of the sign-in was deactivated.
ImportRefused(w) ==
  /\ SpaceEdit /\ rows[w] # NoRow
  /\ rows' = [rows EXCEPT ![w].status = "deactivated"]
  /\ UNCHANGED <<upstream, card, sync, consent, refreshing>>

\* Under a lock of its own, after the account was imported.
Agreed(w) ==
  [status |-> "active", visibility |-> VisibilityKept(w), source |-> "consent"]
ConsentKept ==
  /\ consent # {}
  /\ rows' = [w \in Spaces |-> IF w \in consent \ Authorized THEN Agreed(w) ELSE rows[w]]
  /\ consent' = {}
  /\ UNCHANGED <<upstream, card, sync, refreshing, spaceEdits>>

DismissesWorkspace(w) ==
  /\ SpaceEdit /\ rows[w] # NoRow
  /\ rows' = [rows EXCEPT ![w].visibility = "deleted"]
  /\ UNCHANGED <<upstream, card, sync, consent, refreshing>>

\* A card that was deactivated is kept, hidden; any other goes.
DeletesCard(w) ==
  /\ SpaceEdit /\ card[w] \notin {"none", "deleted"}
  /\ IF card[w] = "deactivated"
     THEN /\ card' = [card EXCEPT ![w] = "deleted"]
          /\ rows' = [rows EXCEPT ![w] =
               IF @ = NoRow
               THEN [status |-> "deactivated", visibility |-> "deleted", source |-> "deactivated"]
               ELSE [@ EXCEPT !.visibility = "deleted"]]
          /\ UNCHANGED refreshing
     ELSE /\ card' = [card EXCEPT ![w] = "none"]
          /\ refreshing' = refreshing \ {w}
          /\ UNCHANGED rows
  /\ UNCHANGED <<upstream, sync, consent>>

RefreshAsks(w) ==
  /\ card[w] \in {"waiting", "list", "deactivated"} /\ w \notin refreshing
  /\ card' = [card EXCEPT ![w] = IF @ = "waiting" THEN "list" ELSE @]
  /\ refreshing' = refreshing \cup {w}
  /\ UNCHANGED <<upstream, rows, sync, consent, spaceEdits>>

RefreshLands(w, answer) ==
  /\ w \in refreshing
  /\ card' = [card EXCEPT ![w] = IF @ = "deleted" \/ answer = "failed" THEN @ ELSE answer]
  /\ refreshing' = refreshing \ {w}
  /\ UNCHANGED <<upstream, rows, sync, consent, spaceEdits>>

ListsAs(w, listing) ==
  /\ SpaceEdit
  /\ upstream' = [upstream EXCEPT ![w] = listing]
  /\ UNCHANGED <<card, rows, sync, consent, refreshing>>

SpacesNext ==
  \/ SyncStarts \/ SyncDropped \/ SyncApplies \/ ConsentKept
  \/ \E w \in Spaces :
       \/ SyncAnswered(w) \/ DismissesWorkspace(w) \/ DeletesCard(w) \/ ImportRefused(w)
       \/ RefreshAsks(w)
       \/ \E waits \in BOOLEAN : Imports(w, waits)
       \/ \E answer \in {"list", "deactivated", "failed"} : RefreshLands(w, answer)
       \/ \E listing \in Listings : ListsAs(w, listing)

SpacesSpec == SpacesInit /\ [][SpacesNext]_spaceVars

-----------------------------------------------------------------------------
(* What is promised.                                                       *)

Dismissed(w) == rows[w] # NoRow /\ rows[w].visibility = "deleted"

\* A workspace the user dismissed is not offered again, whatever sync, sign-in or
\* refresh was under way: only importing an account of it ends that, or OpenAI
\* telling a sync that it was disabled.
DismissalsStand ==
  [][\A w \in Spaces : Dismissed(w) /\ ~Dismissed(w)' =>
       \/ card'[w] \in {"waiting", "list"}
       \/ sync.pc = "asking" /\ sync.left = {} /\ sync.found[w] = "hidden"]_spaceVars
=============================================================================
