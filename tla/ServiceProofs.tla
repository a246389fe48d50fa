--------------------------- MODULE ServiceProofs ----------------------------
(***************************************************************************)
(* Proofs about the services beside the pools, for any number of accounts, *)
(* workspaces, servers, attempts and tunnels: a provider that is listed has*)
(* its password, a removal stands and so does a dismissal; no tunnel and no*)
(* browser sign-in is left behind; and a remote server keeps its secret,   *)
(* its unit and its archive.                                               *)
(***************************************************************************)
EXTENDS ProviderCards, Workspaces, Tunnel, RemoteServers, SignIn, FiniteSetTheorems, TLAPS

-----------------------------------------------------------------------------
(* Providers.                                                              *)

(* Who is listed or about to be has a password, unless it was deprived of  *)
(* it; in the Codex pool none is about to be forgotten.                    *)
PasswordKept ==
  /\ listed \in BOOLEAN /\ password \in BOOLEAN
  /\ storing \in BOOLEAN /\ forgetting \in Nat /\ deprived \in BOOLEAN
  /\ ~deprived => (listed => password) /\ (storing => password)
  /\ pool # "claude" /\ forgetting > 0 => ~listed /\ ~storing

LEMMA PasswordStep == PasswordKept /\ [CardsNext]_cardVars => PasswordKept'
<1> SUFFICES ASSUME PasswordKept, [CardsNext]_cardVars PROVE PasswordKept'
  OBVIOUS
<1> USE DEF PasswordKept
<1>1. CASE \E k \in Kinds : Asks(k) \/ Answers(k) \/ AnswersNothing(k) \/ Lands(k)
  BY <1>1 DEF Asks, Answers, AnswersNothing, Lands
<1>2. CASE \E c \in CardIds : RemovesCard(c) \/ ServesOthers(c)
  BY <1>2 DEF RemovesCard, ServesOthers
<1>3. CASE RemovesProvider
  <2>1. forgetting' \in Nat BY <1>3 DEF RemovesProvider
  <2>2. listed' = FALSE /\ ~storing /\ UNCHANGED <<pool, password, storing, deprived>>
    BY <1>3 DEF RemovesProvider, Unlocked
  <2> QED BY <2>1, <2>2
<1>4. CASE ForgetsPassword
  <2>1. forgetting > 0 /\ forgetting' \in Nat BY <1>4 DEF ForgetsPassword
  <2>2. /\ password' = FALSE /\ UNCHANGED <<pool, listed, storing>>
        /\ deprived' = (deprived \/ (pool = "claude" /\ (listed \/ storing)))
    BY <1>4 DEF ForgetsPassword
  <2>3. pool # "claude" => ~listed /\ ~storing BY <2>1
  <2>4. deprived' \in BOOLEAN /\ (~deprived' => ~listed' /\ ~storing') BY <2>2, <2>3
  <2> QED BY <2>1, <2>2, <2>3, <2>4
<1>5. CASE SavesPassword
  <2>1. /\ ~storing /\ (forgetting = 0 \/ pool = "claude") /\ storing' = TRUE
        /\ UNCHANGED <<pool, listed, forgetting>>
        /\ password' \in BOOLEAN /\ (password' \/ (listed /\ password' = password))
    BY <1>5 DEF SavesPassword, Unlocked
  <2>2. deprived' = (deprived /\ ~password') BY <1>5 DEF SavesPassword
  <2>3. deprived' \in BOOLEAN /\ (~deprived' => password')
    BY <2>1, <2>2
  <2>4. ~(pool' # "claude" /\ forgetting' > 0) /\ forgetting' \in Nat BY <2>1
  <2>5. ~deprived' => (listed' => password') /\ (storing' => password') BY <2>3
  <2> QED BY <2>1, <2>3, <2>4, <2>5
<1>6. CASE SavesForm BY <1>6 DEF SavesForm
<1>7. CASE EditFails \/ CardsCrash
  <2>1. forgetting' \in Nat /\ (forgetting' > 0 => forgetting > 0)
    BY <1>7 DEF EditFails, CardsCrash
  <2>2. (storing' = FALSE \/ storing' = storing) /\ UNCHANGED <<pool, listed, password, deprived>>
    BY <1>7 DEF EditFails, CardsCrash
  <2>3. CASE storing' = FALSE BY <2>1, <2>2, <2>3
  <2>4. CASE storing' = storing BY <2>1, <2>2, <2>4
  <2> QED BY <2>2, <2>3, <2>4
<1>8. CASE UNCHANGED cardVars BY <1>8 DEF cardVars
<1> QED BY <1>1, <1>2, <1>3, <1>4, <1>5, <1>6, <1>7, <1>8 DEF CardsNext

(* A provider in either pool that is listed has its password, whichever of *)
(* the two stores fails, wherever Copool ends and however removals and     *)
(* forms are interleaved; in the Claude pool only a removal that forgets   *)
(* after the same provider was saved again takes it, until it is entered   *)
(* once more (providers.rs, claude/sub2api.rs).                            *)
THEOREM ListedCanBeAsked == CardsSpec => []ListedHasPassword
<1>1. CardsInit => PasswordKept
  <2> SUFFICES ASSUME CardsInit PROVE PasswordKept
    OBVIOUS
  <2>1. forgetting \in Nat /\ ~(forgetting > 0) BY DEF CardsInit, CardsStart
  <2>2. listed = TRUE /\ password = TRUE /\ storing = FALSE /\ deprived = FALSE
    BY DEF CardsInit, CardsStart
  <2> QED BY <2>1, <2>2 DEF PasswordKept
<1>2. PasswordKept => ListedHasPassword
  <2> SUFFICES ASSUME PasswordKept, listed, ~deprived PROVE password
    BY DEF ListedHasPassword
  <2> QED BY Zenon DEF PasswordKept
<1> QED BY <1>1, <1>2, PasswordStep, PTL DEF CardsSpec

(* The requests keep their shape: what a landing ends can be told.         *)
RequestsTyped == DOMAIN requests = Kinds /\ requests = [k \in Kinds |-> requests[k]]

LEMMA RequestsStep == RequestsTyped /\ [CardsNext]_cardVars => RequestsTyped'
<1> SUFFICES ASSUME RequestsTyped, [CardsNext]_cardVars PROVE RequestsTyped'
  OBVIOUS
<1>1. \/ UNCHANGED requests
      \/ \E k \in Kinds : requests' = [requests EXCEPT ![k] = requests'[k]]
      \/ requests' = [k \in Kinds |-> NoRequest]
  <2>1. CASE \E k \in Kinds : Asks(k) \/ Answers(k) \/ AnswersNothing(k) \/ Lands(k)
    BY <2>1 DEF Asks, Answers, AnswersNothing, Lands, RequestsTyped
  <2>2. CASE ~\E k \in Kinds : Asks(k) \/ Answers(k) \/ AnswersNothing(k) \/ Lands(k)
    BY <2>2 DEF CardsNext, RemovesCard, ServesOthers, RemovesProvider, ForgetsPassword,
       SavesPassword, SavesForm, EditFails, CardsCrash, cardVars
  <2> QED BY <2>1, <2>2
<1> QED BY <1>1 DEF RequestsTyped

(* No refresh brings back a provider or its cards once all were removed:   *)
(* only a sync's answer does (sub2api.rs, providers.rs).                   *)
THEOREM RemovalsStand == CardsSpec => RemovalWins
<1> DEFINE Won == DOMAIN cards = {} /\ DOMAIN cards' # {}
                    => requests["sync"].pc = "landing" /\ requests'["sync"] = NoRequest
<1>1. CardsInit => RequestsTyped BY DEF CardsInit, CardsStart, RequestsTyped
<1>2. RequestsTyped /\ [CardsNext]_cardVars => [Won]_cardVars
  <2> SUFFICES ASSUME RequestsTyped, CardsNext, DOMAIN cards = {}, DOMAIN cards' # {}
               PROVE  requests["sync"].pc = "landing" /\ requests'["sync"] = NoRequest
    OBVIOUS
  <2>1. cards' # cards OBVIOUS
  <2>2. ~\E c \in CardIds : RemovesCard(c) \/ ServesOthers(c)
    BY <2>1 DEF RemovesCard, ServesOthers
  <2>3. ~RemovesProvider
    <3>1. DOMAIN NoCards = {} BY DEF NoCards
    <3> QED BY <3>1 DEF RemovesProvider
  <2>4. ~(ForgetsPassword \/ SavesPassword \/ SavesForm \/ EditFails \/ CardsCrash)
    BY <2>1 DEF ForgetsPassword, SavesPassword, SavesForm, EditFails, CardsCrash
  <2>5. ~\E k \in Kinds : Asks(k) \/ Answers(k) \/ AnswersNothing(k)
    BY <2>1 DEF Asks, Answers, AnswersNothing
  <2>6. PICK k \in Kinds : Lands(k) BY <2>2, <2>3, <2>4, <2>5 DEF CardsNext
  <2>7. k = "sync" BY <2>1, <2>6 DEF Lands
  <2>8. requests["sync"].pc = "landing" BY <2>6, <2>7 DEF Lands
  <2>9. requests'["sync"] = NoRequest BY <2>6, <2>7 DEF Lands, RequestsTyped
  <2> QED BY <2>8, <2>9
<1> QED BY <1>1, <1>2, RequestsStep, PTL DEF CardsSpec, RemovalWins

-----------------------------------------------------------------------------
(* Workspaces.                                                             *)

Found == [Spaces -> Listings]
Cards == {"none", "waiting", "list", "deactivated", "deleted"}
Directories == [Spaces -> Rows0 \cup {NoRow}]
Syncs == [pc : {"asking"}, left : SUBSET Spaces, found : Found, before : Directories]
SpacesInv == SpacesTypeOK /\ sync \in Syncs \cup {NoSync}

(* A row keeps its shape when it is dismissed, deactivated or agreed to.   *)
LEMMA RowsChanged ==
  ASSUME NEW row \in Rows0
  PROVE  /\ row # NoRow
         /\ [row EXCEPT !.visibility = "deleted"] \in Rows0
         /\ [row EXCEPT !.visibility = "deleted"].visibility = "deleted"
         /\ [row EXCEPT !.status = "deactivated"] \in Rows0
         /\ [row EXCEPT !.status = "deactivated"].visibility = row.visibility
BY DEF Rows0, NoRow

LEMMA NewRows ==
  ASSUME rows \in Directories, NEW w \in Spaces
  PROVE  /\ Agreed(w) \in Rows0
         /\ Discovered(w) \in Rows0
         /\ Dismissed(w) => Agreed(w).visibility = "deleted" /\ Discovered(w).visibility = "deleted"
<1>1. rows[w] = NoRow \/ rows[w] \in Rows0 BY DEF Directories
<1>2. VisibilityKept(w) \in {"visible", "deleted"} BY <1>1 DEF VisibilityKept, Rows0
<1>3. Agreed(w) \in Rows0 BY <1>2 DEF Agreed, Rows0
<1>4. Discovered(w) \in Rows0 BY <1>2 DEF Discovered, Rows0
<1>5. Dismissed(w) => VisibilityKept(w) = "deleted" BY DEF Dismissed, VisibilityKept
<1> QED BY <1>3, <1>4, <1>5 DEF Agreed, Discovered

(* The types one by one, with the rows and the syncs closed.               *)
LEMMA SpaceTypes ==
  /\ SpacesInv <=>
       /\ upstream \in Found /\ card \in [Spaces -> Cards] /\ rows \in Directories
       /\ sync \in Syncs \cup {NoSync} /\ consent \subseteq Spaces
       /\ refreshing \subseteq Spaces /\ spaceEdits \in 0..MaxSpaceEdits
  /\ SpacesInv' <=>
       /\ upstream' \in Found /\ card' \in [Spaces -> Cards] /\ rows' \in Directories
       /\ sync' \in Syncs \cup {NoSync} /\ consent' \subseteq Spaces
       /\ refreshing' \subseteq Spaces /\ spaceEdits' \in 0..MaxSpaceEdits
<1>1. \A s \in Syncs \cup {NoSync} : s.pc \in {"idle", "asking"} BY DEF Syncs, NoSync
<1> QED BY <1>1 DEF SpacesInv, SpacesTypeOK, Found, Directories, Cards

LEMMA SpacesStart == SpacesInit => SpacesInv
<1> SUFFICES ASSUME SpacesInit PROVE SpacesInv
  OBVIOUS
<1>1. upstream \in Found BY DEF SpacesInit, Found, Listings
<1>2. card \in [Spaces -> Cards] BY DEF SpacesInit, Cards
<1>3. rows \in Directories BY DEF SpacesInit, Directories
<1>4. spaceEdits \in 0..MaxSpaceEdits BY SpaceBounds DEF SpacesInit
<1> QED BY <1>1, <1>2, <1>3, <1>4, SpaceTypes DEF SpacesInit

(* What each step may make of the directory.                               *)
LEMMA RowsStep ==
  ASSUME SpacesInv, SpacesNext
  PROVE  /\ rows' \in Directories
         /\ \A w \in Spaces : Dismissed(w) =>
              \/ Dismissed(w)'
              \/ card'[w] \in {"waiting", "list"}
              \/ sync.pc = "asking" /\ sync.left = {} /\ sync.found[w] = "hidden"
<1>1. rows \in Directories /\ card \in [Spaces -> Cards] BY SpaceTypes
<1>2. \A w \in Spaces : rows[w] \in Rows0 \/ rows[w] = NoRow BY <1>1 DEF Directories
<1>3. CASE SyncApplies
  <2>1. ASSUME NEW w \in Spaces
        PROVE  /\ rows'[w] \in Rows0 \cup {NoRow}
               /\ rows'[w] \in {rows[w], NoRow, Discovered(w)}
    <3>1. rows'[w] \in {rows[w], NoRow, Discovered(w)} BY <1>3 DEF SyncApplies
    <3>2. Discovered(w) \in Rows0 BY <1>1, NewRows
    <3> QED BY <1>2, <3>1, <3>2
  <2>2. rows' \in Directories
    <3>1. rows' = [w \in Spaces |-> rows'[w]] BY <1>3 DEF SyncApplies
    <3> QED BY <2>1, <3>1 DEF Directories
  <2>3. ASSUME NEW w \in Spaces, Dismissed(w), sync.found[w] # "hidden", w \notin Authorized
        PROVE  Dismissed(w)'
    <3>1. rows[w] # NoRow /\ rows[w].visibility = "deleted" BY <2>3 DEF Dismissed
    <3>2. rows'[w] = rows[w] \/ rows'[w] = Discovered(w)
      BY <1>3, <2>3, <3>1 DEF SyncApplies, StaysUnlisted
    <3>3. Discovered(w) # NoRow /\ Discovered(w).visibility = "deleted"
      BY <1>1, <2>3, NewRows, RowsChanged
    <3> QED BY <3>1, <3>2, <3>3 DEF Dismissed
  <2>4. sync.pc = "asking" /\ sync.left = {} /\ card' = card BY <1>3 DEF SyncApplies
  <2> QED BY <2>2, <2>3, <2>4 DEF Authorized
<1>4. ASSUME NEW v \in Spaces, NEW waits \in BOOLEAN, Imports(v, waits)
      PROVE  /\ rows' \in Directories
             /\ \A w \in Spaces : Dismissed(w) => Dismissed(w)' \/ card'[w] \in {"waiting", "list"}
  <2>1. \A w \in Spaces : rows'[w] = IF w \in Authorized \cup {v} THEN NoRow ELSE rows[w]
    BY <1>4 DEF Imports
  <2>2. rows' \in Directories BY <1>2, <1>4 DEF Imports, Directories
  <2>3. \A w \in Authorized \cup {v} : card'[w] \in {"waiting", "list"}
    <3>1. card'[v] \in {"waiting", "list"} BY <1>1, <1>4 DEF Imports
    <3>2. \A w \in Spaces \ {v} : card'[w] = card[w] BY <1>1, <1>4 DEF Imports
    <3> QED BY <3>1, <3>2 DEF Authorized
  <2> QED BY <2>1, <2>2, <2>3 DEF Dismissed
<1>5. CASE ConsentKept
  <2>1. ASSUME NEW w \in Spaces
        PROVE  /\ rows'[w] \in Rows0 \cup {NoRow} /\ rows'[w] \in {rows[w], Agreed(w)}
               /\ Agreed(w) \in Rows0 /\ (Dismissed(w) => Agreed(w).visibility = "deleted")
    <3>1. rows'[w] \in {rows[w], Agreed(w)} BY <1>5 DEF ConsentKept
    <3>2. Agreed(w) \in Rows0 /\ (Dismissed(w) => Agreed(w).visibility = "deleted")
      BY <1>1, NewRows
    <3> QED BY <1>2, <3>1, <3>2
  <2>2. rows' \in Directories
    <3>1. rows' = [w \in Spaces |-> rows'[w]] BY <1>5 DEF ConsentKept
    <3> QED BY <2>1, <3>1 DEF Directories
  <2>3. ASSUME NEW w \in Spaces, Dismissed(w) PROVE Dismissed(w)'
    BY <2>1, <2>3, RowsChanged DEF Dismissed
  <2> QED BY <2>2, <2>3
<1>6. ASSUME NEW v \in Spaces, ImportRefused(v) \/ DismissesWorkspace(v) \/ DeletesCard(v)
      PROVE  rows' \in Directories /\ \A w \in Spaces : Dismissed(w) => Dismissed(w)'
  <2> DEFINE hidden == [status |-> "deactivated", visibility |-> "deleted",
                        source |-> "deactivated"]
  <2>1. hidden \in Rows0 /\ hidden.visibility = "deleted" BY DEF Rows0
  <2>2. \/ UNCHANGED rows
        \/ \E row \in Rows0 : /\ rows' = [rows EXCEPT ![v] = row]
                              /\ Dismissed(v) => row.visibility = "deleted"
    <3>1. CASE ImportRefused(v) \/ DismissesWorkspace(v)
      <4>1. rows[v] \in Rows0 BY <1>2, <3>1 DEF ImportRefused, DismissesWorkspace
      <4>2. rows' = [rows EXCEPT ![v] = [rows[v] EXCEPT !.status = "deactivated"]]
              \/ rows' = [rows EXCEPT ![v] = [rows[v] EXCEPT !.visibility = "deleted"]]
        BY <3>1 DEF ImportRefused, DismissesWorkspace
      <4> QED BY <4>1, <4>2, RowsChanged DEF Dismissed
    <3>2. CASE DeletesCard(v)
      <4>1. \/ UNCHANGED rows
            \/ rows[v] = NoRow /\ rows' = [rows EXCEPT ![v] = hidden]
            \/ /\ rows[v] # NoRow
               /\ rows' = [rows EXCEPT ![v] = [rows[v] EXCEPT !.visibility = "deleted"]]
        BY <3>2 DEF DeletesCard
      <4> HIDE DEF hidden
      <4> QED BY <1>2, <2>1, <4>1, RowsChanged DEF Dismissed
    <3> QED BY <1>6, <3>1, <3>2
  <2> HIDE DEF hidden
  <2>3. CASE UNCHANGED rows BY <1>1, <2>3 DEF Dismissed
  <2>4. ASSUME NEW row \in Rows0, rows' = [rows EXCEPT ![v] = row],
               Dismissed(v) => row.visibility = "deleted"
        PROVE  rows' \in Directories /\ \A w \in Spaces : Dismissed(w) => Dismissed(w)'
    <3>1. rows' \in Directories BY <1>1, <2>4 DEF Directories
    <3>2. rows'[v] = row /\ \A w \in Spaces \ {v} : rows'[w] = rows[w]
      BY <1>1, <2>4 DEF Directories
    <3>3. row # NoRow BY RowsChanged
    <3> QED BY <2>4, <3>1, <3>2, <3>3 DEF Dismissed
  <2> QED BY <2>2, <2>3, <2>4
<1>7. CASE UNCHANGED rows BY <1>1, <1>7 DEF Dismissed
<1>8. \/ UNCHANGED rows \/ SyncApplies \/ ConsentKept
      \/ \E v \in Spaces, waits \in BOOLEAN : Imports(v, waits)
      \/ \E v \in Spaces : ImportRefused(v) \/ DismissesWorkspace(v) \/ DeletesCard(v)
  BY DEF SpacesNext, SyncStarts, SyncDropped, SyncAnswered, RefreshAsks, RefreshLands, ListsAs
<1> QED BY <1>3, <1>4, <1>5, <1>6, <1>7, <1>8

LEMMA SyncStep ==
  ASSUME SpacesInv, SpacesNext PROVE sync' \in Syncs \cup {NoSync}
<1>1. /\ upstream \in Found /\ rows \in Directories /\ sync \in Syncs \cup {NoSync}
  BY SpaceTypes
<1>2. CASE SyncStarts
  <2>1. [w \in Spaces |-> "gone"] \in Found BY DEF Found, Listings
  <2> QED BY <1>1, <1>2, <2>1 DEF SyncStarts, Syncs
<1>3. ASSUME NEW w \in Spaces, SyncAnswered(w) PROVE sync' \in Syncs
  <2>1. sync \in Syncs BY <1>1, <1>3 DEF SyncAnswered, NoSync
  <2>2. [u \in Spaces |-> IF sync.found[u] = "gone" THEN upstream[u] ELSE sync.found[u]] \in Found
    BY <1>1, <2>1 DEF Syncs, Found
  <2> QED BY <1>3, <2>1, <2>2 DEF SyncAnswered, Syncs
<1>4. CASE SyncDropped \/ SyncApplies BY <1>4 DEF SyncDropped, SyncApplies
<1>5. UNCHANGED sync \/ SyncStarts \/ SyncDropped \/ SyncApplies
        \/ \E w \in Spaces : SyncAnswered(w)
  BY DEF SpacesNext, ConsentKept, DismissesWorkspace, DeletesCard, ImportRefused, RefreshAsks,
     Imports, RefreshLands, ListsAs
<1> QED BY <1>1, <1>2, <1>3, <1>4, <1>5

LEMMA CardStep ==
  ASSUME SpacesInv, SpacesNext
  PROVE  /\ card' \in [Spaces -> Cards] /\ upstream' \in Found /\ consent' \subseteq Spaces
         /\ refreshing' \subseteq Spaces /\ spaceEdits' \in 0..MaxSpaceEdits
<1>1. /\ upstream \in Found /\ card \in [Spaces -> Cards] /\ consent \subseteq Spaces
      /\ refreshing \subseteq Spaces /\ spaceEdits \in 0..MaxSpaceEdits
  BY SpaceTypes
<1>2. CASE SyncStarts \/ SyncDropped \/ SyncApplies \/ ConsentKept
  BY <1>1, <1>2 DEF SyncStarts, SyncDropped, SyncApplies, ConsentKept
<1>3. ASSUME NEW w \in Spaces,
             SyncAnswered(w) \/ DismissesWorkspace(w) \/ DeletesCard(w) \/ ImportRefused(w)
               \/ RefreshAsks(w)
      PROVE  /\ card' \in [Spaces -> Cards] /\ upstream' \in Found /\ consent' \subseteq Spaces
             /\ refreshing' \subseteq Spaces /\ spaceEdits' \in 0..MaxSpaceEdits
  BY <1>1, <1>3, SpaceBounds DEF SyncAnswered, DismissesWorkspace, DeletesCard, ImportRefused,
     RefreshAsks, SpaceEdit, Cards
<1>4. ASSUME NEW w \in Spaces, NEW waits \in BOOLEAN, Imports(w, waits)
      PROVE  /\ card' \in [Spaces -> Cards] /\ upstream' \in Found /\ consent' \subseteq Spaces
             /\ refreshing' \subseteq Spaces /\ spaceEdits' \in 0..MaxSpaceEdits
  BY <1>1, <1>4, SpaceBounds DEF Imports, SpaceEdit, Cards
<1>5. ASSUME NEW w \in Spaces, NEW answer \in {"list", "deactivated", "failed"},
             RefreshLands(w, answer)
      PROVE  /\ card' \in [Spaces -> Cards] /\ upstream' \in Found /\ consent' \subseteq Spaces
             /\ refreshing' \subseteq Spaces /\ spaceEdits' \in 0..MaxSpaceEdits
  BY <1>1, <1>5 DEF RefreshLands, Cards
<1>6. ASSUME NEW w \in Spaces, NEW listing \in Listings, ListsAs(w, listing)
      PROVE  /\ card' \in [Spaces -> Cards] /\ upstream' \in Found /\ consent' \subseteq Spaces
             /\ refreshing' \subseteq Spaces /\ spaceEdits' \in 0..MaxSpaceEdits
  BY <1>1, <1>6, SpaceBounds DEF ListsAs, SpaceEdit, Found
<1> QED BY <1>2, <1>3, <1>4, <1>5, <1>6 DEF SpacesNext

LEMMA SpacesStep == SpacesInv /\ [SpacesNext]_spaceVars => SpacesInv'
<1>1. SpacesInv /\ SpacesNext => SpacesInv' BY RowsStep, SyncStep, CardStep, SpaceTypes
<1>2. SpacesInv /\ UNCHANGED spaceVars => SpacesInv' BY SpaceTypes DEF spaceVars
<1> QED BY <1>1, <1>2

(* A workspace the user dismissed stays dismissed through any syncs,       *)
(* sign-ins and refreshes under way, until an account of it is imported or *)
(* OpenAI tells a sync it was disabled (workspace_directory.rs).           *)
THEOREM DismissedStays == SpacesSpec => DismissalsStand
<1> DEFINE Stays ==
      \A w \in Spaces : Dismissed(w) /\ ~Dismissed(w)' =>
        \/ card'[w] \in {"waiting", "list"}
        \/ sync.pc = "asking" /\ sync.left = {} /\ sync.found[w] = "hidden"
<1>1. SpacesInv /\ [SpacesNext]_spaceVars => [Stays]_spaceVars BY RowsStep
<1> QED BY <1>1, SpacesStart, SpacesStep, PTL DEF SpacesSpec, DismissalsStand

-----------------------------------------------------------------------------
(* The tunnel: each one made is deleted, or told of.                       *)

(* Only a stop has leftovers at hand, and it has taken them all; a start   *)
(* creates a tunnel when it holds none, and goes on with the one it has.   *)
StagesKept ==
  /\ errand # "clean" => cleaning = NothingToClean
  /\ errand \in {"clean", "create", "spawn quick", "exit"} => tunnel.cleanup = NoTunnel
  /\ errand = "clean" => tunnel.orphans = {}
  /\ errand = "create" \/ cleaning.next = "create" => edge.made < MaxTunnels
  /\ errand \in {"configure", "point", "spawn"} => tunnel.cleanup \in Tunnels

(* What is left over is told of, and everything at Cloudflare is known.    *)
NothingForgotten ==
  /\ tunnel.orphans # {} => tunnel.told
  /\ edge.tunnels \ lost \subseteq Pending \union cleaning.left \union cleaning.failed

TunnelInv == TunnelTypeOK /\ StagesKept /\ NothingForgotten

TunnelRecords == [child : Processes \union {NoTunnel}, cleanup : Tunnels \union {NoTunnel},
                  orphans : SUBSET Tunnels, told : BOOLEAN]
Cleanings == [left : SUBSET Tunnels, failed : SUBSET Tunnels, next : Afterwards]
Edges == [made : 0..MaxTunnels, tunnels : SUBSET Tunnels,
          linked : SUBSET Tunnels, host : Tunnels \union {NoTunnel}]

LEMMA WithinBound ==
  ASSUME NEW max \in Nat, NEW n \in 0..max, NEW m, m = n \/ (n < max /\ m = n + 1)
  PROVE  m \in 0..max
OBVIOUS

LEMMA TunnelTypes ==
  /\ TunnelTypeOK <=>
       /\ tunnel \in TunnelRecords /\ errand \in Errands /\ cleaning \in Cleanings
       /\ edge \in Edges /\ lost \in SUBSET Tunnels /\ alive \in SUBSET Processes
       /\ localProxy \in {"off", "on", "stopping"} /\ mishaps \in 0..MaxTunnelFaults
       /\ ends \in 0..MaxEnds
  /\ TunnelTypeOK' <=>
       /\ tunnel' \in TunnelRecords /\ errand' \in Errands /\ cleaning' \in Cleanings
       /\ edge' \in Edges /\ lost' \in SUBSET Tunnels /\ alive' \in SUBSET Processes
       /\ localProxy' \in {"off", "on", "stopping"} /\ mishaps' \in 0..MaxTunnelFaults
       /\ ends' \in 0..MaxEnds
BY DEF TunnelTypeOK, TunnelRecords, Cleanings, Edges

LEMMA FirstOfThese ==
  /\ FreshTunnel \in TunnelRecords /\ NothingToClean \in Cleanings
  /\ NoTunnel \notin Tunnels
BY DEF FreshTunnel, NothingToClean, TunnelRecords, Cleanings, Tunnels, NoTunnel, Processes,
   Quick, Afterwards, Free

LEMMA TunnelStart == TunnelInit => TunnelInv
<1> SUFFICES ASSUME TunnelInit PROVE TunnelInv
  OBVIOUS
<1> USE DEF TunnelInit
<1>1. edge \in Edges BY TunnelBounds DEF Edges, NoTunnel
<1>2. mishaps \in 0..MaxTunnelFaults /\ ends \in 0..MaxEnds BY TunnelBounds
<1>3. TunnelTypeOK BY <1>1, <1>2, FirstOfThese, TunnelTypes DEF Errands
<1>4. StagesKept
  <2>1. cleaning.next = Free BY DEF NothingToClean
  <2> QED BY <2>1 DEF StagesKept, Free
<1>5. NothingForgotten BY DEF NothingForgotten, FreshTunnel
<1> QED BY <1>3, <1>4, <1>5 DEF TunnelInv

(* A stop, whatever it is to go on to: the process is gone, and what was   *)
(* pending is at hand or was nothing.                                      *)
LEMMA StopKeeps ==
  ASSUME TunnelInv, errand # "clean", NEW next \in Afterwards, StopsThen(next),
         next = "create" => edge.made < MaxTunnels,
         edge' \in Edges, edge'.tunnels = edge.tunnels, edge'.made = edge.made, lost' = lost,
         mishaps' \in 0..MaxTunnelFaults, ends' \in 0..MaxEnds
  PROVE  TunnelInv'
<1> USE FirstOfThese DEF TunnelInv
<1>1. /\ tunnel \in TunnelRecords /\ errand \in Errands /\ cleaning \in Cleanings
      /\ lost \in SUBSET Tunnels /\ alive \in SUBSET Processes
      /\ localProxy \in {"off", "on", "stopping"}
  BY TunnelTypes
<1>2. cleaning = NothingToClean BY DEF StagesKept
<1>3. Leftovers \subseteq Tunnels BY <1>1 DEF Leftovers, Pending, TunnelRecords
<1>4. edge.tunnels \ lost \subseteq Leftovers
  BY <1>2 DEF NothingForgotten, NothingToClean, Leftovers
<1>5. alive' \in SUBSET Processes BY <1>1 DEF StopsThen
<1>6. localProxy' \in {"off", "on", "stopping"} BY <1>1 DEF StopsThen
<1>7. CASE Leftovers = {}
  <2>1. /\ tunnel' = [tunnel EXCEPT !.child = NoTunnel, !.cleanup = NoTunnel]
        /\ errand' = IF next = "stop proxy" THEN Free ELSE next
        /\ cleaning' = cleaning
    BY <1>7 DEF StopsThen
  <2>2. tunnel' \in TunnelRecords /\ tunnel'.cleanup = NoTunnel /\ tunnel'.orphans = {}
    BY <1>1, <1>7, <2>1 DEF TunnelRecords, Leftovers, Pending
  <2>3. errand' \in Errands /\ errand' # "clean"
        /\ errand' \notin {"configure", "point", "spawn"}
        /\ (errand' = "create" => next = "create")
    BY <2>1 DEF Errands, Afterwards, Free
  <2>4. TunnelTypeOK' BY <1>1, <1>5, <1>6, <2>1, <2>2, <2>3, TunnelTypes
  <2>5. StagesKept' BY <1>2, <2>1, <2>2, <2>3 DEF StagesKept, NothingToClean, Free
  <2>6. NothingForgotten' BY <1>4, <1>7, <2>2 DEF NothingForgotten
  <2> QED BY <2>4, <2>5, <2>6
<1>8. CASE Leftovers # {}
  <2>1. /\ tunnel' = [tunnel EXCEPT !.child = NoTunnel, !.cleanup = NoTunnel, !.orphans = {}]
        /\ errand' = "clean" /\ localProxy' = localProxy
        /\ cleaning' = [left |-> Leftovers, failed |-> {}, next |-> next]
    BY <1>8 DEF StopsThen
  <2>2. tunnel' \in TunnelRecords /\ tunnel'.cleanup = NoTunnel /\ tunnel'.orphans = {}
    BY <1>1, <2>1 DEF TunnelRecords
  <2>3. cleaning' \in Cleanings BY <1>3, <2>1 DEF Cleanings
  <2>4. errand' \in Errands BY <2>1 DEF Errands
  <2>5. TunnelTypeOK' BY <1>1, <1>5, <1>6, <2>2, <2>3, <2>4, TunnelTypes
  <2>6. StagesKept' BY <2>1, <2>2 DEF StagesKept
  <2>7. NothingForgotten' BY <1>4, <2>1, <2>2 DEF NothingForgotten
  <2> QED BY <2>5, <2>6, <2>7
<1> QED BY <1>7, <1>8

(* What the steps of a stop under way find and leave.                      *)
LEMMA CleaningKeeps ==
  ASSUME TunnelInv,
         \/ \E id \in Tunnels, outcome \in Outcomes : DropsConnections(id) \/ Deletes(id, outcome)
         \/ CleanupEnds
  PROVE  TunnelInv'
<1> USE FirstOfThese DEF TunnelInv
<1>1. /\ tunnel \in TunnelRecords /\ errand \in Errands /\ cleaning \in Cleanings
      /\ edge \in Edges /\ lost \in SUBSET Tunnels /\ alive \in SUBSET Processes
      /\ localProxy \in {"off", "on", "stopping"} /\ mishaps \in 0..MaxTunnelFaults
      /\ ends \in 0..MaxEnds
  BY TunnelTypes
<1>2. tunnel.cleanup = NoTunnel /\ tunnel.orphans = {} /\ Pending = {} /\ errand = "clean"
  BY DEF DropsConnections, Deletes, CleanupEnds, StagesKept, Pending
<1>3. ASSUME NEW id \in Tunnels, DropsConnections(id) PROVE TunnelInv'
  <2>1. edge' \in Edges /\ edge'.tunnels = edge.tunnels /\ edge'.made = edge.made
    BY <1>1, <1>3 DEF DropsConnections, Edges
  <2>2. TunnelTypeOK' BY <1>1, <1>3, <2>1, TunnelTypes DEF DropsConnections
  <2>3. StagesKept' BY <1>3, <2>1 DEF StagesKept, DropsConnections
  <2>4. NothingForgotten' BY <1>3, <2>1 DEF NothingForgotten, DropsConnections, Pending
  <2> QED BY <2>2, <2>3, <2>4
<1>4. ASSUME NEW id \in Tunnels, NEW outcome \in Outcomes, Deletes(id, outcome)
      PROVE  TunnelInv'
  <2>1. mishaps' \in 0..MaxTunnelFaults
    BY <1>1, <1>4, TunnelBounds, WithinBound DEF Deletes, Costs
  <2>2. /\ edge' \in Edges /\ edge'.made = edge.made
        /\ edge'.tunnels = IF Did(outcome) THEN edge.tunnels \ {id} ELSE edge.tunnels
    BY <1>1, <1>4 DEF Deletes, Edges
  <2>3. /\ cleaning' \in Cleanings /\ cleaning'.left = cleaning.left \ {id}
        /\ cleaning'.failed = IF outcome = "done" THEN cleaning.failed
                              ELSE cleaning.failed \union {id}
        /\ cleaning'.next = cleaning.next
    BY <1>1, <1>4 DEF Deletes, Cleanings
  <2>4. UNCHANGED <<tunnel, errand, lost, alive, localProxy, ends>> BY <1>4 DEF Deletes
  <2>5. TunnelTypeOK' BY <1>1, <2>1, <2>2, <2>3, <2>4, TunnelTypes
  <2>6. StagesKept' BY <1>2, <2>2, <2>3, <2>4 DEF StagesKept
  <2>7. NothingForgotten' BY <1>2, <2>2, <2>3, <2>4 DEF NothingForgotten, Did, Pending
  <2> QED BY <2>5, <2>6, <2>7
<1>5. CASE CleanupEnds
  <2>1. /\ tunnel' \in TunnelRecords /\ tunnel'.cleanup = NoTunnel
        /\ tunnel'.orphans = cleaning.failed /\ (tunnel'.orphans # {} => tunnel'.told)
    BY <1>1, <1>2, <1>5 DEF CleanupEnds, TunnelRecords, Cleanings
  <2>2. cleaning.next \in Afterwards BY <1>1 DEF Cleanings
  <2>3. /\ errand' \in Errands /\ errand' # "clean"
        /\ errand' \notin {"configure", "point", "spawn"}
        /\ (errand' = "create" => cleaning.next = "create")
    BY <1>5, <2>2 DEF CleanupEnds, Errands, Afterwards, Free
  <2>4. /\ localProxy' \in {"off", "on", "stopping"} /\ cleaning' = NothingToClean
        /\ UNCHANGED <<edge, lost, alive, mishaps, ends>> /\ cleaning.left = {}
    BY <1>1, <1>5 DEF CleanupEnds
  <2>5. TunnelTypeOK' BY <1>1, <2>1, <2>3, <2>4, TunnelTypes
  <2>7. StagesKept' BY <2>1, <2>3, <2>4 DEF StagesKept, NothingToClean, Free
  <2>8. NothingForgotten' BY <1>2, <2>1, <2>4 DEF NothingForgotten, Pending
  <2> QED BY <2>5, <2>7, <2>8
<1> QED BY <1>3, <1>4, <1>5

(* Starting. *)
LEMMA StartKeeps ==
  ASSUME TunnelInv, NEW outcome \in Outcomes,
         Create(outcome) \/ Configure(outcome) \/ PointHost(outcome) \/ Spawn(outcome)
           \/ WatchEnds
  PROVE  TunnelInv'
<1> USE FirstOfThese DEF TunnelInv
<1>1. /\ tunnel \in TunnelRecords /\ errand \in Errands /\ cleaning \in Cleanings
      /\ edge \in Edges /\ lost \in SUBSET Tunnels /\ alive \in SUBSET Processes
      /\ localProxy \in {"off", "on", "stopping"} /\ mishaps \in 0..MaxTunnelFaults
      /\ ends \in 0..MaxEnds
  BY TunnelTypes
<1>2. mishaps' \in 0..MaxTunnelFaults /\ ends' \in 0..MaxEnds
  <2>1. ends' = ends BY DEF Create, Configure, PointHost, Spawn, WatchEnds
  <2>2. Costs(outcome) \/ mishaps' = mishaps
    BY DEF Create, Configure, PointHost, Spawn, WatchEnds
  <2> QED BY <1>1, <2>1, <2>2, TunnelBounds DEF Costs
<1>3. errand # "clean" /\ cleaning = NothingToClean
  BY DEF Create, Configure, PointHost, Spawn, WatchEnds, StagesKept
<1>4. Free \in Afterwards /\ Free # "create" BY DEF Afterwards, Free
<1>5. CASE Create(outcome)
  <2> DEFINE id == edge.made + 1
  <2>1. errand = "create" /\ tunnel.cleanup = NoTunnel /\ id \in Tunnels
    BY <1>1, <1>5, TunnelBounds DEF Create, StagesKept, Edges, Tunnels
  <2>2. /\ tunnel' \in TunnelRecords /\ tunnel'.orphans = tunnel.orphans
        /\ tunnel'.told = tunnel.told
        /\ tunnel'.cleanup = IF outcome = "done" THEN id ELSE NoTunnel
    BY <1>1, <1>5, <2>1 DEF Create, TunnelRecords
  <2>3. edge' \in Edges /\ edge'.tunnels \subseteq edge.tunnels \union {id}
        /\ (~Did(outcome) => edge' = edge)
    <3>1. id \in 0..MaxTunnels BY <2>1 DEF Tunnels
    <3>2. edge' = IF Did(outcome)
                  THEN [edge EXCEPT !.made = id, !.tunnels = @ \union {id}] ELSE edge
      BY <1>5 DEF Create
    <3> HIDE DEF id
    <3> QED BY <1>1, <2>1, <3>1, <3>2 DEF Edges
  <2>4. lost' = IF outcome = "unheard" THEN lost \union {id} ELSE lost BY <1>5 DEF Create
  <2>5. errand' = (IF outcome = "done" THEN "configure" ELSE Free)
        /\ UNCHANGED <<cleaning, alive, localProxy>>
    BY <1>5 DEF Create
  <2>6. errand' \in Errands BY <2>5 DEF Errands
  <2>7. TunnelTypeOK' BY <1>1, <1>2, <2>1, <2>2, <2>3, <2>4, <2>5, <2>6, TunnelTypes
  <2>8. cleaning.next # "create" BY <1>3 DEF NothingToClean, Free
  <2>9. StagesKept' BY <1>3, <2>1, <2>2, <2>5, <2>8 DEF StagesKept, Free
  <2>10. NothingForgotten'
    BY <2>1, <2>2, <2>3, <2>4, <2>5 DEF NothingForgotten, Pending, Did, Outcomes
  <2> QED BY <2>7, <2>9, <2>10
<1>6. ASSUME NEW stage \in {"point", "spawn"}, tunnel.cleanup \in Tunnels,
             errand' = stage, UNCHANGED <<tunnel, cleaning, alive, localProxy, lost>>,
             edge' \in Edges, edge'.tunnels = edge.tunnels, edge'.made = edge.made
      PROVE  TunnelInv'
  <2>1. TunnelTypeOK' BY <1>1, <1>2, <1>6, TunnelTypes DEF Errands
  <2>2. StagesKept' BY <1>3, <1>6 DEF StagesKept, NothingToClean, Free
  <2>3. NothingForgotten' BY <1>6 DEF NothingForgotten, Pending
  <2> QED BY <2>1, <2>2, <2>3
<1>7. CASE Configure(outcome)
  <2>1. tunnel.cleanup \in Tunnels /\ UNCHANGED <<edge, lost>>
    BY <1>7 DEF Configure, StagesKept
  <2> QED BY <1>1, <1>2, <1>3, <1>4, <1>6, <1>7, <2>1, StopKeeps DEF Configure
<1>8. CASE PointHost(outcome)
  <2>1. tunnel.cleanup \in Tunnels /\ lost' = lost BY <1>8 DEF PointHost, StagesKept
  <2>2. edge' \in Edges /\ edge'.tunnels = edge.tunnels /\ edge'.made = edge.made
    BY <1>1, <1>8, <2>1 DEF PointHost, Edges
  <2> QED BY <1>1, <1>2, <1>3, <1>4, <1>6, <1>8, <2>1, <2>2, StopKeeps DEF PointHost
<1>9. CASE Spawn(outcome)
  <2>1. UNCHANGED <<edge, lost>> BY <1>9 DEF Spawn
  <2>2. CASE outcome = "done"
    <3> DEFINE process == IF errand = "spawn" THEN tunnel.cleanup ELSE Quick
    <3>1. process \in Processes BY <1>9 DEF Spawn, StagesKept, Processes
    <3>2. /\ tunnel' \in TunnelRecords /\ tunnel'.orphans = tunnel.orphans
          /\ tunnel'.told = tunnel.told /\ tunnel'.cleanup = tunnel.cleanup
      BY <1>1, <1>9, <2>2, <3>1 DEF Spawn, TunnelRecords
    <3>3. /\ alive' \in SUBSET Processes /\ errand' = "watch"
          /\ UNCHANGED <<cleaning, localProxy>>
      BY <1>1, <1>9, <2>2, <3>1 DEF Spawn
    <3>4. TunnelTypeOK' BY <1>1, <1>2, <2>1, <3>2, <3>3, TunnelTypes DEF Errands
    <3>5. StagesKept' BY <1>3, <2>1, <3>2, <3>3 DEF StagesKept, NothingToClean, Free
    <3>6. NothingForgotten' BY <2>1, <3>2, <3>3 DEF NothingForgotten, Pending
    <3> QED BY <3>4, <3>5, <3>6
  <2>3. CASE outcome # "done"
    BY <1>1, <1>2, <1>3, <1>4, <1>9, <2>1, <2>3, StopKeeps DEF Spawn
  <2> QED BY <2>2, <2>3
<1>10. CASE WatchEnds
  <2>1. UNCHANGED <<edge, lost>> BY <1>10 DEF WatchEnds
  <2>2. CASE Running
    <3>1. errand' = Free /\ UNCHANGED <<tunnel, cleaning, alive, localProxy>>
      BY <1>10, <2>2 DEF WatchEnds
    <3>2. Free \in Errands BY DEF Errands
    <3>3. TunnelTypeOK' BY <1>1, <1>2, <2>1, <3>1, <3>2, TunnelTypes
    <3>4. StagesKept' BY <1>3, <2>1, <3>1 DEF StagesKept, NothingToClean, Free
    <3>5. NothingForgotten' BY <2>1, <3>1 DEF NothingForgotten, Pending
    <3> QED BY <3>3, <3>4, <3>5
  <2>3. CASE ~Running
    BY <1>1, <1>2, <1>3, <1>4, <1>10, <2>1, <2>3, StopKeeps DEF WatchEnds
  <2> QED BY <2>2, <2>3
<1> QED BY <1>5, <1>7, <1>8, <1>9, <1>10

(* The commands that stop, the status, the process and the end of the app. *)
LEMMA OthersKeep ==
  ASSUME TunnelInv,
         \/ StopTunnel \/ StopProxy \/ ProxyStops \/ ProxyStarts \/ Status \/ Quit \/ AppEnds
         \/ \E next \in {"create", "spawn quick"} : StartTunnel(next)
         \/ \E id \in Tunnels : Connects(id)
         \/ \E process \in Processes : ProcessDies(process)
  PROVE  TunnelInv'
<1> USE FirstOfThese DEF TunnelInv
<1>1. /\ tunnel \in TunnelRecords /\ errand \in Errands /\ cleaning \in Cleanings
      /\ edge \in Edges /\ lost \in SUBSET Tunnels /\ alive \in SUBSET Processes
      /\ localProxy \in {"off", "on", "stopping"} /\ mishaps \in 0..MaxTunnelFaults
      /\ ends \in 0..MaxEnds
  BY TunnelTypes
<1>2. CASE \/ StopTunnel \/ StopProxy \/ Quit
           \/ \E next \in {"create", "spawn quick"} : StartTunnel(next)
  <2>1. PICK then \in Afterwards : StopsThen(then) /\ (then = "create" => edge.made < MaxTunnels)
    BY <1>2 DEF StopTunnel, StopProxy, StartTunnel, Quit, Afterwards, Free
  <2>2. errand # "clean" /\ UNCHANGED <<edge, lost, mishaps, ends>>
    BY <1>2 DEF StopTunnel, StopProxy, StartTunnel, Quit, Free
  <2> QED BY <1>1, <2>1, <2>2, StopKeeps
<1>3. CASE \/ ProxyStops \/ ProxyStarts
           \/ \E process \in Processes : ProcessDies(process)
  <2>1. UNCHANGED <<tunnel, errand, cleaning, edge, lost, ends>>
    BY <1>3 DEF ProxyStops, ProxyStarts, ProcessDies
  <2>2. localProxy' \in {"off", "on", "stopping"} /\ alive' \in SUBSET Processes
    BY <1>1, <1>3 DEF ProxyStops, ProxyStarts, ProcessDies
  <2>3. mishaps' \in 0..MaxTunnelFaults
    BY <1>1, <1>3, TunnelBounds, WithinBound DEF ProxyStops, ProxyStarts, ProcessDies
  <2>4. TunnelTypeOK' BY <1>1, <2>1, <2>2, <2>3, TunnelTypes
  <2> QED BY <2>1, <2>4 DEF StagesKept, NothingForgotten, Pending
<1>4. CASE Status
  <2>1. /\ tunnel' \in TunnelRecords /\ tunnel'.orphans = tunnel.orphans
        /\ tunnel'.told = tunnel.told /\ tunnel'.cleanup = tunnel.cleanup
    BY <1>1, <1>4 DEF Status, TunnelRecords
  <2>2. UNCHANGED <<errand, cleaning, edge, lost, alive, localProxy, mishaps, ends>>
    BY <1>4 DEF Status
  <2>3. TunnelTypeOK' BY <1>1, <2>1, <2>2, TunnelTypes
  <2> QED BY <2>1, <2>2, <2>3 DEF StagesKept, NothingForgotten, Pending
<1>5. ASSUME NEW id \in Tunnels, Connects(id) PROVE TunnelInv'
  <2>1. edge' \in Edges /\ edge'.tunnels = edge.tunnels /\ edge'.made = edge.made
    BY <1>1, <1>5 DEF Connects, Edges
  <2>2. UNCHANGED <<tunnel, errand, cleaning, lost, alive, localProxy, mishaps, ends>>
    BY <1>5 DEF Connects
  <2>3. TunnelTypeOK' BY <1>1, <2>1, <2>2, TunnelTypes
  <2> QED BY <2>1, <2>2, <2>3 DEF StagesKept, NothingForgotten, Pending
<1>6. CASE AppEnds
  <2>1. /\ tunnel' = FreshTunnel /\ errand' = Free /\ cleaning' = NothingToClean
        /\ lost' = lost \union edge.tunnels /\ localProxy' = "on"
        /\ UNCHANGED <<edge, alive, mishaps>>
    BY <1>6 DEF AppEnds
  <2>2. ends' \in 0..MaxEnds BY <1>1, <1>6, TunnelBounds, WithinBound DEF AppEnds
  <2>3. lost' \in SUBSET Tunnels BY <1>1, <2>1 DEF Edges
  <2>4. TunnelTypeOK' BY <1>1, <2>1, <2>2, <2>3, TunnelTypes DEF Errands
  <2>5. StagesKept' BY <2>1 DEF StagesKept, NothingToClean, FreshTunnel, Free
  <2>6. NothingForgotten' BY <2>1 DEF NothingForgotten, FreshTunnel
  <2> QED BY <2>4, <2>5, <2>6
<1> QED BY <1>2, <1>3, <1>4, <1>5, <1>6

LEMMA TunnelStep == TunnelInv /\ [TunnelNext]_tunnelVars => TunnelInv'
<1> SUFFICES ASSUME TunnelInv, [TunnelNext]_tunnelVars PROVE TunnelInv'
  OBVIOUS
<1>1. CASE UNCHANGED tunnelVars
  BY <1>1 DEF TunnelInv, TunnelTypeOK, StagesKept, NothingForgotten, Pending, tunnelVars
<1>2. CASE \/ \E id \in Tunnels, outcome \in Outcomes : Deletes(id, outcome)
           \/ \E id \in Tunnels : DropsConnections(id)
           \/ CleanupEnds
  <2>1. "done" \in Outcomes BY DEF Outcomes
  <2> QED BY <1>2, <2>1, CleaningKeeps
<1>3. CASE \/ \E outcome \in Outcomes :
                Create(outcome) \/ Configure(outcome) \/ PointHost(outcome) \/ Spawn(outcome)
           \/ WatchEnds
  <2>1. "done" \in Outcomes BY DEF Outcomes
  <2> QED BY <1>3, <2>1, StartKeeps
<1>4. CASE \/ StopTunnel \/ StopProxy \/ ProxyStops \/ ProxyStarts \/ Status \/ Quit \/ AppEnds
           \/ \E next \in {"create", "spawn quick"} : StartTunnel(next)
           \/ \E id \in Tunnels : Connects(id)
           \/ \E process \in Processes : ProcessDies(process)
  BY <1>4, OthersKeep
<1> QED BY <1>1, <1>2, <1>3, <1>4 DEF TunnelNext

(* However creating, deleting and the process fail, every tunnel the app   *)
(* made at Cloudflare and heard of is remembered until it is deleted, and  *)
(* one that is not the current tunnel is told of (tunnel.rs).              *)
THEOREM NoTunnelForgotten == TunnelSpec => []LeftoversAreKnown
<1>1. TunnelInv => LeftoversAreKnown
  <2> SUFFICES ASSUME TunnelInv PROVE LeftoversAreKnown
    OBVIOUS
  <2>1. edge.tunnels \ lost \subseteq Pending \union cleaning.left \union cleaning.failed
    BY DEF TunnelInv, NothingForgotten
  <2>2. ASSUME errand = Free, ~tunnel.told PROVE edge.tunnels \ lost \subseteq {tunnel.cleanup}
    <3>1. cleaning = NothingToClean BY <2>2 DEF TunnelInv, StagesKept, Free
    <3>2. tunnel.orphans = {} BY <2>2 DEF TunnelInv, NothingForgotten
    <3> QED BY <2>1, <3>1, <3>2 DEF Pending, NothingToClean
  <2> QED BY <2>1, <2>2 DEF LeftoversAreKnown
<1> QED BY <1>1, TunnelStart, TunnelStep, PTL DEF TunnelSpec

-----------------------------------------------------------------------------
(* Remote servers: an invariant of saves, removals and jobs step by step.  *)

(* The save under way, and a removal.                                      *)
Saves == [pc : {"password", "key", "carry", "forget", "persist"}, id : ServerIds,
          old : ServerIds, conf : Config, filled : {form[2] : form \in Forms},
          due : SUBSET (0..MaxSaves)]
Removals == [pc : {"unlisted"}, id : ServerIds, old : ServerIds, left : SUBSET SecretKinds]

(* An action on a server, with the configuration it was started on.        *)
Actions == {"look", "uninstall", "deploy"}
Work == [pc : {"secret", "clear", "place"} \cup Actions, id : ServerIds,
         conf : [site : Sites, mode : {form[1] : form \in Forms}], action : Actions]

RemotesTyped ==
  /\ ServersTypeOK /\ savings \in 0..MaxSaves
  /\ save \in Saves \cup Removals \cup {NoSave}
  /\ job \in [Jobs -> {NoJob} \cup Work]

(* At every step, not only between saves: a server given a secret has one  *)
(* of those it may have.                                                   *)
OwedKept ==
  \A k \in SecretKinds, s \in ServerIds : owed[k][s] # {} => secret[k][s] \in owed[k][s]

(* The secrets given are stored under the new id from their steps on, and  *)
(* the server's own was carried there if it still had it.                  *)
StoredUnderId(k) == k \in save.filled => secret[k][save.id] = savings
CarriedToId ==
  \A k \in SecretKinds : k = save.conf.mode /\ save.due # {} /\ k \notin save.filled =>
    0 \in save.due \/ secret[k][save.id] \in save.due
StagesStored ==
  /\ save.pc \in {"key", "carry", "forget", "persist"} => StoredUnderId("password")
  /\ save.pc \in {"carry", "forget", "persist"} => StoredUnderId("key")
  /\ save.pc \in {"forget", "persist"} => CarriedToId /\ (~Renames => save.due = {})
  /\ save.pc = "unlisted" => \A k \in SecretKinds : owed[k][save.id] = {}

SecretsInv == OwedKept /\ StagesStored

(* No unit is in the way of the one that is about to be placed, but for    *)
(* those that others placed since its way was cleared.                     *)
WayCleared ==
  \A j \in Jobs : job[j].pc = "place" =>
    \A s \in Installed : s # job[j].id /\ s \notin met[j] =>
      ~InTheWay(units[s], job[j].conf.site)

UnitsInv == UnitsApart /\ WayCleared

(* One secret, or what is known of it, is replaced.                        *)
PutAt(f, k, s, v) == [f EXCEPT ![k][s] = v]
LEMMA PutSecret ==
  ASSUME NEW f \in [SecretKinds -> [ServerIds -> 0..MaxSaves]],
         NEW k \in SecretKinds, NEW s \in ServerIds, NEW v \in 0..MaxSaves
  PROVE  /\ PutAt(f, k, s, v) \in [SecretKinds -> [ServerIds -> 0..MaxSaves]]
         /\ \A i \in SecretKinds, t \in ServerIds :
              PutAt(f, k, s, v)[i][t] = IF i = k /\ t = s THEN v ELSE f[i][t]
BY DEF PutAt

LEMMA PutOwed ==
  ASSUME NEW f \in [SecretKinds -> [ServerIds -> SUBSET (0..MaxSaves)]],
         NEW k \in SecretKinds, NEW s \in ServerIds, NEW v \in SUBSET (0..MaxSaves)
  PROVE  /\ PutAt(f, k, s, v) \in [SecretKinds -> [ServerIds -> SUBSET (0..MaxSaves)]]
         /\ \A i \in SecretKinds, t \in ServerIds :
              PutAt(f, k, s, v)[i][t] = IF i = k /\ t = s THEN v ELSE f[i][t]
BY DEF PutAt

LEMMA RemoteTypes ==
  RemotesTyped =>
    /\ servers \in [ServerIds -> Config \cup {NoServer}]
    /\ secret \in [SecretKinds -> [ServerIds -> 0..MaxSaves]]
    /\ owed \in [SecretKinds -> [ServerIds -> SUBSET (0..MaxSaves)]]
    /\ units \in [ServerIds -> Sites \cup {NoUnit}] /\ savings \in 0..MaxSaves
BY DEF RemotesTyped, ServersTypeOK

LEMMA RemotesStart == ServersInit => RemotesTyped /\ SecretsInv /\ UnitsInv
<1> SUFFICES ASSUME ServersInit PROVE RemotesTyped /\ SecretsInv /\ UnitsInv
  OBVIOUS
<1> USE ServerBounds DEF ServersInit
<1>1. save.pc = "none" BY DEF NoSave
<1>2. ServersTypeOK
  <2>1. \A k \in SecretKinds, t \in ServerIds : secret[k][t] = 0 /\ owed[k][t] = {} OBVIOUS
  <2>2. units \in [ServerIds -> Sites \cup {NoUnit}] OBVIOUS
  <2> QED BY <2>2 DEF ServersTypeOK
<1>3. RemotesTyped BY <1>1, <1>2 DEF RemotesTyped
<1>4. SecretsInv BY <1>1 DEF SecretsInv, OwedKept, StagesStored
<1>5. UnitsInv BY DEF UnitsInv, UnitsApart, WayCleared, Installed, NoJob
<1> QED BY <1>3, <1>4, <1>5

-----------------------------------------------------------------------------
(* Saves and removals.                                                     *)

LEMMA BeginKeeps ==
  ASSUME RemotesTyped, SecretsInv, NEW s \in ServerIds, NEW old \in ServerIds,
         NEW conf \in Config, NEW filled \in {form[2] : form \in Forms},
         SaveBegins(s, old, conf, filled)
  PROVE  RemotesTyped' /\ SecretsInv'
<1> USE ServerBounds DEF SaveBegins, overlaps
<1>1. /\ save' \in Saves /\ save'.pc = "password"
      /\ savings' \in 0..MaxSaves /\ UNCHANGED <<servers, secret, units, owed, job, met, crossed>>
  BY RemoteTypes DEF Saves, overlaps
<1>2. RemotesTyped' BY <1>1 DEF RemotesTyped, ServersTypeOK
<1>3. SecretsInv' BY <1>1 DEF SecretsInv, OwedKept, StagesStored
<1> QED BY <1>2, <1>3

LEMMA StartsKeep ==
  ASSUME RemotesTyped, SecretsInv, NEW s \in ServerIds, NEW old \in ServerIds,
         SaveStarts(s) \/ AdoptStarts(s, old)
  PROVE  RemotesTyped' /\ SecretsInv'
<1>1. CASE SaveStarts(s)
  <2>1. PICK site \in Sites \cup {Wrong}, form \in Forms :
          SaveBegins(s, s, [site |-> site, mode |-> form[1]], form[2])
    BY <1>1 DEF SaveStarts
  <2>2. [site |-> site, mode |-> form[1]] \in Config BY DEF Config
  <2> QED BY <2>1, <2>2, BeginKeeps
<1>2. CASE AdoptStarts(s, old)
  <2>1. PICK form \in Forms :
          s \in Installed /\ SaveBegins(s, old, [site |-> units[s], mode |-> form[1]], form[2])
    BY <1>2 DEF AdoptStarts
  <2>2. units[s] \in Sites BY <2>1, RemoteTypes DEF Installed
  <2>3. [site |-> units[s], mode |-> form[1]] \in Config BY <2>2 DEF Config
  <2> QED BY <2>1, <2>3, BeginKeeps
<1> QED BY <1>1, <1>2

(* What a step of the save does to its record.                             *)
MovedOn(w, pc) == [w EXCEPT !.pc = pc]
LEMMA StageGoes ==
  ASSUME NEW w \in Saves, NEW pc \in {"key", "carry", "persist"}
  PROVE  /\ MovedOn(w, pc) \in Saves
         /\ MovedOn(w, pc).pc = pc /\ MovedOn(w, pc).id = w.id /\ MovedOn(w, pc).old = w.old
         /\ MovedOn(w, pc).conf = w.conf /\ MovedOn(w, pc).filled = w.filled
         /\ MovedOn(w, pc).due = w.due
BY DEF Saves, MovedOn

(* A secret is replaced, and a server that was given one may have it.      *)
More(k, s, v) == IF owed[k][s] = {} THEN {} ELSE owed[k][s] \cup {v}
LEMMA OwedGrows ==
  ASSUME RemotesTyped, OwedKept, NEW kind \in SecretKinds, NEW id \in ServerIds,
         NEW v \in 0..MaxSaves, secret' = PutAt(secret, kind, id, v),
         owed' = PutAt(owed, kind, id, More(kind, id, v))
  PROVE  /\ secret' \in [SecretKinds -> [ServerIds -> 0..MaxSaves]]
         /\ owed' \in [SecretKinds -> [ServerIds -> SUBSET (0..MaxSaves)]]
         /\ \A k \in SecretKinds, s \in ServerIds :
              secret'[k][s] = IF k = kind /\ s = id THEN v ELSE secret[k][s]
         /\ OwedKept'
<1> USE RemoteTypes
<1> DEFINE more == More(kind, id, v)
<1>1. more \in SUBSET (0..MaxSaves) /\ (more # {} => v \in more) BY DEF More
<1> HIDE DEF more
<1>2. owed' = PutAt(owed, kind, id, more) BY DEF more
<1>3. /\ owed' \in [SecretKinds -> [ServerIds -> SUBSET (0..MaxSaves)]]
      /\ \A k \in SecretKinds, s \in ServerIds :
           owed'[k][s] = IF k = kind /\ s = id THEN more ELSE owed[k][s]
  <2>1. owed \in [SecretKinds -> [ServerIds -> SUBSET (0..MaxSaves)]] OBVIOUS
  <2> QED BY <1>1, <1>2, <2>1, PutOwed
<1>4. /\ secret' \in [SecretKinds -> [ServerIds -> 0..MaxSaves]]
      /\ \A k \in SecretKinds, s \in ServerIds :
           secret'[k][s] = IF k = kind /\ s = id THEN v ELSE secret[k][s]
  BY PutSecret
<1>5. OwedKept' BY <1>1, <1>3, <1>4 DEF OwedKept
<1> QED BY <1>3, <1>4, <1>5

LEMMA StoreKeeps ==
  ASSUME RemotesTyped, SecretsInv, NEW kind \in SecretKinds, NEW pc \in {"key", "carry"},
         (kind = "password" /\ pc = "key") \/ (kind = "key" /\ pc = "carry"),
         Stores(kind, pc)
  PROVE  RemotesTyped' /\ SecretsInv'
<1> USE RemoteTypes DEF Stores
<1>1. /\ save \in Saves /\ save.pc = kind /\ save' = MovedOn(save, pc)
      /\ UNCHANGED <<servers, job, bundled, units, savings, serverMishaps, met, crossed>>
  BY DEF RemotesTyped, Removals, NoSave, MovedOn, overlaps
<1>2. /\ save' \in Saves /\ save'.pc = pc /\ save'.id = save.id /\ save'.old = save.old
      /\ save'.conf = save.conf /\ save'.filled = save.filled /\ save'.due = save.due
  <2>1. pc \in {"key", "carry", "persist"} OBVIOUS
  <2> QED BY ONLY <1>1, <2>1, StageGoes
<1>3. save.id \in ServerIds BY <1>1 DEF Saves
<1>4. /\ secret' \in [SecretKinds -> [ServerIds -> 0..MaxSaves]]
      /\ owed' \in [SecretKinds -> [ServerIds -> SUBSET (0..MaxSaves)]]
      /\ \A k \in SecretKinds, s \in ServerIds :
           secret'[k][s] = IF k = kind /\ s = save.id /\ kind \in save.filled
                           THEN savings ELSE secret[k][s]
      /\ OwedKept'
  <2>1. CASE kind \in save.filled
    <3>1. secret' = PutAt(secret, kind, save.id, savings)
          /\ owed' = PutAt(owed, kind, save.id, More(kind, save.id, savings))
      BY <2>1 DEF PutAt, More
    <3> QED BY <1>3, <2>1, <3>1, OwedGrows DEF SecretsInv
  <2>2. CASE kind \notin save.filled
    BY <2>2 DEF SecretsInv, OwedKept
  <2> QED BY <2>1, <2>2
<1>5. RemotesTyped' BY <1>1, <1>2, <1>4 DEF RemotesTyped, ServersTypeOK
<1>6. StagesStored'
  <2>1. savings' = savings /\ "password" \in SecretKinds /\ "key" \in SecretKinds
    BY <1>1 DEF SecretKinds
  <2>2. kind \in save'.filled => secret'[kind][save'.id] = savings' BY <1>2, <1>3, <1>4, <2>1
  <2>3. kind = "key" => ("password" \in save'.filled => secret'["password"][save'.id] = savings')
    BY <1>1, <1>2, <1>3, <1>4, <2>1 DEF SecretsInv, StagesStored, StoredUnderId
  <2> QED BY <1>2, <2>2, <2>3 DEF StagesStored, StoredUnderId
<1> QED BY <1>4, <1>5, <1>6 DEF SecretsInv

(* Carried, the secret is one the server may have; it had lost its own if  *)
(* there is none to carry.                                                 *)
LEMMA CarryKeeps ==
  ASSUME RemotesTyped, SecretsInv, Carries PROVE RemotesTyped' /\ SecretsInv'
<1> USE RemoteTypes DEF Carries
<1> DEFINE mode == save.conf.mode
<1>1. /\ save \in Saves /\ save.pc = "carry"
      /\ UNCHANGED <<servers, job, bundled, units, savings, serverMishaps, met, crossed>>
  BY DEF RemotesTyped, Removals, NoSave, overlaps
<1>2. save.id \in ServerIds /\ save.old \in ServerIds BY <1>1 DEF Saves
<1>3. /\ save' \in Saves /\ save'.pc = "forget" /\ save'.id = save.id /\ save'.old = save.old
      /\ save'.conf = save.conf /\ save'.filled = save.filled
      /\ save'.due = IF MovesSecret THEN owed[mode][save.old] ELSE {}
  <2> DEFINE due == IF MovesSecret THEN owed[mode][save.old] ELSE {}
  <2>1. due \in SUBSET (0..MaxSaves) BY <1>2 DEF MovesSecret
  <2>2. save' = [save EXCEPT !.pc = "forget", !.due = due] OBVIOUS
  <2> HIDE DEF due
  <2>3. /\ save' \in Saves /\ save'.pc = "forget" /\ save'.id = save.id /\ save'.old = save.old
        /\ save'.conf = save.conf /\ save'.filled = save.filled /\ save'.due = due
    BY <1>1, <2>1, <2>2 DEF Saves
  <2> QED BY <2>3 DEF due
<1> DEFINE v == secret[mode][save.old]
<1>4. /\ secret' \in [SecretKinds -> [ServerIds -> 0..MaxSaves]]
      /\ owed' \in [SecretKinds -> [ServerIds -> SUBSET (0..MaxSaves)]]
      /\ \A k \in SecretKinds, s \in ServerIds :
           secret'[k][s] = IF k = mode /\ s = save.id /\ MovesSecret /\ Carried(mode)
                           THEN v ELSE secret[k][s]
      /\ OwedKept'
  <2>1. CASE MovesSecret /\ Carried(mode)
    <3>1. mode \in SecretKinds BY <2>1 DEF MovesSecret
    <3>2. v \in 0..MaxSaves BY <1>2, <3>1
    <3>3. secret' = PutAt(secret, mode, save.id, v)
          /\ owed' = PutAt(owed, mode, save.id, More(mode, save.id, v))
      BY <2>1 DEF PutAt, More
    <3> HIDE DEF v, mode
    <3>4. OwedKept BY DEF SecretsInv
    <3> QED BY ONLY <1>2, <2>1, <3>1, <3>2, <3>3, <3>4, RemotesTyped, OwedGrows
  <2>2. CASE ~(MovesSecret /\ Carried(mode))
    BY <2>2 DEF SecretsInv, OwedKept
  <2> QED BY <2>1, <2>2
<1>5. RemotesTyped' BY <1>1, <1>3, <1>4 DEF RemotesTyped, ServersTypeOK
<1>6. "password" \in SecretKinds /\ "key" \in SecretKinds BY DEF SecretKinds
<1>7. \A k \in SecretKinds : StoredUnderId(k)'
  <2> SUFFICES ASSUME NEW k \in SecretKinds, k \in save.filled
               PROVE  secret'[k][save.id] = savings
    BY <1>1, <1>3 DEF StoredUnderId
  <2>1. secret[k][save.id] = savings
    BY <1>1 DEF SecretsInv, StagesStored, StoredUnderId, SecretKinds
  <2> QED BY <1>2, <1>4, <2>1 DEF Carried
<1>8. CarriedToId'
  <2> SUFFICES ASSUME NEW k \in SecretKinds, k = mode, save'.due # {}, k \notin save.filled,
                      0 \notin save'.due
               PROVE  secret'[k][save.id] \in save'.due
    BY <1>3 DEF CarriedToId
  <2>1. MovesSecret /\ save'.due = owed[mode][save.old] BY <1>3
  <2>2. v \in save'.due BY <1>2, <2>1 DEF SecretsInv, OwedKept
  <2>3. Carried(mode) BY <2>2 DEF Carried
  <2> QED BY <1>2, <1>4, <2>1, <2>2, <2>3
<1>9. ~Renames' => save'.due = {} BY <1>3 DEF Renames, MovesSecret
<1>10. StagesStored' BY <1>3, <1>6, <1>7, <1>8, <1>9 DEF StagesStored
<1> QED BY <1>4, <1>5, <1>10 DEF SecretsInv

LEMMA ForgetKeeps ==
  ASSUME RemotesTyped, SecretsInv, ForgetsOld PROVE RemotesTyped' /\ SecretsInv'
<1> USE RemoteTypes, ServerBounds DEF ForgetsOld
<1> DEFINE mode == save.conf.mode
<1>1. /\ save \in Saves /\ save.pc = "forget" /\ save' = MovedOn(save, "persist")
      /\ UNCHANGED <<servers, job, bundled, units, savings, serverMishaps, met, crossed>>
  BY DEF RemotesTyped, Removals, NoSave, MovedOn, overlaps
<1>2. save.id \in ServerIds /\ save.old \in ServerIds BY <1>1 DEF Saves
<1>3. /\ save' \in Saves /\ save'.pc = "persist" /\ save'.id = save.id /\ save'.old = save.old
      /\ save'.conf = save.conf /\ save'.filled = save.filled /\ save'.due = save.due
  <2>1. "persist" \in {"key", "carry", "persist"} OBVIOUS
  <2> QED BY ONLY <1>1, <2>1, StageGoes
<1>4. /\ secret' \in [SecretKinds -> [ServerIds -> 0..MaxSaves]]
      /\ owed' \in [SecretKinds -> [ServerIds -> SUBSET (0..MaxSaves)]]
      /\ \A k \in SecretKinds, s \in ServerIds :
           secret'[k][s] = IF k = mode /\ s = save.old /\ MovesSecret THEN 0 ELSE secret[k][s]
      /\ OwedKept'
  <2>1. CASE MovesSecret
    <3>1. mode \in SecretKinds BY <2>1 DEF MovesSecret
    <3>2. 0 \in 0..MaxSaves OBVIOUS
    <3>3. secret' = PutAt(secret, mode, save.old, 0)
          /\ owed' = PutAt(owed, mode, save.old, More(mode, save.old, 0))
      BY <2>1 DEF PutAt, More
    <3> HIDE DEF mode
    <3>4. OwedKept BY DEF SecretsInv
    <3> QED BY ONLY <1>2, <2>1, <3>1, <3>2, <3>3, <3>4, RemotesTyped, OwedGrows
  <2>2. CASE ~MovesSecret BY <2>2 DEF SecretsInv, OwedKept
  <2> QED BY <2>1, <2>2
<1>5. RemotesTyped' BY <1>1, <1>3, <1>4 DEF RemotesTyped, ServersTypeOK
<1>6. \A k \in SecretKinds : secret'[k][save.id] = secret[k][save.id]
  BY <1>2, <1>4 DEF MovesSecret, Renames
<1>7. "password" \in SecretKinds /\ "key" \in SecretKinds BY DEF SecretKinds
<1>8. StoredUnderId("password") /\ StoredUnderId("key") /\ CarriedToId
      /\ (~Renames => save.due = {})
  BY <1>1 DEF SecretsInv, StagesStored
<1>9. StoredUnderId("password")' /\ StoredUnderId("key")'
  BY <1>1, <1>3, <1>6, <1>7, <1>8 DEF StoredUnderId
<1>10. CarriedToId' BY <1>3, <1>6, <1>8 DEF CarriedToId
<1>11. ~Renames' => save'.due = {} BY <1>3, <1>8 DEF Renames
<1>12. StagesStored' BY <1>3, <1>9, <1>10, <1>11 DEF StagesStored
<1> QED BY <1>4, <1>5, <1>12 DEF SecretsInv

(* A saved server has what it is owed: the secret given, its own carried   *)
(* over or what was left there in its place, or what it had.               *)
LEMMA DueIsThere ==
  ASSUME RemotesTyped, SecretsInv, save \in Saves, save.pc = "persist", NEW k \in SecretKinds
  PROVE  Due(k) \in SUBSET (0..MaxSaves) /\ (Due(k) # {} => secret[k][save.id] \in Due(k))
<1> USE RemoteTypes
<1> DEFINE before == IF save.id \in Listed THEN owed[k][save.id] ELSE {}
<1>1. save.id \in ServerIds /\ save.due \in SUBSET (0..MaxSaves) BY DEF Saves
<1>2. before \in SUBSET (0..MaxSaves) /\ (before # {} => secret[k][save.id] \in before)
  BY <1>1 DEF SecretsInv, OwedKept
<1>3. StoredUnderId(k) /\ CarriedToId BY DEF SecretsInv, StagesStored, SecretKinds
<1>4. CASE k \in save.filled
  <2>1. Due(k) = {savings} BY <1>4 DEF Due
  <2> QED BY <1>3, <1>4, <2>1 DEF StoredUnderId
<1>5. CASE k \notin save.filled /\ k = save.conf.mode /\ save.due # {}
  <2>1. Due(k) = IF 0 \in save.due THEN save.due \cup {secret[k][save.id]} ELSE save.due
    BY <1>5 DEF Due
  <2>2. 0 \in save.due \/ secret[k][save.id] \in save.due BY <1>3, <1>5 DEF CarriedToId
  <2> QED BY <1>1, <2>1, <2>2
<1>6. CASE k \notin save.filled /\ ~(k = save.conf.mode /\ save.due # {})
  <2>1. Due(k) = before BY <1>6 DEF Due
  <2> QED BY <1>2, <2>1
<1> QED BY <1>4, <1>5, <1>6

LEMMA PersistKeeps ==
  ASSUME RemotesTyped, SecretsInv, Persists PROVE RemotesTyped' /\ SecretsInv'
<1>1. /\ save \in Saves /\ save.pc = "persist" /\ save' = NoSave
      /\ UNCHANGED <<secret, job, bundled, units, savings, serverMishaps, met, crossed>>
  BY DEF RemotesTyped, Removals, NoSave, Persists, overlaps
<1>2. save.id \in ServerIds /\ save.conf \in Config BY <1>1 DEF Saves
<1>3. servers' \in [ServerIds -> Config \cup {NoServer}]
  <2>1. \A s \in ServerIds : servers[s] \in Config \cup {NoServer} BY RemoteTypes
  <2>2. servers' = [s \in ServerIds |-> CASE s = save.id -> save.conf
                                         [] s # save.id /\ s = save.old -> NoServer
                                         [] OTHER -> servers[s]]
    BY DEF Persists
  <2> QED BY ONLY <1>2, <2>1, <2>2
<1>4. /\ owed' \in [SecretKinds -> [ServerIds -> SUBSET (0..MaxSaves)]]
      /\ \A k \in SecretKinds, s \in ServerIds :
           owed'[k][s] \in IF s = save.id THEN {Due(k)} ELSE {{}, owed[k][s]}
  <2>1. owed' = [k \in SecretKinds |-> [s \in ServerIds |-> CASE s = save.id -> Due(k)
                                                     [] s # save.id /\ s = save.old -> {}
                                                     [] OTHER -> owed[k][s]]]
    BY DEF Persists
  <2>2. \A k \in SecretKinds : Due(k) \in SUBSET (0..MaxSaves) BY <1>1, DueIsThere
  <2>3. \A k \in SecretKinds, s \in ServerIds : owed[k][s] \in SUBSET (0..MaxSaves) BY RemoteTypes
  <2>4. \A k \in SecretKinds, s \in ServerIds :
          (CASE s = save.id -> Due(k)
             [] s # save.id /\ s = save.old -> {}
             [] OTHER -> owed[k][s]) \in (SUBSET (0..MaxSaves)) \cap
                                         (IF s = save.id THEN {Due(k)} ELSE {{}, owed[k][s]})
    BY ONLY <2>2, <2>3
  <2> QED BY ONLY <2>1, <2>4
<1>5. RemotesTyped' BY <1>1, <1>3, <1>4 DEF RemotesTyped, ServersTypeOK
<1>6. OwedKept'
  <2> SUFFICES ASSUME NEW k \in SecretKinds, NEW s \in ServerIds, owed'[k][s] # {}
               PROVE  secret'[k][s] \in owed'[k][s]
    BY DEF OwedKept
  <2>1. CASE s = save.id BY <1>1, <1>4, <2>1, DueIsThere
  <2>2. CASE s # save.id BY <1>1, <1>4, <2>2 DEF SecretsInv, OwedKept
  <2> QED BY <2>1, <2>2
<1>7. StagesStored' BY <1>1 DEF StagesStored, NoSave
<1> QED BY <1>5, <1>6, <1>7 DEF SecretsInv

(* A removed server is owed nothing, so nothing of it is missed.           *)
LEMMA RemoveKeeps ==
  ASSUME RemotesTyped, SecretsInv, NEW s \in ServerIds, RemoveStarts(s)
  PROVE  RemotesTyped' /\ SecretsInv'
<1>1. /\ save' = [pc |-> "unlisted", id |-> s, old |-> s, left |-> SecretKinds]
      /\ servers' = [servers EXCEPT ![s] = NoServer]
      /\ owed' = [k \in SecretKinds |-> [owed[k] EXCEPT ![s] = {}]]
      /\ savings' = savings + 1 /\ savings < MaxSaves
      /\ UNCHANGED <<secret, job, bundled, units, serverMishaps, met, crossed>>
  BY DEF RemoveStarts, overlaps
<1>2. savings' \in 0..MaxSaves BY <1>1, RemoteTypes, ServerBounds
<1>3. servers' \in [ServerIds -> Config \cup {NoServer}] BY <1>1, RemoteTypes
<1>4. /\ owed' \in [SecretKinds -> [ServerIds -> SUBSET (0..MaxSaves)]]
      /\ \A k \in SecretKinds, t \in ServerIds :
           owed'[k][t] = IF t = s THEN {} ELSE owed[k][t]
  <2>1. owed \in [SecretKinds -> [ServerIds -> SUBSET (0..MaxSaves)]] BY RemoteTypes
  <2> QED BY ONLY <1>1, <2>1
<1>5. save' \in Removals BY <1>1 DEF Removals
<1>6. RemotesTyped' BY <1>1, <1>2, <1>3, <1>4, <1>5 DEF RemotesTyped, ServersTypeOK
<1>7. OwedKept' BY <1>1, <1>4 DEF SecretsInv, OwedKept
<1>8. StagesStored' BY <1>1, <1>4 DEF StagesStored
<1> QED BY <1>6, <1>7, <1>8 DEF SecretsInv

LEMMA ForgetRemovedKeeps ==
  ASSUME RemotesTyped, SecretsInv, NEW kind \in SecretKinds, ForgetsRemoved(kind)
  PROVE  RemotesTyped' /\ SecretsInv'
<1>1. /\ save \in Removals /\ save.pc = "unlisted"
      /\ secret' = PutAt(secret, kind, save.id, 0)
      /\ save' = IF kind = "key" THEN NoSave ELSE [save EXCEPT !.left = {"key"}]
      /\ UNCHANGED <<servers, job, bundled, units, owed, savings, serverMishaps, met, crossed>>
  BY DEF RemotesTyped, Saves, NoSave, ForgetsRemoved, PutAt, overlaps
<1>2. save' = NoSave \/ (save' \in Removals /\ save'.pc = "unlisted" /\ save'.id = save.id)
  BY <1>1 DEF Removals, SecretKinds
<1>3. save.id \in ServerIds BY <1>1 DEF Removals
<1>4. /\ secret' \in [SecretKinds -> [ServerIds -> 0..MaxSaves]]
      /\ \A k \in SecretKinds, s \in ServerIds :
           secret'[k][s] = IF k = kind /\ s = save.id THEN 0 ELSE secret[k][s]
  <2>1. 0 \in 0..MaxSaves BY ServerBounds
  <2>2. secret \in [SecretKinds -> [ServerIds -> 0..MaxSaves]] BY RemoteTypes
  <2> QED BY ONLY <1>1, <1>3, <2>1, <2>2 DEF PutAt
<1>5. RemotesTyped' BY <1>1, <1>2, <1>4 DEF RemotesTyped, ServersTypeOK
<1>6. \A k \in SecretKinds : owed[k][save.id] = {} BY <1>1 DEF SecretsInv, StagesStored
<1>7. OwedKept' BY <1>1, <1>4, <1>6 DEF SecretsInv, OwedKept
<1>8. StagesStored' BY <1>1, <1>2, <1>6 DEF StagesStored, NoSave
<1> QED BY <1>5, <1>7, <1>8 DEF SecretsInv

LEMMA StopUnitKeeps ==
  ASSUME RemotesTyped, SecretsInv, SaveStops PROVE RemotesTyped' /\ SecretsInv'
<1>1. save' = NoSave /\ UNCHANGED <<servers, secret, job, bundled, units, owed, savings, met, crossed>>
  BY DEF SaveStops, overlaps
<1>2. RemotesTyped' BY <1>1 DEF RemotesTyped, ServersTypeOK
<1>3. SecretsInv' BY <1>1 DEF SecretsInv, OwedKept, StagesStored, NoSave
<1> QED BY <1>2, <1>3

-----------------------------------------------------------------------------
(* The machine.                                                            *)

(* What an action leaves alone, and that a job ends or moves on.           *)
Elsewhere(j) ==
  /\ UNCHANGED <<servers, secret, save, bundled, owed, savings>>
  /\ \A i \in Jobs : i # j => job'[i] = job[i]
LEMMA JobKeeps ==
  ASSUME RemotesTyped, SecretsInv, NEW j \in Jobs, Elsewhere(j),
         job' \in [Jobs -> {NoJob} \cup Work], units' \in [ServerIds -> Sites \cup {NoUnit}],
         met' \in [Jobs -> SUBSET ServerIds], crossed' \in SUBSET (SUBSET ServerIds)
  PROVE  RemotesTyped' /\ SecretsInv'
<1>1. RemotesTyped' BY DEF RemotesTyped, ServersTypeOK, Elsewhere
<1>2. UNCHANGED <<secret, save, owed, savings>> BY DEF Elsewhere
<1>3. OwedKept' BY <1>2 DEF SecretsInv, OwedKept
<1>4. StagesStored'
  <2>1. CarriedToId' = CarriedToId BY <1>2 DEF CarriedToId
  <2>2. \A k \in SecretKinds : StoredUnderId(k)' = StoredUnderId(k) BY <1>2 DEF StoredUnderId
  <2>3. Renames' = Renames BY <1>2 DEF Renames
  <2> QED BY <1>2, <2>1, <2>2, <2>3 DEF SecretsInv, StagesStored, SecretKinds
<1> QED BY <1>1, <1>3, <1>4 DEF SecretsInv
(* Reading, looking and deploying move a job on, uninstalling, clearing and*)
(* placing change the units too; a broken connection ends it.              *)
LEMMA JobSteps ==
  ASSUME RemotesTyped, NEW j \in Jobs,
         \/ \E s \in ServerIds, action \in Actions : JobStarts(j, s, action)
         \/ ReadsSecret(j) \/ Looks(j) \/ Uninstalls(j) \/ Deploys(j) \/ Clears(j)
         \/ Places(j) \/ JobFails(j)
  PROVE  /\ Elsewhere(j) /\ job' \in [Jobs -> {NoJob} \cup Work]
         /\ units' \in [ServerIds -> Sites \cup {NoUnit}]
         /\ (job'[j].pc = "place" => Clears(j) /\ job'[j].id = job[j].id /\ job'[j].conf = job[j].conf)
<1>1. job \in [Jobs -> {NoJob} \cup Work] /\ job[j] \in {NoJob} \cup Work BY DEF RemotesTyped
<1>2. units \in [ServerIds -> Sites \cup {NoUnit}] BY RemoteTypes
<1>3. ASSUME JobEnds(j)
      PROVE  /\ job' \in [Jobs -> {NoJob} \cup Work] /\ job'[j] = NoJob
             /\ \A i \in Jobs : i # j => job'[i] = job[i]
  BY <1>1, <1>3 DEF JobEnds
<1>4. ASSUME NEW pc \in {"clear", "place"} \cup Actions, JobGoesTo(j, pc), job[j] \in Work
      PROVE  /\ job' \in [Jobs -> {NoJob} \cup Work]
             /\ job'[j].pc = pc /\ job'[j].id = job[j].id /\ job'[j].conf = job[j].conf
             /\ \A i \in Jobs : i # j => job'[i] = job[i]
  <2>1. [job[j] EXCEPT !.pc = pc] \in Work /\ [job[j] EXCEPT !.pc = pc].pc = pc
        /\ [job[j] EXCEPT !.pc = pc].id = job[j].id /\ [job[j] EXCEPT !.pc = pc].conf = job[j].conf
    BY <1>4 DEF Work
  <2>2. job' = [job EXCEPT ![j] = [job[j] EXCEPT !.pc = pc]] BY <1>4 DEF JobGoesTo
  <2> QED BY <1>1, <2>1, <2>2
<1>5. job[j].pc # "none" => job[j] \in Work BY <1>1 DEF NoJob
<1>6. CASE \E s \in ServerIds, action \in Actions : JobStarts(j, s, action)
  <2>1. PICK s \in ServerIds, action \in Actions : JobStarts(j, s, action) BY <1>6
  <2>2. servers[s] \in Config /\ servers[s].site \in Sites
    BY <2>1, RemoteTypes DEF JobStarts, Listed, Valid, Config
  <2>3. servers[s] \in [site : Sites, mode : {form[1] : form \in Forms}] BY <2>2 DEF Config
  <2> DEFINE work == [pc |-> "secret", id |-> s, conf |-> servers[s], action |-> action]
  <2>4. work \in Work /\ work.pc = "secret" BY <2>3 DEF Work
  <2>5. job' = [job EXCEPT ![j] = work] /\ UNCHANGED <<servers, secret, save, bundled, units, owed, savings>>
    BY <2>1 DEF JobStarts
  <2> HIDE DEF work
  <2> QED BY <1>1, <1>2, <2>4, <2>5 DEF Elsewhere
<1>7. CASE ReadsSecret(j)
  <2>1. /\ job[j].pc = "secret" /\ UNCHANGED <<servers, secret, save, bundled, units, owed, savings>>
        /\ JobEnds(j) \/ JobGoesTo(j, job[j].action)
    BY <1>7 DEF ReadsSecret
  <2>2. job[j].action \in Actions BY <1>5, <2>1 DEF Work
  <2>3. CASE JobEnds(j) BY <1>2, <1>3, <2>1, <2>3 DEF Elsewhere, NoJob
  <2>4. CASE JobGoesTo(j, job[j].action)
    BY <1>2, <1>4, <1>5, <2>1, <2>2, <2>4 DEF Elsewhere, Actions
  <2> QED BY <2>1, <2>3, <2>4
<1>8. CASE Looks(j) \/ JobFails(j)
  <2>1. JobEnds(j) /\ UNCHANGED <<servers, secret, save, bundled, units, owed, savings>>
    BY <1>8 DEF Looks, JobFails
  <2> QED BY <1>2, <1>3, <2>1 DEF Elsewhere, NoJob
<1>9. CASE Uninstalls(j) \/ Places(j)
  <2>1. /\ JobEnds(j) /\ UNCHANGED <<servers, secret, save, bundled, owed, savings>>
        /\ job[j].pc \in {"uninstall", "place"}
        /\ \E unit \in {NoUnit, job[j].conf.site} : units' = [units EXCEPT ![job[j].id] = unit]
    BY <1>9 DEF Uninstalls, Places
  <2>2. job[j].conf.site \in Sites BY <1>5, <2>1 DEF Work
  <2>3. units' \in [ServerIds -> Sites \cup {NoUnit}] BY <1>2, <2>1, <2>2
  <2> QED BY <1>3, <2>1, <2>3 DEF Elsewhere, NoJob
<1>10. CASE Deploys(j)
  <2>1. /\ JobEnds(j) \/ JobGoesTo(j, "clear")
        /\ job[j].pc = "deploy" /\ UNCHANGED <<servers, secret, save, bundled, units, owed, savings>>
    BY <1>10 DEF Deploys
  <2>2. CASE JobEnds(j) BY <1>2, <1>3, <2>1, <2>2 DEF Elsewhere, NoJob
  <2>3. CASE JobGoesTo(j, "clear") BY <1>2, <1>4, <1>5, <2>1, <2>3 DEF Elsewhere
  <2> QED BY <2>1, <2>2, <2>3
<1>11. CASE Clears(j)
  <2>1. /\ JobGoesTo(j, "place") /\ job[j].pc = "clear"
        /\ UNCHANGED <<servers, secret, save, bundled, owed, savings>>
        /\ units' = [s \in ServerIds |->
             IF s # job[j].id /\ units[s] # NoUnit /\ InTheWay(units[s], job[j].conf.site)
             THEN NoUnit ELSE units[s]]
    BY <1>11 DEF Clears
  <2>2. units' \in [ServerIds -> Sites \cup {NoUnit}] BY <1>2, <2>1
  <2> QED BY <1>4, <1>5, <1>11, <2>1, <2>2 DEF Elsewhere
<1> QED BY <1>6, <1>7, <1>8, <1>9, <1>10, <1>11

(* What overlaps is noted where a unit is placed, and forgotten where an   *)
(* action on the machine breaks off.                                       *)
LEMMA OverlapsStep ==
  ASSUME RemotesTyped, NEW j \in Jobs,
         \/ \E s \in ServerIds, action \in Actions : JobStarts(j, s, action)
         \/ ReadsSecret(j) \/ Looks(j) \/ Uninstalls(j) \/ Deploys(j) \/ Clears(j)
         \/ Places(j) \/ JobFails(j)
  PROVE  /\ met' \in [Jobs -> SUBSET ServerIds] /\ crossed' \in SUBSET (SUBSET ServerIds)
         /\ ~Places(j) => crossed' = crossed /\ \A i \in Jobs : i # j => met'[i] = met[i]
         /\ Places(j) => \A i \in Jobs :
              i # j /\ job[i].pc = "place" => met'[i] = met[i] \cup {job[j].id}
<1>1. met \in [Jobs -> SUBSET ServerIds] /\ crossed \in SUBSET (SUBSET ServerIds)
  BY DEF RemotesTyped, ServersTypeOK
<1>2. CASE Places(j)
  <2>1. /\ job[j].pc = "place"
        /\ met' = [i \in Jobs |-> IF i # j /\ job[i].pc = "place" THEN met[i] \cup {job[j].id} ELSE {}]
        /\ crossed' = {pair \in crossed : job[j].id \notin pair}
                       \cup {{job[j].id, s} : s \in met[j] \ {job[j].id}}
    BY <1>2 DEF Places
  <2>2. job[j] \in Work BY <2>1 DEF RemotesTyped, NoJob
  <2>3. job[j].id \in ServerIds BY <2>2 DEF Work
  <2>4. met' \in [Jobs -> SUBSET ServerIds] BY <1>1, <2>1, <2>3
  <2>5. crossed' \in SUBSET (SUBSET ServerIds) BY <1>1, <2>1, <2>3
  <2> QED BY <1>2, <2>1, <2>4, <2>5
<1>3. CASE ~Places(j)
  <2>1. crossed' = crossed /\ (met' = met \/ met' = [met EXCEPT ![j] = {}])
    BY <1>3 DEF JobStarts, ReadsSecret, Looks, Uninstalls, Deploys, Clears, JobFails, overlaps
  <2> QED BY <1>1, <1>3, <2>1
<1> QED BY <1>2, <1>3

(* What an installation cleared stays clear, but for what the others that  *)
(* overlap with it place.                                                  *)
LEMMA UnitsKeep ==
  ASSUME RemotesTyped, UnitsInv, NEW j \in Jobs,
         \/ \E s \in ServerIds, action \in Actions : JobStarts(j, s, action)
         \/ ReadsSecret(j) \/ Looks(j) \/ Uninstalls(j) \/ Deploys(j) \/ Clears(j)
         \/ Places(j) \/ JobFails(j)
  PROVE  UnitsInv'
<1>1. /\ job' \in [Jobs -> {NoJob} \cup Work] /\ \A i \in Jobs : i # j => job'[i] = job[i]
      /\ (job'[j].pc = "place" => Clears(j) /\ job'[j].id = job[j].id /\ job'[j].conf = job[j].conf)
  BY JobSteps DEF Elsewhere
<1>2. units \in [ServerIds -> Sites \cup {NoUnit}] BY RemoteTypes
<1>3. ASSUME Places(j)
      PROVE  /\ job[j].pc = "place"
             /\ \A r \in ServerIds : units'[r] = IF r = job[j].id THEN job[j].conf.site ELSE units[r]
  <2>1. units' = [units EXCEPT ![job[j].id] = job[j].conf.site] /\ job[j].pc = "place"
    BY <1>3 DEF Places
  <2> QED BY <1>2, <2>1
<1>4. ASSUME ~Places(j) PROVE \A r \in ServerIds : units'[r] \in {NoUnit, units[r]}
  BY <1>2, <1>4 DEF JobStarts, ReadsSecret, Looks, Uninstalls, Deploys, Clears, JobFails
<1>5. WayCleared'
  <2> SUFFICES ASSUME NEW i \in Jobs, job'[i].pc = "place", NEW s \in ServerIds,
                      units'[s] # NoUnit, s # job'[i].id, s \notin met'[i]
               PROVE  ~InTheWay(units'[s], job'[i].conf.site)
    BY DEF WayCleared, Installed, InTheWay
  <2>1. CASE i = j
    <3>1. units'[s] = IF s # job[j].id /\ units[s] # NoUnit /\ InTheWay(units[s], job[j].conf.site)
                      THEN NoUnit ELSE units[s]
      BY <1>1, <2>1 DEF Clears
    <3> QED BY <1>1, <2>1, <3>1
  <2>2. CASE i # j
    <3>1. job'[i] = job[i] /\ job[i].pc = "place" BY <1>1, <2>2
    <3>2. units'[s] = units[s] /\ s \notin met[i]
      <4>1. CASE Places(j)
        <5>1. met'[i] = met[i] \cup {job[j].id} BY <2>2, <3>1, <4>1, OverlapsStep
        <5> QED BY <1>3, <4>1, <5>1
      <4>2. CASE ~Places(j) BY <1>4, <2>2, <4>2, OverlapsStep
      <4> QED BY <4>1, <4>2
    <3> QED BY <3>1, <3>2 DEF UnitsInv, WayCleared, Installed
  <2> QED BY <2>1, <2>2
<1>6. UnitsApart'
  <2> SUFFICES ASSUME NEW s \in ServerIds, NEW t \in ServerIds, s # t,
                      units'[s] # NoUnit, units'[t] # NoUnit, {s, t} \notin crossed'
               PROVE  ~InTheWay(units'[s], units'[t])
    BY DEF UnitsApart, Installed, InTheWay
  <2>1. ASSUME units[s] # NoUnit, units[t] # NoUnit, {s, t} \notin crossed
        PROVE  ~InTheWay(units[s], units[t])
    BY <2>1 DEF UnitsInv, UnitsApart, Installed, InTheWay
  <2>2. CASE Places(j)
    <3>1. crossed' = {pair \in crossed : job[j].id \notin pair}
                     \cup {{job[j].id, r} : r \in met[j] \ {job[j].id}}
      BY <2>2 DEF Places
    <3>2. ASSUME NEW r \in ServerIds, r # job[j].id, units[r] # NoUnit,
                 {job[j].id, r} \notin crossed'
          PROVE  ~InTheWay(units[r], job[j].conf.site)
      <4>1. r \notin met[j] BY <3>1, <3>2
      <4> QED BY <1>3, <2>2, <3>2, <4>1 DEF UnitsInv, WayCleared, Installed
    <3>3. CASE s # job[j].id /\ t # job[j].id
      <4>1. {s, t} \notin crossed BY <3>1, <3>3
      <4> QED BY <1>3, <2>1, <2>2, <3>3, <4>1
    <3>4. CASE s = job[j].id
      <4>1. ~InTheWay(units[t], job[j].conf.site) BY <1>3, <2>2, <3>2, <3>4
      <4> QED BY <1>3, <2>2, <3>4, <4>1 DEF InTheWay
    <3>5. CASE t = job[j].id
      <4>1. {t, s} = {s, t} OBVIOUS
      <4>2. ~InTheWay(units[s], job[j].conf.site) BY <1>3, <2>2, <3>2, <3>5, <4>1
      <4> QED BY <1>3, <2>2, <3>5, <4>2 DEF InTheWay
    <3> QED BY <3>3, <3>4, <3>5
  <2>3. CASE ~Places(j)
    <3>1. crossed' = crossed BY <2>3, OverlapsStep
    <3> QED BY <1>4, <2>1, <2>3, <3>1
  <2> QED BY <2>2, <2>3
<1> QED BY <1>5, <1>6 DEF UnitsInv

(* However servers are edited, renamed, removed and deployed, several at a *)
(* time, and wherever a save stops, a server keeps the secret it was given *)
(* last, and no two units of the machine share a directory or a port but   *)
(* those of two installations that overlapped on the machine               *)
(* (save_remote, remove_remote, remote_action).                            *)
THEOREM RemotesStayWhole == ServersSpec => []RemotesKept
<1> DEFINE Inv == RemotesTyped /\ SecretsInv /\ UnitsInv
<1>1. Inv => RemotesKept
  <2> SUFFICES ASSUME Inv, NEW s \in Listed, servers[s].mode \in SecretKinds,
                      owed[servers[s].mode][s] # {}
               PROVE  secret[servers[s].mode][s] \in owed[servers[s].mode][s]
    BY DEF RemotesKept, SecretsKept, UnitsInv
  <2> QED BY DEF SecretsInv, OwedKept, Listed
<1>2. Inv /\ [ServersNext]_serverVars => Inv'
  <2> SUFFICES ASSUME Inv, [ServersNext]_serverVars PROVE Inv'
    OBVIOUS
  <2>1. ASSUME UNCHANGED <<units, job, met, crossed>> PROVE UnitsInv'
    BY <2>1 DEF UnitsInv, UnitsApart, WayCleared, Installed
  <2>2. CASE StoresPassword \/ StoresKey
    <3>1. UNCHANGED <<units, job, met, crossed>> BY <2>2 DEF StoresPassword, StoresKey, Stores, overlaps
    <3> QED BY <2>1, <2>2, <3>1, StoreKeeps DEF StoresPassword, StoresKey, SecretKinds
  <2>3. CASE Carries \/ ForgetsOld \/ Persists \/ SaveStops
    <3>1. UNCHANGED <<units, job, met, crossed>> BY <2>3 DEF Carries, ForgetsOld, Persists, SaveStops, overlaps
    <3> QED BY <2>1, <2>3, <3>1, CarryKeeps, ForgetKeeps, PersistKeeps, StopUnitKeeps
  <2>4. CASE \E kind \in SecretKinds : ForgetsRemoved(kind)
    <3>1. UNCHANGED <<units, job, met, crossed>> BY <2>4 DEF ForgetsRemoved, overlaps
    <3> QED BY <2>1, <2>4, <3>1, ForgetRemovedKeeps
  <2>5. CASE \E s \in ServerIds : SaveStarts(s) \/ RemoveStarts(s)
    <3>1. UNCHANGED <<units, job, met, crossed>> BY <2>5 DEF SaveStarts, SaveBegins, RemoveStarts, overlaps
    <3> QED BY <2>1, <2>5, <3>1, StartsKeep, RemoveKeeps
  <2>6. CASE \E s, old \in ServerIds : AdoptStarts(s, old)
    <3>1. UNCHANGED <<units, job, met, crossed>> BY <2>6 DEF AdoptStarts, SaveBegins, overlaps
    <3> QED BY <2>1, <2>6, <3>1, StartsKeep
  <2>7. CASE \E j \in Jobs :
               \/ \E s \in ServerIds, action \in {"look", "uninstall", "deploy"} :
                    JobStarts(j, s, action)
               \/ ReadsSecret(j) \/ Looks(j) \/ Uninstalls(j) \/ Deploys(j) \/ Clears(j)
               \/ Places(j) \/ JobFails(j)
    BY <2>7, JobSteps, JobKeeps, OverlapsStep, UnitsKeep DEF Actions
  <2>8. CASE UNCHANGED serverVars
    <3>1. UNCHANGED <<servers, secret, save, job, units, owed, savings, bundled, met, crossed>>
      BY <2>8 DEF serverVars
    <3>2. RemotesTyped' BY <3>1 DEF RemotesTyped, ServersTypeOK
    <3>3. SecretsInv'
      <4>1. OwedKept' BY <3>1 DEF SecretsInv, OwedKept
      <4>2. CarriedToId' = CarriedToId /\ Renames' = Renames BY <3>1 DEF CarriedToId, Renames
      <4>3. \A k \in SecretKinds : StoredUnderId(k)' = StoredUnderId(k) BY <3>1 DEF StoredUnderId
      <4> QED BY <3>1, <4>1, <4>2, <4>3 DEF SecretsInv, StagesStored, SecretKinds
    <3> QED BY <2>1, <3>1, <3>2, <3>3
  <2> QED BY <2>2, <2>3, <2>4, <2>5, <2>6, <2>7, <2>8 DEF ServersNext
<1> QED BY <1>1, <1>2, RemotesStart, PTL DEF ServersSpec

-----------------------------------------------------------------------------
(* Browser sign-in: who will free what is held.                            *)

(* The page numbers its attempts in order; it counts a cancellation only   *)
(* of an attempt it shows.                                                 *)
Numbered ==
  /\ \A n \in Attempts : AttemptAt(n, {"none"}) <=> n > started
  /\ \A m, n \in 1..started : m < n => attempt[m].generation < attempt[n].generation
  /\ \A n \in 1..started : attempt[n].generation <= generation
  /\ generation <= 2 * started /\ cancels <= started
  /\ adding => generation <= 2 * started - 1 /\ cancels <= started - 1

(* While the page shows a sign-in, its last attempt has yet to come back.  *)
ShownIsAwaited ==
  adding => started > 0 /\ Awaited(started) /\ ~AttemptAt(started, {"done"})

(* An attempt that is to undo its sign-in was cancelled.                   *)
UndoneWasCancelled == \A n \in Attempts : AttemptAt(n, {"undo"}) => ~Awaited(n)

(* The sign-in that the desktop holds is one whose attempt will end it.    *)
HeldWillEnd ==
  \A n \in Attempts : slot = n => AttemptAt(n, {"began", "undo", "finish"} \cup Working)

(* Only the sign-in that is held listens, until its code is exchanged.     *)
ListenerIsHeld ==
  \A n \in Attempts : login[n].listens =>
    slot = n /\ ~AttemptAt(n, {"imports", "endsWell", "endsBadly"})

SignInInv ==
  /\ SignInTypeOK /\ Numbered /\ ShownIsAwaited /\ UndoneWasCancelled
  /\ HeldWillEnd /\ ListenerIsHeld

Records == [at : Where, generation : Generations]
LoginRecords == [heard : {"nothing", "code", "error"}, cancelled : BOOLEAN, listens : BOOLEAN]

USE SignInBounds DEF Attempts, NoAttempt, Generations, Where, Calling, Working, Replied

(* The types one by one, with the records of attempts and sign-ins closed. *)
LEMMA Types ==
  /\ SignInTypeOK <=>
       /\ adding \in BOOLEAN /\ generation \in Generations /\ started \in 0..MaxSignIns
       /\ attempt \in [Attempts -> Records] /\ cancels \in 0..MaxSignIns
       /\ slot \in Attempts \cup {NoAttempt} /\ login \in [Attempts -> LoginRecords]
  /\ SignInTypeOK' <=>
       /\ adding' \in BOOLEAN /\ generation' \in Generations /\ started' \in 0..MaxSignIns
       /\ attempt' \in [Attempts -> Records] /\ cancels' \in 0..MaxSignIns
       /\ slot' \in Attempts \cup {NoAttempt} /\ login' \in [Attempts -> LoginRecords]
BY DEF SignInTypeOK, Records, LoginRecords

LEMMA Range0 == \A n \in Attempts : n # NoAttempt /\ n \in Nat /\ n > 0
OBVIOUS

LEMMA InvInit == SignInInit => SignInInv
<1> SUFFICES ASSUME SignInInit PROVE SignInInv
  OBVIOUS
<1> USE DEF SignInInit, AttemptAt
<1>1. SignInTypeOK
  <2>1. attempt \in [Attempts -> Records] BY DEF Records
  <2>2. login \in [Attempts -> LoginRecords] BY DEF LoginRecords
  <2>3. 0 \in Generations /\ 0 \in 0..MaxSignIns OBVIOUS
  <2> QED BY <2>1, <2>2, <2>3, Types
<1>2. Numbered BY DEF Numbered
<1>3. \A n \in Attempts : slot # n OBVIOUS
<1>4. HeldWillEnd BY <1>3 DEF HeldWillEnd
<1>5. ShownIsAwaited /\ UndoneWasCancelled /\ ListenerIsHeld
  BY DEF ShownIsAwaited, UndoneWasCancelled, ListenerIsHeld
<1> QED BY <1>1, <1>2, <1>4, <1>5 DEF SignInInv

(* What a step of one attempt leaves alone.                                *)
LEMMA Moved ==
  ASSUME SignInTypeOK, NEW n \in Attempts, NEW place \in Where, Moves(n, place)
  PROVE  /\ attempt' \in [Attempts -> Records]
         /\ attempt'[n].at = place
         /\ \A m \in Attempts : attempt'[m].generation = attempt[m].generation
         /\ \A m \in Attempts \ {n} : attempt'[m].at = attempt[m].at
<1>1. attempt \in [Attempts -> Records] BY Types
<1>2. attempt' = [attempt EXCEPT ![n] = [attempt[n] EXCEPT !.at = place]]
  BY <1>1 DEF Moves, Records
<1>3. attempt[n] \in Records BY <1>1
<1>4. /\ [attempt[n] EXCEPT !.at = place] \in Records
      /\ [attempt[n] EXCEPT !.at = place].at = place
      /\ [attempt[n] EXCEPT !.at = place].generation = attempt[n].generation
  BY <1>3 DEF Records
<1> HIDE DEF Where, Generations
<1> QED BY <1>1, <1>2, <1>4

LEMMA PlacesTyped == SignInTypeOK =>
  \A n \in Attempts : attempt[n].at \in Where /\ attempt[n].generation \in Generations
BY Types DEF Records

(* An attempt that goes on is still the last if it was, and one that is    *)
(* shown comes to its end only as the page says so.                        *)
LEMMA MovesKeepOrder ==
  ASSUME SignInInv, NEW n \in Attempts, NEW place \in Where \ {"none"}, Moves(n, place),
         ~AttemptAt(n, {"none"}), UNCHANGED <<generation, started>>, cancels' <= cancels,
         cancels' \in Nat, adding' => adding,
         place = "undo" => ~Awaited(n), place = "done" => ~adding' \/ ~Awaited(n)
  PROVE  Numbered' /\ ShownIsAwaited' /\ UndoneWasCancelled'
<1> USE DEF SignInInv, AttemptAt
<1>1. started \in 0..MaxSignIns /\ cancels \in Nat /\ generation \in Nat BY Types
<1>2. \A m \in Attempts : /\ attempt'[m].generation = attempt[m].generation
                          /\ attempt[m].generation \in Nat
  BY Moved, PlacesTyped
<1>3. \A m \in Attempts : attempt'[m].at = IF m = n THEN place ELSE attempt[m].at BY Moved
<1>4. Numbered'
  <2>1. \A m \in Attempts : AttemptAt(m, {"none"})' <=> m > started' BY <1>3 DEF Numbered
  <2>2. \A k, m \in 1..started' : k < m => attempt'[k].generation < attempt'[m].generation
    BY <1>1, <1>2 DEF Numbered
  <2>3. \A m \in 1..started' : attempt'[m].generation <= generation' BY <1>1, <1>2 DEF Numbered
  <2>4. /\ generation' <= 2 * started' /\ cancels' <= started'
        /\ adding' => generation' <= 2 * started' - 1 /\ cancels' <= started' - 1
    BY <1>1 DEF Numbered
  <2> QED BY <2>1, <2>2, <2>3, <2>4 DEF Numbered
<1>5. ShownIsAwaited' BY <1>1, <1>2, <1>3 DEF ShownIsAwaited, Awaited
<1>6. UndoneWasCancelled' BY <1>2, <1>3 DEF UndoneWasCancelled, Awaited
<1> QED BY <1>4, <1>5, <1>6

(* The page's steps.                                                       *)
LEMMA LoginKeepsInv == SignInInv /\ PageLogin => SignInInv'
<1> SUFFICES ASSUME SignInInv, PageLogin PROVE SignInInv'
  OBVIOUS
<1> USE DEF SignInInv, PageLogin
<1> DEFINE n == started + 1
<1>1. /\ started \in 0..MaxSignIns /\ n \in Attempts /\ cancels \in Nat
      /\ generation \in Nat /\ slot \in 0..MaxSignIns
  BY Types
<1>2. generation' \in Generations /\ started' \in 0..MaxSignIns BY <1>1 DEF Numbered
<1>3. attempt' \in [Attempts -> Records]
  <2>1. [at |-> "begin", generation |-> generation'] \in Records BY <1>2 DEF Records
  <2> QED BY <2>1, Types
<1>4. /\ attempt'[n].at = "begin" /\ attempt'[n].generation = generation'
      /\ \A m \in Attempts \ {n} : attempt'[m] = attempt[m]
  BY <1>1, Types
<1>5. \A m \in Attempts : attempt[m].generation \in Nat BY PlacesTyped
<1>6. SignInTypeOK' BY <1>2, <1>3, Types
<1>7. Numbered'
  <2>1. \A m \in Attempts : AttemptAt(m, {"none"})' <=> m > started'
    BY <1>1, <1>4 DEF Numbered, AttemptAt
  <2>2. \A k, m \in 1..started' : k < m => attempt'[k].generation < attempt'[m].generation
    BY <1>1, <1>4, <1>5 DEF Numbered
  <2>3. \A m \in 1..started' : attempt'[m].generation <= generation'
    BY <1>1, <1>4, <1>5 DEF Numbered
  <2> QED BY <1>1, <2>1, <2>2, <2>3 DEF Numbered
<1>8. ShownIsAwaited' BY <1>1, <1>4 DEF ShownIsAwaited, Awaited, AttemptAt
<1>9. UndoneWasCancelled'
  BY <1>1, <1>4, <1>5 DEF UndoneWasCancelled, Awaited, AttemptAt, Numbered
<1>10. AttemptAt(n, {"none"}) BY <1>1 DEF Numbered
<1>11. slot # n BY <1>1, <1>10 DEF HeldWillEnd, AttemptAt
<1>12. HeldWillEnd' BY <1>4, <1>11 DEF HeldWillEnd, AttemptAt
<1>13. ListenerIsHeld' BY <1>4, <1>11 DEF ListenerIsHeld, AttemptAt
<1> QED BY <1>6, <1>7, <1>8, <1>9, <1>12, <1>13

LEMMA CancelsKeepInv == SignInInv /\ PageCancels => SignInInv'
<1> SUFFICES ASSUME SignInInv, PageCancels PROVE SignInInv'
  OBVIOUS
<1> USE DEF SignInInv, PageCancels
<1>1. /\ started \in 0..MaxSignIns /\ cancels \in Nat /\ generation \in Nat
      /\ \A m \in Attempts : attempt[m].generation \in Nat
  BY PlacesTyped, Types
<1>2. SignInTypeOK'
  <2>1. generation' \in Generations /\ cancels' \in 0..MaxSignIns BY <1>1 DEF Numbered
  <2> QED BY <2>1, Types
<1>3. Numbered'
  <2>1. \A m \in 1..started' : attempt'[m].generation <= generation' BY <1>1 DEF Numbered
  <2> QED BY <1>1, <2>1 DEF Numbered, AttemptAt
<1>4. \A m \in Attempts : AttemptAt(m, {"undo"}) => m \in 1..started
  BY <1>1 DEF Numbered, AttemptAt
<1>5. UndoneWasCancelled'
  BY <1>1, <1>4 DEF UndoneWasCancelled, Numbered, Awaited, AttemptAt
<1> QED
  BY <1>2, <1>3, <1>5 DEF ShownIsAwaited, HeldWillEnd, ListenerIsHeld, AttemptAt

LEMMA PageKeepsInv ==
  ASSUME SignInInv, NEW n \in Attempts, PageBegan(n) \/ PageLoads(n) \/ PageDone(n)
  PROVE  SignInInv'
<1> USE DEF SignInInv
<1>1. PICK place \in Where \ {"none"} :
        /\ Moves(n, place)
        /\ place = "undo" => ~Awaited(n) /\ AttemptAt(n, {"began"})
        /\ place = "done" => /\ ~adding' \/ ~Awaited(n)
                             /\ AttemptAt(n, {"refused", "error", "loads", "ok"})
        /\ place = "finish" => AttemptAt(n, {"began"})
        /\ place = "loads" => AttemptAt(n, {"ok"})
        /\ place \in {"undo", "done", "finish", "loads"}
  <2>1. CASE PageBegan(n) BY <2>1 DEF PageBegan, NextCall
  <2>2. CASE PageLoads(n) BY <2>2 DEF PageLoads
  <2>3. CASE PageDone(n) BY <2>3 DEF PageDone, AttemptAt
  <2> QED BY <2>1, <2>2, <2>3
<1>2. /\ UNCHANGED <<generation, started, cancels, slot, login>>
      /\ adding' \in BOOLEAN /\ (adding' => adding)
  BY Types DEF PageBegan, PageLoads, PageDone
<1>3. ~AttemptAt(n, {"none"}) BY <1>1 DEF AttemptAt
<1>4. cancels \in Nat /\ cancels' <= cancels BY <1>2, Types
<1>5. Numbered' /\ ShownIsAwaited' /\ UndoneWasCancelled'
  BY <1>1, <1>2, <1>3, <1>4, MovesKeepOrder
<1>6. SignInTypeOK'
  <2>1. attempt' \in [Attempts -> Records] BY <1>1, Moved
  <2> QED BY <1>2, <2>1, Types
<1>7. \A m \in Attempts : attempt'[m].at = IF m = n THEN place ELSE attempt[m].at
  BY <1>1, Moved
<1>8. HeldWillEnd' BY <1>1, <1>2, <1>7 DEF HeldWillEnd, AttemptAt
<1>9. ListenerIsHeld' BY <1>1, <1>2, <1>7 DEF ListenerIsHeld, AttemptAt
<1> QED BY <1>5, <1>6, <1>8, <1>9

(* The desktop's commands that begin a sign-in or cancel one.              *)
LEMMA Listening ==
  ASSUME SignInTypeOK, NEW n \in Attempts, NEW b \in BOOLEAN,
         \/ login' = [login EXCEPT ![n].listens = b]
         \/ b = FALSE /\ login' = [login EXCEPT ![n] = Ended(@)]
  PROVE  /\ login' \in [Attempts -> LoginRecords]
         /\ login'[n].listens = b
         /\ \A m \in Attempts \ {n} : login'[m].listens = login[m].listens
<1>1. login \in [Attempts -> LoginRecords] BY Types
<1>2. [login[n] EXCEPT !.listens = b] \in LoginRecords /\ Ended(login[n]) \in LoginRecords
  BY <1>1 DEF LoginRecords, Ended
<1>3. [login[n] EXCEPT !.listens = b].listens = b /\ Ended(login[n]).listens = FALSE
  BY <1>1 DEF LoginRecords, Ended
<1>4. \/ login' = [login EXCEPT ![n] = [login[n] EXCEPT !.listens = b]]
      \/ login' = [login EXCEPT ![n] = Ended(login[n])] /\ b = FALSE
  BY <1>1
<1> QED BY <1>1, <1>2, <1>3, <1>4

LEMMA Cancelled ==
  ASSUME SignInInv, CancelLogin
  PROVE  /\ slot' = NoAttempt /\ login' \in [Attempts -> LoginRecords]
         /\ \A m \in Attempts : ~login'[m].listens
<1> USE DEF SignInInv, CancelLogin
<1>1. CASE slot = NoAttempt
  <2>1. \A m \in Attempts : slot # m BY <1>1
  <2> QED BY <1>1, <2>1, Types DEF ListenerIsHeld
<1>2. CASE slot # NoAttempt
  <2>1. slot \in Attempts BY <1>2, Types
  <2>2. login' = [login EXCEPT ![slot] = Ended(@)] BY <1>2
  <2>3. /\ login' \in [Attempts -> LoginRecords] /\ login'[slot].listens = FALSE
        /\ \A m \in Attempts \ {slot} : login'[m].listens = login[m].listens
    BY <2>1, <2>2, Listening
  <2> QED BY <2>3 DEF ListenerIsHeld
<1> QED BY <1>1, <1>2

LEMMA CommandKeepsInv ==
  ASSUME SignInInv,
         CancelForUser
           \/ \E n \in Attempts : BeginLogin(n) \/ BeginRefused(n) \/ CancelForAttempt(n)
  PROVE  SignInInv'
<1> USE DEF SignInInv
<1>1. CASE CancelForUser
  <2>1. /\ slot' = NoAttempt /\ login' \in [Attempts -> LoginRecords]
        /\ \A m \in Attempts : ~login'[m].listens
    BY <1>1, Cancelled DEF CancelForUser
  <2>2. /\ UNCHANGED <<adding, generation, started, attempt>>
        /\ cancels' \in 0..MaxSignIns /\ cancels' <= cancels /\ cancels \in Nat
        /\ started \in Nat
    BY <1>1, Types DEF CancelForUser
  <2>3. SignInTypeOK' BY <2>1, <2>2, Types
  <2>4. Numbered' BY <2>2 DEF Numbered, AttemptAt
  <2>5. \A m \in Attempts : slot' # m BY <2>1
  <2> QED BY <2>1, <2>2, <2>3, <2>4, <2>5
          DEF ShownIsAwaited, UndoneWasCancelled, HeldWillEnd, ListenerIsHeld, AttemptAt, Awaited
<1>2. ASSUME NEW n \in Attempts, BeginLogin(n) \/ BeginRefused(n) \/ CancelForAttempt(n)
      PROVE  SignInInv'
  <2>1. PICK place \in {"began", "refused", "done"} :
          /\ Moves(n, place)
          /\ place # "done" => AttemptAt(n, {"begin"})
          /\ place = "done" => AttemptAt(n, {"undo"}) /\ ~Awaited(n) /\ CancelLogin
          /\ place = "refused" => UNCHANGED <<slot, login>>
          /\ place = "began" => slot = NoAttempt /\ slot' = n
                                   /\ login' = [login EXCEPT ![n].listens = TRUE]
    BY <1>2 DEF BeginLogin, BeginRefused, CancelForAttempt, UndoneWasCancelled
  <2>2. UNCHANGED <<adding, generation, started, cancels>>
    BY <1>2 DEF BeginLogin, BeginRefused, CancelForAttempt
  <2>3. ~AttemptAt(n, {"none"}) BY <2>1 DEF AttemptAt
  <2>4. cancels \in Nat /\ cancels' <= cancels BY <2>2, Types
  <2>5. Numbered' /\ ShownIsAwaited' /\ UndoneWasCancelled'
    BY <2>1, <2>2, <2>3, <2>4, MovesKeepOrder
  <2>6. /\ slot' \in Attempts \cup {NoAttempt} /\ login' \in [Attempts -> LoginRecords]
        /\ \/ slot' = NoAttempt /\ \A m \in Attempts : ~login'[m].listens
           \/ UNCHANGED <<slot, login>> /\ place = "refused"
           \/ /\ place = "began" /\ slot' = n
              /\ \A m \in Attempts : login'[m].listens => m = n
    <3>1. CASE place = "done" BY <2>1, <3>1, Cancelled
    <3>2. CASE place = "refused" BY <2>1, <3>2, Types
    <3>3. CASE place = "began"
      <4>1. /\ login' \in [Attempts -> LoginRecords]
            /\ \A m \in Attempts \ {n} : login'[m].listens = login[m].listens
        <5>1. login' = [login EXCEPT ![n].listens = TRUE] BY <2>1, <3>3
        <5> HIDE DEF Attempts, SignInInv
        <5>2. SignInTypeOK BY DEF SignInInv
        <5> QED BY <5>1, <5>2, Listening
      <4>2. \A m \in Attempts : ~login[m].listens BY <2>1, <3>3 DEF ListenerIsHeld
      <4>3. slot' = n BY <2>1, <3>3
      <4>4. \A m \in Attempts : login'[m].listens => m = n BY <4>1, <4>2
      <4>5. slot' \in Attempts \cup {NoAttempt} BY <4>3
      <4> QED BY <3>3, <4>1, <4>3, <4>4, <4>5
    <3> QED BY <2>1, <3>1, <3>2, <3>3
  <2>7. SignInTypeOK'
    <3>1. attempt' \in [Attempts -> Records] BY <2>1, Moved
    <3> QED BY <2>2, <2>6, <3>1, Types
  <2>8. \A m \in Attempts : attempt'[m].at = IF m = n THEN place ELSE attempt[m].at
    BY <2>1, Moved
  <2>9. HeldWillEnd' /\ ListenerIsHeld'
    <3>1. CASE slot' = NoAttempt /\ \A m \in Attempts : ~login'[m].listens
      <4>1. \A m \in Attempts : slot' # m BY <3>1
      <4> QED BY <3>1, <4>1 DEF HeldWillEnd, ListenerIsHeld
    <3>2. CASE UNCHANGED <<slot, login>> /\ place = "refused"
      BY <2>1, <2>8, <3>2 DEF HeldWillEnd, ListenerIsHeld, AttemptAt
    <3>3. CASE /\ place = "began" /\ slot' = n
               /\ \A m \in Attempts : login'[m].listens => m = n
      BY <2>8, <3>3 DEF HeldWillEnd, ListenerIsHeld, AttemptAt
    <3> QED BY <2>6, <3>1, <3>2, <3>3
  <2> QED BY <2>5, <2>7, <2>9
<1> QED BY <1>1, <1>2

(* The sign-in itself, and the browser.                                    *)
LEMMA FinishKeepsInv ==
  ASSUME SignInInv, NEW n \in Attempts,
         \/ FinishLogin(n) \/ FinishHears(n) \/ FinishExchanged(n) \/ FinishImported(n)
         \/ FinishFails(n) \/ FinishEnds(n)
  PROVE  SignInInv'
<1> USE DEF SignInInv
<1>1. PICK place \in {"waits", "exchanges", "imports", "endsWell", "endsBadly", "ok", "error"} :
        /\ Moves(n, place)
        /\ AttemptAt(n, {"finish"} \cup Working)
        /\ UNCHANGED login \/ StopsListening(n)
        /\ place = "waits" => UNCHANGED <<slot, login>>
        /\ place = "exchanges" => AttemptAt(n, {"waits"}) /\ UNCHANGED <<slot, login>>
        /\ place \in {"imports", "endsBadly"} => StopsListening(n) /\ UNCHANGED slot
        /\ place = "endsWell" => AttemptAt(n, {"imports"}) /\ UNCHANGED <<slot, login>>
        /\ place \in {"ok", "error"} =>
             /\ UNCHANGED login
             /\ \/ AttemptAt(n, {"finish"}) /\ slot # n /\ UNCHANGED slot
                \/ /\ AttemptAt(n, {"endsWell", "endsBadly"})
                   /\ slot' = IF slot = n THEN NoAttempt ELSE slot
  <2>1. CASE FinishLogin(n) BY <2>1 DEF FinishLogin, AttemptAt
  <2>2. CASE FinishHears(n) BY <2>2 DEF FinishHears, AttemptAt
  <2>3. CASE FinishExchanged(n) BY <2>3 DEF FinishExchanged, AttemptAt
  <2>4. CASE FinishImported(n) BY <2>4 DEF FinishImported, AttemptAt
  <2>5. CASE FinishFails(n) BY <2>5 DEF FinishFails, AttemptAt
  <2>6. CASE FinishEnds(n) BY <2>6 DEF FinishEnds, AttemptAt
  <2> QED BY <2>1, <2>2, <2>3, <2>4, <2>5, <2>6
<1>2. UNCHANGED <<adding, generation, started, cancels>>
  BY DEF FinishLogin, FinishHears, FinishExchanged, FinishImported, FinishFails, FinishEnds
<1>3. ~AttemptAt(n, {"none"}) BY <1>1 DEF AttemptAt
<1>4. cancels \in Nat /\ cancels' <= cancels BY <1>2, Types
<1>5. Numbered' /\ ShownIsAwaited' /\ UndoneWasCancelled'
  BY <1>1, <1>2, <1>3, <1>4, MovesKeepOrder
<1>6. /\ login' \in [Attempts -> LoginRecords]
      /\ \A m \in Attempts : login'[m].listens => login[m].listens
      /\ StopsListening(n) => ~login'[n].listens
  <2>1. CASE UNCHANGED login /\ ~StopsListening(n) BY <2>1, Types
  <2>2. CASE StopsListening(n) BY <2>2, Listening DEF StopsListening
  <2> QED BY <1>1, <2>1, <2>2
<1>7. SignInTypeOK'
  <2>1. attempt' \in [Attempts -> Records] BY <1>1, Moved
  <2>2. slot' \in {slot, NoAttempt} BY <1>1
  <2> QED BY <1>2, <1>6, <2>1, <2>2, Types
<1>8. \A m \in Attempts : attempt'[m].at = IF m = n THEN place ELSE attempt[m].at
  BY <1>1, Moved
<1>9. HeldWillEnd'
  <2>1. \A m \in Attempts : NoAttempt # m OBVIOUS
  <2> QED BY <1>1, <1>8, <2>1 DEF HeldWillEnd, AttemptAt
<1>10. ListenerIsHeld'
  <2> SUFFICES ASSUME NEW m \in Attempts, login'[m].listens
               PROVE  slot' = m /\ ~AttemptAt(m, {"imports", "endsWell", "endsBadly"})'
    BY DEF ListenerIsHeld
  <2>1. slot = m /\ ~AttemptAt(m, {"imports", "endsWell", "endsBadly"})
    BY <1>6 DEF ListenerIsHeld
  <2> QED BY <1>1, <1>6, <1>8, <2>1 DEF AttemptAt
<1> QED BY <1>5, <1>7, <1>9, <1>10

LEMMA BrowserKeepsInv ==
  ASSUME SignInInv, NEW n \in Attempts, NEW with \in {"code", "error"}, BrowserReturns(n, with)
  PROVE  SignInInv'
<1> USE DEF SignInInv, BrowserReturns
<1>1. login \in [Attempts -> LoginRecords] BY Types
<1>2. PICK heard \in {"nothing", "code", "error"} :
        login' = [login EXCEPT ![n] = [login[n] EXCEPT !.heard = heard]]
  BY <1>1 DEF LoginRecords
<1>3. [login[n] EXCEPT !.heard = heard] \in LoginRecords BY <1>1 DEF LoginRecords
<1>4. [login[n] EXCEPT !.heard = heard].listens = login[n].listens BY <1>1 DEF LoginRecords
<1>5. /\ login' \in [Attempts -> LoginRecords]
      /\ \A m \in Attempts : login'[m].listens = login[m].listens
  BY <1>1, <1>2, <1>3, <1>4
<1>6. SignInTypeOK' BY <1>5, Types
<1>7. ListenerIsHeld' BY <1>5 DEF ListenerIsHeld, AttemptAt
<1> QED BY <1>6, <1>7
        DEF Numbered, ShownIsAwaited, UndoneWasCancelled, HeldWillEnd, AttemptAt, Awaited

LEMMA StutterKeepsInv == SignInInv /\ UNCHANGED signInVars => SignInInv'
BY Types DEF SignInInv, signInVars, Numbered, ShownIsAwaited, UndoneWasCancelled, HeldWillEnd, ListenerIsHeld, AttemptAt, Awaited

LEMMA InvInductive == SignInInv /\ [SignInNext]_signInVars => SignInInv'
BY LoginKeepsInv, CancelsKeepInv, PageKeepsInv, CommandKeepsInv, FinishKeepsInv, BrowserKeepsInv,
   StutterKeepsInv DEF SignInNext

LEMMA InvFrees == SignInInv => SignInFreed
<1> SUFFICES ASSUME SignInInv, AllAnswered
             PROVE  slot = NoAttempt /\ ~adding /\ \A n \in Attempts : ~login[n].listens
  BY DEF SignInFreed
<1>1. slot = NoAttempt
  BY Types DEF SignInInv, AllAnswered, HeldWillEnd, AttemptAt
<1>2. \A n \in Attempts : ~login[n].listens
  <2>1. \A n \in Attempts : slot # n BY <1>1
  <2> QED BY <2>1 DEF SignInInv, ListenerIsHeld
<1>3. ~adding
  <2>1. adding => started \in Attempts /\ started > 0
    BY Types DEF SignInInv, ShownIsAwaited
  <2> QED BY <2>1 DEF SignInInv, AllAnswered, Numbered, ShownIsAwaited, AttemptAt
<1> QED BY <1>1, <1>2, <1>3

(* Every variable of the page, the desktop and the sign-ins keeps its type *)
(* (controllers.js, main.rs and login.rs): the page never counts past its  *)
(* attempts.                                                               *)
THEOREM SignInTyped == SignInSpec => []SignInTypeOK
BY InvInit, InvInductive, PTL DEF SignInSpec, SignInInv

(* However attempts are cancelled and their calls arrive, once they are    *)
(* answered the desktop holds no sign-in, no port is taken and the page    *)
(* can begin another (main.rs, begin_login and cancel_login).              *)
THEOREM NoSignInLeftBehind == SignInSpec => []SignInFreed
BY InvInit, InvInductive, InvFrees, PTL DEF SignInSpec
=============================================================================
