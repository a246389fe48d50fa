--------------------------- MODULE MCCodexLogins ---------------------------
(***************************************************************************)
(* Two small instances of CodexLogins for TLC, of which the initial state  *)
(* chooses one.  "renewing": one account, whose login a usage refresh, a   *)
(* request, Codex and the user renew, replace and remove.  "selecting":    *)
(* two accounts, the selection that the user, requests and Codex move      *)
(* between them, the card of one imported anew, a Sub2api provider, and    *)
(* one crash or failed save.                                               *)
(***************************************************************************)
EXTENDS CodexLogins, TLC

VARIABLE scene

\* The account of no card, no login and no sign-in.
Unknown(a) == cards[a] = 0 /\ issued[a] = 1 /\ ~LiveIs(a)

Renewing ==
  /\ faults = 0 /\ official
  /\ \A a \in Accounts : cards[a] <= 1 /\ \A b \in Accounts \ {a} : Unknown(a) \/ Unknown(b)

Selecting ==
  /\ \A t \in Refreshes : job[t] = None
  /\ \E a \in Accounts : cards[a] <= 1
  /\ \A a \in Accounts : issued[a] <= 2 /\ (store[a] # None => store[a].renewal = "always")

InScene == IF scene = "renewing" THEN Renewing ELSE Selecting

SceneInit == Init /\ scene \in {"renewing", "selecting"} /\ InScene
SceneNext == Next /\ UNCHANGED scene /\ InScene'
SceneSpec == SceneInit /\ [][SceneNext]_<<vars, scene>>

\* Refreshes are interchangeable, and so are proxy attempts and accounts.
Symmetry == Permutations(Accounts) \cup Permutations(Refreshes)
              \cup Permutations(Attempts)
=============================================================================
