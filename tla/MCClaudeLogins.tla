--------------------------- MODULE MCClaudeLogins ---------------------------
(***************************************************************************)
(* Small instances of the logins of the Claude pool for TLC, in scenes of  *)
(* which the initial state chooses one.  "refreshing" is all there is of   *)
(* ClaudeLogins, for a single account.  Two accounts are either "renewing" *)
(* and signing in at any time, without lists and faults, or "switching"    *)
(* while lists are read and Copool may fail or crash: nothing is renewed   *)
(* there, as a list that reads the login in two parts around a renewal     *)
(* takes another account's for its own (OtherPoolLoginsStayOut in          *)
(* claude_split_login.cfg).  "naming" is ClaudeIdentities, which shares no *)
(* state with the rest.                                                    *)
(***************************************************************************)
EXTENDS ClaudeLogins, ClaudeIdentities, TLC

CONSTANT Scenes
VARIABLE scene

Symmetry == Permutations(Accounts)

SceneInit ==
  /\ scene \in Scenes
  /\ Init /\ (scene = "naming" => live = None)
  /\ IdentitiesInit /\ (scene # "naming" => code = NoCard /\ ~asksNew)

SceneNext ==
  /\ UNCHANGED scene
  /\ IF scene = "naming" THEN IdentitiesNext /\ UNCHANGED vars
     ELSE Next /\ UNCHANGED idVars
  /\ scene = "renewing" => UNCHANGED <<listing, faults, crashes>>
  /\ scene = "switching" => UNCHANGED <<issued, signIns>>

SceneSpec == SceneInit /\ [][SceneNext]_<<vars, idVars, scene>>

(* Every variable of the scene keeps its type. *)
SceneTypeOK == IF scene = "naming" THEN IdentitiesTypeOK ELSE TypeOK
=============================================================================
