------------------------------ MODULE MCRemote ------------------------------
(***************************************************************************)
(* Small instances of the two halves of the remote servers for TLC.  They  *)
(* share no state, so one is explored at a time: the initial state chooses *)
(* whether accounts are synchronised with a daemon (RemoteSync) or servers *)
(* are edited and acted on (RemoteServers), and the other is at rest.      *)
(***************************************************************************)
EXTENDS RemoteSync, RemoteServers, TLC

VARIABLE half

\* Two directories and two ports, and cards with and without a secret.
MachineSites == {<<1, 1>>, <<1, 2>>, <<2, 2>>}
CardForms == {<<"path", {}>>, <<"password", {}>>, <<"password", {"password"}>>,
              <<"key", {"key", "password"}>>}

\* The app has a daemon to install.  The machine is empty or has a unit that another
\* Copool placed; which of the two servers that is, does not matter.
HalvesInit ==
  /\ half \in {"accounts", "servers"}
  /\ Init
  /\ ServersInit /\ bundled = "archive"
  /\ \A s \in Installed : /\ half = "servers" /\ units[s] = <<2, 2>>
                          /\ s = CHOOSE t \in ServerIds : TRUE

HalvesNext ==
  /\ UNCHANGED half
  /\ IF half = "accounts" THEN Next ELSE UNCHANGED vars
  /\ IF half = "servers" THEN ServersNext ELSE UNCHANGED serverVars

HalvesSpec == HalvesInit /\ [][HalvesNext]_<<half, vars, serverVars>>

\* Synchronisations, the daemon's tasks and actions on the servers are interchangeable.
Symmetry == Permutations(Syncs) \cup Permutations(Tasks) \cup Permutations(Jobs)
=============================================================================
