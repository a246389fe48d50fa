----------------------------- MODULE MCLiveness -----------------------------
(***************************************************************************)
(* Small instances, for TLC, of the parts with a liveness property.  They  *)
(* share no state, so one is explored at a time: the initial state chooses *)
(* which, and leaves the others at rest.                                   *)
(***************************************************************************)
EXTENDS ProxyRouting, ProviderCards, RefreshSchedule, TLC

VARIABLE subject

\* Synchronisations, of which one is explored against a task of the daemon.
CONSTANT Nothing
VARIABLES local, renewing, remote, installed, running, task, sync, issued, spent,
          edits, stops, setBack
Remote == INSTANCE RemoteSync WITH
  Accounts <- {1}, Stored <- {1}, Syncs <- {1}, Tasks <- {1}, None <- Nothing,
  MaxAttempts <- 3, MaxGen <- 2, MaxEdits <- 0, MaxStops <- 1
remoteVars == <<local, renewing, remote, installed, running, task, sync, issued,
                spent, edits, stops, setBack>>

(* A provider that is not in the pool asks for nothing. *)
CardsAtRest ==
  /\ serves = {} /\ listed = FALSE /\ password = FALSE /\ cards = [c \in {} |-> "shown"]
  /\ storing = FALSE /\ forgetting = 0 /\ deprived = FALSE /\ requests = [k \in Kinds |-> NoRequest]
  /\ cardEdits = 0 /\ cardErrors = 0

LiveInit ==
  /\ subject \in {"proxy", "cards", "schedule", "remote"}
  /\ Init /\ (subject # "proxy" => \A a \in Accounts : score[a] = 0)
  /\ pool \in {"codex", "claude"}
  /\ IF subject = "cards" THEN CardsStart ELSE pool = "codex" /\ CardsAtRest
  /\ ScheduleInit
  /\ subject # "schedule" => poolKind = "codex" /\ \A r \in Rows : age[r] = 0
  /\ Remote!Init

LiveNext ==
  /\ UNCHANGED subject
  /\ \/ subject = "proxy" /\ Next /\ UNCHANGED <<cardVars, scheduleVars, remoteVars>>
     \/ subject = "cards" /\ CardsNext /\ UNCHANGED <<vars, scheduleVars, remoteVars>>
     \/ subject = "schedule" /\ ScheduleNext /\ UNCHANGED <<vars, cardVars, remoteVars>>
     \/ subject = "remote" /\ Remote!Next /\ UNCHANGED <<vars, cardVars, scheduleVars>>

LiveVars == <<subject, vars, cardVars, scheduleVars, remoteVars>>
(* The fairness of each part, which asks nothing of it at rest. *)
LiveSpec ==
  /\ LiveInit /\ [][LiveNext]_LiveVars
  /\ ProxyFair /\ Remote!SyncsFair
  /\ CardsFair
  /\ AnswersAndTimeFair /\ WF_scheduleVars(subject = "schedule" /\ LoopStep)

(* A provider's cards become those Sub2api serves, and every card of a     *)
(* pool is asked for again and again.                                      *)
CardsKeepUp == CardsConverge /\ CardsAskedAgain

(* Every synchronisation ends, whatever the daemon writes.                  *)
SyncsEnd == Remote!SyncsEnd
=============================================================================
