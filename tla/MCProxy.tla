------------------------------ MODULE MCProxy ------------------------------
(***************************************************************************)
(* Small instances of the local proxy for TLC: which account serves a      *)
(* request, what the request asks of the upstream, how the answer streams  *)
(* back; and of the requests for an account's usage and workspaces, and of *)
(* the switches made on that usage.  They share no state in the models, so *)
(* the initial state chooses one and leaves the others at rest.            *)
(***************************************************************************)
EXTENDS ProxyRouting, AnswerStream, ClientRequests, AccountRequests, QuotaSwitch, TLC

VARIABLE part

Plain == [effort |-> "absent", reasoning |-> "absent", summary |-> "absent",
          format |-> "absent", verbosity |-> "short", tools |-> <<>>, session |-> "own"]

\* Names of the list the proxy answers, other spellings of them, and others.
Names == {<<"gpt", "5", "high">>, <<"gpt", "5", "4", "mini">>, <<"gpt", "5.4", "high", "low">>,
          <<"gpt5.4", "mini">>, <<"gpt", "5", "2", "codex", "low">>, <<"gpt", "5.1", "codex">>,
          <<"o3", "high">>, <<"gpt", "4o">>}

\* A proxy of the system's that a PAC file chooses, a fixed one, and the environment's.
FewSystems ==
  /\ origin.host = "relay" /\ origin.suffixed /\ (origin.loopback <=> FromEnvironment)
  /\ system.exempt = (IF FromEnvironment THEN {"official"} ELSE {})
  /\ system.environment # "invalid" /\ (system.ignored = {} <=> system.mac)
  /\ IF FromEnvironment THEN system.mac /\ Head(system.entries) = "proxy"
     ELSE Head(system.entries) = IF system.mac THEN "script" ELSE "unusable"

ProxyInit ==
  /\ part \in {"routing", "answers", "requests", "network", "switches"}
  /\ Init /\ (part # "routing" => score = [a \in Accounts |-> 0])
  /\ AnswerInit /\ (part # "answers" => client = "chat stream" /\ newline = "lf")
  /\ RequestsInit /\ (part # "requests" => wish = Plain /\ name = <<"o3", "high">>)
  /\ NetworkInit /\ FewSystems /\ (part # "network" => FromEnvironment)
  /\ QuotaInit /\ disabled = {}
  /\ part # "switches" => inUse = Shared /\ \A a \in Holders : told[a] = <<NoWindow, NoWindow>>

ProxyNext ==
  /\ UNCHANGED part
  /\ IF part = "routing" THEN Next ELSE UNCHANGED vars
  /\ IF part = "answers" THEN AnswerNext ELSE UNCHANGED answerVars
  /\ IF part = "requests" THEN RequestsNext ELSE UNCHANGED requestVars
  /\ IF part = "network" THEN NetworkNext ELSE UNCHANGED networkVars
  /\ IF part = "switches" THEN QuotaNext ELSE UNCHANGED quotaVars

ProxySpec == ProxyInit /\ [][ProxyNext]_<<part, vars, answerVars, requestVars, networkVars, quotaVars>>

\* Requests are interchangeable; accounts are ordered by age and are not.
Symmetry == Permutations(Requests)

(* Every variable of the part explored keeps its type. *)
ProxyTypeOK ==
  CASE part = "routing" -> TypeOK [] part = "answers" -> AnswerTypeOK
    [] part = "requests" -> RequestsTypeOK [] part = "network" -> NetworkTypeOK
    [] part = "switches" -> QuotaTypeOK
=============================================================================
