------------------------------- MODULE SignIn -------------------------------
(***************************************************************************)
(* Signing in with a browser: the page that starts it and waits for it     *)
(* (controllers.js, login and cancelLogin), the commands of the desktop    *)
(* that hold the one sign-in under way (main.rs), and the sign-in itself   *)
(* (login.rs): a listener for one callback, whose code is exchanged for a  *)
(* login that is imported.                                                 *)
(*                                                                         *)
(* The page numbers its attempts, so that one that was cancelled leaves    *)
(* alone what a later one shows; its calls reach the desktop in any order. *)
(***************************************************************************)
EXTENDS Naturals

CONSTANT MaxSignIns  \* bound: attempts of the page

ASSUME SignInBounds == MaxSignIns \in Nat \ {0}

Attempts == 1..MaxSignIns
NoAttempt == 0

VARIABLES
  adding,      \* the page shows a sign-in: its buttons start no other
  generation,  \* the attempt the page waits for; it changes with a cancel
  started,     \* attempts made
  attempt,     \* each attempt: where its call is, its generation
  cancels,     \* calls of cancel_login the page made for the user, under way
  slot,        \* LoginState: the sign-in under way
  login        \* each sign-in: what its listener heard, whether it was cancelled

signInVars == <<adding, generation, started, attempt, cancels, slot, login>>

Calling == {"begin", "began", "refused", "undo", "finish"}   \* calls of the page
Working == {"waits", "exchanges", "imports", "endsWell", "endsBadly"}
Replied == {"ok", "error", "loads"}
Where == {"none", "done"} \cup Calling \cup Working \cup Replied
Generations == 0..(2 * MaxSignIns)

SignInTypeOK ==
  /\ adding \in BOOLEAN /\ generation \in Generations /\ started \in 0..MaxSignIns
  /\ attempt \in [Attempts -> [at : Where, generation : Generations]]
  /\ cancels \in 0..MaxSignIns
  /\ slot \in Attempts \cup {NoAttempt}
  /\ login \in [Attempts -> [heard : {"nothing", "code", "error"}, cancelled : BOOLEAN,
                             listens : BOOLEAN]]

SignInInit ==
  /\ adding = FALSE /\ generation = 0 /\ started = 0
  /\ attempt = [n \in Attempts |-> [at |-> "none", generation |-> 0]]
  /\ cancels = 0
  /\ slot = NoAttempt
  /\ login = [n \in Attempts |-> [heard |-> "nothing", cancelled |-> FALSE, listens |-> FALSE]]

AttemptAt(n, places) == attempt[n].at \in places
Moves(n, place) == attempt' = [attempt EXCEPT ![n].at = place]
Awaited(n) == attempt[n].generation = generation

-----------------------------------------------------------------------------
(* The page.                                                               *)

PageLogin ==
  LET n == started + 1 IN
  /\ ~adding /\ started < MaxSignIns
  /\ adding' = TRUE /\ generation' = generation + 1 /\ started' = n
  /\ attempt' = [attempt EXCEPT ![n] = [at |-> "begin", generation |-> generation']]
  /\ UNCHANGED <<cancels, slot, login>>

\* An attempt that was cancelled meanwhile cancels the sign-in it was given.
JustGivesUp(n) ==                                \* variant: it is left to itself
  IF Awaited(n) THEN "finish" ELSE "done"
NextCall(n) == IF Awaited(n) THEN "finish" ELSE "undo"
PageBegan(n) ==
  /\ AttemptAt(n, {"began"})
  /\ Moves(n, NextCall(n))
  /\ UNCHANGED <<adding, generation, started, cancels, slot, login>>

\* The sign-in succeeded: the page loads the accounts before it is done.
PageLoads(n) ==
  /\ AttemptAt(n, {"ok"}) /\ Awaited(n)
  /\ Moves(n, "loads")
  /\ UNCHANGED <<adding, generation, started, cancels, slot, login>>

PageDone(n) ==
  /\ AttemptAt(n, {"refused", "error", "loads"}) \/ (AttemptAt(n, {"ok"}) /\ ~Awaited(n))
  /\ Moves(n, "done")
  /\ adding' = (adding /\ ~Awaited(n))
  /\ UNCHANGED <<generation, started, cancels, slot, login>>

PageCancels ==
  /\ adding
  /\ adding' = FALSE /\ generation' = generation + 1 /\ cancels' = cancels + 1
  /\ UNCHANGED <<started, attempt, slot, login>>

-----------------------------------------------------------------------------
(* The commands of the desktop.                                            *)

\* A sign-in of its own, with a port, a state and a browser window; one at a time.
BeginLogin(n) ==
  /\ AttemptAt(n, {"begin"}) /\ slot = NoAttempt
  /\ slot' = n
  /\ login' = [login EXCEPT ![n].listens = TRUE]
  /\ Moves(n, "began")
  /\ UNCHANGED <<adding, generation, started, cancels>>

\* One is under way, every port is taken, or the browser cannot be opened.
BeginRefused(n) ==
  /\ AttemptAt(n, {"begin"})
  /\ Moves(n, "refused")
  /\ UNCHANGED <<adding, generation, started, cancels, slot, login>>

Ended(record) == [record EXCEPT !.cancelled = TRUE, !.listens = FALSE]
CancelLogin ==
  /\ slot' = NoAttempt
  /\ login' = IF slot = NoAttempt THEN login ELSE [login EXCEPT ![slot] = Ended(@)]

CancelForUser ==
  /\ cancels > 0
  /\ cancels' = cancels - 1
  /\ CancelLogin
  /\ UNCHANGED <<adding, generation, started, attempt>>
CancelForAttempt(n) ==
  /\ AttemptAt(n, {"undo"})
  /\ CancelLogin
  /\ Moves(n, "done")
  /\ UNCHANGED <<adding, generation, started, cancels>>

FinishLogin(n) ==
  /\ AttemptAt(n, {"finish"})
  /\ Moves(n, IF slot = n THEN "waits" ELSE "error")
  /\ UNCHANGED <<adding, generation, started, cancels, slot, login>>

\* finish ends: the sign-in listens no more.
StopsListening(n) == login' = [login EXCEPT ![n].listens = FALSE]

\* The callback's code is exchanged; its error ends the sign-in.
FinishHears(n) ==
  /\ AttemptAt(n, {"waits"}) /\ login[n].heard # "nothing"
  /\ Moves(n, IF login[n].heard = "code" THEN "exchanges" ELSE "endsBadly")
  /\ IF login[n].heard = "code" THEN UNCHANGED login ELSE StopsListening(n)
  /\ UNCHANGED <<adding, generation, started, cancels, slot>>
FinishExchanged(n) ==
  /\ AttemptAt(n, {"exchanges"})
  /\ Moves(n, "imports")
  /\ StopsListening(n)
  /\ UNCHANGED <<adding, generation, started, cancels, slot>>
FinishImported(n) ==
  /\ AttemptAt(n, {"imports"})
  /\ Moves(n, "endsWell")
  /\ UNCHANGED <<adding, generation, started, cancels, slot, login>>

\* It is cancelled, or times out after ten minutes without a login; the exchange is
\* refused, or names another workspace; the import fails.
FinishFails(n) ==
  /\ AttemptAt(n, {"waits", "exchanges", "imports"})
  /\ Moves(n, "endsBadly")
  /\ StopsListening(n)
  /\ UNCHANGED <<adding, generation, started, cancels, slot>>

\* Whatever came of it, the slot is given up if it is still this sign-in's.
FinishEnds(n) ==
  /\ AttemptAt(n, {"endsWell", "endsBadly"})
  /\ slot' = IF slot = n THEN NoAttempt ELSE slot
  /\ Moves(n, IF AttemptAt(n, {"endsWell"}) THEN "ok" ELSE "error")
  /\ UNCHANGED <<adding, generation, started, cancels, login>>

\* The browser comes back with the right state: the first answer counts.
BrowserReturns(n, with) ==
  /\ login[n].listens
  /\ login' = [login EXCEPT ![n].heard = IF @ = "nothing" THEN with ELSE @]
  /\ UNCHANGED <<adding, generation, started, attempt, cancels, slot>>

SignInNext ==
  \/ PageLogin \/ PageCancels \/ CancelForUser
  \/ \E n \in Attempts :
       \/ PageBegan(n) \/ PageLoads(n) \/ PageDone(n)
       \/ BeginLogin(n) \/ BeginRefused(n) \/ CancelForAttempt(n) \/ FinishLogin(n)
       \/ FinishHears(n) \/ FinishExchanged(n) \/ FinishImported(n) \/ FinishFails(n)
       \/ FinishEnds(n)
       \/ \E with \in {"code", "error"} : BrowserReturns(n, with)

SignInSpec == SignInInit /\ [][SignInNext]_signInVars

-----------------------------------------------------------------------------
(* What is promised.                                                       *)

AllAnswered == cancels = 0 /\ \A n \in Attempts : AttemptAt(n, {"none", "done"})

\* No attempt, however it was cancelled and in whatever order its calls arrive, leaves
\* the next one refused: once every call is answered the desktop holds no sign-in, its
\* ports are free and the page can start another.
SignInFreed ==
  AllAnswered => slot = NoAttempt /\ ~adding /\ \A n \in Attempts : ~login[n].listens
=============================================================================
