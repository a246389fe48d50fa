----------------------------- MODULE AtomicPool -----------------------------
(***************************************************************************)
(* What a pool of logins kept on disk promises to the code that uses it:   *)
(* one change at a time, which takes effect at once or not at all, touches *)
(* no other account, and has taken effect when its save succeeds.          *)
(***************************************************************************)
EXTENDS Integers

CONSTANTS Accounts, Tokens, None

VARIABLES
  pool,      \* the tokens of each account, or None
  request,   \* the change being saved, or None
  failures   \* saves that failed or were cut off by a crash

vars == <<pool, request, failures>>

Init ==
  /\ pool \in [Accounts -> Tokens \cup {None}]
  /\ request = None
  /\ failures = 0

Begin(a, t) ==
  /\ request = None
  /\ request' = [of |-> a, to |-> t]
  /\ UNCHANGED <<pool, failures>>

Apply ==
  /\ request # None
  /\ pool' = [pool EXCEPT ![request.of] = request.to]
  /\ UNCHANGED <<request, failures>>

\* The save succeeds, with the change made now or before.
End ==
  /\ request # None
  /\ pool' = [pool EXCEPT ![request.of] = request.to]
  /\ request' = None
  /\ UNCHANGED failures

\* It fails, whether or not the change was made.
Fail ==
  /\ request' = None /\ failures' = failures + 1
  /\ UNCHANGED pool

Next ==
  \/ \E a \in Accounts, t \in Tokens \cup {None} : Begin(a, t)
  \/ Apply \/ End \/ Fail

Spec == Init /\ [][Next]_vars
=============================================================================
