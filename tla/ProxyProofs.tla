----------------------------- MODULE ProxyProofs -----------------------------
(***************************************************************************)
(* What holds of the proxy's routing whatever the pool, the number of      *)
(* requests, the cooldowns and the order of the answers; of the automatic  *)
(* switch, whatever is answered and done before it; and of the requests    *)
(* for accounts, whatever their number and the ways found and kept.        *)
(***************************************************************************)
EXTENDS ProxyRouting, AccountRequests, QuotaSwitch, FiniteSetTheorems, SequenceTheorems,
        WellFoundedInduction, TLAPS

\* A slot without a request is typed.
LEMMA IdleTyped == Idle \in Request
<1>1. [a \in {} |-> 0] \in [{} -> 0..MaxScore]
  OBVIOUS
<1>2. [a \in {} |-> 0] \in Scores
  BY <1>1 DEF Scores
<1> QED BY <1>2 DEF Idle, Request, Pcs

\* What a request asks next is well typed, whatever its queue.
LEMMA AskingTyped ==
  ASSUME NEW queue \in Seq(Accounts)
  PROVE  /\ Asking(queue) \in Request
         /\ Asking(queue).queue = queue
         /\ Asking(queue).pc = IF queue = <<>> THEN "failed" ELSE "asking"
         /\ Asking(queue).preferred \subseteq DOMAIN Asking(queue).seen
  BY IdleTyped DEF Asking, Idle, Request, Pcs, Scores

\* The queues a request may take are sequences of accounts.
LEMMA QueuesTyped ==
  ASSUME NEW w \in Request, NEW queue \in Queues(w)
  PROVE  queue \in Seq(Accounts)
<1>1. DOMAIN w.seen \subseteq Accounts
  BY DEF Request, Scores
<1>2. Warm(w) \subseteq Accounts /\ IsFiniteSet(Warm(w))
  BY <1>1, AccountsAssumption, FS_Subset DEF Warm
<1>3. Cardinality(Warm(w)) \in Nat
  BY <1>2, FS_CardinalityType
<1> QED BY <1>2, <1>3 DEF Queues

\* A queue that is not empty has an account first.
LEMMA TailTyped ==
  ASSUME NEW w \in Request, w.queue # <<>>
  PROVE  /\ Head(w.queue) \in Accounts
         /\ Tail(w.queue) \in Seq(Accounts)
  BY DEF Request

\* A cooldown is never longer than the longest.
LEMMA CooldownTyped ==
  ASSUME NEW c PROVE CooldownOf(c) \in 0..Long
  BY BoundsAssumption DEF CooldownOf

\* The invariant holds at the start.
LEMMA InitHolds == Init => IInv
  BY IdleTyped, AccountsAssumption, BoundsAssumption
     DEF Init, IInv, TypeOK, Serving, StickyNotCooling, Idle

\* Every step of the routing keeps it.
LEMMA StepKeeps == IInv /\ [Next]_vars => IInv'
<1> SUFFICES ASSUME IInv, [Next]_vars PROVE IInv'
  OBVIOUS
<1>0. CASE UNCHANGED vars
  BY <1>0 DEF vars, IInv, TypeOK, Serving, StickyNotCooling
<1>1. ASSUME NEW r \in Requests, Load(r) PROVE IInv'
  <2>1. [a \in available |-> score[a]] \in Scores
    BY DEF IInv, TypeOK, Scores
  <2>2. Loaded \in Request /\ Loaded.preferred \subseteq DOMAIN Loaded.seen
        /\ Loaded.pc = "loaded"
    BY <2>1 DEF Loaded, Request, Pcs, IInv, TypeOK
  <2> QED BY <1>1, <2>2 DEF Load, IInv, TypeOK, Serving, StickyNotCooling
<1>2. ASSUME NEW r \in Requests, Order(r) PROVE IInv'
  <2>1. PICK queue \in Queues(req[r]) : req' = [req EXCEPT ![r] = Asking(queue)]
    BY <1>2 DEF Order
  <2>2. queue \in Seq(Accounts)
    BY QueuesTyped DEF IInv, TypeOK
  <2> QED BY <1>2, <2>1, <2>2, AskingTyped
          DEF Order, IInv, TypeOK, Serving, StickyNotCooling
<1>3. ASSUME NEW r \in Requests,
             req[r].pc \in {"asking", "renewing"}, req' = [req EXCEPT ![r] = Advance(req[r])],
             UNCHANGED <<available, selected, provider, score>>,
             \/ UNCHANGED <<sticky, cooldown>>
             \/ \E c : Park(Head(req[r].queue), CooldownOf(c))
      PROVE  IInv'
  <2>1. req[r] \in Request /\ req[r].queue # <<>>
    BY <1>3 DEF IInv, TypeOK, Serving
  <2>2. Head(req[r].queue) \in Accounts /\ Tail(req[r].queue) \in Seq(Accounts)
    BY <2>1, TailTyped
  <2>3. /\ sticky' \in Accounts \cup {None} /\ cooldown' \in [Accounts -> 0..Long]
        /\ StickyNotCooling'
    <3>1. CASE UNCHANGED <<sticky, cooldown>>
      BY <3>1 DEF IInv, TypeOK, StickyNotCooling
    <3>2. ASSUME NEW c, Park(Head(req[r].queue), CooldownOf(c))
          PROVE  /\ sticky' \in Accounts \cup {None}
                 /\ cooldown' \in [Accounts -> 0..Long]
                 /\ StickyNotCooling'
      BY <2>2, <3>2, CooldownTyped DEF Park, IInv, TypeOK, StickyNotCooling
    <3> QED BY <1>3, <3>1, <3>2
  <2>4. req' \in [Requests -> Request] /\ Serving'
    BY <1>3, <2>2, AskingTyped DEF Advance, IInv, TypeOK, Serving
  <2> QED BY <1>3, <2>3, <2>4 DEF IInv, TypeOK
<1>4. ASSUME NEW r \in Requests, NetworkFails(r) PROVE IInv'
  BY <1>3, <1>4 DEF NetworkFails, AfterNetworkError
<1>5. ASSUME NEW r \in Requests, RenewalFails(r) PROVE IInv'
  BY <1>3, <1>5 DEF RenewalFails
<1>6. ASSUME NEW r \in Requests, NEW status, NEW signal,
             Refused(r, status, signal)
      PROVE  IInv'
  BY <1>3, <1>6 DEF Refused
<1>7. ASSUME NEW r \in Requests, AskRenewal(r) PROVE IInv'
  <2>1. req' \in [Requests -> Request] /\ Serving'
    BY <1>7 DEF AskRenewal, IInv, TypeOK, Request, Pcs, Serving
  <2> QED BY <1>7, <2>1 DEF AskRenewal, IInv, TypeOK, StickyNotCooling
<1>8. ASSUME NEW r \in Requests, Renewed(r) PROVE IInv'
  <2>1. req' = [req EXCEPT ![r] = [@ EXCEPT !.pc = "asking", !.renewed = TRUE]]
    BY <1>8 DEF Renewed
  <2>2. req[r] \in Request /\ req[r].pc = "renewing"
    BY <1>8 DEF Renewed, IInv, TypeOK
  <2>3. [req[r] EXCEPT !.pc = "asking", !.renewed = TRUE] \in Request
    BY <2>2 DEF Request, Pcs
  <2> QED BY <1>8, <2>1, <2>2, <2>3
          DEF Renewed, IInv, TypeOK, Serving, StickyNotCooling
<1>9. ASSUME NEW r \in Requests, Returned(r) \/ Finish(r) PROVE IInv'
  <2>1. Idle.pc = "idle" /\ Idle.preferred \subseteq DOMAIN Idle.seen
    BY DEF Idle
  <2>2. req' = [req EXCEPT ![r] = Idle]
    BY <1>9 DEF Returned, Finish
  <2>3. UNCHANGED <<available, selected, provider, score, sticky, cooldown>>
    BY <1>9 DEF Returned, Finish
  <2> QED BY <2>1, <2>2, <2>3, IdleTyped
          DEF IInv, TypeOK, Serving, StickyNotCooling
<1>10. ASSUME NEW r \in Requests, Accepted(r) PROVE IInv'
  <2>1. req[r] \in Request /\ req[r].queue # <<>>
    BY <1>10 DEF Accepted, IInv, TypeOK, Serving
  <2>2. <<Head(req[r].queue)>> \in Seq(Accounts) /\ <<Head(req[r].queue)>> # <<>>
    BY <2>1, TailTyped
  <2> HIDE DEF TypeOK
  <2> QED BY <1>10, <2>1, <2>2
          DEF Accepted, IInv, TypeOK, Request, Pcs, Serving, StickyNotCooling
<1>11. ASSUME NEW r \in Requests, Select(r) PROVE IInv'
  <2>1. req[r] \in Request /\ req[r].queue # <<>>
    BY <1>11 DEF Select, IInv, TypeOK, Serving
  <2>2. Head(req[r].queue) \in Accounts
    BY <2>1, TailTyped
  <2>3. selected' \in Accounts \cup {None} /\ provider' \in Keyed \cup {None}
    BY <1>11, <2>2 DEF Select, IInv, TypeOK
  <2>4. req' \in [Requests -> Request] /\ Serving'
    BY <1>11 DEF Select, IInv, TypeOK, Request, Pcs, Serving
  <2> QED BY <1>11, <2>3, <2>4 DEF Select, IInv, TypeOK, StickyNotCooling
<1>12. ASSUME NEW r \in Requests, Record(r) PROVE IInv'
  <2>1. req[r] \in Request /\ req[r].queue # <<>>
    BY <1>12 DEF Record, IInv, TypeOK, Serving
  <2>2. Head(req[r].queue) \in Accounts
    BY <2>1, TailTyped
  <2> QED BY <1>12, <2>2, IdleTyped, BoundsAssumption
          DEF Record, Stick, Idle, IInv, TypeOK, Serving, StickyNotCooling
<1>13. CASE Tick
  <2>1. cooldown' \in [Accounts -> 0..Long] /\ StickyNotCooling'
    BY <1>13, AccountsAssumption, BoundsAssumption
       DEF Tick, IInv, TypeOK, StickyNotCooling
  <2> QED BY <1>13, <2>1 DEF Tick, IInv, TypeOK, Serving
<1>14. CASE PoolChanges
  BY <1>14 DEF PoolChanges, IInv, TypeOK, Serving, StickyNotCooling
<1>15. ASSUME NEW a \in Accounts, UserSwitches(a) PROVE IInv'
  BY <1>15 DEF UserSwitches, IInv, TypeOK, Serving, StickyNotCooling
<1>16. ASSUME NEW a \in Accounts, UsageLearned(a) PROVE IInv'
  BY <1>16 DEF UsageLearned, IInv, TypeOK, Serving, StickyNotCooling
<1>17. ASSUME NEW r \in Requests, Goes(r) PROVE IInv'
  BY <1>17, <1>2, <1>4, <1>5, <1>6, <1>7, <1>8, <1>9, <1>10, <1>11, <1>12 DEF Goes
<1> QED BY <1>0, <1>1, <1>13, <1>14, <1>15, <1>16, <1>17 DEF Next

\* Every reachable state is well typed, and the account requests stick to is
\* never one in a cooldown, whatever order concurrent answers arrive in.
THEOREM InvariantHolds == Spec => []IInv
  BY InitHolds, StepKeeps, PTL DEF Spec

\* The account requests stick to is not in a cooldown (mark_candidate_cooldown).
THEOREM StickyNeverCools == Spec => []StickyNotCooling
<1>1. IInv => StickyNotCooling
  BY DEF IInv
<1> QED BY <1>1, InvariantHolds, PTL

-----------------------------------------------------------------------------

\* Only leaving its last candidate fails a request.
LEMMA FailingAdvances ==
  ASSUME IInv, [Next]_vars, NEW r \in Requests,
         req[r].pc \in {"asking", "renewing"}, req'[r].pc = "failed"
  PROVE  req'[r] = Advance(req[r])
<1>1. req \in [Requests -> Request]
  BY DEF IInv, TypeOK
<1>2. ASSUME NEW q \in Requests, Load(q) PROVE FALSE
  BY <1>1, <1>2 DEF Load, Loaded
<1>3. ASSUME NEW q \in Requests, Order(q) PROVE FALSE
  BY <1>1, <1>3 DEF Order
<1>4. ASSUME NEW q \in Requests, AskRenewal(q) \/ Renewed(q) PROVE FALSE
  BY <1>1, <1>4 DEF AskRenewal, Renewed, Request
<1>5. ASSUME NEW q \in Requests, Accepted(q) \/ Select(q) PROVE FALSE
  BY <1>1, <1>5 DEF Accepted, Select, Request
<1>6. ASSUME NEW q \in Requests, Returned(q) \/ Record(q) \/ Finish(q) PROVE FALSE
  BY <1>1, <1>6 DEF Returned, Record, Finish, Idle
<1>7. ASSUME NEW q \in Requests, NetworkFails(q) \/ RenewalFails(q)
      PROVE  req'[r] = Advance(req[r])
  BY <1>1, <1>7 DEF NetworkFails, AfterNetworkError, RenewalFails
<1>8. ASSUME NEW q \in Requests, NEW status, NEW signal, Refused(q, status, signal)
      PROVE  req'[r] = Advance(req[r])
  BY <1>1, <1>8 DEF Refused
<1>9. ASSUME UNCHANGED req PROVE FALSE
  BY <1>9
<1> QED BY <1>2, <1>3, <1>4, <1>5, <1>6, <1>7, <1>8, <1>9
        DEF Next, Goes, Tick, PoolChanges, UserSwitches, UsageLearned, vars

\* A step that fails a request leaves it no candidate.
LEMMA FailingLast ==
  IInv /\ [Next]_vars =>
    \A r \in Requests :
      req[r].pc \in {"asking", "renewing"} /\ req'[r].pc = "failed"
      => Len(req[r].queue) = 1
<1> SUFFICES ASSUME IInv, [Next]_vars, NEW r \in Requests,
                    req[r].pc \in {"asking", "renewing"}, req'[r].pc = "failed"
             PROVE  Len(req[r].queue) = 1
  OBVIOUS
<1>1. req[r] \in Request /\ req[r].queue \in Seq(Accounts) /\ req[r].queue # <<>>
  BY DEF IInv, TypeOK, Serving, Request
<1>2. req'[r] = Asking(Tail(req[r].queue))
  BY FailingAdvances DEF Advance
<1>3. Tail(req[r].queue) \in Seq(Accounts)
  BY <1>1
<1>4. Tail(req[r].queue) = <<>>
  BY <1>2, <1>3, AskingTyped
<1>5. Len(Tail(req[r].queue)) = Len(req[r].queue) - 1
  BY <1>1, HeadTailProperties
<1>6. Len(Tail(req[r].queue)) = 0
  BY <1>3, <1>4, EmptySeq
<1>7. Len(req[r].queue) \in Nat
  BY <1>1
<1> QED BY <1>5, <1>6, <1>7

\* A request fails only when its last candidate has: no failure of one account
\* ends it while another could be asked.
THEOREM FailsOnlyAtLast == Spec => FailsLast
<1> DEFINE A == \A r \in Requests :
       req[r].pc \in {"asking", "renewing"} /\ req'[r].pc = "failed"
       => Len(req[r].queue) = 1
<1>1. IInv /\ [Next]_vars => [A]_vars
  BY FailingLast
<1> HIDE DEF A
<1> QED BY <1>1, InvariantHolds, PTL DEF Spec, FailsLast, A

-----------------------------------------------------------------------------

\* The first of a queue ranks no lower than any other candidate in it.
LEMMA FirstRanksHighest ==
  ASSUME NEW w \in Request, NEW queue \in Queues(w), queue # <<>>,
         NEW a \in Warm(w), a # queue[1]
  PROVE  queue[1] \in Warm(w) /\ Precedes(queue[1], a, w)
<1>1. DOMAIN w.seen \subseteq Accounts
  BY DEF Request, Scores
<1>2. IsFiniteSet(Warm(w))
  BY <1>1, AccountsAssumption, FS_Subset DEF Warm
<1>3. Cardinality(Warm(w)) \in Nat
  BY <1>2, FS_CardinalityType
<1>4. PICK i \in DOMAIN queue : a = queue[i]
  BY DEF Queues
<1>5. 1 \in DOMAIN queue /\ DOMAIN queue = 1..Cardinality(Warm(w)) /\ i > 1
  BY <1>3, <1>4 DEF Queues
<1> QED BY <1>3, <1>4, <1>5 DEF Queues

\* Only ordering its candidates lets a loaded request ask one.
LEMMA LoadedOrders ==
  ASSUME IInv, [Next]_vars, NEW r \in Requests,
         req[r].pc = "loaded", req'[r].pc = "asking"
  PROVE  Order(r)
<1>1. req \in [Requests -> Request]
  BY DEF IInv, TypeOK
<1>2. ASSUME NEW q \in Requests, q # r, Load(q) \/ Goes(q) PROVE req'[r] = req[r]
  BY <1>1, <1>2 DEF Load, Goes, Order, NetworkFails, AskRenewal, Renewed,
     RenewalFails, Refused, Returned, Accepted, Select, Record, Finish
<1>3. ASSUME Load(r) \/ Goes(r) PROVE Order(r)
  BY <1>3 DEF Load, Goes, NetworkFails, AskRenewal, Renewed,
     RenewalFails, Refused, Returned, Accepted, Select, Record, Finish
<1>4. UNCHANGED req => FALSE
  OBVIOUS
<1> QED BY <1>2, <1>3, <1>4
        DEF Next, Tick, PoolChanges, UserSwitches, UsageLearned, vars

\* A step that orders the candidates puts the right one first.
LEMMA AskingFirst ==
  IInv /\ [Next]_vars =>
    \A r \in Requests :
      LET w == req[r]
          routable == {a \in DOMAIN w.seen : cooldown[a] = 0}
          marked == w.preferred \cap routable
          rivals == IF Local /\ marked # {} THEN marked ELSE routable
          first == Head(req'[r].queue)
          stuck == Local /\ sticky \in rivals
      IN  w.pc = "loaded" /\ req'[r].pc = "asking" =>
            /\ first \in rivals
            /\ stuck => first = sticky
            /\ ~stuck => \A a \in rivals : w.seen[first] >= w.seen[a]
<1> SUFFICES ASSUME IInv, [Next]_vars, NEW r \in Requests,
                    req[r].pc = "loaded", req'[r].pc = "asking"
             PROVE  LET w == req[r]
                        routable == {a \in DOMAIN w.seen : cooldown[a] = 0}
                        marked == w.preferred \cap routable
                        rivals == IF Local /\ marked # {} THEN marked ELSE routable
                        first == Head(req'[r].queue)
                        stuck == Local /\ sticky \in rivals
                    IN  /\ first \in rivals
                        /\ stuck => first = sticky
                        /\ ~stuck => \A a \in rivals : w.seen[first] >= w.seen[a]
  OBVIOUS
<1> DEFINE w == req[r]
           marked == w.preferred \cap Warm(w)
           rivals == IF Local /\ marked # {} THEN marked ELSE Warm(w)
           first == Head(req'[r].queue)
           stuck == Local /\ sticky \in rivals
<1>1. w \in Request
  BY DEF IInv, TypeOK
<1>2. PICK queue \in Queues(w) : req'[r] = Asking(queue)
  <2>1. Order(r) /\ req \in [Requests -> Request]
    BY LoadedOrders DEF IInv, TypeOK
  <2> QED BY <2>1 DEF Order
<1>3. queue \in Seq(Accounts) /\ queue # <<>> /\ first = Head(queue)
  BY <1>1, <1>2, QueuesTyped, AskingTyped
<1>4. first = queue[1]
  BY <1>3
<1>5. first \in Warm(w)
  <2>1. 1 \in DOMAIN queue
    BY <1>3
  <2> QED BY <1>2, <1>4, <2>1 DEF Queues
<1>6. ASSUME NEW a \in Warm(w), a # first
      PROVE  Precedes(first, a, w)
  BY <1>1, <1>2, <1>3, <1>4, <1>6, FirstRanksHighest
<1>7. w.seen \in [DOMAIN w.seen -> 0..MaxScore]
  BY <1>1 DEF Request, Scores
<1>8. w.seen[first] \in Nat /\ \A a \in rivals : a \in Warm(w) /\ w.seen[a] \in Nat
  BY <1>5, <1>7, BoundsAssumption DEF Warm
<1>9. first \in rivals
  <2>1. ASSUME Local, NEW a \in marked
        PROVE  first \in marked
    <3>1. CASE a # first
      BY <1>5, <1>6, <2>1, <3>1 DEF Precedes, Rank
    <3> QED BY <2>1, <3>1
  <2> QED BY <1>5, <2>1
<1>10. ASSUME stuck
       PROVE  first = sticky
  <2>1. CASE first # sticky
    <3>1. Precedes(first, sticky, w)
      BY <1>6, <1>8, <1>10, <2>1
    <3>2. (first \in w.preferred) <=> (sticky \in w.preferred)
      BY <1>9, <1>10
    <3> QED BY <1>10, <2>1, <3>1, <3>2 DEF Precedes, Rank
  <2> QED BY <2>1
<1>11. ASSUME ~stuck, NEW a \in rivals
       PROVE  w.seen[first] >= w.seen[a]
  <2>1. CASE a # first
    <3>1. Precedes(first, a, w)
      BY <1>6, <1>8, <2>1
    <3>2. CASE Local
      <4>1. first # sticky /\ a # sticky
        BY <1>9, <1>11, <3>2
      <4>2. (first \in w.preferred) <=> (a \in w.preferred)
        BY <1>9, <1>11, <3>2, <1>5, <1>8
      <4> QED BY <1>8, <3>1, <3>2, <4>1, <4>2 DEF Precedes, Rank
    <3>3. CASE ~Local
      BY <1>8, <3>1, <3>3 DEF Precedes, Rank
    <3> QED BY <3>2, <3>3
  <2> QED BY <1>8, <2>1
<1> HIDE DEF first, w, rivals
<1>12. /\ first \in rivals
       /\ stuck => first = sticky
       /\ ~stuck => \A a \in rivals : w.seen[first] >= w.seen[a]
  BY <1>9, <1>10, <1>11
<1> QED BY <1>12 DEF Warm, first, w, rivals, marked, stuck

\* A request of the app asks first one of those stored as in use, if one is not
\* cooling: of two, or with none, the account requests stick to, else one with
\* the most quota left; a request of the daemon one with the most quota left.
THEOREM SelectionAskedFirst == Spec => AsksSelectionFirst
<1> DEFINE A == \A r \in Requests :
       LET w == req[r]
           routable == {a \in DOMAIN w.seen : cooldown[a] = 0}
           marked == w.preferred \cap routable
           rivals == IF Local /\ marked # {} THEN marked ELSE routable
           first == Head(req'[r].queue)
           stuck == Local /\ sticky \in rivals
       IN  w.pc = "loaded" /\ req'[r].pc = "asking" =>
             /\ first \in rivals
             /\ stuck => first = sticky
             /\ ~stuck => \A a \in rivals : w.seen[first] >= w.seen[a]
<1>1. IInv /\ [Next]_vars => [A]_vars
  BY AskingFirst
<1> HIDE DEF A
<1> QED BY <1>1, InvariantHolds, PTL DEF Spec, AsksSelectionFirst, A

-----------------------------------------------------------------------------
(* The least and the greatest of a set of numbers.                         *)

\* A set of numbers that is not empty has a least one.
LEMMA MinOf ==
  ASSUME NEW S, S \subseteq Nat, S # {}
  PROVE  Min(S) \in S /\ \A n \in S : Min(S) <= n
<1>1. IsWellFoundedOn(OpToRel(<, Nat), Nat)
  BY NatLessThanWellFounded, Zenon
<1>2. PICK n \in S : \A m \in S : ~ (<<m, n>> \in OpToRel(<, Nat))
  BY <1>1, WFMin, Zenon
<1>3. ASSUME NEW m \in S PROVE n <= m
  <2>1. ~ (<<m, n>> \in OpToRel(<, Nat))
    BY <1>2, Zenon
  <2>2. ~ (m < n)
    BY <2>1, n \in Nat, m \in Nat, Zenon DEF OpToRel
  <2> QED
    BY <2>2
<1> QED
  BY <1>3 DEF Min

\* A finite set of numbers that is not empty has a greatest one: else the smallest
\* that has none would be one without some element.
LEMMA MaxOf ==
  ASSUME NEW S, S \subseteq Nat, S # {}, IsFiniteSet(S)
  PROVE  Max(S) \in S /\ \A n \in S : n <= Max(S)
<1> DEFINE Great(U) == \E x \in U : \A y \in U : y <= x
           Sizes == {n \in Nat : \E U \in SUBSET S : U # {} /\ ~Great(U) /\ Cardinality(U) = n}
<1>1. Great(S)
  <2> SUFFICES ASSUME ~Great(S) PROVE FALSE
    OBVIOUS
  <2>1. Sizes # {}
    BY FS_CardinalityType
  <2>2. Min(Sizes) \in Sizes /\ \A n \in Sizes : Min(Sizes) <= n
    BY <2>1, MinOf
  <2>3. PICK U \in SUBSET S : U # {} /\ ~Great(U) /\ Cardinality(U) = Min(Sizes)
    BY <2>2
  <2>4. PICK x \in U : TRUE
    BY <2>3
  <2>5. IsFiniteSet(U)
    BY FS_Subset
  <2>6. IsFiniteSet(U \ {x}) /\ Cardinality(U \ {x}) = Cardinality(U) - 1 /\ Cardinality(U) \in Nat
        /\ Cardinality(U \ {x}) \in Nat
    BY <2>4, <2>5, FS_RemoveElement, FS_CardinalityType
  <2>7. U \ {x} # {}
    BY <2>3, <2>4
  <2>8. Great(U \ {x})
    <3>1. Cardinality(U \ {x}) \notin Sizes
      <4> HIDE DEF Sizes
      <4> QED
        BY <2>2, <2>3, <2>6
    <3> QED
      BY <3>1, <2>6, <2>7
  <2>9. PICK y \in U \ {x} : \A z \in U \ {x} : z <= y
    BY <2>8
  <2>10. Great(U)
    <3>1. CASE x <= y
      BY <3>1, <2>9
    <3>2. CASE ~(x <= y)
      <4>1. \A z \in U : z <= x
        BY <3>2, <2>9
      <4> QED
        BY <4>1, <2>4
    <3> QED
      BY <3>1, <3>2
  <2> QED
    BY <2>3, <2>10
<1> QED
  BY <1>1 DEF Max

-----------------------------------------------------------------------------
(* What an answer says of an account's limits: QuotaSwitch.                *)

Said == Replies \cup {<<NoWindow, NoWindow>>, <<Window("month", 2), NoWindow>>}
Snapshots == [fiveHour : Windows, oneWeek : Windows, recent : BOOLEAN]

\* The least of one number is that number.
LEMMA OneFirst == Min({1}) = 1 /\ Min({2}) = 2
  BY DEF Min

\* What is stored of an answer: of each duration the window it names, or leaves to its
\* place, so that a limit is used up in the one when it is in the other.
LEMMA SnapshotSays ==
  ASSUME NEW reply \in Said
  PROVE  /\ Snapshot(reply).fiveHour \in Windows /\ Snapshot(reply).oneWeek \in Windows
         /\ Matching(Snapshot(reply).fiveHour, "5h") = Snapshot(reply).fiveHour
         /\ Matching(Snapshot(reply).oneWeek, "week") = Snapshot(reply).oneWeek
         /\ SpentWindow(Snapshot(reply).fiveHour) \/ SpentWindow(Snapshot(reply).oneWeek)
              <=> \E i \in Limits(reply) : reply[i].used = 2
         /\ Snapshot(reply).fiveHour # NoWindow \/ Snapshot(reply).oneWeek # NoWindow
              => Limits(reply) # {}
<1> USE DEF Snapshot, Matching, SpentWindow, Windows, Window, NoWindow
<1>1. CASE \E f, w \in {0, 2} : reply = <<Window("5h", f), Window("week", w)>>
  <2>1. PICK f, w \in {0, 2} : reply = <<Window("5h", f), Window("week", w)>>
    BY <1>1
  <2>2. Exact(reply, "5h") = {1} /\ Exact(reply, "week") = {2} /\ Limits(reply) = {1, 2}
    BY <2>1 DEF Exact, Limits
  <2>3. Classified(reply, "5h", 1) = reply[1] /\ Classified(reply, "week", 2) = reply[2]
    BY <2>2, OneFirst DEF Classified
  <2>4. /\ reply[1] # NoWindow /\ reply[1].for = "5h" /\ reply[1] \in Windows
        /\ reply[2] # NoWindow /\ reply[2].for = "week" /\ reply[2] \in Windows
    BY <2>1
  <2> HIDE DEF Windows, Window, NoWindow
  <2> QED
    BY <2>2, <2>3, <2>4
<1>2. CASE reply = <<Window("week", 2), NoWindow>>
  <2>2. Exact(reply, "5h") = {} /\ Exact(reply, "week") = {1} /\ Limits(reply) = {1}
    BY <1>2 DEF Exact, Limits
  <2>3. Classified(reply, "5h", 1) = NoWindow /\ Classified(reply, "week", 2) = reply[1]
    BY <1>2, <2>2, OneFirst DEF Classified
  <2>4. reply[1] # NoWindow /\ reply[1].for = "week" /\ reply[1] \in Windows /\ reply[1].used = 2
    BY <1>2
  <2>5. NoWindow \in Windows /\ NoWindow.for = "nothing"
    OBVIOUS
  <2> HIDE DEF Windows, Window, NoWindow
  <2> QED
    BY <2>2, <2>3, <2>4, <2>5
<1>3. CASE reply = <<Window("unsaid", 0), Window("unsaid", 2)>>
  <2>2. Exact(reply, "5h") = {} /\ Exact(reply, "week") = {} /\ Limits(reply) = {1, 2}
    BY <1>3 DEF Exact, Limits
  <2>3. Classified(reply, "5h", 1) = reply[1] /\ Classified(reply, "week", 2) = reply[2]
    BY <1>3, <2>2 DEF Classified
  <2>4. reply[1] # NoWindow /\ reply[2] # NoWindow
    BY <1>3
  <2> QED
    BY <1>3, <2>2, <2>3, <2>4
<1>4. CASE reply \in {<<NoWindow, NoWindow>>, <<Window("month", 2), NoWindow>>}
  <2>2. Exact(reply, "5h") = {} /\ Exact(reply, "week") = {} /\ Limits(reply) = {}
    BY <1>4 DEF Exact, Limits
  <2>3. Classified(reply, "5h", 1) = NoWindow /\ Classified(reply, "week", 2) = NoWindow
    BY <1>4, <2>2 DEF Classified
  <2> QED
    BY <2>2, <2>3
<1> QED
  BY <1>1, <1>2, <1>3, <1>4 DEF Said, Replies

Rounds == {NoSwitch} \cup [pc : {"asking"}, asked : SUBSET Holders]
            \cup [pc : {"switching"}, target : Holders]
QuotaTyped ==
  /\ usage \in [Holders -> Snapshots] /\ told \in [Holders -> Said]
  /\ failing \subseteq Holders /\ disabled \subseteq Holders
  /\ inUse \in {{}} \cup {Selected(a) : a \in Holders}
  /\ round \in Rounds /\ smart \in {NoSwitch} \cup [pc : {"switching"}, target : Holders]

\* What is shown of an account is what the last answer about it said.
ShownAsTold == \A a \in Holders :
  /\ Shown(a).fiveHour = Snapshot(told[a]).fiveHour
  /\ Shown(a).oneWeek = Snapshot(told[a]).oneWeek

\* Accounts are finitely many numbers, each among those selected with it.
LEMMA HoldersCounted ==
  /\ Holders \subseteq Nat \ {0} /\ IsFiniteSet(Holders)
  /\ \A a \in Holders : a \in Selected(a) /\ Selected(a) \subseteq Holders
  BY QuotaBounds DEF Holders, Selected

\* Spent, and with quota left, as the last answer said.
LEMMA JudgedAsTold ==
  ASSUME QuotaTyped, ShownAsTold, NEW a \in Holders
  PROVE  /\ Exhausted(a) <=> UsedUp(a)
         /\ Eligible(a) => QuotaLeft(a)
         /\ Score(a) \in 0..20
<1>1. told[a] \in Said
  BY DEF QuotaTyped
<1> DEFINE s == Snapshot(told[a])
<1>2. Shown(a).fiveHour = s.fiveHour /\ Shown(a).oneWeek = s.oneWeek
      /\ s.fiveHour \in Windows /\ s.oneWeek \in Windows
      /\ (s.fiveHour # NoWindow \/ s.oneWeek # NoWindow => Limits(told[a]) # {})
      /\ (SpentWindow(s.fiveHour) \/ SpentWindow(s.oneWeek)
             <=> \E i \in Limits(told[a]) : told[a][i].used = 2)
  BY <1>1, SnapshotSays DEF ShownAsTold
<1> HIDE DEF s
<1>3. Exhausted(a) <=> UsedUp(a)
  BY <1>2 DEF Exhausted, UsedUp
<1>4. \A w \in Windows : Remaining(w) \in 0..2
  BY DEF Remaining, Windows
<1>5. /\ FiveHourRemaining(Shown(a)) \in 0..2
      /\ Shown(a).fiveHour = NoWindow /\ Shown(a).oneWeek = NoWindow
           => FiveHourRemaining(Shown(a)) = 0
  <2>1. \A w \in Windows : Remaining(w) \in 0..2
    BY <1>4
  <2> QED
    BY <1>2, <2>1 DEF FiveHourRemaining, Remaining
<1>6. Remaining(Shown(a).oneWeek) \in 0..2 /\ Remaining(NoWindow) = 0
  BY <1>2, <1>4 DEF Remaining
<1>7. Score(a) \in 0..20
      /\ (Score(a) > 0 => Shown(a).fiveHour # NoWindow \/ Shown(a).oneWeek # NoWindow)
  BY <1>5, <1>6 DEF Score
<1> QED
  BY <1>2, <1>3, <1>7 DEF Eligible, QuotaLeft

\* Of accounts there are, some are at the top.
LEMMA TopOf ==
  ASSUME QuotaTyped, ShownAsTold, NEW S \in SUBSET Holders, S # {}
  PROVE  Top(S) # {} /\ Top(S) \subseteq S
<1> DEFINE Missing == {20 - Score(a) : a \in S}
<1>1. \A a \in S : Score(a) \in 0..20
  BY JudgedAsTold
<1>2. Missing \subseteq Nat /\ Missing # {}
  BY <1>1
<1>3. Min(Missing) \in Missing /\ \A n \in Missing : Min(Missing) <= n
  BY <1>2, MinOf
<1>4. PICK a \in S : 20 - Score(a) = Min(Missing)
  BY <1>3
<1>5. ASSUME NEW b \in S PROVE Score(b) <= Score(a)
  <2>1. Min(Missing) <= 20 - Score(b)
    BY <1>3
  <2> QED
    BY <1>1, <1>4, <2>1
<1> QED
  BY <1>5 DEF Top

\* Smart Switch and the automatic switch choose an account, the latter one that may be used.
LEMMA ChosenIsOne ==
  ASSUME QuotaTyped, ShownAsTold
  PROVE  /\ Best \in Holders \cup {Nobody}
         /\ AutoSwitchTarget # Nobody =>
              /\ MustLeave /\ AutoSwitchTarget \in Holders /\ Eligible(AutoSwitchTarget)
<1>1. Best \in Holders \cup {Nobody}
  <2> DEFINE top == Top({a \in Holders : Available(a)})
  <2>1. top \subseteq Holders
    BY DEF Top
  <2>2. top # {} => Min(top) \in Holders
    BY <2>1, MinOf, HoldersCounted
  <2>3. top \cap inUse # {} => Min(top \cap inUse) \in Holders
    BY <2>1, MinOf, HoldersCounted
  <2> QED
    BY <2>2, <2>3 DEF Best
<1>2. ASSUME AutoSwitchTarget # Nobody
      PROVE  MustLeave /\ AutoSwitchTarget \in Holders /\ Eligible(AutoSwitchTarget)
  <2> DEFINE better == {a \in Holders \ inUse : Eligible(a) /\ \A b \in Spent : Score(a) > Score(b)}
  <2>1. MustLeave /\ better # {} /\ AutoSwitchTarget = Max(Top(better))
    BY <1>2 DEF AutoSwitchTarget
  <2>2. Top(better) # {} /\ Top(better) \subseteq better
    BY <2>1, TopOf
  <2>3. Top(better) \subseteq Nat /\ IsFiniteSet(Top(better))
    BY <2>2, HoldersCounted, FS_Subset
  <2>4. Max(Top(better)) \in better
    BY <2>2, <2>3, MaxOf
  <2> QED
    BY <2>1, <2>4
<1> QED
  BY <1>1, <1>2

\* At the start what is shown of an account is nothing, as nothing was answered.
LEMMA QuotaStart == QuotaInit => QuotaTyped /\ ShownAsTold
<1> SUFFICES ASSUME QuotaInit PROVE QuotaTyped /\ ShownAsTold
  OBVIOUS
<1>1. PICK old \in {NoWindow, Window("month", 2)} :
        /\ usage = [a \in Holders |-> [fiveHour |-> old, oneWeek |-> old, recent |-> FALSE]]
        /\ told = [a \in Holders |-> <<old, NoWindow>>]
  BY DEF QuotaInit
<1>2. old \in Windows /\ <<old, NoWindow>> \in Said
  BY DEF Windows, Window, Said
<1>3. QuotaTyped
  <2>1. disabled \subseteq Holders
    BY DEF QuotaInit, Holders
  <2> QED
    BY <1>1, <1>2, <2>1 DEF QuotaInit, QuotaTyped, Snapshots, Rounds
<1>4. ShownAsTold
  <2> SUFFICES ASSUME NEW a \in Holders
               PROVE  /\ Shown(a).fiveHour = Snapshot(told[a]).fiveHour
                      /\ Shown(a).oneWeek = Snapshot(told[a]).oneWeek
    BY DEF ShownAsTold
  <2>1. Shown(a).fiveHour = NoWindow /\ Shown(a).oneWeek = NoWindow
    BY <1>1 DEF Shown, Matching, NoWindow, Window
  <2>2. told[a] = <<old, NoWindow>>
    BY <1>1
  <2>3. Exact(told[a], "5h") = {} /\ Exact(told[a], "week") = {}
    BY <2>2 DEF Exact, NoWindow, Window
  <2>4. Classified(told[a], "5h", 1) = NoWindow /\ Classified(told[a], "week", 2) = NoWindow
    BY <2>2, <2>3 DEF Classified, NoWindow, Window
  <2> QED
    BY <2>1, <2>4 DEF Snapshot
<1> QED
  BY <1>3, <1>4

\* Every step stores what was answered, and shows it.
LEMMA QuotaStep ==
  ASSUME QuotaTyped, ShownAsTold, [QuotaNext]_quotaVars
  PROVE  QuotaTyped' /\ ShownAsTold'
<1>1. UNCHANGED <<usage, told>> => ShownAsTold'
  BY DEF ShownAsTold, Shown, Holders
<1>2. ASSUME NEW a \in Holders, Leaves(a) PROVE round' \in Rounds
  BY <1>2 DEF Leaves, Rounds, QuotaTyped, NoSwitch
<1>3. CASE UNCHANGED quotaVars
  BY <1>1, <1>3 DEF quotaVars, QuotaTyped
<1>4. CASE RoundStarts
  BY <1>1, <1>4 DEF RoundStarts, QuotaTyped, Rounds
<1>5. CASE RoundEnds
  <2>1. round' \in Rounds
    BY <1>5, ChosenIsOne DEF RoundEnds, Rounds
  <2> QED
    BY <1>1, <1>5, <2>1 DEF RoundEnds, QuotaTyped
<1>6. CASE AutoSwitches
  <2>1. round.target \in Holders
    BY <1>6 DEF AutoSwitches, QuotaTyped, Rounds, NoSwitch
  <2> QED
    BY <1>1, <1>6, <2>1 DEF AutoSwitches, QuotaTyped, Rounds
<1>7. CASE AutoFails
  BY <1>1, <1>7 DEF AutoFails, QuotaTyped, Rounds
<1>8. CASE SmartStarts
  BY <1>1, <1>8, ChosenIsOne DEF SmartStarts, QuotaTyped, Counts
<1>9. CASE SmartEnds
  <2>1. smart.target \in Holders
    BY <1>9 DEF SmartEnds, QuotaTyped, NoSwitch
  <2> QED
    BY <1>1, <1>9, <2>1 DEF SmartEnds, QuotaTyped
<1>10. CASE UserSignsOut
  BY <1>1, <1>10 DEF UserSignsOut, QuotaTyped, Counts
<1>11. ASSUME NEW a \in Holders, NEW reply \in Replies, UsageAnswered(a, reply)
       PROVE  QuotaTyped' /\ ShownAsTold'
  <2> DEFINE s == Snapshot(reply)
             n == [fiveHour |-> s.fiveHour, oneWeek |-> s.oneWeek, recent |-> TRUE]
  <2>1. /\ reply \in Said /\ s.fiveHour \in Windows /\ s.oneWeek \in Windows
        /\ Matching(s.fiveHour, "5h") = s.fiveHour /\ Matching(s.oneWeek, "week") = s.oneWeek
    BY SnapshotSays DEF Said
  <2>2. n \in Snapshots
    BY <2>1 DEF Snapshots
  <2>3. usage' = [usage EXCEPT ![a] = n] /\ told' = [told EXCEPT ![a] = reply]
    BY <1>11 DEF UsageAnswered
  <2> HIDE DEF s, n
  <2>4. usage' \in [Holders -> Snapshots] /\ told' \in [Holders -> Said]
    BY <2>1, <2>2, <2>3 DEF QuotaTyped
  <2>5. QuotaTyped'
    BY <1>2, <1>11, <2>4 DEF UsageAnswered, QuotaTyped
  <2>6. ASSUME NEW b \in Holders
        PROVE  /\ Shown(b)'.fiveHour = Snapshot(told'[b]).fiveHour
               /\ Shown(b)'.oneWeek = Snapshot(told'[b]).oneWeek
    <3>1. CASE b = a
      <4>1. usage'[b] = n /\ told'[b] = reply
        BY <2>3, <3>1 DEF QuotaTyped
      <4> QED
        BY <2>1, <4>1 DEF Shown, n, s
    <3>2. CASE b # a
      <4>1. usage'[b] = usage[b] /\ told'[b] = told[b]
        BY <2>3, <3>2 DEF QuotaTyped
      <4> QED
        BY <4>1 DEF Shown, ShownAsTold
    <3> QED
      BY <3>1, <3>2
  <2>7. ShownAsTold'
    BY <2>6 DEF ShownAsTold
  <2> QED
    BY <2>5, <2>7
<1>12. ASSUME NEW a \in Holders, UsageFails(a) PROVE QuotaTyped' /\ ShownAsTold'
  BY <1>1, <1>2, <1>12 DEF UsageFails, QuotaTyped
<1>13. ASSUME NEW a \in Holders, PassedOver(a) PROVE QuotaTyped' /\ ShownAsTold'
  BY <1>1, <1>2, <1>13 DEF PassedOver, QuotaTyped
<1>14. ASSUME NEW a \in Holders, GrowsOld(a) PROVE QuotaTyped' /\ ShownAsTold'
  <2>1. usage[a] \in Snapshots /\ usage' = [usage EXCEPT ![a] = [usage[a] EXCEPT !.recent = FALSE]]
    BY <1>14 DEF GrowsOld, QuotaTyped
  <2>2. usage' \in [Holders -> Snapshots]
    BY <2>1 DEF QuotaTyped, Snapshots
  <2>3. \A b \in Holders :
        /\ usage'[b].fiveHour = usage[b].fiveHour /\ usage'[b].oneWeek = usage[b].oneWeek
    BY <2>1 DEF QuotaTyped, Snapshots
  <2>4. \A b \in Holders : usage[b] \in Snapshots /\ usage'[b] \in Snapshots
    BY <2>2 DEF QuotaTyped
  <2>5. \A b \in Holders :
        /\ Shown(b)'.fiveHour = Shown(b).fiveHour /\ Shown(b)'.oneWeek = Shown(b).oneWeek
    BY <2>3, <2>4 DEF Shown, Snapshots
  <2>6. ShownAsTold'
    BY <1>14, <2>5 DEF ShownAsTold, GrowsOld
  <2> QED
    BY <1>14, <2>2, <2>6 DEF GrowsOld, QuotaTyped
<1>15. ASSUME NEW a \in Holders, UserChooses(a) PROVE QuotaTyped' /\ ShownAsTold'
  BY <1>1, <1>15 DEF UserChooses, QuotaTyped, Counts
<1> QED
  BY <1>3, <1>4, <1>5, <1>6, <1>7, <1>8, <1>9, <1>10, <1>11, <1>12, <1>13, <1>14,
     <1>15 DEF QuotaNext

\* What each step does of what SwitchesToQuota says of all.
DecidesWell ==
  (round.pc = "asking" /\ round'.pc = "switching") =>
     /\ \A a \in inUse : a \in disabled \/ UsedUp(a)
     /\ \E a \in inUse : UsedUp(a)
     /\ QuotaLeft(round'.target) /\ Fresh(round'.target)
     /\ round'.target \notin disabled

\* An automatic switch is decided only when the last answers left the accounts in use
\* without quota, and for one they left quota, however answers, failures, choices and
\* other switches come in between (ranking.rs, application.rs, claude.rs).
THEOREM SwitchesAreJustified == QuotaSpec => SwitchesToQuota
<1>1. QuotaTyped /\ ShownAsTold /\ [QuotaNext]_quotaVars => [DecidesWell]_quotaVars
  <2> SUFFICES ASSUME QuotaTyped, ShownAsTold, QuotaNext,
                      round.pc = "asking", round'.pc = "switching"
               PROVE  DecidesWell
    BY DEF DecidesWell
  <2>1. RoundEnds
    <3>1. ASSUME NEW a \in Holders PROVE ~Leaves(a)
      BY DEF Leaves, QuotaTyped, Rounds, NoSwitch
    <3> QED
      BY <3>1 DEF QuotaNext, RoundStarts, AutoSwitches, AutoFails, SmartStarts, SmartEnds,
                 UsageAnswered, UsageFails, PassedOver, GrowsOld,
                 UserChooses, UserSignsOut, NoSwitch
  <2>2. AutoSwitchTarget # Nobody /\ round'.target = AutoSwitchTarget
    BY <2>1 DEF RoundEnds, NoSwitch
  <2>3. MustLeave /\ round'.target \in Holders /\ Eligible(round'.target)
    BY <2>2, ChosenIsOne
  <2>4. inUse \subseteq Holders
    BY HoldersCounted DEF QuotaTyped
  <2> QED
    BY <2>3, <2>4, JudgedAsTold DEF DecidesWell, MustLeave, Spent, Eligible, Available
<1>2. QuotaSpec => [](QuotaTyped /\ ShownAsTold)
  BY QuotaStart, QuotaStep, PTL DEF QuotaSpec
<1>3. [][DecidesWell]_quotaVars => SwitchesToQuota
  BY DEF SwitchesToQuota, DecidesWell
<1> QED
  BY <1>1, <1>2, <1>3, PTL DEF QuotaSpec

-----------------------------------------------------------------------------
(* The way and the fall-back of the requests for accounts: AccountRequests. *)

Origins == [host : Hosts, suffixed : BOOLEAN, loopback : BOOLEAN]
Systems == [mac : BOOLEAN, environment : {"unset", "invalid", "proxy"}, exempt : SUBSET Hosts,
            ignored : SUBSET Hosts, entries : Seq(Entries), pac : {"proxy", "unusable", "missing"}]
Founds == [way : SystemWays, due : BOOLEAN, renewal : SystemWays \cup {"no", "reads"}]
Errors == UNION {[S -> Failures] : S \in SUBSET Endpoints}
Sent == UNION {[S -> Ways] : S \in SUBSET Endpoints}
Outcomes == {Unknown, [refused |-> TRUE]} \cup [from : Endpoints] \cup [told : SUBSET Endpoints]
Fetch == [pc : {"sending", "waiting", "credits", "ended"}, kind : {"usage", "workspaces"},
          proxy : Settings, route : Ways, urls : Seq(Endpoints), waiting : SUBSET Endpoints,
          errors : Errors, said : Endpoints \cup {Unknown}, retried : BOOLEAN,
          by : Sent, result : Outcomes]

NetworkTyped ==
  /\ origin \in Origins /\ system \in Systems
  /\ resolved \in [Hosts -> {Unknown} \cup Founds]
  /\ request \in [Slots -> {NoRequest} \cup Fetch]
  /\ preferred \in Endpoints \cup {Unknown}

\* Each session goes the way of the setting it was made for.
SessionsRight == \A p \in DOMAIN sessions : sessions[p] = SessionWay(p)


\* No errors yet.
LEMMA NoErrors == <<>> \in Errors /\ DOMAIN <<>> = {}
<1>1. <<>> \in [{} -> Failures]
  OBVIOUS
<1> QED
  BY <1>1 DEF Errors

\* An endpoint is never taken for none.
LEMMA EndpointsKnown == \A e \in Endpoints : e # Unknown
  BY DEF Endpoints, Unknown

\* Endpoints of different hosts or paths differ.
LEMMA EndpointsDiffer ==
  \A h, g \in Hosts, p, q \in {"backend", "wham", "codex", "credits"} :
    /\ At(h, p) \in Endpoints /\ At(h, p).host = h
    /\ At(h, p) = At(g, q) => h = g /\ p = q
<1>1. ASSUME NEW h, NEW g, NEW p, NEW q, At(h, p) = At(g, q) PROVE h = g /\ p = q
  <2>1. At(h, p).host = h /\ At(h, p).path = p /\ At(g, q).host = g /\ At(g, q).path = q
    BY DEF At
  <2> QED
    BY <1>1, <2>1
<1> QED
  BY <1>1 DEF At, Endpoints

\* Two lists joined.
LEMMA Joined ==
  ASSUME NEW s \in Seq(Endpoints), NEW t \in Seq(Endpoints), NEW all \in Seq(Endpoints),
         Len(all) = Len(s) + Len(t),
         \A i \in 1..Len(all) : all[i] = IF i <= Len(s) THEN s[i] ELSE t[i - Len(s)]
  PROVE  s \o t = all
<1>1. /\ s \o t \in Seq(Endpoints) /\ Len(s \o t) = Len(s) + Len(t)
      /\ \A i \in 1..(Len(s) + Len(t)) : (s \o t)[i] = IF i <= Len(s) THEN s[i] ELSE t[i - Len(s)]
  BY ConcatProperties
<1>2. \A i \in 1..Len(s \o t) : (s \o t)[i] = all[i]
  BY <1>1
<1> QED
  BY <1>1, <1>2, SeqEqual

\* No endpoint is listed twice.
LEMMA UrlsDistinct ==
  ASSUME origin \in Origins, NEW kind \in {"usage", "workspaces"}
  PROVE  /\ Urls(kind) \in Seq(Endpoints) /\ Urls(kind) # <<>> /\ IsInjective(Urls(kind))
<1> DEFINE a(p) == At("relay", p)
           o(p) == At("official", p)
<1>1. \A p, q \in {"backend", "wham", "codex", "credits"} :
        /\ a(p) \in Endpoints /\ o(p) \in Endpoints /\ a(p) # o(q)
        /\ p # q => a(p) # a(q) /\ o(p) # o(q)
  BY EndpointsDiffer DEF Hosts
<1>2. origin.host \in {"official", "relay"} /\ origin.suffixed \in BOOLEAN
  BY DEF Origins, Hosts
<1>3. Urls(kind) \in {<<o("backend")>>, <<a("backend"), o("backend")>>,
                     <<o("backend"), o("codex")>>,
                     <<o("backend"), o("wham"), o("codex")>>,
                     <<a("backend"), a("codex"), o("backend"), o("codex")>>,
                     <<a("backend"), a("wham"), a("codex"), o("backend"), o("codex")>>}
  <2>1. CASE kind = "workspaces"
    BY <1>2, <2>1 DEF Urls, WorkspaceUrls
  <2>2. CASE kind = "usage" /\ origin.host = "official"
    BY <1>2, <2>2 DEF Urls, UsageUrls
  <2>3. CASE kind = "usage" /\ origin.host = "relay" /\ origin.suffixed
    <3>1. Urls(kind) = <<a("backend"), a("codex")>> \o <<o("backend"), o("codex")>>
      BY <2>3 DEF Urls, UsageUrls
    <3>2. /\ a("backend") \in Endpoints /\ a("codex") \in Endpoints /\ a("wham") \in Endpoints
          /\ o("backend") \in Endpoints /\ o("codex") \in Endpoints
      BY <1>1
    <3> DEFINE s == <<a("backend"), a("codex")>>
               t == <<o("backend"), o("codex")>>
               all == <<a("backend"), a("codex"), o("backend"), o("codex")>>
    <3>3. /\ s \in Seq(Endpoints) /\ t \in Seq(Endpoints) /\ all \in Seq(Endpoints)
          /\ Len(all) = Len(s) + Len(t)
          /\ \A i \in 1..Len(all) : all[i] = IF i <= Len(s) THEN s[i] ELSE t[i - Len(s)]
      BY <3>2
    <3>4. Urls(kind) = s \o t
      BY <3>1
    <3> HIDE DEF s, t, all
    <3>5. Urls(kind) = all
      BY <3>3, <3>4, Joined
    <3> QED
      BY <3>5 DEF all
  <2>4. CASE kind = "usage" /\ origin.host = "relay" /\ ~origin.suffixed
    <3>1. Urls(kind) = <<a("backend"), a("wham"), a("codex")>> \o <<o("backend"), o("codex")>>
      BY <2>4 DEF Urls, UsageUrls
    <3>2. /\ a("backend") \in Endpoints /\ a("codex") \in Endpoints /\ a("wham") \in Endpoints
          /\ o("backend") \in Endpoints /\ o("codex") \in Endpoints
      BY <1>1
    <3> DEFINE s == <<a("backend"), a("wham"), a("codex")>>
               t == <<o("backend"), o("codex")>>
               all == <<a("backend"), a("wham"), a("codex"), o("backend"), o("codex")>>
    <3>3. /\ s \in Seq(Endpoints) /\ t \in Seq(Endpoints) /\ all \in Seq(Endpoints)
          /\ Len(all) = Len(s) + Len(t)
          /\ \A i \in 1..Len(all) : all[i] = IF i <= Len(s) THEN s[i] ELSE t[i - Len(s)]
      BY <3>2
    <3>4. Urls(kind) = s \o t
      BY <3>1
    <3> HIDE DEF s, t, all
    <3>5. Urls(kind) = all
      BY <3>3, <3>4, Joined
    <3> QED
      BY <3>5 DEF all
  <2> QED
    BY <1>2, <2>1, <2>2, <2>3, <2>4
<1>4. CASE Urls(kind) = <<o("backend")>>
  BY <1>1, <1>4 DEF IsInjective
<1>5. CASE Urls(kind) = <<a("backend"), o("backend")>>
  BY <1>1, <1>5 DEF IsInjective
<1>6. CASE Urls(kind) = <<o("backend"), o("codex")>>
  BY <1>1, <1>6 DEF IsInjective
<1>7. CASE Urls(kind) = <<o("backend"), o("wham"), o("codex")>>
  BY <1>1, <1>7 DEF IsInjective
<1>8. CASE Urls(kind) = <<a("backend"), a("codex"), o("backend"), o("codex")>>
  BY <1>1, <1>8 DEF IsInjective
<1>9. CASE Urls(kind) = <<a("backend"), a("wham"), a("codex"), o("backend"), o("codex")>>
  BY <1>1, <1>9 DEF IsInjective
<1> QED
  BY <1>3, <1>4, <1>5, <1>6, <1>7, <1>8, <1>9

\* The first of a list without repetitions is not among the others.
LEMMA HeadApart ==
  ASSUME NEW urls \in Seq(Endpoints), urls # <<>>, IsInjective(urls)
  PROVE  Head(urls) \notin ToSet(Tail(urls))
<1>1. /\ Tail(urls) \in Seq(Endpoints) /\ Len(Tail(urls)) = Len(urls) - 1 /\ Len(urls) \in Nat
      /\ \A i \in 1..Len(Tail(urls)) : Tail(urls)[i] = urls[i + 1]
      /\ Head(urls) = urls[1] /\ DOMAIN urls = 1..Len(urls)
  OBVIOUS
<1>2. DOMAIN Tail(urls) = 1..(Len(urls) - 1)
  BY <1>1
<1>3. ASSUME NEW i \in DOMAIN Tail(urls) PROVE Tail(urls)[i] # Head(urls)
  BY <1>1, <1>2 DEF IsInjective
<1> QED
  BY <1>3 DEF ToSet

\* A list is its first and the others.
LEMMA HeadFirst ==
  ASSUME NEW urls \in Seq(Endpoints), urls # <<>>
  PROVE  /\ ToSet(urls) = {Head(urls)} \cup ToSet(Tail(urls))
         /\ ToSet(urls) \subseteq Endpoints
<1>1. /\ Tail(urls) \in Seq(Endpoints) /\ Len(Tail(urls)) = Len(urls) - 1 /\ Len(urls) \in Nat \ {0}
      /\ \A i \in 1..Len(Tail(urls)) : Tail(urls)[i] = urls[i + 1]
      /\ Head(urls) = urls[1] /\ DOMAIN urls = 1..Len(urls)
      /\ DOMAIN Tail(urls) = 1..Len(Tail(urls))
      /\ \A i \in 1..Len(urls) : urls[i] \in Endpoints
  OBVIOUS
<1>2. ASSUME NEW i \in 1..Len(urls), i # 1
      PROVE  i - 1 \in 1..Len(Tail(urls)) /\ urls[i] = Tail(urls)[i - 1]
  BY <1>1, <1>2
<1>3. ASSUME NEW i \in 1..Len(Tail(urls))
      PROVE  i + 1 \in 1..Len(urls) /\ urls[i + 1] = Tail(urls)[i]
  BY <1>1
<1>4. 1 \in 1..Len(urls)
  BY <1>1
<1>5. ASSUME NEW e \in ToSet(urls) PROVE e \in {Head(urls)} \cup ToSet(Tail(urls))
  <2>1. PICK i \in 1..Len(urls) : e = urls[i]
    BY <1>1 DEF ToSet
  <2> QED
    BY <1>1, <1>2, <2>1 DEF ToSet
<1>6. ASSUME NEW e \in {Head(urls)} \cup ToSet(Tail(urls)) PROVE e \in ToSet(urls)
  <2>1. CASE e = Head(urls)
    BY <1>1, <1>4, <2>1 DEF ToSet
  <2>2. CASE e \in ToSet(Tail(urls))
    <3>1. PICK i \in 1..Len(Tail(urls)) : e = Tail(urls)[i]
      BY <1>1, <2>2 DEF ToSet
    <3> QED
      BY <1>1, <1>3, <3>1 DEF ToSet
  <2> QED
    BY <1>6, <2>1, <2>2
<1>7. ToSet(urls) \subseteq Endpoints
  BY <1>1 DEF ToSet
<1> QED
  BY <1>5, <1>6, <1>7

\* The endpoint that answered last comes first, and the list keeps its endpoints.
LEMMA PutFirst ==
  ASSUME NEW urls \in Seq(Endpoints), urls # <<>>, IsInjective(urls)
  PROVE  /\ PreferredFirst(urls) \in Seq(Endpoints) /\ PreferredFirst(urls) # <<>>
         /\ ToSet(PreferredFirst(urls)) = ToSet(urls)
         /\ Head(PreferredFirst(urls)) \notin ToSet(Tail(PreferredFirst(urls)))
<1>1. CASE preferred \in ToSet(urls)
  <2> DEFINE i == CHOOSE i \in DOMAIN urls : urls[i] = preferred
             rest == RemoveAt(urls, i)
             n == Len(urls)
  <2>1. i \in 1..n /\ urls[i] = preferred /\ preferred \in Endpoints /\ n \in Nat
    BY <1>1 DEF ToSet
  <2> HIDE DEF i
  <2>2. /\ rest \in Seq(Endpoints) /\ Len(rest) = n - 1
        /\ \A j \in 1..(n - 1) : rest[j] = IF j < i THEN urls[j] ELSE urls[j + 1]
    <3> DEFINE before == SubSeq(urls, 1, i - 1)
               after == SubSeq(urls, i + 1, n)
    <3>0. \A j \in 1..n : urls[j] \in Endpoints
      OBVIOUS
    <3>1. /\ before \in Seq(Endpoints) /\ Len(before) = i - 1
          /\ \A j \in 1..(i - 1) : before[j] = urls[j]
      BY <2>1, <3>0, SubSeqProperties
    <3>2. /\ after \in Seq(Endpoints) /\ Len(after) = n - i
          /\ \A j \in 1..(n - i) : after[j] = urls[i + j]
      <4>1. \A j \in (i + 1)..n : urls[j] \in Endpoints
        BY <2>1, <3>0
      <4> QED
        BY <2>1, <4>1, SubSeqProperties
    <3> HIDE DEF before, after
    <3>3. /\ before \o after \in Seq(Endpoints) /\ Len(before \o after) = n - 1
          /\ \A j \in 1..(n - 1) : (before \o after)[j] =
                IF j <= i - 1 THEN before[j] ELSE after[j - (i - 1)]
      <4>1. /\ before \o after \in Seq(Endpoints)
            /\ Len(before \o after) = Len(before) + Len(after)
            /\ \A j \in 1..(Len(before) + Len(after)) : (before \o after)[j] =
                 IF j <= Len(before) THEN before[j] ELSE after[j - Len(before)]
        BY <3>1, <3>2, ConcatProperties
      <4>2. Len(before) = i - 1 /\ Len(before) + Len(after) = n - 1
        BY <2>1, <3>1, <3>2
      <4> QED
        BY <4>1, <4>2, Zenon
    <3>4. rest = before \o after
      BY DEF RemoveAt, before, after
    <3>5. ASSUME NEW j \in 1..(n - 1) PROVE rest[j] = IF j < i THEN urls[j] ELSE urls[j + 1]
      <4>1. CASE j < i
        BY <2>1, <3>1, <3>3, <3>4, <4>1
      <4>2. CASE ~(j < i)
        <5>1. j - (i - 1) \in 1..(n - i) /\ i + (j - (i - 1)) = j + 1
          BY <2>1, <4>2
        <5>2. after[j - (i - 1)] = urls[j + 1]
          BY <3>2, <5>1
        <5>3. ~(j <= i - 1)
          BY <2>1, <4>2
        <5> HIDE DEF rest
        <5> QED
          BY <3>3, <3>4, <4>2, <5>2, <5>3
      <4> QED
        BY <4>1, <4>2
    <3> HIDE DEF rest
    <3> QED
      BY <3>3, <3>4, <3>5
  <2>3. ToSet(rest) = ToSet(urls) \ {preferred}
    <3>1. \A j \in 1..n : urls[j] = preferred => j = i
      BY <2>1 DEF IsInjective
    <3>2. ASSUME NEW e \in ToSet(rest) PROVE e \in ToSet(urls) /\ e # preferred
      <4>1. PICK j \in 1..(n - 1) : e = rest[j]
        BY <2>2 DEF ToSet
      <4>2. PICK k \in 1..n : e = urls[k] /\ k # i
        BY <2>1, <2>2, <4>1
      <4> QED
        BY <3>1, <4>2 DEF ToSet
    <3>3. ASSUME NEW e \in ToSet(urls), e # preferred PROVE e \in ToSet(rest)
      <4>1. PICK j \in 1..n : e = urls[j]
        BY DEF ToSet
      <4>2. j # i
        BY <2>1, <3>3, <4>1
      <4>3. CASE j < i
        <5>1. j \in 1..(n - 1) /\ rest[j] = urls[j]
          BY <2>1, <2>2, <4>3
        <5>2. DOMAIN rest = 1..(n - 1)
          BY <2>1, <2>2
        <5> QED
          BY <4>1, <5>1, <5>2 DEF ToSet
      <4>4. CASE j > i
        <5>1. j - 1 \in 1..(n - 1) /\ ~(j - 1 < i) /\ (j - 1) + 1 = j
          BY <2>1, <4>4
        <5>3. rest[j - 1] = urls[j]
          BY <2>2, <5>1
        <5>2. DOMAIN rest = 1..(n - 1)
          BY <2>1, <2>2
        <5> QED
          BY <4>1, <5>1, <5>2, <5>3 DEF ToSet
      <4> QED
        BY <2>1, <4>2, <4>3, <4>4
    <3> QED
      BY <3>2, <3>3
  <2>4. PreferredFirst(urls) = <<preferred>> \o rest
    BY <1>1 DEF PreferredFirst, i
  <2> HIDE DEF rest
  <2>5. /\ PreferredFirst(urls) \in Seq(Endpoints) /\ PreferredFirst(urls) # <<>>
        /\ Head(PreferredFirst(urls)) = preferred /\ Tail(PreferredFirst(urls)) = rest
    BY <2>1, <2>2, <2>4
  <2>6. ToSet(PreferredFirst(urls)) = {preferred} \cup ToSet(rest)
    <3> DEFINE all == PreferredFirst(urls)
    <3>1. DOMAIN all = 1..n /\ all[1] = preferred /\ \A j \in 1..(n - 1) : all[j + 1] = rest[j]
      BY <2>1, <2>2, <2>4
    <3>2. DOMAIN rest = 1..(n - 1)
      BY <2>1, <2>2
    <3> HIDE DEF all
    <3>3. ASSUME NEW e \in ToSet(all) PROVE e \in {preferred} \cup ToSet(rest)
      <4>1. PICK j \in 1..n : e = all[j]
        BY <3>1, <3>3 DEF ToSet
      <4>2. j = 1 \/ (j - 1 \in 1..(n - 1) /\ all[j] = rest[j - 1])
        BY <2>1, <3>1
      <4> QED
        BY <3>1, <3>2, <4>1, <4>2 DEF ToSet
    <3>4. ASSUME NEW e \in {preferred} \cup ToSet(rest) PROVE e \in ToSet(all)
      <4>1. CASE e = preferred
        BY <2>1, <3>1, <4>1 DEF ToSet
      <4>2. CASE e \in ToSet(rest)
        <5>1. PICK j \in 1..(n - 1) : e = rest[j]
          BY <3>2, <4>2 DEF ToSet
        <5>2. j + 1 \in 1..n
          BY <2>1
        <5> QED
          BY <3>1, <5>1, <5>2 DEF ToSet
      <4> QED
        BY <3>4, <4>1, <4>2
    <3> QED
      BY <3>3, <3>4 DEF all
  <2> QED
    BY <1>1, <2>3, <2>5, <2>6
<1>2. CASE preferred \notin ToSet(urls)
  BY <1>2, HeadApart DEF PreferredFirst
<1> QED
  BY <1>1, <1>2

\* The request of each slot keeps to its endpoints: those that failed and those still
\* waiting are the first, then all; it tells what it was told.
KeepsToUrls(r) ==
  /\ r.urls # <<>> /\ ToSet(r.urls) = ToSet(Urls(r.kind)) /\ Head(r.urls) \notin ToSet(Tail(r.urls))
  /\ r.waiting \cap DOMAIN r.errors = {} /\ (r.errors # <<>> => DOMAIN r.errors # {})
  /\ r.pc = "sending" => r.waiting = {} /\ DOMAIN r.errors \in {{}, {Head(r.urls)}}
  /\ r.pc = "waiting" => r.waiting \cup DOMAIN r.errors \in {{Head(r.urls)}, ToSet(r.urls)}
  /\ r.pc \in {"sending", "waiting"} => r.result = Unknown
  /\ r.pc = "credits" => r.result \in [from : Endpoints]
HeedsErrors(r) ==
  /\ r.said = Unknown => \A e \in DOMAIN r.errors : r.errors[e] # "message"
  /\ r.said # Unknown => r.said \in DOMAIN r.errors /\ r.errors[r.said] = "message"
  /\ \A e \in DOMAIN r.errors : r.errors[e] = "forbidden" => r.kind = "workspaces"
TellsWhy(r) ==
  "told" \in DOMAIN r.result =>
      /\ DOMAIN r.errors = ToSet(Urls(r.kind))
      /\ IF \E e \in DOMAIN r.errors : r.errors[e] = "message"
         THEN \E e \in DOMAIN r.errors : r.errors[e] = "message" /\ r.result.told = {e}
         ELSE /\ r.result.told = DOMAIN r.errors
              /\ (\E e \in r.result.told : r.errors[e] = "forbidden") => r.retried
GoesItsWay(r) ==
  /\ r.proxy # "invalid" => r.route = SessionWay(r.proxy)
  /\ r.proxy = "invalid" => r.pc = "ended"
  /\ \A e \in DOMAIN r.by : r.by[e] \in RightWay(r.proxy, e.host)
RequestRight(r) == KeepsToUrls(r) /\ HeedsErrors(r) /\ TellsWhy(r) /\ GoesItsWay(r)

NetworkInv ==
  /\ NetworkTyped /\ SessionsRight
  /\ \A s \in Slots : request[s] # NoRequest => RequestRight(request[s])

\* The inductive invariant says what is promised.
LEMMA NetworkShows == NetworkInv => RequestsGoTheirWay
  BY DEF NetworkInv, NetworkTyped, RequestRight, TellsWhy, GoesItsWay,
         RequestsGoTheirWay, OwnWay, FailsOnceAllDid

\* At the start nothing is asked and nothing kept.
LEMMA NetworkStart == NetworkInit => NetworkInv
<1> SUFFICES ASSUME NetworkInit PROVE NetworkInv
  OBVIOUS
<1>1. origin \in Origins
  <2>1. CASE origin = [host |-> "official", suffixed |-> FALSE, loopback |-> FALSE]
    BY <2>1 DEF Origins, Hosts
  <2>2. CASE origin \in [host : {"relay"}, suffixed : BOOLEAN, loopback : BOOLEAN]
    BY <2>2 DEF Origins, Hosts
  <2> QED
    BY <2>1, <2>2 DEF NetworkInit
<1>2. system \in Systems
  <2>1. {<<"proxy">>, <<"script", "proxy">>, <<"unusable", "none">>} \subseteq Seq(Entries)
    BY DEF Entries
  <2>2. SUBSET {"official"} \subseteq SUBSET Hosts /\ SUBSET {"relay"} \subseteq SUBSET Hosts
    BY DEF Hosts
  <2> QED
    BY <2>1, <2>2 DEF NetworkInit, Systems
<1>3. \A s \in Slots : request[s] = NoRequest
  BY DEF NetworkInit
<1>4. DOMAIN sessions = {}
  BY NoErrors DEF NetworkInit
<1> QED
  BY <1>1, <1>2, <1>3, <1>4 DEF NetworkInit, NetworkInv, NetworkTyped, SessionsRight

\* What is found of the system's settings is one of its three ways.
LEMMA WaysFound ==
  ASSUME NetworkTyped, NEW h \in Hosts
  PROVE  /\ ResolvedWay(h) \in SystemWays
         /\ SystemWay(h) \in RightWay("", h)
<1>1. \A entries : FirstUsable(entries) \in SystemWays
  <2>1. \A entry : UsableWay(entry) \in SystemWays
    <3>1. ASSUME NEW entry PROVE UsableWay(entry) \in {"direct", "system", "script"}
      <4>1. CASE entry = "none"
        BY <4>1 DEF UsableWay
      <4>2. CASE entry = "proxy"
        BY <4>2 DEF UsableWay
      <4>3. CASE entry # "none" /\ entry # "proxy"
        BY <4>3 DEF UsableWay
      <4> QED
        BY <4>1, <4>2, <4>3
    <3> QED
      BY <3>1 DEF SystemWays
  <2> QED
    BY <2>1 DEF FirstUsable, SystemWays
<1>2. ResolvedWay(h) \in SystemWays
  BY <1>1 DEF ResolvedWay, MacWay, FixedWay, SystemWays
<1>3. KeptWay(h) \in SystemWays
  BY <1>2 DEF KeptWay, NetworkTyped, Founds
<1>4. SystemWay(h) \in RightWay("", h)
  BY <1>3 DEF SystemWay, RightWay, FromEnvironment, EnvironmentWay, NetworkTyped, Systems
<1> QED
  BY <1>2, <1>4

\* Whatever is looked up, what is kept of a host stays typed.
LEMMA LookedTyped ==
  ASSUME NetworkTyped, NEW hosts
  PROVE  Looked(hosts) \in [Hosts -> {Unknown} \cup Founds]
<1>1. ASSUME NEW h \in Hosts PROVE Looked(hosts)[h] \in {Unknown} \cup Founds
  <2>1. ResolvedWay(h) \in SystemWays
    BY WaysFound
  <2>2. Found(ResolvedWay(h)) \in Founds
    BY <2>1 DEF Found, Founds
  <2>3. resolved[h] \in {Unknown} \cup Founds
    BY DEF NetworkTyped
  <2>4. resolved[h] \in Founds => [resolved[h] EXCEPT !.renewal = "reads"] \in Founds
    BY DEF Founds
  <2> QED
    BY <2>2, <2>3, <2>4 DEF Looked
<1> QED
  BY <1>1 DEF Looked

\* A session gives the account's own way.
LEMMA SessionGives ==
  ASSUME SessionsRight, NEW proxy
  PROVE  SessionOf(proxy) = SessionWay(proxy)
<1>1. CASE proxy \in DOMAIN sessions
  <2>1. (CHOOSE p \in DOMAIN sessions : proxy \in DOMAIN sessions => p = proxy) = proxy
    BY <1>1
  <2> QED
    BY <1>1, <2>1 DEF SessionOf, Kept, SessionsRight
<1> QED
  BY <1>1 DEF SessionOf, Kept

\* A request sent to a host goes the way of its account.
LEMMA WayRight ==
  ASSUME NetworkTyped, NEW proxy \in Settings, proxy # "invalid", NEW h \in Hosts
  PROVE  Way(SessionWay(proxy), h) \in RightWay(proxy, h)
<1>1. CASE proxy = ""
  BY <1>1, WaysFound DEF Way, SessionWay
<1>2. CASE proxy = "direct"
  BY <1>2 DEF Way, SessionWay, RightWay
<1>3. CASE proxy \in Proxies
  BY <1>3, NetworkBounds DEF Way, SessionWay, RightWay
<1> QED
  BY <1>1, <1>2, <1>3 DEF Settings

-----------------------------------------------------------------------------
\* What a request is sent to, and the way it goes there.
LEMMA SentTyped ==
  ASSUME NetworkTyped, NEW r \in Fetch, GoesItsWay(r), r.pc # "ended",
         NEW asked \in SUBSET Endpoints
  PROVE  /\ SentTo(r, asked) \in Sent
         /\ \A e \in DOMAIN SentTo(r, asked) : SentTo(r, asked)[e] \in RightWay(r.proxy, e.host)
<1> DEFINE sent == SentTo(r, asked)
<1>1. PICK S \in SUBSET Endpoints : r.by \in [S -> Ways]
  BY DEF Fetch, Sent
<1>2. r.proxy \in Settings /\ r.proxy # "invalid" /\ r.route = SessionWay(r.proxy)
  BY DEF Fetch, GoesItsWay
<1>3. \A e \in Endpoints : e.host \in Hosts
  BY DEF Endpoints
<1>4. \A e \in asked : Way(r.route, e.host) \in RightWay(r.proxy, e.host)
  BY <1>2, <1>3, WayRight
<1>5. \A h \in Hosts : RightWay(r.proxy, h) \subseteq Ways
  BY <1>2 DEF RightWay, Ways, SystemWays, Settings
<1>6. DOMAIN sent = asked \cup S
  BY <1>1 DEF SentTo
<1>7. ASSUME NEW e \in asked \cup S
      PROVE  sent[e] \in RightWay(r.proxy, e.host) /\ sent[e] \in Ways
  <2>1. sent[e] = IF e \in asked THEN Way(r.route, e.host) ELSE r.by[e]
    BY <1>1 DEF SentTo
  <2> QED
    BY <1>1, <1>3, <1>4, <1>5, <2>1 DEF GoesItsWay
<1>8. sent \in [asked \cup S -> Ways]
  BY <1>1, <1>7 DEF SentTo
<1> QED
  BY <1>6, <1>7, <1>8 DEF Sent

\* Sending asks the first, or the others, and each its own way.
LEMMA SendRight ==
  ASSUME NetworkTyped, NEW r \in Fetch, RequestRight(r), r.pc = "sending",
         NEW n, n = [r EXCEPT !.pc = "waiting", !.waiting = ToAsk(r), !.by = SentTo(r, ToAsk(r))]
  PROVE  n \in Fetch /\ RequestRight(n) /\ ToAsk(r) \subseteq Endpoints
<1> DEFINE asked == ToAsk(r)
           sent == SentTo(r, asked)
<1>1. /\ r.urls \in Seq(Endpoints) /\ r.urls # <<>>
      /\ ToSet(r.urls) = {Head(r.urls)} \cup ToSet(Tail(r.urls))
      /\ ToSet(r.urls) \subseteq Endpoints
  <2>1. r.urls \in Seq(Endpoints) /\ r.urls # <<>>
    BY DEF Fetch, RequestRight, KeepsToUrls
  <2> QED
    BY <2>1, HeadFirst
<1>2. asked = IF r.errors = <<>> THEN {Head(r.urls)} ELSE ToSet(Tail(r.urls))
  BY DEF ToAsk
<1>3. asked \in SUBSET Endpoints
  BY <1>1, <1>2
<1>4. /\ sent \in Sent
      /\ \A e \in DOMAIN sent : sent[e] \in RightWay(r.proxy, e.host)
  BY <1>3, SentTyped DEF RequestRight
<1>5. /\ asked \cap DOMAIN r.errors = {}
      /\ asked \cup DOMAIN r.errors \in {{Head(r.urls)}, ToSet(r.urls)}
  <2>1. CASE r.errors = <<>>
    BY <1>2, <2>1, NoErrors
  <2>2. CASE r.errors # <<>>
    <3>1. DOMAIN r.errors = {Head(r.urls)}
      BY <2>2 DEF RequestRight, KeepsToUrls
    <3> QED
      BY <1>1, <1>2, <2>2, <3>1 DEF RequestRight, KeepsToUrls
  <2> QED
    BY <2>1, <2>2
<1> HIDE DEF asked, sent
<1>6. n = [r EXCEPT !.pc = "waiting", !.waiting = asked, !.by = sent]
  BY DEF asked, sent
<1>7. n \in Fetch
  BY <1>3, <1>4, <1>6 DEF Fetch
<1>8. /\ n.pc = "waiting" /\ n.waiting = asked /\ n.by = sent
      /\ n.kind = r.kind /\ n.proxy = r.proxy /\ n.route = r.route /\ n.urls = r.urls
      /\ n.errors = r.errors /\ n.said = r.said /\ n.retried = r.retried /\ n.result = r.result
  BY <1>6 DEF Fetch
<1>9. KeepsToUrls(n)
  BY <1>5, <1>8 DEF RequestRight, KeepsToUrls
<1>10. HeedsErrors(n) /\ TellsWhy(n)
  BY <1>8 DEF RequestRight, HeedsErrors, TellsWhy
<1>11. GoesItsWay(n)
  BY <1>4, <1>8 DEF RequestRight, GoesItsWay
<1> QED
  BY <1>3, <1>7, <1>9, <1>10, <1>11 DEF RequestRight, asked

\* An answer ends the asking.
LEMMA AnswerRight ==
  ASSUME NEW r \in Fetch, RequestRight(r), r.pc = "waiting", NEW e \in r.waiting, NEW pc,
         pc \in {"credits", "ended"},
         NEW n, n = [r EXCEPT !.pc = pc, !.waiting = {}, !.result = [from |-> e]]
  PROVE  n \in Fetch /\ RequestRight(n)
<1>1. e \in Endpoints
  BY DEF Fetch
<1>2. [from |-> e] \in [from : Endpoints]
  BY <1>1
<1>3. n \in Fetch
  BY <1>2 DEF Fetch, Outcomes
<1>4. /\ n.pc = pc /\ n.waiting = {} /\ n.result = [from |-> e] /\ n.by = r.by
      /\ n.kind = r.kind /\ n.proxy = r.proxy /\ n.route = r.route /\ n.urls = r.urls
      /\ n.errors = r.errors /\ n.said = r.said /\ n.retried = r.retried
  BY DEF Fetch
<1>5. "told" \notin DOMAIN n.result
  BY <1>4
<1>6. r.proxy # "invalid"
  BY DEF RequestRight, GoesItsWay
<1> QED
  BY <1>2, <1>3, <1>4, <1>5, <1>6 DEF RequestRight, KeepsToUrls, HeedsErrors, TellsWhy, GoesItsWay

\* Reset credits are asked for beside the endpoint that answered.
LEMMA CreditsRight ==
  ASSUME NetworkTyped, NEW r \in Fetch, RequestRight(r), r.pc = "credits",
         NEW n, n = [r EXCEPT !.pc = "ended", !.by = SentTo(r, {At(r.result.from.host, "credits")})]
  PROVE  n \in Fetch /\ RequestRight(n) /\ At(r.result.from.host, "credits") \in Endpoints
<1> DEFINE at == At(r.result.from.host, "credits")
           sent == SentTo(r, {at})
<1>1. r.result.from.host \in Hosts
  BY DEF RequestRight, KeepsToUrls, Endpoints
<1>2. at \in Endpoints
  BY <1>1, EndpointsDiffer
<1>3. /\ sent \in Sent
      /\ \A e \in DOMAIN sent : sent[e] \in RightWay(r.proxy, e.host)
  BY <1>2, SentTyped DEF RequestRight
<1> HIDE DEF sent
<1>4. n = [r EXCEPT !.pc = "ended", !.by = sent]
  BY DEF sent
<1>5. n \in Fetch
  BY <1>3, <1>4 DEF Fetch
<1>6. /\ n.pc = "ended" /\ n.waiting = r.waiting /\ n.by = sent
      /\ n.kind = r.kind /\ n.proxy = r.proxy /\ n.route = r.route /\ n.urls = r.urls
      /\ n.errors = r.errors /\ n.said = r.said /\ n.retried = r.retried /\ n.result = r.result
  BY <1>4 DEF Fetch
<1>7. KeepsToUrls(n) /\ HeedsErrors(n) /\ TellsWhy(n)
  BY <1>6 DEF RequestRight, KeepsToUrls, HeedsErrors, TellsWhy
<1>8. GoesItsWay(n)
  <2>1. r.proxy # "invalid"
    BY DEF RequestRight, GoesItsWay
  <2> QED
    BY <1>3, <1>6, <2>1 DEF RequestRight, GoesItsWay
<1> QED
  BY <1>2, <1>5, <1>7, <1>8 DEF RequestRight

\* What fails at an endpoint, and what follows.
LEMMA FailRight ==
  ASSUME NetworkTyped, NEW r \in Fetch, RequestRight(r), r.pc = "waiting", NEW e \in r.waiting,
         NEW failure \in Failures, failure = "forbidden" => r.kind = "workspaces"
  PROVE  AfterFailure(FailedAt(r, e, failure)) \in Fetch
         /\ RequestRight(AfterFailure(FailedAt(r, e, failure)))
<1> DEFINE f == FailedAt(r, e, failure)
           errors == [x \in DOMAIN r.errors \cup {e} |-> IF x = e THEN failure ELSE r.errors[x]]
           said == IF r.said = Unknown /\ failure = "message" THEN e ELSE r.said
           n == AfterFailure(f)
           all == ToSet(r.urls)
<1>1. e \in Endpoints /\ e # Unknown /\ e \notin DOMAIN r.errors
  BY EndpointsKnown DEF Fetch, RequestRight, KeepsToUrls
<1>2. /\ DOMAIN errors = DOMAIN r.errors \cup {e} /\ errors[e] = failure
      /\ \A x \in DOMAIN r.errors : errors[x] = r.errors[x]
      /\ errors \in Errors
  <2>1. PICK S \in SUBSET Endpoints : r.errors \in [S -> Failures]
    BY DEF Fetch, Errors
  <2>2. errors \in [S \cup {e} -> Failures]
    BY <2>1
  <2>3. S \cup {e} \in SUBSET Endpoints
    BY <1>1
  <2> QED
    BY <1>1, <2>1, <2>2, <2>3 DEF Errors
<1>3. errors # <<>>
  BY <1>2, NoErrors
<1>4. said \in Endpoints \cup {Unknown}
  BY <1>1 DEF Fetch
<1>5. f = [r EXCEPT !.waiting = r.waiting \ {e}, !.errors = errors, !.said = said]
  BY DEF FailedAt, Fetch
<1>6. /\ said = Unknown => \A x \in DOMAIN errors : errors[x] # "message"
      /\ said # Unknown => said \in DOMAIN errors /\ errors[said] = "message"
      /\ \A x \in DOMAIN errors : errors[x] = "forbidden" => r.kind = "workspaces"
  BY <1>1, <1>2 DEF RequestRight, HeedsErrors
<1>7. /\ (r.waiting \ {e}) \cap DOMAIN errors = {}
      /\ (r.waiting \ {e}) \cup DOMAIN errors \in {{Head(r.urls)}, all}
  BY <1>1, <1>2 DEF RequestRight, KeepsToUrls
<1>8. r.result = Unknown /\ all = ToSet(Urls(r.kind)) /\ r.proxy # "invalid"
  BY DEF RequestRight, KeepsToUrls, GoesItsWay
<1> HIDE DEF errors, said
<1>9. f \in Fetch
  BY <1>2, <1>4, <1>5 DEF Fetch
<1>10. /\ f.pc = "waiting" /\ f.waiting = r.waiting \ {e} /\ f.errors = errors /\ f.said = said
       /\ f.kind = r.kind /\ f.proxy = r.proxy /\ f.route = r.route /\ f.urls = r.urls
       /\ f.by = r.by /\ f.retried = r.retried /\ f.result = Unknown
  BY <1>5, <1>8 DEF Fetch
<1>11. "told" \notin DOMAIN Unknown
  BY DEF Unknown
<1>16. r.urls # <<>> /\ all = ToSet(r.urls) /\ Head(r.urls) \notin ToSet(Tail(r.urls))
  BY DEF RequestRight, KeepsToUrls
<1>17. r.route = SessionWay(r.proxy) /\ \A x \in DOMAIN r.by : r.by[x] \in RightWay(r.proxy, x.host)
  BY <1>8 DEF RequestRight, GoesItsWay
<1> HIDE DEF f, n, all
<1>12. ASSUME f.waiting # {} PROVE n \in Fetch /\ RequestRight(n)
  <2>1. n = f
    BY <1>12 DEF AfterFailure, n
  <2>2. KeepsToUrls(n)
    BY <1>2, <1>7, <1>8, <1>10, <1>12, <1>16, <2>1 DEF KeepsToUrls
  <2>3. HeedsErrors(n) /\ TellsWhy(n)
    BY <1>6, <1>10, <1>11, <2>1 DEF HeedsErrors, TellsWhy
  <2>4. GoesItsWay(n)
    BY <1>8, <1>10, <1>17, <2>1 DEF GoesItsWay
  <2> QED
    BY <1>9, <2>1, <2>2, <2>3, <2>4 DEF RequestRight
<1>13. ASSUME f.waiting = {}, DOMAIN errors # all PROVE n \in Fetch /\ RequestRight(n)
  <2>1. n = [f EXCEPT !.pc = "sending"]
    BY <1>10, <1>13 DEF AfterFailure, n, all
  <2>2. n \in Fetch
    BY <1>9, <2>1 DEF Fetch
  <2>3. /\ n.pc = "sending" /\ n.waiting = {} /\ n.errors = errors /\ n.said = said
        /\ n.kind = r.kind /\ n.proxy = r.proxy /\ n.route = r.route /\ n.urls = r.urls
        /\ n.by = r.by /\ n.retried = r.retried /\ n.result = Unknown
    BY <1>9, <1>10, <1>13, <2>1 DEF Fetch
  <2>4. DOMAIN errors = {Head(r.urls)}
    BY <1>7, <1>10, <1>13
  <2>5. KeepsToUrls(n)
    BY <1>3, <1>8, <1>16, <2>3, <2>4 DEF KeepsToUrls
  <2>6. HeedsErrors(n) /\ TellsWhy(n)
    BY <1>6, <1>11, <2>3 DEF HeedsErrors, TellsWhy
  <2>7. GoesItsWay(n)
    BY <1>8, <1>17, <2>3 DEF GoesItsWay
  <2> QED
    BY <2>2, <2>5, <2>6, <2>7 DEF RequestRight
<1>14. ASSUME f.waiting = {}, DOMAIN errors = all,
              f.kind = "workspaces" /\ ~f.retried /\ Unexplained(f)
       PROVE  n \in Fetch /\ RequestRight(n)
  <2>1. n = [f EXCEPT !.pc = "sending", !.retried = TRUE, !.errors = <<>>]
    BY <1>10, <1>14 DEF AfterFailure, n, all
  <2>2. n \in Fetch
    BY <1>9, <2>1, NoErrors DEF Fetch
  <2>3. /\ n.pc = "sending" /\ n.waiting = {} /\ n.errors = <<>> /\ n.said = said
        /\ n.kind = r.kind /\ n.proxy = r.proxy /\ n.route = r.route /\ n.urls = r.urls
        /\ n.by = r.by /\ n.result = Unknown
    BY <1>9, <1>10, <1>14, <2>1 DEF Fetch
  <2>4. said = Unknown
    BY <1>10, <1>14 DEF Unexplained
  <2>5. KeepsToUrls(n)
    BY <1>8, <1>16, <2>3, NoErrors DEF KeepsToUrls
  <2>6. HeedsErrors(n) /\ TellsWhy(n)
    BY <1>11, <2>3, <2>4, NoErrors DEF HeedsErrors, TellsWhy
  <2>7. GoesItsWay(n)
    BY <1>8, <1>17, <2>3 DEF GoesItsWay
  <2> QED
    BY <2>2, <2>5, <2>6, <2>7 DEF RequestRight
<1>15. ASSUME f.waiting = {}, DOMAIN errors = all,
              ~(f.kind = "workspaces" /\ ~f.retried /\ Unexplained(f))
       PROVE  n \in Fetch /\ RequestRight(n)
  <2> DEFINE result == [told |-> ErrorsTold(f)]
  <2>1. n = [f EXCEPT !.pc = "ended", !.result = result]
    BY <1>10, <1>15 DEF AfterFailure, n, all
  <2>2. ErrorsTold(f) = IF said # Unknown THEN {said} ELSE all
    BY <1>10, <1>15 DEF ErrorsTold
  <2>3. ErrorsTold(f) \subseteq Endpoints
    BY <1>2, <1>6, <1>15, <2>2 DEF Errors
  <2>4. result \in [told : SUBSET Endpoints] /\ result.told = ErrorsTold(f) /\ result # Unknown
    BY <2>3 DEF Unknown
  <2> HIDE DEF result
  <2>5. n \in Fetch
    BY <1>9, <2>1, <2>4 DEF Fetch, Outcomes
  <2>6. /\ n.pc = "ended" /\ n.waiting = {} /\ n.errors = errors /\ n.said = said
        /\ n.kind = r.kind /\ n.proxy = r.proxy /\ n.route = r.route /\ n.urls = r.urls
        /\ n.by = r.by /\ n.retried = r.retried /\ n.result = result
    BY <1>9, <1>10, <1>15, <2>1 DEF Fetch
  <2>7. said = Unknown /\ (\E x \in DOMAIN errors : errors[x] = "forbidden") => r.retried
    BY <1>6, <1>10, <1>15 DEF Unexplained
  <2>8. TellsWhy(n)
    BY <1>6, <1>8, <1>15, <2>2, <2>4, <2>6, <2>7 DEF TellsWhy
  <2>9. KeepsToUrls(n)
    BY <1>2, <1>8, <1>16, <2>6 DEF KeepsToUrls
  <2>10. HeedsErrors(n) /\ GoesItsWay(n)
    BY <1>6, <1>8, <1>17, <2>6 DEF HeedsErrors, GoesItsWay
  <2> QED
    BY <2>5, <2>8, <2>9, <2>10 DEF RequestRight
<1> QED
  <2>1. n \in Fetch /\ RequestRight(n)
    BY <1>12, <1>13, <1>14, <1>15
  <2> QED
    BY <2>1 DEF n, f

\* A request starts with all its endpoints, and a session of its own.
LEMMA StartRight ==
  ASSUME NetworkTyped, SessionsRight, NEW kind \in {"usage", "workspaces"}, NEW proxy \in Settings,
         NEW begun,
         begun = [pc |-> "sending", kind |-> kind, proxy |-> proxy, route |-> "direct",
                  urls |-> IF kind = "usage" THEN PreferredFirst(UsageUrls) ELSE WorkspaceUrls,
                  waiting |-> {}, errors |-> <<>>, said |-> Unknown, retried |-> FALSE,
                  by |-> <<>>, result |-> Unknown],
         NEW n,
         n = IF proxy = "invalid" THEN [begun EXCEPT !.pc = "ended", !.result = [refused |-> TRUE]]
             ELSE [begun EXCEPT !.route = SessionOf(proxy)]
  PROVE  n \in Fetch /\ RequestRight(n)
<1> DEFINE urls == IF kind = "usage" THEN PreferredFirst(UsageUrls) ELSE WorkspaceUrls
<1>1. /\ urls \in Seq(Endpoints) /\ urls # <<>> /\ ToSet(urls) = ToSet(Urls(kind))
      /\ Head(urls) \notin ToSet(Tail(urls))
  <2>1. /\ Urls(kind) \in Seq(Endpoints) /\ Urls(kind) # <<>> /\ IsInjective(Urls(kind))
    BY UrlsDistinct DEF NetworkTyped
  <2>2. CASE kind = "usage"
    BY <2>1, <2>2, PutFirst DEF Urls
  <2>3. CASE kind # "usage"
    BY <2>1, <2>3, HeadApart DEF Urls
  <2> QED
    BY <2>2, <2>3
<1> HIDE DEF urls
<1>2. begun = [pc |-> "sending", kind |-> kind, proxy |-> proxy, route |-> "direct",
               urls |-> urls, waiting |-> {}, errors |-> <<>>, said |-> Unknown, retried |-> FALSE,
               by |-> <<>>, result |-> Unknown]
  BY DEF urls
<1>3. <<>> \in Sent /\ <<>> \in Errors /\ DOMAIN <<>> = {}
  <2>1. <<>> \in [{} -> Ways]
    OBVIOUS
  <2> QED
    BY <2>1, NoErrors DEF Sent
<1>4. "told" \notin DOMAIN Unknown /\ "told" \notin DOMAIN [refused |-> TRUE]
      /\ Unknown # [refused |-> TRUE]
  BY DEF Unknown
<1>5. begun \in Fetch
  <2>1. Unknown \in Outcomes /\ "direct" \in Ways
    BY DEF Outcomes, Ways
  <2> QED
    BY <1>1, <1>2, <1>3, <2>1 DEF Fetch
<1>6. /\ begun.kind = kind /\ begun.proxy = proxy /\ begun.urls = urls /\ begun.pc = "sending"
      /\ begun.waiting = {} /\ begun.errors = <<>> /\ begun.said = Unknown /\ begun.by = <<>>
      /\ begun.result = Unknown
  BY <1>2
<1>7. CASE proxy = "invalid"
  <2>1. n = [begun EXCEPT !.pc = "ended", !.result = [refused |-> TRUE]]
    BY <1>7
  <2>2. n \in Fetch
    BY <1>5, <2>1 DEF Fetch, Outcomes
  <2>3. /\ n.kind = kind /\ n.proxy = proxy /\ n.urls = urls /\ n.pc = "ended"
        /\ n.waiting = {} /\ n.errors = <<>> /\ n.said = Unknown /\ n.by = <<>>
        /\ n.result = [refused |-> TRUE]
    BY <1>5, <1>6, <2>1 DEF Fetch
  <2>4. KeepsToUrls(n)
    BY <1>1, <1>3, <2>3 DEF KeepsToUrls
  <2>5. HeedsErrors(n) /\ TellsWhy(n)
    BY <1>3, <1>4, <2>3 DEF HeedsErrors, TellsWhy
  <2>6. GoesItsWay(n)
    BY <1>3, <1>7, <2>3 DEF GoesItsWay
  <2> QED
    BY <2>2, <2>4, <2>5, <2>6 DEF RequestRight
<1>8. CASE proxy # "invalid"
  <2>1. n = [begun EXCEPT !.route = SessionWay(proxy)]
    BY <1>8, SessionGives
  <2>2. SessionWay(proxy) \in Ways
    BY <1>8 DEF SessionWay, Ways, Settings
  <2>3. n \in Fetch
    BY <1>5, <2>1, <2>2 DEF Fetch
  <2>4. /\ n.kind = kind /\ n.proxy = proxy /\ n.urls = urls /\ n.pc = "sending"
        /\ n.waiting = {} /\ n.errors = <<>> /\ n.said = Unknown /\ n.by = <<>>
        /\ n.result = Unknown /\ n.route = SessionWay(proxy)
    BY <1>5, <1>6, <2>1 DEF Fetch
  <2>5. KeepsToUrls(n)
    BY <1>1, <1>3, <2>4 DEF KeepsToUrls
  <2>6. HeedsErrors(n) /\ TellsWhy(n)
    BY <1>3, <1>4, <2>4 DEF HeedsErrors, TellsWhy
  <2>7. GoesItsWay(n)
    BY <1>3, <1>8, <2>4 DEF GoesItsWay
  <2> QED
    BY <2>3, <2>5, <2>6, <2>7 DEF RequestRight
<1> QED
  BY <1>7, <1>8

-----------------------------------------------------------------------------
(* The steps.                                                              *)

\* What the user's settings change leaves the right ways and the endpoints as they were.
Steady == origin' = origin /\ system'.environment = system.environment
            /\ system'.exempt = system.exempt

\* So a request that is right stays so.
LEMMA RightKept ==
  ASSUME Steady, NEW r, RequestRight(r)
  PROVE  RequestRight(r)'
<1>1. \A proxy, h : RightWay(proxy, h)' = RightWay(proxy, h)
  BY DEF Steady, RightWay, Loopback
<1>2. \A kind : Urls(kind)' = Urls(kind)
  BY DEF Steady, Urls, UsageUrls, WorkspaceUrls
<1>3. KeepsToUrls(r)' /\ TellsWhy(r)'
  BY <1>2 DEF RequestRight, KeepsToUrls, TellsWhy
<1>4. HeedsErrors(r)' /\ GoesItsWay(r)'
  BY <1>1 DEF RequestRight, HeedsErrors, GoesItsWay
<1> QED
  BY <1>3, <1>4 DEF RequestRight

\* Every request under way is right.
AllRight == \A s \in Slots : request[s] # NoRequest => RequestRight(request[s])

\* When one request changes, and is right, all are.
LEMMA OthersKept ==
  ASSUME NetworkInv, Steady, NEW s \in Slots, NEW r \in {NoRequest} \cup Fetch,
         r # NoRequest => RequestRight(r), request' = [request EXCEPT ![s] = r]
  PROVE  request' \in [Slots -> {NoRequest} \cup Fetch] /\ AllRight'
<1>1. request' \in [Slots -> {NoRequest} \cup Fetch]
  BY DEF NetworkInv, NetworkTyped
<1>2. ASSUME NEW q \in Slots, request'[q] # NoRequest PROVE RequestRight(request[q])'
  <2>1. PICK n : n = request'[q]
    OBVIOUS
  <2>2. RequestRight(n)
    BY <1>2, <2>1 DEF NetworkInv, NetworkTyped
  <2>3. RequestRight(n)'
    BY <2>2, RightKept
  <2> QED
    BY <2>1, <2>3 DEF RequestRight, KeepsToUrls, HeedsErrors, TellsWhy, GoesItsWay
<1> QED
  BY <1>1, <1>2 DEF AllRight

\* When none changes, all stay right.
LEMMA SameRequests ==
  ASSUME NetworkInv, Steady, request' = request
  PROVE  request' \in [Slots -> {NoRequest} \cup Fetch] /\ AllRight'
<1>1. ASSUME NEW q \in Slots, request'[q] # NoRequest PROVE RequestRight(request[q])'
  <2>1. PICK n : n = request[q]
    OBVIOUS
  <2>2. RequestRight(n)
    BY <1>1, <2>1 DEF NetworkInv
  <2>3. RequestRight(n)'
    BY <2>2, RightKept
  <2> QED
    BY <2>1, <2>3 DEF RequestRight, KeepsToUrls, HeedsErrors, TellsWhy, GoesItsWay
<1> QED
  BY <1>1 DEF AllRight, NetworkInv, NetworkTyped

\* Every step keeps the invariant.
LEMMA NetworkStep ==
  ASSUME NetworkInv, [NetworkNext]_networkVars
  PROVE  NetworkInv'
<1> DEFINE Kinds == [Slots -> {NoRequest} \cup Fetch]
           Stays == origin' \in Origins /\ system' \in Systems /\ Steady
           Looks == resolved' \in [Hosts -> {Unknown} \cup Founds]
           Prefers == preferred' \in Endpoints \cup {Unknown}
<1>1. origin \in Origins /\ system \in Systems /\ resolved \in [Hosts -> {Unknown} \cup Founds]
      /\ request \in Kinds /\ preferred \in Endpoints \cup {Unknown}
      /\ NetworkTyped /\ SessionsRight
  BY DEF NetworkInv, NetworkTyped
<1>2. UNCHANGED systemVars => Stays
  BY <1>1 DEF systemVars, Steady
<1>3. UNCHANGED <<origin, system>> => Stays
  BY <1>1 DEF Steady
<1>4. UNCHANGED sessions => SessionsRight'
  BY <1>1 DEF SessionsRight, SessionWay
<1>5. Stays /\ Looks /\ Prefers /\ SessionsRight' /\ request' \in Kinds /\ AllRight'
        => NetworkInv'
  BY DEF NetworkInv, NetworkTyped, AllRight
<1> HIDE DEF Stays
<1>6. Stays => Steady
  BY DEF Stays
<1>7. CASE UNCHANGED networkVars
  <2>1. Stays /\ Looks /\ Prefers /\ SessionsRight'
    BY <1>1, <1>3, <1>4, <1>7 DEF networkVars
  <2>2. request' \in Kinds /\ AllRight'
    BY <1>6, <1>7, <2>1, SameRequests DEF networkVars
  <2> QED
    BY <1>5, <2>1, <2>2
<1>8. ASSUME NEW s \in Slots, NEW kind \in {"usage", "workspaces"}, NEW proxy \in Settings,
             Start(s, kind, proxy)
      PROVE  NetworkInv'
  <2>1. PICK begun :
          begun = [pc |-> "sending", kind |-> kind, proxy |-> proxy, route |-> "direct",
                   urls |-> IF kind = "usage" THEN PreferredFirst(UsageUrls) ELSE WorkspaceUrls,
                   waiting |-> {}, errors |-> <<>>, said |-> Unknown, retried |-> FALSE,
                   by |-> <<>>, result |-> Unknown]
    OBVIOUS
  <2>2. PICK n :
          n = IF proxy = "invalid" THEN [begun EXCEPT !.pc = "ended", !.result = [refused |-> TRUE]]
              ELSE [begun EXCEPT !.route = SessionOf(proxy)]
    OBVIOUS
  <2>3. n \in Fetch /\ RequestRight(n)
    BY <1>1, <2>1, <2>2, StartRight
  <2>4. request' = [request EXCEPT ![s] = n]
    <3>1. CASE proxy = "invalid"
      BY <1>8, <2>1, <2>2, <3>1 DEF Start
    <3>2. CASE proxy # "invalid"
      BY <1>8, <2>1, <2>2, <3>2 DEF Start
    <3> QED
      BY <3>1, <3>2
  <2>5. Stays /\ Looks /\ Prefers
    BY <1>1, <1>2, <1>8 DEF Start
  <2>6. request' \in Kinds /\ AllRight'
    BY <1>6, <2>3, <2>4, <2>5, OthersKept
  <2>7. SessionsRight'
    <3>1. CASE sessions' = sessions
      BY <1>4, <3>1
    <3>2. CASE sessions' \in Cached(proxy)
      <4>1. CASE proxy = "" \/ proxy \in DOMAIN sessions
        BY <1>4, <3>2, <4>1 DEF Cached, Kept
      <4>2. CASE proxy # "" /\ proxy \notin DOMAIN sessions
        <5>1. PICK left \in SUBSET DOMAIN sessions :
                sessions' = [p \in left \cup {proxy} |->
                               IF p = proxy THEN SessionWay(proxy) ELSE sessions[p]]
          <6> DEFINE lefts == IF Cardinality(DOMAIN sessions) < MaxSessions THEN {DOMAIN sessions}
                              ELSE {DOMAIN sessions \ {p} : p \in DOMAIN sessions}
          <6>1. lefts \subseteq SUBSET DOMAIN sessions
            OBVIOUS
          <6>2. sessions' \in {[p \in left \cup {proxy} |->
                   IF p = proxy THEN SessionWay(proxy) ELSE sessions[p]] : left \in lefts}
            BY <3>2, <4>2 DEF Cached, Kept
          <6> HIDE DEF lefts
          <6> QED
            BY <6>1, <6>2
        <5> QED
          BY <1>1, <5>1 DEF SessionsRight, SessionWay
      <4> QED
        BY <4>1, <4>2
    <3> QED
      BY <1>8, <3>1, <3>2 DEF Start
  <2> QED
    BY <1>5, <2>5, <2>6, <2>7
<1>9. ASSUME NEW s \in Slots, Send(s) PROVE NetworkInv'
  <2>1. PICK r : r = request[s]
    OBVIOUS
  <2>2. r \in Fetch /\ RequestRight(r) /\ r.pc = "sending"
    BY <1>1, <1>9, <2>1 DEF Send, NetworkInv, NoRequest
  <2>3. PICK n : n = [r EXCEPT !.pc = "waiting", !.waiting = ToAsk(r), !.by = SentTo(r, ToAsk(r))]
    OBVIOUS
  <2>4. n \in Fetch /\ RequestRight(n)
    BY <1>1, <2>2, <2>3, SendRight
  <2>5. request' = [request EXCEPT ![s] = n]
    BY <1>9, <2>1, <2>3 DEF Send
  <2>6. Stays /\ Prefers /\ SessionsRight'
    BY <1>1, <1>3, <1>4, <1>9 DEF Send
  <2>7. Looks
    BY <1>1, <1>9, LookedTyped DEF Send, LooksUp
  <2>8. request' \in Kinds /\ AllRight'
    BY <1>6, <2>4, <2>5, <2>6, OthersKept
  <2> QED
    BY <1>5, <2>6, <2>7, <2>8
<1>10. ASSUME NEW s \in Slots, NEW e \in Endpoints, Answers(s, e) PROVE NetworkInv'
  <2>1. PICK r : r = request[s]
    OBVIOUS
  <2>2. r \in Fetch /\ RequestRight(r) /\ r.pc = "waiting" /\ e \in r.waiting
    BY <1>1, <1>10, <2>1 DEF Answers, NetworkInv, NoRequest
  <2>3. PICK pc : pc = IF r.kind = "usage" THEN "credits" ELSE "ended"
    OBVIOUS
  <2>4. PICK n : n = [r EXCEPT !.pc = pc, !.waiting = {}, !.result = [from |-> e]]
    OBVIOUS
  <2>5. n \in Fetch /\ RequestRight(n)
    BY <2>2, <2>3, <2>4, AnswerRight
  <2>6. request' = [request EXCEPT ![s] = n]
    BY <1>10, <2>1, <2>3, <2>4 DEF Answers
  <2>7. Stays /\ Looks /\ Prefers /\ SessionsRight'
    BY <1>1, <1>2, <1>4, <1>10 DEF Answers
  <2>8. request' \in Kinds /\ AllRight'
    BY <1>6, <2>5, <2>6, <2>7, OthersKept
  <2> QED
    BY <1>5, <2>7, <2>8
<1>11. ASSUME NEW s \in Slots, NEW e \in Endpoints, NEW failure \in Failures, Fails(s, e, failure)
       PROVE  NetworkInv'
  <2>1. PICK r : r = request[s]
    OBVIOUS
  <2>2. r \in Fetch /\ RequestRight(r) /\ r.pc = "waiting" /\ e \in r.waiting
        /\ (failure = "forbidden" => r.kind = "workspaces")
    BY <1>1, <1>11, <2>1 DEF Fails, NetworkInv, NoRequest
  <2>3. PICK n : n = AfterFailure(FailedAt(r, e, failure))
    OBVIOUS
  <2>4. n \in Fetch /\ RequestRight(n)
    BY <1>1, <2>2, <2>3, FailRight
  <2>5. request' = [request EXCEPT ![s] = n]
    BY <1>11, <2>1, <2>3 DEF Fails
  <2>6. Stays /\ Looks /\ Prefers /\ SessionsRight'
    BY <1>1, <1>2, <1>4, <1>11 DEF Fails
  <2>7. request' \in Kinds /\ AllRight'
    BY <1>6, <2>4, <2>5, <2>6, OthersKept
  <2> QED
    BY <1>5, <2>6, <2>7
<1>12. ASSUME NEW s \in Slots, Credits(s) PROVE NetworkInv'
  <2>1. PICK r : r = request[s]
    OBVIOUS
  <2>2. r \in Fetch /\ RequestRight(r) /\ r.pc = "credits"
    BY <1>1, <1>12, <2>1 DEF Credits, NetworkInv, NoRequest
  <2>3. PICK n :
          n = [r EXCEPT !.pc = "ended", !.by = SentTo(r, {At(r.result.from.host, "credits")})]
    OBVIOUS
  <2>4. n \in Fetch /\ RequestRight(n)
    BY <1>1, <2>2, <2>3, CreditsRight
  <2>5. request' = [request EXCEPT ![s] = n]
    BY <1>12, <2>1, <2>3 DEF Credits
  <2>6. Stays /\ Prefers /\ SessionsRight'
    BY <1>1, <1>3, <1>4, <1>12 DEF Credits
  <2>7. Looks
    BY <1>1, <1>12, LookedTyped DEF Credits, LooksUp
  <2>8. request' \in Kinds /\ AllRight'
    BY <1>6, <2>4, <2>5, <2>6, OthersKept
  <2> QED
    BY <1>5, <2>6, <2>7, <2>8
<1>13. ASSUME NEW s \in Slots, Return(s) PROVE NetworkInv'
  <2>1. Stays /\ Looks /\ Prefers /\ SessionsRight'
    BY <1>1, <1>2, <1>4, <1>13 DEF Return
  <2>2. request' \in Kinds /\ AllRight'
    BY <1>6, <1>13, <2>1, OthersKept DEF Return
  <2> QED
    BY <1>5, <2>1, <2>2
<1>14. ASSUME NEW h \in Hosts, RenewalReads(h) \/ RenewalStores(h) PROVE NetworkInv'
  <2>1. Stays /\ Prefers /\ SessionsRight' /\ request' = request
    BY <1>1, <1>3, <1>4, <1>14 DEF RenewalReads, RenewalStores
  <2>2. request' \in Kinds /\ AllRight'
    BY <1>6, <2>1, SameRequests
  <2>3. resolved[h] \in Founds
    BY <1>1, <1>14 DEF RenewalReads, RenewalStores
  <2>4. Looks
    <3>1. CASE RenewalReads(h)
      <4>1. [resolved[h] EXCEPT !.renewal = ResolvedWay(h)] \in Founds
        BY <1>1, <2>3, WaysFound DEF Founds
      <4> QED
        BY <1>1, <3>1, <4>1 DEF RenewalReads
    <3>2. CASE RenewalStores(h)
      <4>1. Found(resolved[h].renewal) \in Founds
        BY <3>2 DEF RenewalStores, Found, Founds
      <4> QED
        BY <1>1, <3>2, <4>1 DEF RenewalStores
    <3> QED
      BY <1>14, <3>1, <3>2
  <2> QED
    BY <1>5, <2>1, <2>2, <2>4
<1>15. CASE SystemChanges
  <2>1. Prefers /\ SessionsRight' /\ request' = request /\ origin' = origin
    BY <1>1, <1>4, <1>15 DEF SystemChanges
  <2>2. Looks
    <3>1. ASSUME NEW h \in Hosts, resolved[h] # Unknown,
                 resolved' = [resolved EXCEPT ![h] = [@ EXCEPT !.due = TRUE]]
          PROVE  Looks
      <4>1. [resolved[h] EXCEPT !.due = TRUE] \in Founds
        BY <1>1, <3>1 DEF Founds
      <4> QED
        BY <1>1, <3>1, <4>1
    <3> QED
      BY <1>1, <1>15, <3>1 DEF SystemChanges
  <2>3. Stays
    <3>1. CASE system' = system
      BY <1>3, <2>1, <3>1
    <3>2. ASSUME NEW e \in {"none", "script"}, system' = [system EXCEPT !.entries = <<e>>]
          PROVE  Stays
      <4>1. <<e>> \in Seq(Entries)
        BY DEF Entries
      <4> QED
        BY <1>1, <2>1, <3>2, <4>1 DEF Stays, Steady, Systems
    <3>3. ASSUME NEW p \in {"unusable", "missing"}, system' = [system EXCEPT !.pac = p] PROVE Stays
      BY <1>1, <2>1, <3>3 DEF Stays, Steady, Systems
    <3> QED
      BY <1>15, <3>1, <3>2, <3>3 DEF SystemChanges
  <2>4. request' \in Kinds /\ AllRight'
    BY <1>6, <2>1, <2>3, SameRequests
  <2> QED
    BY <1>5, <2>1, <2>2, <2>3, <2>4
<1> QED
  BY <1>7, <1>8, <1>9, <1>10, <1>11, <1>12, <1>13, <1>14, <1>15 DEF NetworkNext

\* Whatever sessions are kept or let go, whatever is looked up, renewed late or changed in
\* between, and however many requests there are, an account's requests go its own way and
\* fail only once every endpoint did (endpoint.rs, proxy_session.rs, system_proxy.rs,
\* workspaces.rs).
THEOREM EachGoesItsWay == NetworkSpec => []RequestsGoTheirWay
<1>1. NetworkSpec => []NetworkInv
  BY NetworkStart, NetworkStep, PTL DEF NetworkSpec
<1> QED
  BY <1>1, NetworkShows, PTL
=============================================================================
