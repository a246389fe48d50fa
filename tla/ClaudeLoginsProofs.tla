------------------------- MODULE ClaudeLoginsProofs -------------------------
(***************************************************************************)
(* Proofs about the logins of the Claude pool, for every set of accounts,  *)
(* lists and bounds.  LoginsTyped: types.  LoginsSettled: what a card takes *)
(* over from the logins that meet in it.  LiveStaysWhole and OwnLoginsOnly: *)
(* Claude Code's login stays that of the account it names, and each card   *)
(* with logins of its own, as long as no list pairs two logins unseen      *)
(* (ListsSafe).                                                            *)
(* RenewalsArrive: what Copool spent, Claude Code is not left with.        *)
(* IdentifiedOnceEver: how cards are named and folded (ClaudeIdentities).  *)
(* ScenesTyped: the types of both modules, in the scenes TLC explores.     *)
(***************************************************************************)
EXTENDS MCClaudeLogins, WellFoundedInduction, TLAPS

-----------------------------------------------------------------------------
(* Induction and recursion up to a bound, from the least element of a set. *)

\* A set of numbers that is not empty has a least one.
LEMMA LeastNumber ==
  ASSUME NEW T, T \subseteq Nat, T # {}
  PROVE  \E n \in T : \A m \in T : n <= m
<1>1. IsWellFoundedOn(OpToRel(<, Nat), Nat)
  BY NatLessThanWellFounded, Zenon
<1>2. PICK n \in T : \A m \in T : ~ (<<m, n>> \in OpToRel(<, Nat))
  BY <1>1, WFMin, Zenon
<1>3. ASSUME NEW m \in T PROVE n <= m
  <2>1. ~ (<<m, n>> \in OpToRel(<, Nat))
    BY <1>2, Zenon
  <2>2. ~ (m < n)
    BY <2>1, n \in Nat, m \in Nat, Zenon DEF OpToRel
  <2> QED
    BY <2>2
<1> QED
  BY <1>3

\* What holds of 0, and of n when it holds of n - 1, holds up to N.
LEMMA InductionUpTo ==
  ASSUME NEW N \in Nat, NEW T, 0 \in T, \A n \in 1..N : n - 1 \in T => n \in T
  PROVE  \A n \in 0..N : n \in T
<1> DEFINE Out == {n \in 0..N : n \notin T}
<1>1. SUFFICES ASSUME Out # {} PROVE FALSE
  OBVIOUS
<1>2. Out \subseteq Nat
  OBVIOUS
<1>3. PICK n \in Out : \A m \in Out : n <= m
  <2> HIDE DEF Out
  <2> QED BY <1>1, <1>2, LeastNumber
<1>4. n \in 1..N /\ n - 1 \in 0..N
  OBVIOUS
<1>5. n - 1 \in T
  BY <1>3, <1>4
<1> QED
  BY <1>4, <1>5

\* f starts from base, and G makes each of its values from the previous one.
Recurs(f, S, N, base, G) ==
  f \in [0..N -> S] /\ f[0] = base /\ \A n \in 1..N : f[n] = G[n][f[n - 1]]

\* What a definition by recursion up to N needs: values that follow from one another
\* exist.
LEMMA RecursionUpTo ==
  ASSUME NEW S, NEW N \in Nat, NEW base \in S,
         NEW G, \A n \in 1..N : \A x \in S : G[n][x] \in S
  PROVE  \E f : Recurs(f, S, N, base, G)
<1> DEFINE Fits(n, f) == f[0] = base /\ \A i \in 1..n : f[i] = G[i][f[i - 1]]
           T == {n \in 0..N : \E f \in [0..n -> S] : Fits(n, f)}
<1>1. 0 \in T
  <2> DEFINE f == [i \in 0..0 |-> base]
  <2>1. f \in [0..0 -> S] /\ Fits(0, f)
    OBVIOUS
  <2>2. \E h \in [0..0 -> S] : Fits(0, h)
    <3> HIDE DEF f, Fits
    <3> QED BY <2>1
  <2> QED
    BY <2>2
<1>2. ASSUME NEW n \in 1..N, n - 1 \in T PROVE n \in T
  <2>1. PICK f \in [0..(n - 1) -> S] : Fits(n - 1, f)
    BY <1>2
  <2> DEFINE g == [i \in 0..n |-> IF i = n THEN G[n][f[n - 1]] ELSE f[i]]
  <2>2. G[n][f[n - 1]] \in S
    <3>1. f[n - 1] \in S
      OBVIOUS
    <3> QED
      BY <3>1
  <2>3. g \in [0..n -> S]
    BY <2>2
  <2>4. ASSUME NEW i \in 1..n PROVE g[i] = G[i][g[i - 1]]
    <3>1. g[i - 1] = f[i - 1]
      OBVIOUS
    <3>2. CASE i = n
      BY <3>1, <3>2
    <3>3. CASE i # n
      <4>1. i \in 1..(n - 1) /\ g[i] = f[i]
        BY <3>3
      <4>2. f[i] = G[i][f[i - 1]]
        BY <2>1, <4>1
      <4> QED
        BY <3>1, <4>1, <4>2
    <3> QED
      BY <3>2, <3>3
  <2>5. g[0] = base
    BY <2>1
  <2> HIDE DEF g
  <2>6. Fits(n, g)
    BY <2>4, <2>5
  <2> QED
    BY <2>3, <2>6
<1>3. N \in T
  <2> HIDE DEF T
  <2>1. \A n \in 1..N : n - 1 \in T => n \in T
    BY <1>2
  <2>2. \A n \in 0..N : n \in T
    BY <1>1, <2>1, InductionUpTo, Zenon
  <2> QED
    BY <2>2
<1>4. \E f \in [0..N -> S] : Fits(N, f)
  <2> HIDE DEF Fits
  <2> QED BY <1>3
<1> QED
  BY <1>4 DEF Recurs

-----------------------------------------------------------------------------
(* The logins of a card: ClaudeCards.                                      *)

\* What a sequence holds.
LEMMA InToSet ==
  ASSUME NEW S, NEW s \in Seq(S), NEW x
  PROVE  x \in ToSet(s) <=> \E i \in 1..Len(s) : s[i] = x
  BY DEF ToSet

\* What a sequence holds when an element is added.
LEMMA AppendSet ==
  ASSUME NEW S, NEW s \in Seq(S), NEW e \in S
  PROVE  ToSet(Append(s, e)) = ToSet(s) \cup {e}
<1>1. Append(s, e) \in Seq(S) /\ Len(Append(s, e)) = Len(s) + 1
  OBVIOUS
<1>2. \A i \in 1..Len(s) + 1 : Append(s, e)[i] = IF i = Len(s) + 1 THEN e ELSE s[i]
  OBVIOUS
<1> DEFINE t == Append(s, e)
<1> HIDE DEF t
<1>3. ASSUME NEW x PROVE x \in ToSet(t) <=> x \in ToSet(s) \/ x = e
  <2>1. x \in ToSet(t) <=> \E i \in 1..Len(s) + 1 : t[i] = x
    BY <1>1, InToSet DEF t
  <2>2. x \in ToSet(s) <=> \E i \in 1..Len(s) : s[i] = x
    BY InToSet
  <2> QED
    BY <1>2, <2>1, <2>2 DEF t
<1> QED
  BY <1>3 DEF t

\* The steps of Without, as a function.
LEMMA WithoutSteps ==
  ASSUME NEW S, NEW s \in Seq(S), NEW logins
  PROVE  \E f \in [0..Len(s) -> Seq(S)] :
           /\ f[0] = <<>> /\ Without(s, logins) = f[Len(s)]
           /\ \A n \in 1..Len(s) :
                f[n] = IF s[n] \in logins THEN f[n - 1] ELSE Append(f[n - 1], s[n])
<1> DEFINE N == Len(s)
           G == [n \in 1..N |-> [t \in Seq(S) |->
                   IF s[n] \in logins THEN t ELSE Append(t, s[n])]]
           Fits(f) == f = [n \in 0..Len(s) |->
                   IF n = 0 THEN <<>>
                   ELSE IF s[n] \in logins THEN f[n - 1] ELSE Append(f[n - 1], s[n])]
           kept == CHOOSE f : Fits(f)
<1>1. N \in Nat /\ <<>> \in Seq(S)
  OBVIOUS
<1>2. \A n \in 1..N : \A t \in Seq(S) : G[n][t] \in Seq(S)
  OBVIOUS
<1>3. PICK f : Recurs(f, Seq(S), N, <<>>, G)
  <2> HIDE DEF N, G
  <2> QED
    BY <1>1, <1>2, RecursionUpTo
<1>4. ASSUME NEW n \in 1..N
      PROVE  f[n] = IF s[n] \in logins THEN f[n - 1] ELSE Append(f[n - 1], s[n])
  <2>1. f[n - 1] \in Seq(S)
    <3>1. n - 1 \in 0..N /\ f \in [0..N -> Seq(S)]
      BY <1>3 DEF Recurs
    <3> HIDE DEF N
    <3> QED
      BY ONLY <3>1, Zenon
  <2> QED
    BY <1>3, <2>1 DEF Recurs
<1>5. Fits(f)
  <2>1. ASSUME NEW n \in 0..N
        PROVE  f[n] = IF n = 0 THEN <<>>
                      ELSE IF s[n] \in logins THEN f[n - 1] ELSE Append(f[n - 1], s[n])
    <3>1. CASE n = 0
      BY <1>3, <3>1 DEF Recurs
    <3>2. CASE n # 0
      <4>1. n \in 1..N
        BY <3>2
      <4> QED
        BY <1>4, <3>2, <4>1
    <3> QED
      BY <3>1, <3>2
  <2> QED
    BY <1>3, <2>1 DEF Recurs
<1>6. Fits(kept)
  <2> HIDE DEF Fits
  <2> QED
    BY <1>5
<1>7. Without(s, logins) = kept[N]
  BY DEF Without
<1> HIDE DEF kept
<1>8. kept = f
  <2> DEFINE T == {n \in 0..N : kept[n] = f[n]}
  <2>1. 0 \in T
    BY <1>3, <1>6 DEF Recurs
  <2>2. ASSUME NEW n \in 1..N, n - 1 \in T PROVE n \in T
    <3>1. kept[n] = IF s[n] \in logins THEN kept[n - 1] ELSE Append(kept[n - 1], s[n])
      <4>1. n \in 0..N /\ n # 0
        OBVIOUS
      <4> QED
        BY <1>6, <4>1
    <3>2. kept[n - 1] = f[n - 1]
      BY <2>2
    <3> QED
      BY <1>4, <3>1, <3>2
  <2>3. \A n \in 0..N : n \in T
    <3> HIDE DEF T, N
    <3> QED
      BY <1>1, <2>1, <2>2, InductionUpTo, Zenon
  <2>4. \A n \in 0..N : kept[n] = f[n]
    BY <2>3
  <2> QED
    BY <1>3, <1>6, <2>4 DEF Recurs
<1> QED
  BY <1>3, <1>4, <1>7, <1>8 DEF Recurs

\* It keeps the others, and no more of them than there were.
LEMMA WithoutFacts ==
  ASSUME NEW S, NEW s \in Seq(S), NEW logins
  PROVE  /\ Without(s, logins) \in Seq(S)
         /\ Len(Without(s, logins)) <= Len(s)
         /\ ToSet(Without(s, logins)) = ToSet(s) \ logins
<1>1. PICK f \in [0..Len(s) -> Seq(S)] :
        /\ f[0] = <<>> /\ Without(s, logins) = f[Len(s)]
        /\ \A n \in 1..Len(s) :
             f[n] = IF s[n] \in logins THEN f[n - 1] ELSE Append(f[n - 1], s[n])
  BY WithoutSteps, SMTT(60)
<1> DEFINE First(n) == {s[i] : i \in 1..n}
           T == {n \in 0..Len(s) : Len(f[n]) <= n /\ ToSet(f[n]) = First(n) \ logins}
<1>2. 0 \in T
  BY <1>1 DEF ToSet
<1>3. ASSUME NEW n \in 1..Len(s), n - 1 \in T PROVE n \in T
  <2>1. f[n - 1] \in Seq(S) /\ f[n] \in Seq(S) /\ s[n] \in S
    OBVIOUS
  <2>2. Len(f[n - 1]) <= n - 1 /\ ToSet(f[n - 1]) = First(n - 1) \ logins
    BY <1>3
  <2>3. First(n) = First(n - 1) \cup {s[n]}
    OBVIOUS
  <2> HIDE DEF First
  <2>4. CASE s[n] \in logins
    BY <1>1, <2>1, <2>2, <2>3, <2>4
  <2>5. CASE s[n] \notin logins
    <3>1. f[n] = Append(f[n - 1], s[n])
      BY <1>1, <2>5
    <3>2. Len(f[n]) = Len(f[n - 1]) + 1
      BY <2>1, <3>1
    <3>3. ToSet(f[n]) = ToSet(f[n - 1]) \cup {s[n]}
      BY <2>1, <3>1, AppendSet
    <3> QED
      BY <2>1, <2>2, <2>3, <2>5, <3>2, <3>3
  <2> QED
    BY <2>4, <2>5
<1>4. Len(s) \in T
  <2> HIDE DEF T
  <2>1. Len(s) \in Nat
    OBVIOUS
  <2>2. \A n \in 0..Len(s) : n \in T
    BY <1>2, <1>3, <2>1, InductionUpTo, Zenon
  <2> QED
    BY <2>2
<1>5. First(Len(s)) = ToSet(s)
  BY DEF ToSet
<1> QED
  BY <1>1, <1>4, <1>5

\* A login pushed is there, before those there were room for.
LEMMA PushFacts ==
  ASSUME NEW S, NEW s \in Seq(S), NEW l \in S
  PROVE  /\ Push(s, l) \in Seq(S) /\ Len(Push(s, l)) <= MaxAlternates
         /\ l \in ToSet(Push(s, l)) /\ ToSet(Push(s, l)) \subseteq ToSet(s) \cup {l}
<1> DEFINE rest == Without(s, {l})
           all == <<l>> \o rest
           k == IF Len(all) < MaxAlternates THEN Len(all) ELSE MaxAlternates
<1>1. rest \in Seq(S) /\ ToSet(rest) = ToSet(s) \ {l}
  BY WithoutFacts
<1> HIDE DEF rest
<1>2. all \in Seq(S) /\ Len(all) = Len(rest) + 1
  BY <1>1
<1>3. all[1] = l /\ \A i \in 2..Len(all) : all[i] = rest[i - 1]
  BY <1>1
<1>4. \A i \in 1..Len(all) : all[i] \in ToSet(s) \cup {l}
  <2>1. \A i \in 2..Len(all) : all[i] \in ToSet(rest)
    BY <1>1, <1>2, <1>3, InToSet
  <2> QED
    BY <1>1, <1>2, <1>3, <2>1
<1> HIDE DEF all
<1>5. k \in 1..Len(all) /\ k <= MaxAlternates
  BY <1>1, <1>2, AlternatesKept
<1> HIDE DEF k
<1>6. /\ SubSeq(all, 1, k) \in Seq(S) /\ Len(SubSeq(all, 1, k)) = k
      /\ \A i \in 1..k : SubSeq(all, 1, k)[i] = all[i]
  BY <1>2, <1>5
<1>7. Push(s, l) = SubSeq(all, 1, k)
  BY DEF Push, all, rest, k
<1> DEFINE p == Push(s, l)
<1>8. p \in Seq(S) /\ Len(p) = k /\ p[1] = l /\ \A i \in 1..k : p[i] \in ToSet(s) \cup {l}
  BY <1>2, <1>3, <1>4, <1>5, <1>6, <1>7
<1> HIDE DEF p
<1>9. l \in ToSet(p) /\ ToSet(p) \subseteq ToSet(s) \cup {l}
  BY <1>5, <1>8, InToSet
<1> QED
  BY <1>5, <1>8, <1>9 DEF p

\* Cards with no more to fall back on than is kept.
Cards == {c \in Card : Len(c.alternates) <= MaxAlternates}
Alternates(c) == ToSet(c.alternates)

\* The fields of a card of the pool.
LEMMA CardFields ==
  ASSUME NEW c \in Cards
  PROVE  /\ c.login \in Login /\ c.alternates \in Seq(Login) /\ c.rejected \subseteq Login
         /\ Len(c.alternates) <= MaxAlternates /\ Alternates(c) \subseteq Login
<1>1. c.alternates \in Seq(Login) /\ c.login \in Login /\ c.rejected \subseteq Login
  BY DEF Cards, Card
<1>2. Alternates(c) \subseteq Login
  BY <1>1, InToSet DEF Alternates
<1> QED
  BY <1>1, <1>2 DEF Cards

\* A card is as typed when one of its fields is replaced by another of its type.
LEMMA CardTyped ==
  ASSUME NEW c \in Card, NEW l \in Login, NEW s \in Seq(Login), Len(s) <= MaxAlternates,
         NEW r \in SUBSET Login, NEW b \in BOOLEAN
  PROVE  /\ [c EXCEPT !.alternates = s] \in Cards
         /\ [c EXCEPT !.login = l, !.inLive = b, !.alternates = s] \in Cards
         /\ [c EXCEPT !.alternates = s, !.login = l, !.inLive = b] \in Cards
         /\ [c EXCEPT !.rejected = r, !.alternates = s] \in Cards
  BY DEF Cards, Card

\* What keeping the logins of L makes of the card c.
Keeps(c, d, L) ==
  /\ d \in Cards /\ d.login = c.login /\ d.rejected = c.rejected
  /\ Alternates(d) \subseteq Alternates(c) \cup (L \ c.rejected)

\* Keeping a login to fall back on adds it alone, and nothing that Claude rejected.
LEMMA KeepFacts ==
  ASSUME NEW c \in Cards, NEW l \in Login
  PROVE  /\ Keeps(c, KeepAlternate(c, l), {l})
         /\ l \in c.rejected \/ l \in Held(KeepAlternate(c, l))
<1>1. CASE l \in c.rejected \/ l = c.login
  BY <1>1 DEF KeepAlternate, Keeps, Held
<1>2. CASE l \notin c.rejected /\ l # c.login
  <2>1. KeepAlternate(c, l) = [c EXCEPT !.alternates = Push(c.alternates, l)]
    BY <1>2 DEF KeepAlternate
  <2>2. /\ Push(c.alternates, l) \in Seq(Login) /\ Len(Push(c.alternates, l)) <= MaxAlternates
        /\ l \in ToSet(Push(c.alternates, l))
        /\ ToSet(Push(c.alternates, l)) \subseteq ToSet(c.alternates) \cup {l}
    BY CardFields, PushFacts
  <2> DEFINE d == KeepAlternate(c, l)
  <2>3. /\ d.login = c.login /\ d.rejected = c.rejected
        /\ d.alternates = Push(c.alternates, l)
    BY <2>1 DEF Cards, Card
  <2>4. d \in Cards
    BY <2>1, <2>2, CardTyped DEF Cards
  <2> HIDE DEF d
  <2> QED
    BY <1>2, <2>2, <2>3, <2>4 DEF Keeps, Alternates, Held, d
<1> QED
  BY <1>1, <1>2

\* The steps of KeepAlternates, as a function.
LEMMA KeepAlternatesSteps ==
  ASSUME NEW D, NEW c \in D, NEW S, NEW s \in Seq(S),
         \A d \in D : \A l \in S : KeepAlternate(d, l) \in D
  PROVE  \E f : /\ f \in [0..Len(s) -> D] /\ f[0] = c
                /\ KeepAlternates(c, s) = f[Len(s)]
                /\ \A n \in 1..Len(s) : f[n] = KeepAlternate(f[n - 1], s[Len(s) + 1 - n])
<1> DEFINE N == Len(s)
           G == [n \in 1..N |-> [d \in D |-> KeepAlternate(d, s[N + 1 - n])]]
           Fits(f) == f = [n \in 0..Len(s) |->
             IF n = 0 THEN c ELSE KeepAlternate(f[n - 1], s[Len(s) + 1 - n])]
           kept == CHOOSE f : Fits(f)
<1>1. N \in Nat
  OBVIOUS
<1>2. ASSUME NEW n \in 1..N, NEW d \in D
      PROVE  G[n][d] \in D /\ G[n][d] = KeepAlternate(d, s[N + 1 - n])
  <2>1. s[N + 1 - n] \in S
    OBVIOUS
  <2>2. KeepAlternate(d, s[N + 1 - n]) \in D
    BY <2>1
  <2> QED
    BY <2>2
<1>3. PICK f : Recurs(f, D, N, c, G)
  <2> HIDE DEF N, G
  <2>1. \A n \in 1..N : \A d \in D : G[n][d] \in D
    BY <1>2
  <2> QED
    BY <1>1, <2>1, RecursionUpTo
<1> HIDE DEF G
<1>4. f \in [0..N -> D] /\ f[0] = c
  BY <1>3 DEF Recurs
<1>5. ASSUME NEW n \in 1..N PROVE f[n] = KeepAlternate(f[n - 1], s[N + 1 - n])
  <2>1. f[n - 1] \in D
    <3>1. n - 1 \in 0..N
      OBVIOUS
    <3> HIDE DEF N
    <3> QED
      BY ONLY <1>4, <3>1, Zenon
  <2>2. f[n] = G[n][f[n - 1]]
    BY <1>3 DEF Recurs
  <2> QED
    BY <1>2, <2>1, <2>2
<1>6. Fits(f)
  <2>1. ASSUME NEW n \in 0..N
        PROVE  f[n] = IF n = 0 THEN c ELSE KeepAlternate(f[n - 1], s[Len(s) + 1 - n])
    <3>1. CASE n = 0
      BY <1>4, <3>1
    <3>2. CASE n # 0
      <4>1. n \in 1..N
        BY <3>2
      <4> QED
        BY <1>5, <3>2, <4>1
    <3> QED
      BY <3>1, <3>2
  <2> QED
    BY <1>4, <2>1
<1>7. Fits(kept)
  <2> HIDE DEF Fits
  <2> QED
    BY <1>6
<1>8. KeepAlternates(c, s) = kept[N]
  BY DEF KeepAlternates
<1> HIDE DEF kept
<1>9. \A n \in 0..N : kept[n] = f[n]
  <2> DEFINE T == {n \in 0..N : kept[n] = f[n]}
  <2>1. 0 \in T
    BY <1>4, <1>7
  <2>2. ASSUME NEW n \in 1..N, n - 1 \in T PROVE n \in T
    <3>1. kept[n] = KeepAlternate(kept[n - 1], s[N + 1 - n])
      <4>1. n \in 0..N /\ n # 0
        OBVIOUS
      <4> QED
        BY <1>7, <4>1
    <3>2. kept[n - 1] = f[n - 1]
      BY <2>2
    <3> QED
      BY <1>5, <3>1, <3>2
  <2>3. \A n \in 0..N : n \in T
    <3> HIDE DEF T, N
    <3> QED
      BY <1>1, <2>1, <2>2, InductionUpTo, Zenon
  <2> QED
    BY <2>3
<1> QED
  BY <1>4, <1>5, <1>8, <1>9

\* The card keeps what it used, and the first login given is kept.
LEMMA KeepAlternatesFacts ==
  ASSUME NEW c \in Cards, NEW s \in Seq(Login)
  PROVE  /\ Keeps(c, KeepAlternates(c, s), ToSet(s))
         /\ s # <<>> => s[1] \in c.rejected \cup Held(KeepAlternates(c, s))
<1>1. PICK f : /\ f \in [0..Len(s) -> Cards] /\ f[0] = c
               /\ KeepAlternates(c, s) = f[Len(s)]
               /\ \A n \in 1..Len(s) : f[n] = KeepAlternate(f[n - 1], s[Len(s) + 1 - n])
  <2>1. \A d \in Cards : \A l \in Login : KeepAlternate(d, l) \in Cards
    BY KeepFacts DEF Keeps
  <2> QED
    BY <2>1, KeepAlternatesSteps
<1>2. ASSUME NEW n \in 1..Len(s)
      PROVE  /\ f[n - 1] \in Cards /\ s[Len(s) + 1 - n] \in ToSet(s)
             /\ s[Len(s) + 1 - n] \in Login
  <2>1. n - 1 \in 0..Len(s) /\ Len(s) + 1 - n \in 1..Len(s)
    OBVIOUS
  <2>2. f[n - 1] \in Cards
    BY <1>1, <2>1
  <2>3. s[Len(s) + 1 - n] \in Login /\ s[Len(s) + 1 - n] \in ToSet(s)
    BY <2>1 DEF ToSet
  <2> QED
    BY <2>2, <2>3
<1> DEFINE T == {n \in 0..Len(s) : Keeps(c, f[n], ToSet(s))}
<1>3. 0 \in T
  BY <1>1 DEF Keeps
<1>4. ASSUME NEW n \in 1..Len(s), n - 1 \in T PROVE n \in T
  <2> DEFINE d == f[n - 1]
             l == s[Len(s) + 1 - n]
  <2>1. d \in Cards /\ l \in ToSet(s) /\ l \in Login
    BY <1>2
  <2>2. Keeps(c, d, ToSet(s))
    BY <1>4
  <2>3. f[n] = KeepAlternate(d, l)
    BY <1>1
  <2> HIDE DEF d, l
  <2>4. Keeps(d, f[n], {l})
    BY <2>1, <2>3, KeepFacts
  <2>5. Keeps(c, f[n], ToSet(s))
    BY ONLY <2>1, <2>2, <2>4 DEF Keeps
  <2> QED
    BY <2>5
<1>5. Keeps(c, f[Len(s)], ToSet(s))
  <2>1. Len(s) \in Nat
    OBVIOUS
  <2>2. \A n \in 0..Len(s) : n \in T
    <3> HIDE DEF T
    <3> QED
      BY <1>3, <1>4, <2>1, InductionUpTo, Zenon
  <2> QED
    BY <2>1, <2>2
<1>6. ASSUME s # <<>> PROVE s[1] \in c.rejected \cup Held(f[Len(s)])
  <2>1. Len(s) \in 1..Len(s) /\ Len(s) + 1 - Len(s) = 1
    BY <1>6
  <2>2. f[Len(s)] = KeepAlternate(f[Len(s) - 1], s[1])
    BY <1>1, <2>1
  <2>3. f[Len(s) - 1] \in Cards /\ s[1] \in Login
    BY <1>2, <2>1
  <2>4. s[1] \in f[Len(s) - 1].rejected \/ s[1] \in Held(f[Len(s)])
    BY <2>2, <2>3, KeepFacts
  <2>5. f[Len(s)].rejected = f[Len(s) - 1].rejected
    BY <2>2, <2>3, KeepFacts DEF Keeps
  <2> QED
    BY <1>5, <2>4, <2>5 DEF Keeps
<1> QED
  BY <1>1, <1>5, <1>6

\* A login adopted is one the card did not reject; it rejects what it did, and
\* falls back on the one it used, if not rejected, besides what it did.
Takes(c, d, L) ==
  /\ d \in Cards /\ d.rejected = c.rejected
  /\ d.login \in {c.login} \cup (L \ c.rejected)
  /\ Alternates(d) \subseteq Alternates(c) \cup ({c.login} \ c.rejected)

\* A card that adopts a login takes that one alone, and loses none it fell back on
\* but by room.
LEMMA AdoptFacts ==
  ASSUME NEW c \in Cards, NEW l \in Login, NEW b \in BOOLEAN
  PROVE  Takes(c, Adopt(c, l, b), {l})
<1>1. CASE l \in c.rejected
  <2>1. Adopt(c, l, b) = [c EXCEPT !.inLive = c.inLive /\ ~b]
    BY <1>1 DEF Adopt
  <2> QED
    BY <2>1 DEF Cards, Card, Alternates, Takes
<1>2. CASE l \notin c.rejected /\ c.login = l
  <2>1. Adopt(c, l, b) = [c EXCEPT !.inLive = c.inLive \/ b]
    BY <1>2 DEF Adopt
  <2> QED
    BY <2>1 DEF Cards, Card, Alternates, Takes
<1>3. CASE l \notin c.rejected /\ c.login # l
  <2> DEFINE rest == Without(c.alternates, {l})
             next == [c EXCEPT !.login = l, !.inLive = b, !.alternates = rest]
  <2>1. Adopt(c, l, b) = IF b /\ c.inLive THEN next ELSE KeepAlternate(next, c.login)
    BY <1>3 DEF Adopt
  <2>2. /\ rest \in Seq(Login) /\ Len(rest) <= MaxAlternates
        /\ ToSet(rest) = ToSet(c.alternates) \ {l}
    <3>1. c.alternates \in Seq(Login) /\ Len(c.alternates) <= MaxAlternates
      BY CardFields
    <3>2. /\ rest \in Seq(Login) /\ Len(rest) <= Len(c.alternates)
          /\ ToSet(rest) = ToSet(c.alternates) \ {l}
      BY <3>1, WithoutFacts
    <3> HIDE DEF rest
    <3> QED
      BY <3>1, <3>2, AlternatesKept
  <2> HIDE DEF rest
  <2>3. /\ next \in Cards /\ next.login = l /\ next.rejected = c.rejected
        /\ next.alternates = rest
    <3>1. c \in Card
      BY DEF Cards
    <3>2. next \in Cards
      BY <2>2, <3>1, CardTyped
    <3> QED
      BY <3>1, <3>2 DEF Card
  <2> HIDE DEF next
  <2>4. c.login \in Login
    BY CardFields
  <2>5. CASE b /\ c.inLive
    BY <1>3, <2>1, <2>2, <2>3, <2>5 DEF Alternates, Takes
  <2>6. CASE ~ (b /\ c.inLive)
    <3>1. Keeps(next, Adopt(c, l, b), {c.login})
      BY <2>1, <2>3, <2>4, <2>6, KeepFacts
    <3> QED
      BY <1>3, <2>2, <2>3, <3>1 DEF Keeps, Alternates, Takes
  <2> QED
    BY <2>5, <2>6
<1> QED
  BY <1>1, <1>2, <1>3

\* Rejecting takes what is rejected from what there is to fall back on.
LEMMA RejectingFacts ==
  ASSUME NEW c \in Cards, NEW L \in SUBSET Login
  PROVE  /\ Rejecting(c, L) \in Cards /\ Rejecting(c, L).login = c.login
         /\ Rejecting(c, L).rejected = c.rejected \cup L
         /\ Alternates(Rejecting(c, L)) = Alternates(c) \ (c.rejected \cup L)
<1> DEFINE rest == Without(c.alternates, c.rejected \cup L)
           R == c.rejected \cup L
<1>1. c \in Card /\ c.alternates \in Seq(Login) /\ c.rejected \subseteq Login
      /\ Len(c.alternates) <= MaxAlternates
  BY CardFields DEF Cards
<1>2. /\ rest \in Seq(Login) /\ Len(rest) <= Len(c.alternates)
      /\ ToSet(rest) = ToSet(c.alternates) \ R
  BY <1>1, WithoutFacts
<1>3. Rejecting(c, L) = [c EXCEPT !.rejected = R, !.alternates = rest]
  BY DEF Rejecting
<1> HIDE DEF rest
<1>4. Len(rest) <= MaxAlternates
  BY <1>1, <1>2, AlternatesKept
<1>5. R \in SUBSET Login
  BY <1>1
<1> HIDE DEF R
<1>6. Rejecting(c, L) \in Cards
  BY <1>1, <1>2, <1>3, <1>4, <1>5 DEF Cards, Card
<1>7. /\ Rejecting(c, L).login = c.login /\ Rejecting(c, L).rejected = R
      /\ Rejecting(c, L).alternates = rest
  BY <1>1, <1>3 DEF Card
<1> QED
  BY <1>2, <1>6, <1>7 DEF Alternates, R

\* What a refresh settled for: the card it read and what it uses in the end.
Settled(w) ==
  /\ w.base \in Card /\ w.login \in Login /\ w.inLive \in BOOLEAN /\ w.renewed \in BOOLEAN
  /\ w.alternates \in Seq(Login) /\ Len(w.alternates) <= MaxAlternates
  /\ w.rejected \in SUBSET Login

\* The login a card has when the refresh is merged is used, or kept unless the
\* refresh saw it rejected; and nothing rejected is there to fall back on.
LEMMA MergedFacts ==
  ASSUME NEW c \in Cards, NEW w, Settled(w)
  PROVE  /\ Merged(c, w) \in Cards
         /\ Merged(c, w).rejected = c.rejected \cup w.rejected
         /\ Merged(c, w).login = IF w.login # w.base.login THEN w.login ELSE c.login
         /\ Alternates(Merged(c, w)) \subseteq
              (ToSet(w.alternates) \cup Held(c)) \ (c.rejected \cup w.rejected)
         /\ c.login \in {w.base.login} \cup c.rejected \cup w.rejected \cup Held(Merged(c, w))
<1> DEFINE arrived == Without(c.alternates, ToSet(w.base.alternates))
           given == w.login # w.base.login
           others == IF given /\ c.login # w.base.login THEN <<c.login>> \o arrived ELSE arrived
           kept == IF w.renewed THEN <<>> ELSE w.alternates
           l == IF given THEN w.login ELSE c.login
           b == IF given \/ c.login = w.login THEN w.inLive ELSE c.inLive
           used == [c EXCEPT !.alternates = kept, !.login = l, !.inLive = b]
           barred == Rejecting(used, w.rejected)
<1>1. Merged(c, w) = KeepAlternates(barred, others)
  BY DEF Merged
<1>2. /\ c \in Card /\ c.login \in Login /\ c.alternates \in Seq(Login)
      /\ c.inLive \in BOOLEAN
  BY CardFields DEF Cards, Card
<1>3. arrived \in Seq(Login) /\ ToSet(arrived) \subseteq Alternates(c)
  BY <1>2, WithoutFacts DEF Alternates
<1> HIDE DEF arrived
<1>4. /\ others \in Seq(Login) /\ ToSet(others) \subseteq Held(c)
      /\ given /\ c.login # w.base.login => others # <<>> /\ others[1] = c.login
  <2>1. CASE given /\ c.login # w.base.login
    <3>1. others = <<c.login>> \o arrived
      BY <2>1
    <3>2. /\ others \in Seq(Login) /\ Len(others) = Len(arrived) + 1 /\ others[1] = c.login
          /\ \A i \in 2..Len(others) : others[i] = arrived[i - 1]
      BY <1>2, <1>3, <3>1
    <3> HIDE DEF others
    <3>3. \A i \in 1..Len(others) : others[i] \in Held(c)
      <4>1. \A i \in 2..Len(others) : others[i] \in ToSet(arrived)
        BY <1>3, <3>2, InToSet
      <4> QED
        BY <1>3, <3>2, <4>1 DEF Held, Alternates
    <3>4. ToSet(others) \subseteq Held(c) /\ others # <<>>
      BY <1>3, <3>2, <3>3, InToSet
    <3> QED
      BY <3>2, <3>4
  <2>2. CASE ~ (given /\ c.login # w.base.login)
    BY <1>3, <2>2 DEF Held, Alternates
  <2> QED
    BY <2>1, <2>2
<1> HIDE DEF others
<1>5. /\ kept \in Seq(Login) /\ Len(kept) <= MaxAlternates
      /\ ToSet(kept) \subseteq ToSet(w.alternates)
  BY AlternatesKept DEF Settled, ToSet
<1>6. l \in Login /\ b \in BOOLEAN
  BY <1>2 DEF Settled
<1> HIDE DEF kept, l, b
<1>7. /\ used \in Cards /\ used.login = l /\ used.rejected = c.rejected
      /\ used.alternates = kept
  <2>1. used \in Cards
    BY <1>2, <1>5, <1>6, CardTyped
  <2> QED
    BY <1>2, <2>1 DEF Card
<1> HIDE DEF used
<1>8. /\ barred \in Cards /\ barred.login = l
      /\ barred.rejected = c.rejected \cup w.rejected
      /\ Alternates(barred) = ToSet(kept) \ (c.rejected \cup w.rejected)
  BY <1>7, RejectingFacts DEF Settled, Alternates
<1> HIDE DEF barred
<1> DEFINE d == Merged(c, w)
<1>9. /\ Keeps(barred, d, ToSet(others))
      /\ others # <<>> => others[1] \in barred.rejected \cup Held(d)
  BY <1>1, <1>4, <1>8, KeepAlternatesFacts
<1> HIDE DEF d
<1>10. /\ d \in Cards /\ d.rejected = c.rejected \cup w.rejected /\ d.login = l
  BY <1>8, <1>9 DEF Keeps
<1>11. Alternates(d) \subseteq (ToSet(w.alternates) \cup Held(c)) \ (c.rejected \cup w.rejected)
  BY <1>4, <1>5, <1>8, <1>9 DEF Keeps
<1>12. c.login \in {w.base.login} \cup c.rejected \cup w.rejected \cup Held(d)
  <2>1. CASE given /\ c.login # w.base.login
    BY <1>4, <1>8, <1>9, <2>1
  <2>2. CASE c.login = w.base.login
    BY <2>2
  <2>3. CASE ~ given
    BY <1>10, <2>3 DEF l, Held
  <2> QED
    BY <2>1, <2>2, <2>3
<1>13. l = IF w.login # w.base.login THEN w.login ELSE c.login
  BY DEF l
<1> QED
  BY <1>10, <1>11, <1>12, <1>13 DEF d

-----------------------------------------------------------------------------
(* The pool as it follows a login, and as one is put into it.              *)

Pools == [Accounts -> Cards \cup {None}]

\* None is no account, login, card, view, reading or activity.
LEMMA NoneFacts ==
  /\ None \notin Accounts /\ None \notin Login /\ None \notin Card /\ None \notin View
  /\ None \notin Reading /\ None \notin Refresh /\ None \notin Switch /\ None \notin Import
  BY NoneIsNothing

\* A card that only records whether Claude Code's login is its own is the same.
LEMMA TakesNothing ==
  ASSUME NEW c \in Cards, NEW b \in BOOLEAN, NEW L
  PROVE  Takes(c, [c EXCEPT !.inLive = b], L) /\ Takes(c, c, L)
  BY DEF Takes, Cards, Card, Alternates

\* The account followed is one of the pool, and of the login when that has one.
LEMMA MatchedFacts ==
  ASSUME NEW cs \in Pools, NEW v \in View
  PROVE  LET m == MatchedIn(cs, v)
         IN  /\ m \in Accounts \cup {None}
             /\ m # None => cs[m] # None /\ (v.named = m \/ (v.named = None /\ cs[m].login = v.login))
<1>1. v.named \in Accounts \cup {None}
  BY DEF View
<1>2. CASE v.named # None
  BY <1>1, <1>2 DEF MatchedIn
<1>3. CASE v.named = None
  <2> DEFINE same == {a \in Accounts : cs[a] # None /\ cs[a].login = v.login}
  <2>1. MatchedIn(cs, v) = IF same = {} THEN None ELSE CHOOSE a \in same : TRUE
    BY <1>3 DEF MatchedIn
  <2>2. CASE same = {}
    BY <2>1, <2>2
  <2>3. CASE same # {}
    <3>1. (CHOOSE a \in same : TRUE) \in same
      BY <2>3
    <3> QED
      BY <1>3, <2>1, <2>3, <3>1
  <2> QED
    BY <2>2, <2>3
<1> QED
  BY <1>2, <1>3

\* What following makes of the cards cs: the logins of L may be taken, but only
\* by the account named.
Follows(cs, ds, v) ==
  /\ ds \in Pools
  /\ \A a \in Accounts : IF cs[a] = None THEN ds[a] = None
                         ELSE Takes(cs[a], ds[a], IF v = None THEN {} ELSE {v.login})
  /\ \A a \in Accounts : cs[a] # None /\ ds[a].login # cs[a].login => v # None /\ v.named = a

\* Followed changes the account that is followed, and only by the login that was
\* read.
LEMMA FollowFacts ==
  ASSUME NEW cs \in Pools, NEW cur \in Accounts \cup {None}, NEW v \in Views
  PROVE  /\ Follows(cs, Followed(cs, cur, v).cards, v)
         /\ Followed(cs, cur, v).current \in Accounts \cup {None}
<1>1. CASE v = None \/ (v # None /\ Mixed(cs, v))
  <2>1. Followed(cs, cur, v) = [cards |-> cs, current |-> cur]
    BY <1>1 DEF Followed
  <2>2. \A a \in Accounts : cs[a] # None => cs[a] \in Cards
    BY DEF Pools
  <2>3. ASSUME NEW a \in Accounts, cs[a] # None, NEW L PROVE Takes(cs[a], cs[a], L)
    BY <2>2, <2>3, TakesNothing
  <2> QED
    BY <2>1, <2>3 DEF Follows
<1>2. CASE v # None /\ ~ Mixed(cs, v)
  <2> DEFINE m == MatchedIn(cs, v)
             left == [a \in Accounts |->
               IF cs[a] = None \/ a = m THEN cs[a] ELSE [cs[a] EXCEPT !.inLive = FALSE]]
             ds == IF m = None THEN left ELSE [left EXCEPT ![m] = Adopt(@, v.login, TRUE)]
  <2>1. Followed(cs, cur, v) = [cards |-> ds, current |-> m]
    BY <1>2 DEF Followed
  <2>2. v \in View /\ v.login \in Login
    BY <1>2 DEF Views, View
  <2>3. /\ m \in Accounts \cup {None}
        /\ m # None => cs[m] # None /\ (v.named = m \/ (v.named = None /\ cs[m].login = v.login))
    BY <2>2, MatchedFacts
  <2> HIDE DEF m
  <2>4. \A a \in Accounts : ds[a] = IF a = m THEN Adopt(cs[a], v.login, TRUE)
                                   ELSE IF cs[a] = None THEN None
                                   ELSE [cs[a] EXCEPT !.inLive = FALSE]
    BY <2>3, NoneFacts
  <2>5. ds = [a \in Accounts |-> ds[a]]
    OBVIOUS
  <2> HIDE DEF ds
  <2>6. ASSUME NEW a \in Accounts, cs[a] # None
        PROVE  Takes(cs[a], ds[a], {v.login}) /\ (ds[a].login # cs[a].login => v.named = a)
    <3>1. cs[a] \in Cards
      BY <2>6 DEF Pools
    <3>2. CASE a = m
      <4>1. Takes(cs[a], ds[a], {v.login})
        BY <2>2, <2>4, <3>1, <3>2, AdoptFacts
      <4>2. CASE v.named = m
        BY <3>2, <4>1, <4>2
      <4>3. CASE v.named # m
        <5>1. cs[a].login = v.login
          BY <2>3, <3>2, <4>3, NoneFacts
        <5> QED
          BY <4>1, <5>1 DEF Takes
      <4> QED
        BY <4>2, <4>3
    <3>3. CASE a # m
      <4>1. ds[a] = [cs[a] EXCEPT !.inLive = FALSE]
        BY <2>4, <2>6, <3>3
      <4>2. Takes(cs[a], ds[a], {v.login})
        BY <3>1, <4>1, TakesNothing
      <4>3. ds[a].login = cs[a].login
        BY <3>1, <4>1 DEF Cards, Card
      <4> QED
        BY <4>2, <4>3
    <3> QED
      BY <3>2, <3>3
  <2>7. ASSUME NEW a \in Accounts, cs[a] = None PROVE ds[a] = None
    BY <2>3, <2>4, <2>7, NoneFacts
  <2>8. ds \in Pools
    <3>1. ASSUME NEW a \in Accounts PROVE ds[a] \in Cards \cup {None}
      BY <2>6, <2>7 DEF Takes
    <3> QED
      BY <2>5, <3>1 DEF Pools
  <2>9. Follows(cs, ds, v)
    BY <1>2, <2>6, <2>7, <2>8 DEF Follows
  <2> QED
    BY <2>1, <2>3, <2>9
<1> QED
  BY <1>1, <1>2

\* What a step that takes a login v into the pool, or none, makes of its cards.
PoolTakes(v) ==
  /\ cards' \in Pools /\ current' \in Accounts \cup {None}
  /\ \A a \in Accounts : cards[a] # None =>
       /\ Takes(cards[a], cards'[a], IF v = None THEN {} ELSE {v.login})
       /\ cards'[a].login # cards[a].login => v # None /\ v.named = a
  /\ \A a \in Accounts : cards[a] = None /\ cards'[a] # None =>
       /\ job' = None /\ v # None /\ v.named = a
       /\ cards'[a].login = v.login /\ cards'[a].rejected = {} /\ Alternates(cards'[a]) = {}
PoolTyped == cards \in Pools /\ current \in Accounts \cup {None}

\* A pool that follows a login takes that login alone.
LEMMA PoolFollows ==
  ASSUME PoolTyped, NEW v \in Views,
         cards' = Followed(cards, current, v).cards,
         current' = Followed(cards, current, v).current
  PROVE  PoolTakes(v)
<1>1. Follows(cards, cards', v) /\ current' \in Accounts \cup {None}
  BY FollowFacts DEF PoolTyped
<1>2. ASSUME NEW a \in Accounts, cards[a] # None
      PROVE  Takes(cards[a], cards'[a], IF v = None THEN {} ELSE {v.login})
  BY <1>1, <1>2 DEF Follows
<1>3. ASSUME NEW a \in Accounts, cards[a] = None PROVE cards'[a] = None
  BY <1>1, <1>3 DEF Follows
<1> QED
  BY <1>1, <1>2, <1>3 DEF PoolTakes, Follows

\* A pool left alone takes nothing.
LEMMA PoolStays ==
  ASSUME PoolTyped, UNCHANGED pool
  PROVE  PoolTakes(None)
<1>1. \A a \in Accounts : cards[a] # None => cards[a] \in Cards
  BY DEF PoolTyped, Pools
<1>2. ASSUME NEW a \in Accounts, cards[a] # None PROVE Takes(cards[a], cards[a], {})
  BY <1>1, <1>2, TakesNothing
<1> QED
  BY <1>2 DEF PoolTakes, PoolTyped, pool

\* An import or sign-in takes the login it was given.
LEMMA PoolUpserts ==
  ASSUME PoolTyped, NEW v \in View, v.named \in Accounts, NEW inUse \in BOOLEAN,
         NEW defer \in BOOLEAN, Upserted(v, inUse, defer), job' = None
  PROVE  PoolTakes(v)
<1> DEFINE a == v.named
           n == NewCard(v.login, inUse, defer)
           c == IF cards[a] # None THEN Adopt(cards[a], v.login, inUse) ELSE n
<1>1. /\ \A b \in Accounts : cards'[b] =
           IF b = a THEN c
           ELSE IF inUse /\ cards[b] # None THEN [cards[b] EXCEPT !.inLive = FALSE]
           ELSE cards[b]
      /\ cards' = [b \in Accounts |-> cards'[b]]
      /\ current' = IF inUse THEN a ELSE current
  BY DEF Upserted
<1>2. v.login \in Login /\ a \in Accounts /\ v # None
  BY NoneFacts DEF View
<1>3. \A b \in Accounts : cards[b] # None => cards[b] \in Cards
  BY DEF PoolTyped, Pools
<1>4. /\ n \in Cards /\ n.login = v.login /\ n.rejected = {} /\ Alternates(n) = {}
  <2>1. n \in Card /\ n.alternates = <<>> /\ n.login = v.login /\ n.rejected = {}
    BY <1>2 DEF NewCard, Card, Renewal
  <2> HIDE DEF n
  <2> QED
    BY <2>1, AlternatesKept DEF Cards, Alternates, ToSet
<1> HIDE DEF n
<1>5. ASSUME NEW b \in Accounts, cards[b] # None
      PROVE  /\ Takes(cards[b], cards'[b], {v.login})
             /\ cards'[b].login # cards[b].login => v.named = b
  <2>1. CASE b = a
    <3>1. cards'[b] = Adopt(cards[b], v.login, inUse)
      BY <1>1, <1>5, <2>1
    <3> QED
      BY <1>2, <1>3, <1>5, <2>1, <3>1, AdoptFacts
  <2>2. CASE b # a /\ inUse
    <3>1. cards'[b] = [cards[b] EXCEPT !.inLive = FALSE]
      BY <1>1, <1>5, <2>2
    <3>2. Takes(cards[b], cards'[b], {v.login})
      BY <1>3, <1>5, <3>1, TakesNothing
    <3>3. cards'[b].login = cards[b].login
      BY <1>3, <1>5, <3>1 DEF Cards, Card
    <3> QED
      BY <3>2, <3>3
  <2>3. CASE b # a /\ ~inUse
    <3>1. cards'[b] = cards[b]
      BY <1>1, <2>3
    <3> QED
      BY <1>3, <1>5, <3>1, TakesNothing
  <2> QED
    BY <2>1, <2>2, <2>3
<1>6. ASSUME NEW b \in Accounts, cards[b] = None, cards'[b] # None
      PROVE  b = a /\ cards'[b] = n
  BY <1>1, <1>6
<1>7. cards' \in Pools
  <2>1. ASSUME NEW b \in Accounts PROVE cards'[b] \in Cards \cup {None}
    BY <1>4, <1>5, <1>6 DEF Takes
  <2> QED
    BY <1>1, <2>1 DEF Pools
<1>8. current' \in Accounts \cup {None}
  BY <1>1, <1>2 DEF PoolTyped
<1> QED
  BY <1>2, <1>4, <1>5, <1>6, <1>7, <1>8 DEF PoolTakes

\* The cards' settings, and whether their login is Claude Code's, change nothing.
LEMMA SettingsTake ==
  ASSUME NEW c \in Cards, NEW d \in Card, d.login = c.login, d.alternates = c.alternates,
         d.rejected = c.rejected
  PROVE  Takes(c, d, {})
  BY DEF Takes, Cards, Card, Alternates

\* A pool of which only settings changed takes nothing.
LEMMA PoolSettings ==
  ASSUME PoolTyped, cards' \in [Accounts -> {None} \cup Cards],
         \A a \in Accounts : IF cards[a] = None THEN cards'[a] = None
                             ELSE /\ Takes(cards[a], cards'[a], {})
                                  /\ cards'[a].login = cards[a].login,
         current' \in Accounts \cup {None}
  PROVE  PoolTakes(None)
  BY DEF PoolTakes, Pools

-----------------------------------------------------------------------------
(* Types.                                                                  *)

RefreshSteps == {"snapping", "asking", "renewing", "answered", "writing", "merging"}
AskedSteps == {"asking", "renewing", "answered", "writing", "merging"}
SwitchSteps == {"listing", "listed", "locked", "credentials", "account"}

BooksTyped == issued \in [Accounts -> Gen] /\ spent \subseteq Login /\ rotated \subseteq spent
\* A refresh that read its card has it, and the login it uses; an import has the
\* account its login goes with.
JobTyped ==
  /\ job \in Refresh \cup Switch \cup Import \cup {None}
  /\ job # None /\ job.pc \in AskedSteps =>
       job.base \in Card /\ job.login \in Login /\ Len(job.alternates) <= MaxAlternates
  /\ job # None /\ job.pc = "importing" => job.view.named \in Accounts
\* A switch that writes keeps the pool locked, and its card in it.
SwitchLocked == job # None /\ job.pc \in {"locked", "credentials", "account"} =>
  held /\ cards[job.of] # None
RestTyped ==
  /\ live \in Views /\ held \in BOOLEAN /\ listing \in [Lists -> Reading \cup {None}]
  /\ signIns \in 0..MaxSignIns /\ faults \in 0..MaxFaults /\ crashes \in 0..MaxCrashes
TypeInv == PoolTyped /\ BooksTyped /\ JobTyped /\ SwitchLocked /\ RestTyped

\* An activity is what its step says.
LEMMA JobKinds ==
  ASSUME job \in Refresh \cup Switch \cup Import \cup {None}, job # None
  PROVE  /\ job.pc \in RefreshSteps => job \in Refresh
         /\ job.pc \in SwitchSteps => job \in Switch
         /\ job.pc = "importing" => job \in Import
         /\ job \in Refresh => job.pc \in RefreshSteps
         /\ job \in Switch => job.pc \in SwitchSteps
         /\ job \in Import => job.pc = "importing"
         /\ job.pc \in RefreshSteps \cup SwitchSteps => job.of \in Accounts /\ job.before \in Views
         /\ job.pc = "importing" => job.view \in View
  BY DEF Refresh, Switch, Import, RefreshSteps, SwitchSteps

\* The bounds and the pool's cards as TypeOK has them.
LEMMA TypeInvTypes ==
  ASSUME TypeInv PROVE TypeOK
<1>1. cards \in [Accounts -> Card \cup {None}]
  BY DEF TypeInv, PoolTyped, Pools, Cards
<1>2. \A a \in Accounts : cards[a] # None => Len(cards[a].alternates) <= MaxAlternates
  BY DEF TypeInv, PoolTyped, Pools, Cards
<1>3. \A a \in Accounts : Asked(a) => Len(job.alternates) <= MaxAlternates
  BY DEF TypeInv, JobTyped, Asked, AskedSteps
<1> QED
  BY <1>1, <1>2, <1>3 DEF TypeInv, TypeOK, PoolTyped, BooksTyped, JobTyped, RestTyped

\* The first state is of the types.
LEMMA TypeInit == Init => TypeInv
<1> SUFFICES ASSUME Init PROVE TypeInv
  OBVIOUS
<1>1. 1 \in Gen
  BY ClaudeCounts DEF Gen
<1>2. \A a \in Accounts : Of(a, 1) \in Login
  BY <1>1 DEF Of, Login
<1>3. \A a \in Accounts : NewCard(Of(a, 1), FALSE, FALSE) \in Cards
  <2>1. ASSUME NEW a \in Accounts
        PROVE  /\ NewCard(Of(a, 1), FALSE, FALSE) \in Card
               /\ NewCard(Of(a, 1), FALSE, FALSE).alternates = <<>>
    BY <1>2 DEF NewCard, Card, Renewal
  <2>2. ASSUME NEW a \in Accounts PROVE NewCard(Of(a, 1), FALSE, FALSE) \in Cards
    <3> DEFINE n == NewCard(Of(a, 1), FALSE, FALSE)
    <3>1. n \in Card /\ n.alternates = <<>>
      BY <2>1
    <3> HIDE DEF n
    <3>2. n \in Cards
      BY <3>1, AlternatesKept DEF Cards
    <3> QED
      BY <3>2 DEF n
  <2> QED
    BY <2>2
<1>4. PoolTyped
  BY <1>3 DEF Init, PoolTyped, Pools
<1>5. \A a \in Accounts : Shown(Of(a, 1), a) \in View
  BY <1>2 DEF Shown, View
<1>6. live \in Views
  BY <1>5 DEF Init, Views
<1>7. RestTyped
  <2>1. listing \in [Lists -> Reading \cup {None}] /\ held \in BOOLEAN
    BY DEF Init
  <2>2. signIns = 0 /\ faults = 0 /\ crashes = 0
    BY DEF Init
  <2> QED
    BY <1>6, <2>1, <2>2, ClaudeCounts DEF RestTyped
<1> QED
  BY <1>1, <1>4, <1>7 DEF Init, TypeInv, BooksTyped, JobTyped, SwitchLocked

\* Whatever reads Claude Code's login gets one, or nothing.
LEMMA ReadsTyped ==
  ASSUME RestTyped PROVE Reads \subseteq Views
  BY DEF RestTyped, Reads, Views

\* An exchange issues the next generation of a login's account.
LEMMA ExchangeTyped ==
  ASSUME BooksTyped, NEW l \in Login, Exchange(l), rotated' \subseteq rotated \cup {l}
  PROVE  /\ BooksTyped' /\ Issued(l.of) \in Login /\ Issued(l.of).of = l.of
         /\ Issued(l.of).gen = issued'[l.of] /\ issued'[l.of] = issued[l.of] + 1
<1>1. l.of \in Accounts /\ issued[l.of] \in Gen
  BY DEF BooksTyped, Login
<1>2. issued[l.of] + 1 \in Gen
  BY <1>1, ClaudeCounts DEF Exchange, Gen
<1>3. issued' \in [Accounts -> Gen] /\ issued'[l.of] = issued[l.of] + 1
  BY <1>1, <1>2 DEF BooksTyped, Exchange
<1> QED
  BY <1>1, <1>2, <1>3 DEF BooksTyped, Exchange, Issued, Of, Login

\* A step of a refresh that leaves the pool alone.
LEMMA RefreshMoves ==
  ASSUME TypeInv, UNCHANGED <<pool, held, listing>>, BooksTyped', live' \in Views,
         signIns' \in 0..MaxSignIns, faults' \in 0..MaxFaults, crashes' \in 0..MaxCrashes,
         job' \in Refresh,
         job'.pc \in AskedSteps =>
           job'.base \in Card /\ job'.login \in Login /\ Len(job'.alternates) <= MaxAlternates
  PROVE  TypeInv'
<1>1. job'.pc \in RefreshSteps
  BY DEF Refresh, RefreshSteps
<1>2. SwitchLocked'
  BY <1>1 DEF SwitchLocked, RefreshSteps
<1>3. JobTyped'
  BY <1>1 DEF JobTyped, RefreshSteps
<1> QED
  BY <1>2, <1>3 DEF TypeInv, PoolTyped, RestTyped, pool

\* The refresh of an account that has read its card.
LEMMA AskedFields ==
  ASSUME TypeInv, job # None, job.pc \in AskedSteps
  PROVE  /\ job \in Refresh /\ job.of \in Accounts /\ job.before \in Views
         /\ job.base \in Card /\ job.login \in Login /\ job.alternates \in Seq(Login)
         /\ Len(job.alternates) <= MaxAlternates /\ job.rejected \in SUBSET Login
         /\ job.renewed \in BOOLEAN /\ job.inLive \in BOOLEAN /\ job.left \in 0..2
<1>1. job.pc \in RefreshSteps
  BY DEF AskedSteps, RefreshSteps
<1>2. job \in Refresh
  BY <1>1, JobKinds DEF TypeInv, JobTyped
<1>3. job.base \in Card /\ job.login \in Login /\ Len(job.alternates) <= MaxAlternates
  BY DEF TypeInv, JobTyped
<1> QED
  BY <1>2, <1>3 DEF Refresh

\* How a refresh is settled: with another login that Claude Code uses, with the
\* next of its alternates after a refusal, or with what it used.
Refusal == job.result = "refused"
SettleRejected == IF Refusal THEN job.rejected \cup {job.login} ELSE job.rejected
Left == IF Refusal THEN Without(job.alternates, job.rejected \cup {job.login}) ELSE job.alternates
ChangedTo(v) ==
  /\ v # None /\ v.named = job.of /\ v.login \notin job.base.rejected \cup SettleRejected
  /\ v.login # (IF job.before # None THEN job.before.login ELSE job.base.login)
WrittenOver(v) ==
  /\ job.before # None /\ v # None /\ v.login = job.before.login
  /\ IF v.named # None THEN v.named = job.of ELSE v.login = job.base.login
  /\ job.base.renewal # "never"
  /\ v.login \in SettleRejected \cup job.base.rejected \/ job.login # job.base.login
  /\ job.login # v.login
  /\ job.result = "ok" \/ job.renewed
SettleWith(v) ==
  /\ job' \in Refresh /\ job'.of = job.of /\ job'.base = job.base
  /\ job'.rejected = SettleRejected
  /\ \/ /\ v # None /\ v.named = job.of /\ v.login \notin job.base.rejected \cup SettleRejected
        /\ ~job'.renewed
        /\ job'.login = v.login /\ job'.before = v /\ job'.pc \in {"asking", "merging"}
        /\ job'.alternates = Left \/ (~Refusal /\ job'.alternates = Push(Left, job.login))
     \/ /\ ~ChangedTo(v) /\ Refusal /\ ~job'.renewed
        /\ Left # <<>> /\ job'.login = Head(Left) /\ job'.alternates = Tail(Left)
        /\ job'.before = job.before /\ job'.pc = "asking"
     \/ /\ ~ChangedTo(v) /\ job'.renewed = job.renewed
        /\ job'.pc = "merging" => ~WrittenOver(v)
        /\ job'.login = job.login /\ job'.alternates = Left /\ job'.before = job.before
        /\ job'.pc \in {"writing", "merging"}
        /\ job'.pc = "writing" => v # None /\ (v.named = None \/ v.named = job.of)

\* What settling an answer does, with the definitions of its steps put together.
LEMMA SettleFacts ==
  ASSUME TypeInv, RefreshSettle
  PROVE  /\ \E v \in Reads : SettleWith(v)
         /\ Left \in Seq(Login) /\ Len(Left) <= MaxAlternates
         /\ ToSet(Left) \subseteq ToSet(job.alternates)
         /\ Refusal => ToSet(Left) \cap SettleRejected = {}
<1>1. job # None /\ job.pc = "answered"
  BY DEF RefreshSettle, Refreshing
<1>2. /\ job \in Refresh /\ job.of \in Accounts /\ job.before \in Views
      /\ job.base \in Card /\ job.login \in Login /\ job.alternates \in Seq(Login)
      /\ Len(job.alternates) <= MaxAlternates /\ job.rejected \in SUBSET Login
  BY <1>1, AskedFields DEF AskedSteps
<1> DEFINE R == job.rejected \cup {job.login}
           rest == Without(job.alternates, R)
<1>3. /\ rest \in Seq(Login) /\ Len(rest) <= Len(job.alternates)
      /\ ToSet(rest) = ToSet(job.alternates) \ R
  BY <1>2, WithoutFacts
<1>4. /\ Left \in Seq(Login) /\ Len(Left) <= Len(job.alternates)
      /\ ToSet(Left) \subseteq ToSet(job.alternates)
      /\ Refusal => ToSet(Left) \cap SettleRejected = {}
  <2> HIDE DEF R, rest
  <2>1. Left = IF Refusal THEN rest ELSE job.alternates
    BY DEF Left, rest, R
  <2>2. SettleRejected = IF Refusal THEN R ELSE job.rejected
    BY DEF SettleRejected, R
  <2>3. Len(rest) \in Nat /\ Len(job.alternates) \in Nat
    BY <1>2, <1>3
  <2> QED
    BY <1>2, <1>3, <2>1, <2>2, <2>3
<1>5. Len(Left) <= MaxAlternates
  BY <1>2, <1>4, AlternatesKept
<1>6. SettleRejected \in SUBSET Login
  BY <1>2 DEF SettleRejected
<1> DEFINE w == [job EXCEPT !.rejected = SettleRejected, !.alternates = Left]
           settled == IF Refusal THEN [job EXCEPT !.rejected = @ \cup {job.login},
                                  !.alternates = Without(@, job.rejected \cup {job.login})]
                      ELSE job
<1>7. settled = w
  <2>1. CASE Refusal
    BY <1>2, <2>1 DEF SettleRejected, Left, Refresh
  <2>2. CASE ~Refusal
    BY <1>2, <2>2 DEF SettleRejected, Left, Refresh
  <2> QED
    BY <2>1, <2>2
<1>8. PICK v \in Reads :
       job' =
         IF Changed(settled, v) THEN
           [settled EXCEPT !.login = v.login, !.before = v, !.inLive = TRUE,
              !.alternates = IF ~Refusal /\ (settled.renewed \/ settled.before = None
                         \/ (settled.before # None /\ settled.before.login # settled.login))
                               THEN Push(@, settled.login) ELSE @,
              !.renewed = FALSE, !.reloaded = TRUE, !.left = 2,
              !.pc = IF settled.reloaded THEN "merging" ELSE "asking",
              !.result = IF settled.reloaded THEN "failed" ELSE "none"]
         ELSE IF Refusal /\ settled.alternates # <<>> THEN
           [settled EXCEPT !.login = Head(settled.alternates), !.alternates = Tail(@),
              !.renewed = FALSE, !.left = 2, !.pc = "asking", !.result = "none"]
         ELSE
           [settled EXCEPT !.inLive = (v # None /\ v.login = settled.login),
              !.pc = IF WritesBack(settled, v) THEN "writing" ELSE "merging"]
  BY DEF RefreshSettle, Refusal
<1> HIDE DEF settled
<1>9. v \in Views
  BY ReadsTyped DEF TypeInv
<1>10. /\ w \in Refresh /\ w.of = job.of /\ w.base = job.base /\ w.login = job.login
       /\ w.before = job.before /\ w.rejected = SettleRejected /\ w.alternates = Left
       /\ w.reloaded \in BOOLEAN /\ w.alternates \in Seq(Login) /\ w.login \in Login
       /\ w.renewed = job.renewed /\ w.result = job.result
  BY <1>2, <1>4, <1>6 DEF Refresh
<1> HIDE DEF w
<1>c. Changed(w, v) <=> ChangedTo(v)
  BY <1>10 DEF Changed, ChangedTo
<1>b. WritesBack(w, v) <=> WrittenOver(v)
  BY <1>10 DEF WritesBack, WrittenOver
<1>11. CASE Changed(w, v)
  <2>1. /\ v # None /\ v.named = job.of /\ v.login \notin job.base.rejected \cup SettleRejected
    BY <1>10, <1>11 DEF Changed
  <2>2. v.login \in Login
    BY <1>9, <2>1 DEF Views, View
  <2> DEFINE push == ~Refusal /\ (w.renewed \/ w.before = None
                         \/ (w.before # None /\ w.before.login # w.login))
             alternates == IF push THEN Push(Left, job.login) ELSE Left
             pc == IF w.reloaded THEN "merging" ELSE "asking"
             result == IF w.reloaded THEN "failed" ELSE "none"
             login == v.login
  <2>3. alternates \in Seq(Login)
    BY <1>2, <1>4, PushFacts
  <2>4. pc \in {"merging", "asking"} /\ result \in {"failed", "none"} /\ login \in Login
    BY <2>2
  <2>5. job' = [w EXCEPT !.login = login, !.before = v, !.inLive = TRUE,
              !.alternates = alternates,
              !.renewed = FALSE, !.reloaded = TRUE, !.left = 2, !.pc = pc, !.result = result]
    <3> HIDE DEF pc, result, login
    <3>1. [w EXCEPT !.login = login, !.before = v, !.inLive = TRUE,
              !.alternates = IF push THEN Push(w.alternates, w.login) ELSE w.alternates,
              !.renewed = FALSE, !.reloaded = TRUE, !.left = 2, !.pc = pc, !.result = result]
          = [w EXCEPT !.login = login, !.before = v, !.inLive = TRUE,
              !.alternates = alternates,
              !.renewed = FALSE, !.reloaded = TRUE, !.left = 2, !.pc = pc, !.result = result]
      BY <1>10
    <3> QED
      BY <1>7, <1>8, <1>11, <3>1 DEF pc, result, login
  <2>6. push => ~Refusal
    OBVIOUS
  <2> HIDE DEF pc, result, login, push
  <2>7. alternates = Left \/ (~Refusal /\ alternates = Push(Left, job.login))
    BY <2>6
  <2> HIDE DEF alternates
  <2>8. /\ job' \in Refresh /\ job'.of = w.of /\ job'.base = w.base /\ job'.rejected = w.rejected
        /\ job'.login = login /\ job'.before = v /\ job'.pc = pc /\ job'.alternates = alternates
        /\ ~job'.renewed
    <3> DEFINE d1 == [w EXCEPT !.login = login, !.before = v, !.inLive = TRUE]
               d2 == [d1 EXCEPT !.alternates = alternates, !.renewed = FALSE, !.reloaded = TRUE]
               two == 2
               d3 == [d2 EXCEPT !.left = two, !.pc = pc, !.result = result]
    <3>0. two \in 0..2
      OBVIOUS
    <3>1. /\ d1 \in Refresh /\ d1.of = w.of /\ d1.base = w.base /\ d1.rejected = w.rejected
          /\ d1.login = login /\ d1.before = v
      BY <1>9, <1>10, <2>4 DEF Refresh
    <3>2. job' = [d1 EXCEPT !.alternates = alternates, !.renewed = FALSE, !.reloaded = TRUE,
                     !.left = two, !.pc = pc, !.result = result]
      BY <1>10, <2>5 DEF Refresh
    <3> HIDE DEF d1, two
    <3>3. /\ d2 \in Refresh /\ d2.of = d1.of /\ d2.base = d1.base /\ d2.rejected = d1.rejected
          /\ d2.login = d1.login /\ d2.before = d1.before /\ d2.alternates = alternates
          /\ ~d2.renewed
      BY <2>3, <3>1 DEF Refresh
    <3>4. job' = d3
      BY <3>1, <3>2 DEF Refresh
    <3> HIDE DEF d2
    <3>5. /\ d3 \in Refresh /\ d3.of = d2.of /\ d3.base = d2.base /\ d3.rejected = d2.rejected
          /\ d3.login = d2.login /\ d3.before = d2.before /\ d3.alternates = d2.alternates
          /\ d3.pc = pc /\ d3.renewed = d2.renewed
      BY <2>4, <3>0, <3>3 DEF Refresh
    <3> HIDE DEF d3
    <3> QED
      BY <3>1, <3>3, <3>4, <3>5
  <2>9. SettleWith(v)
    BY <1>10, <2>1, <2>4, <2>7, <2>8 DEF SettleWith, login
  <2> QED
    BY <1>4, <1>5, <2>9
<1>12. CASE ~Changed(w, v) /\ Refusal /\ Left # <<>>
  <2> DEFINE login == Head(Left)
             alternates == Tail(Left)
  <2>1. login \in Login /\ alternates \in Seq(Login)
    BY <1>4, <1>12
  <2>2. job' = [w EXCEPT !.login = login, !.alternates = alternates,
              !.renewed = FALSE, !.left = 2, !.pc = "asking", !.result = "none"]
    BY <1>7, <1>8, <1>10, <1>12
  <2> HIDE DEF login, alternates
  <2>3. /\ job' \in Refresh /\ job'.of = w.of /\ job'.base = w.base /\ job'.rejected = w.rejected
        /\ job'.login = login /\ job'.before = w.before /\ job'.pc = "asking"
        /\ job'.alternates = alternates /\ ~job'.renewed
    <3> DEFINE d1 == [w EXCEPT !.login = login, !.alternates = alternates]
               two == 2
               d2 == [d1 EXCEPT !.renewed = FALSE, !.left = two]
               d3 == [d2 EXCEPT !.pc = "asking", !.result = "none"]
    <3>0. two \in 0..2
      OBVIOUS
    <3>1. /\ d1 \in Refresh /\ d1.of = w.of /\ d1.base = w.base /\ d1.rejected = w.rejected
          /\ d1.login = login /\ d1.before = w.before /\ d1.alternates = alternates
      BY <1>10, <2>1 DEF Refresh
    <3>2. job' = [d1 EXCEPT !.renewed = FALSE, !.left = two, !.pc = "asking", !.result = "none"]
      BY <1>10, <2>2 DEF Refresh
    <3> HIDE DEF d1, two
    <3>3. /\ d2 \in Refresh /\ d2.of = d1.of /\ d2.base = d1.base /\ d2.rejected = d1.rejected
          /\ d2.login = d1.login /\ d2.before = d1.before /\ d2.alternates = d1.alternates
          /\ ~d2.renewed
      BY <3>0, <3>1 DEF Refresh
    <3>4. job' = d3
      BY <3>1, <3>2 DEF Refresh
    <3> HIDE DEF d2
    <3>5. /\ d3 \in Refresh /\ d3.of = d2.of /\ d3.base = d2.base /\ d3.rejected = d2.rejected
          /\ d3.login = d2.login /\ d3.before = d2.before /\ d3.alternates = d2.alternates
          /\ d3.pc = "asking" /\ d3.renewed = d2.renewed
      BY <3>3 DEF Refresh
    <3> HIDE DEF d3
    <3> QED
      BY <3>1, <3>3, <3>4, <3>5
  <2>4. SettleWith(v)
    BY <1>10, <1>12, <1>c, <2>3 DEF SettleWith, login, alternates
  <2> QED
    BY <1>4, <1>5, <2>4
<1>13. CASE ~Changed(w, v) /\ ~(Refusal /\ Left # <<>>)
  <2> DEFINE pc == IF WritesBack(w, v) THEN "writing" ELSE "merging"
             inLive == v # None /\ v.login = w.login
  <2>1. pc \in {"writing", "merging"} /\ inLive \in BOOLEAN
    OBVIOUS
  <2>2. pc = "writing" => v # None /\ (v.named = None \/ v.named = job.of)
    BY <1>10 DEF WritesBack
  <2>3. job' = [w EXCEPT !.inLive = inLive, !.pc = pc]
    BY <1>7, <1>8, <1>10, <1>13
  <2> HIDE DEF pc, inLive
  <2>4. /\ job' \in Refresh /\ job'.of = w.of /\ job'.base = w.base /\ job'.rejected = w.rejected
        /\ job'.login = w.login /\ job'.before = w.before /\ job'.pc = pc
        /\ job'.alternates = w.alternates /\ job'.renewed = w.renewed
    BY <1>10, <2>1, <2>3 DEF Refresh
  <2>5. pc = "merging" => ~WrittenOver(v)
    BY <1>b DEF pc
  <2>6. SettleWith(v)
    BY <1>10, <1>13, <1>c, <2>1, <2>2, <2>4, <2>5 DEF SettleWith
  <2> QED
    BY <1>4, <1>5, <2>6
<1> QED
  BY <1>11, <1>12, <1>13

\* A refresh that settled is a refresh, with fewer logins to fall back on.
LEMMA SettleType ==
  ASSUME TypeInv, RefreshSettle
  PROVE  /\ job' \in Refresh /\ job'.base \in Card /\ job'.login \in Login
         /\ Len(job'.alternates) <= MaxAlternates
<1>1. PICK v \in Reads : SettleWith(v)
  BY SettleFacts
<1>2. Left \in Seq(Login) /\ Len(Left) <= MaxAlternates
  BY SettleFacts
<1>3. job # None /\ job.pc = "answered"
  BY DEF RefreshSettle, Refreshing
<1>4. job.base \in Card /\ job.login \in Login
  BY <1>3, AskedFields DEF AskedSteps
<1>5. v \in Views
  BY ReadsTyped DEF TypeInv
<1>6. v # None => v.login \in Login
  BY <1>5 DEF Views, View
<1>7. Len(Push(Left, job.login)) <= MaxAlternates
  BY <1>2, <1>4, PushFacts
<1>8. Left # <<>> => Head(Left) \in Login /\ Len(Tail(Left)) <= MaxAlternates
  BY <1>2, AlternatesKept
<1> QED
  BY <1>1, <1>2, <1>4, <1>6, <1>7, <1>8 DEF SettleWith

\* A refresh merged gives the card the login it settled for.
MergedInto ==
  /\ job # None /\ job.pc = "merging" /\ ~held
  /\ job' = None /\ UNCHANGED <<current, live, issued, spent, rotated, held, listing>>
  /\ UNCHANGED <<signIns, faults, crashes>>
  /\ cards' \in Pools
  /\ \A a \in Accounts : a # job.of \/ cards[a] = None => cards'[a] = cards[a]
  /\ cards[job.of] # None =>
       LET c == cards[job.of]
           d == cards'[job.of]
       IN  /\ d \in Cards /\ d.rejected = c.rejected \cup job.rejected
           /\ d.login = IF job.login # job.base.login THEN job.login ELSE c.login
           /\ Alternates(d) \subseteq (Alternates(job) \cup Held(c)) \ (c.rejected \cup job.rejected)
           /\ c.login \in {job.base.login} \cup d.rejected \cup Held(d)

\* The merge of an answer changes the refresh's card, as MergedInto says.
LEMMA MergeTakes ==
  ASSUME TypeInv, RefreshMerge
  PROVE  MergedInto /\ PoolTyped'
<1>1. job # None /\ job.pc = "merging"
  BY DEF RefreshMerge, Refreshing
<1>2. Settled(job) /\ job.of \in Accounts
  BY <1>1, AskedFields DEF Settled, AskedSteps
<1>3. cards \in Pools /\ current \in Accounts \cup {None}
  BY DEF TypeInv, PoolTyped
<1>4. CASE cards[job.of] = None
  <2>1. cards' = cards
    BY <1>4 DEF RefreshMerge
  <2> QED
    BY <1>1, <1>3, <1>4, <2>1 DEF RefreshMerge, MergedInto, PoolTyped, issuer, bounds
<1>5. CASE cards[job.of] # None
  <2> DEFINE c == cards[job.of]
             m == Merged(c, job)
             choice == IF job.renewals /\ m.renewal = "once" THEN "never" ELSE m.renewal
             d == [m EXCEPT !.renewal = choice]
  <2>1. c \in Cards
    BY <1>2, <1>3, <1>5 DEF Pools
  <2>2. cards' = [cards EXCEPT ![job.of] = d]
    BY <1>5 DEF RefreshMerge
  <2>3. /\ m \in Cards /\ m.rejected = c.rejected \cup job.rejected
        /\ m.login = IF job.login # job.base.login THEN job.login ELSE c.login
        /\ Alternates(m) \subseteq
             (ToSet(job.alternates) \cup Held(c)) \ (c.rejected \cup job.rejected)
        /\ c.login \in {job.base.login} \cup c.rejected \cup job.rejected \cup Held(m)
    BY <1>2, <2>1, MergedFacts
  <2> HIDE DEF m
  <2>4. /\ d \in Cards /\ d.rejected = m.rejected /\ d.login = m.login
        /\ d.alternates = m.alternates
    BY <2>3 DEF Cards, Card, Renewal
  <2> HIDE DEF d
  <2>5. /\ cards' \in Pools /\ cards'[job.of] = d
        /\ \A a \in Accounts : a # job.of => cards'[a] = cards[a]
    BY <1>2, <1>3, <2>2, <2>4 DEF Pools
  <2>6. Held(d) = Held(m) /\ Alternates(d) = Alternates(m)
    BY <2>4 DEF Held, Alternates
  <2>7. Alternates(job) = ToSet(job.alternates)
    BY DEF Alternates
  <2> QED
    BY <1>1, <1>3, <1>5, <2>3, <2>4, <2>5, <2>6, <2>7 DEF RefreshMerge, MergedInto, PoolTyped, issuer, bounds
<1> QED
  BY <1>4, <1>5

\* Every step of a refresh keeps the types.
LEMMA RefreshType ==
  ASSUME TypeInv, RefreshStep
  PROVE  TypeInv'
<1> USE DEF pool, issuer, bounds
<1>t. /\ PoolTyped /\ BooksTyped /\ JobTyped /\ SwitchLocked /\ RestTyped
      /\ Reads \subseteq Views
  BY ReadsTyped DEF TypeInv
<1>k. job # None =>
        /\ job.pc \in RefreshSteps => job \in Refresh
        /\ job.pc \in AskedSteps =>
             job.base \in Card /\ job.login \in Login /\ Len(job.alternates) <= MaxAlternates
  BY <1>t, JobKinds DEF JobTyped
<1>1. ASSUME NEW a \in Accounts, cards[a] # None, RefreshStart(a) PROVE TypeInv'
  <2>1. job' \in Refresh /\ job'.pc = "snapping"
    <3>1. PICK v \in Reads :
            job' = [pc |-> "snapping", of |-> a, before |-> v, inUse |-> FALSE,
               base |-> None, login |-> None, alternates |-> <<>>, rejected |-> {},
               renewed |-> FALSE, renewals |-> FALSE, left |-> 2,
               reloaded |-> FALSE, inLive |-> FALSE, result |-> "none"]
      BY <1>1 DEF RefreshStart
    <3>2. v \in Views
      BY <1>t
    <3> QED
      BY <3>1, <3>2 DEF Refresh
  <2> QED
    BY <1>t, <1>1, <2>1 DEF RefreshStart, TypeInv, PoolTyped, BooksTyped, JobTyped,
                            SwitchLocked, RestTyped, AskedSteps
<1>2. ASSUME RefreshSnapshot PROVE TypeInv'
  <2> DEFINE c == Followed(cards, current, job.before).cards[job.of]
  <2>1. /\ job # None /\ job \in Refresh /\ job.of \in Accounts /\ job.before \in Views
    BY <1>2, <1>k, NoneFacts DEF RefreshSnapshot, Refreshing, RefreshSteps, Refresh
  <2>2. PoolTakes(job.before)
    BY <1>t, <1>2, <2>1, PoolFollows DEF RefreshSnapshot
  <2>3. PoolTyped'
    BY <2>2 DEF PoolTakes, PoolTyped
  <2>4. CASE job' = None
    BY <1>t, <1>2, <2>3, <2>4 DEF RefreshSnapshot, TypeInv, BooksTyped, JobTyped,
                            SwitchLocked, RestTyped
  <2>5. CASE job' # None
    <3> DEFINE f == Followed(cards, current, job.before)
    <3>1. /\ c # None /\ cards' = f.cards
          /\ job' = [job EXCEPT !.pc = "asking", !.base = c, !.login = c.login,
                     !.alternates = c.alternates, !.inUse = (f.current = job.of)]
      BY <1>2, <2>5 DEF RefreshSnapshot
    <3>2. c \in Cards
      BY <2>1, <2>3, <3>1 DEF PoolTyped, Pools
    <3>3. /\ c \in Card /\ c.login \in Login /\ c.alternates \in Seq(Login)
          /\ Len(c.alternates) <= MaxAlternates
      BY <3>2, CardFields DEF Cards
    <3>4. (f.current = job.of) \in BOOLEAN
      OBVIOUS
    <3> DEFINE b == (f.current = job.of)
    <3> HIDE DEF c, b, f
    <3>5. [job EXCEPT !.pc = "asking", !.base = c, !.login = c.login,
                     !.alternates = c.alternates, !.inUse = b] \in Refresh
      BY <2>1, <3>3, <3>4 DEF Refresh, b
    <3>6. /\ job' \in Refresh /\ job'.pc = "asking" /\ job'.base = c
          /\ job'.login = c.login /\ job'.alternates = c.alternates
      BY <2>1, <3>1, <3>5 DEF Refresh, b
    <3> QED
      BY <1>t, <1>2, <2>3, <3>3, <3>6 DEF RefreshSnapshot, TypeInv, BooksTyped, JobTyped,
                            SwitchLocked, RestTyped
  <2> QED
    BY <2>4, <2>5
<1>3. ASSUME RefreshCheck PROVE TypeInv'
  <2>1. job # None /\ job.pc = "asking" /\ job.left > 0
    BY <1>3 DEF RefreshCheck, Refreshing
  <2>2. PICK result \in {"none", "failed", "refused"} :
          job' = [job EXCEPT !.pc = IF result = "none" THEN "renewing" ELSE "answered",
                             !.result = result, !.left = @ - 1]
    BY <1>3 DEF RefreshCheck
  <2>3. job \in Refresh /\ job.left - 1 \in 0..2
    BY <2>1, AskedFields DEF AskedSteps
  <2> DEFINE pc == IF result = "none" THEN "renewing" ELSE "answered"
             left == job.left - 1
  <2>4. job' = [job EXCEPT !.pc = pc, !.result = result, !.left = left]
    BY <2>2
  <2>5. pc \in {"renewing", "answered"} /\ left \in 0..2
    BY <2>3
  <2> HIDE DEF pc, left
  <2>6. /\ job' \in Refresh /\ job'.base = job.base /\ job'.login = job.login
        /\ job'.alternates = job.alternates
    BY <2>3, <2>4, <2>5 DEF Refresh
  <2> QED
    BY <1>t, <1>3, <2>1, <2>6, AskedFields, RefreshMoves
       DEF RefreshCheck, BooksTyped, RestTyped, AskedSteps
<1>4. ASSUME RefreshRenew PROVE TypeInv'
  <2>1. job # None /\ job.pc = "renewing"
    BY <1>4 DEF RefreshRenew, Refreshing
  <2>2. job \in Refresh /\ job.base \in Card /\ job.login \in Login /\ Len(job.alternates) <= MaxAlternates
    BY <2>1, AskedFields DEF AskedSteps
  <2>3. BooksTyped' /\ Issued(job.login.of) \in Login
    BY <1>t, <1>4, <2>2, ExchangeTyped DEF RefreshRenew
  <2>4. job' = [job EXCEPT !.pc = "asking", !.login = Issued(job.login.of),
                        !.renewed = TRUE, !.renewals = TRUE]
    BY <1>4 DEF RefreshRenew
  <2>5. /\ job' \in Refresh /\ job'.base = job.base /\ job'.login = Issued(job.login.of)
        /\ job'.alternates = job.alternates
    BY <2>2, <2>3, <2>4 DEF Refresh
  <2> QED
    BY <1>t, <1>4, <2>2, <2>3, <2>5, RefreshMoves DEF RefreshRenew, RestTyped
<1>5. ASSUME \/ RefreshRefused \/ RefreshRenewFails
             \/ \E result \in {"ok", "failed"} : RefreshAnswer(result)
      PROVE  TypeInv'
  <2>1. job # None /\ job.pc \in AskedSteps
    BY <1>5 DEF RefreshRefused, RefreshRenewFails, RefreshAnswer, Refreshing, AskedSteps
  <2>2. \E result \in {"ok", "failed", "refused"} :
          job' = [job EXCEPT !.pc = "answered", !.result = result]
    BY <1>5 DEF RefreshRefused, RefreshRenewFails, RefreshAnswer
  <2>3. /\ job' \in Refresh /\ job'.base = job.base /\ job'.login = job.login
        /\ job'.alternates = job.alternates
    BY <2>1, <2>2, AskedFields DEF Refresh
  <2>4. UNCHANGED <<pool, live, issuer, held, listing, bounds>>
    BY <1>5 DEF RefreshRefused, RefreshRenewFails, RefreshAnswer
  <2> QED
    BY <1>t, <2>1, <2>3, <2>4, AskedFields, RefreshMoves DEF BooksTyped, RestTyped
<1>6. ASSUME RefreshRenewLost PROVE TypeInv'
  <2>1. job # None /\ job.pc = "renewing"
    BY <1>6 DEF RefreshRenewLost, Refreshing
  <2>2. job \in Refresh /\ job.base \in Card /\ job.login \in Login /\ Len(job.alternates) <= MaxAlternates
    BY <2>1, AskedFields DEF AskedSteps
  <2>3. BooksTyped'
    BY <1>t, <1>6, <2>2, ExchangeTyped DEF RefreshRenewLost
  <2>4. job' = [job EXCEPT !.pc = "answered", !.result = "failed"]
    BY <1>6 DEF RefreshRenewLost
  <2>5. /\ job' \in Refresh /\ job'.base = job.base /\ job'.login = job.login
        /\ job'.alternates = job.alternates
    BY <2>2, <2>4 DEF Refresh
  <2>6. faults' \in 0..MaxFaults
    BY <1>t, <1>6, ClaudeCounts DEF RefreshRenewLost, RestTyped
  <2> QED
    BY <1>t, <1>6, <2>2, <2>3, <2>5, <2>6, RefreshMoves DEF RefreshRenewLost, RestTyped
<1>7. ASSUME RefreshSettle PROVE TypeInv'
  <2>1. /\ job' \in Refresh /\ job'.base \in Card /\ job'.login \in Login
        /\ Len(job'.alternates) <= MaxAlternates
    BY <1>7, SettleType
  <2> QED
    BY <1>t, <1>7, <2>1, RefreshMoves DEF RefreshSettle, BooksTyped, RestTyped
<1>8. ASSUME RefreshWrite PROVE TypeInv'
  <2>1. job # None /\ job.pc = "writing"
    BY <1>8 DEF RefreshWrite, Refreshing
  <2>2. job \in Refresh /\ job.base \in Card /\ job.login \in Login /\ Len(job.alternates) <= MaxAlternates
    BY <2>1, AskedFields DEF AskedSteps
  <2>3. job' = [job EXCEPT !.pc = "merging", !.inLive = TRUE]
    BY <1>8 DEF RefreshWrite
  <2>4. /\ job' \in Refresh /\ job'.base = job.base /\ job'.login = job.login
        /\ job'.alternates = job.alternates
    BY <2>2, <2>3 DEF Refresh
  <2>5. live' \in Views
    <3>1. (IF live = None THEN None ELSE live.named) \in Accounts \cup {None}
      BY <1>t DEF RestTyped, Views, View
    <3> QED
      BY <1>8, <2>2, <3>1 DEF RefreshWrite, Shown, Views, View
  <2> QED
    BY <1>t, <1>8, <2>2, <2>4, <2>5, RefreshMoves DEF RefreshWrite, BooksTyped, RestTyped
<1>9. ASSUME RefreshWriteFails PROVE TypeInv'
  <2>1. job # None /\ job.pc = "writing"
    BY <1>9 DEF RefreshWriteFails, Refreshing
  <2>2. job \in Refresh /\ job.base \in Card /\ job.login \in Login /\ Len(job.alternates) <= MaxAlternates
    BY <2>1, AskedFields DEF AskedSteps
  <2>3. job' = [job EXCEPT !.pc = "merging", !.inLive = FALSE]
    BY <1>9 DEF RefreshWriteFails
  <2>4. /\ job' \in Refresh /\ job'.base = job.base /\ job'.login = job.login
        /\ job'.alternates = job.alternates
    BY <2>2, <2>3 DEF Refresh
  <2>5. faults' \in 0..MaxFaults
    BY <1>t, <1>9, ClaudeCounts DEF RefreshWriteFails, RestTyped
  <2> QED
    BY <1>t, <1>9, <2>2, <2>4, <2>5, RefreshMoves DEF RefreshWriteFails, BooksTyped, RestTyped
<1>10. ASSUME RefreshMerge PROVE TypeInv'
  <2>1. PoolTyped' /\ job' = None
    BY <1>10, MergeTakes DEF MergedInto
  <2> QED
    BY <1>t, <1>10, <2>1 DEF RefreshMerge, TypeInv, BooksTyped, JobTyped, SwitchLocked, RestTyped
<1> QED
  BY <1>1, <1>2, <1>3, <1>4, <1>5, <1>6, <1>7, <1>8, <1>9, <1>10 DEF RefreshStep

\* A switch, once it has the lock, has the card it switches to.
LEMMA SwitchFields ==
  ASSUME TypeInv, job # None, job.pc \in SwitchSteps
  PROVE  /\ job \in Switch /\ job.of \in Accounts /\ job.before \in Views
         /\ job.pc \in {"locked", "credentials", "account"} =>
              held /\ cards[job.of] \in Cards /\ cards[job.of].login \in Login
<1>1. job \in Switch /\ job.of \in Accounts /\ job.before \in Views
  BY JobKinds DEF TypeInv, JobTyped
<1>2. ASSUME job.pc \in {"locked", "credentials", "account"}
      PROVE  held /\ cards[job.of] \in Cards /\ cards[job.of].login \in Login
  <2>1. held /\ cards[job.of] # None
    BY <1>2 DEF TypeInv, SwitchLocked
  <2>2. cards[job.of] \in Cards
    BY <1>1, <2>1 DEF TypeInv, PoolTyped, Pools
  <2> QED
    BY <2>1, <2>2, CardFields
<1> QED
  BY <1>1, <1>2

\* A step of a switch other than the one that takes the lock.
LEMMA SwitchMoves ==
  ASSUME TypeInv, PoolTyped', live' \in Views, UNCHANGED <<issuer, listing, signIns, crashes>>,
         faults' \in 0..MaxFaults, held' \in BOOLEAN, job' \in Switch \cup {None},
         job' # None => job'.pc \in {"listing", "listed"}
                        \/ (held' /\ cards'[job'.of] # None)
  PROVE  TypeInv'
<1>1. job' # None => job'.pc \notin AskedSteps /\ job'.pc # "importing"
  BY DEF Switch, AskedSteps
<1> QED
  BY <1>1 DEF TypeInv, BooksTyped, JobTyped, RestTyped, SwitchLocked, issuer

\* A switch that is saved takes no login.
LEMMA SavedCards ==
  ASSUME PoolTyped, NEW b \in Accounts, current' = b,
         cards' = [a \in Accounts |-> IF cards[a] = None THEN None
                                      ELSE [cards[a] EXCEPT !.inLive = (a = b)]]
  PROVE  PoolTakes(None)
<1>1. ASSUME NEW a \in Accounts
      PROVE  IF cards[a] = None THEN cards'[a] = None
             ELSE /\ Takes(cards[a], cards'[a], {}) /\ cards'[a] \in Cards
                  /\ cards'[a].login = cards[a].login
  <2>1. CASE cards[a] # None
    <3> DEFINE c == cards[a]
               t == (a = b)
    <3>1. c \in Cards /\ t \in BOOLEAN
      BY <2>1 DEF PoolTyped, Pools
    <3>2. cards'[a] = [c EXCEPT !.inLive = t]
      BY <2>1
    <3> HIDE DEF c, t
    <3> DEFINE d == cards'[a]
    <3> HIDE DEF d
    <3>3. /\ d \in Card /\ d.login = c.login /\ d.alternates = c.alternates
          /\ d.rejected = c.rejected
      BY <3>1, <3>2 DEF Cards, Card, d
    <3>4. Takes(c, d, {})
      BY <3>1, <3>3, SettingsTake
    <3> QED
      BY <2>1, <3>3, <3>4 DEF c, d, Takes
  <2>2. CASE cards[a] = None
    BY <2>2
  <2> QED
    BY <2>1, <2>2
<1>2. cards' \in [Accounts -> {None} \cup Cards]
  BY <1>1
<1> QED
  BY <1>1, <1>2, PoolSettings

LEMMA SwitchType ==
  ASSUME TypeInv, SwitchStep
  PROVE  TypeInv'
<1> USE DEF pool, issuer, bounds
<1>t. /\ PoolTyped /\ BooksTyped /\ JobTyped /\ SwitchLocked /\ RestTyped
      /\ Reads \subseteq Views /\ live \in Views /\ faults \in 0..MaxFaults /\ held \in BOOLEAN
  BY ReadsTyped DEF TypeInv, RestTyped
<1>n. live # None => live.login \in Login /\ live.named \in Accounts \cup {None}
  BY <1>t DEF Views, View
<1>1. ASSUME NEW a \in Accounts, cards[a] # None, SwitchStart(a) PROVE TypeInv'
  <2>1. job' \in Switch /\ job'.pc = "listing"
    BY <1>t, <1>1 DEF SwitchStart, Switch
  <2> QED
    BY <1>t, <1>1, <2>1, SwitchMoves DEF SwitchStart, PoolTyped
<1>2. ASSUME SwitchLists PROVE TypeInv'
  <2>1. job # None /\ job.pc = "listing"
    BY <1>2 DEF SwitchLists, Switching
  <2>2. job \in Switch /\ job.before \in Views
    BY <2>1, SwitchFields DEF SwitchSteps
  <2>3. PoolTakes(job.before)
    BY <1>t, <1>2, <2>2, PoolFollows DEF SwitchLists, Follow
  <2>4. job' \in Switch /\ job'.pc = "listed"
    BY <1>2, <2>2 DEF SwitchLists, Switch
  <2> QED
    BY <1>t, <1>2, <2>3, <2>4, SwitchMoves DEF SwitchLists, PoolTakes, PoolTyped
<1>3. ASSUME SwitchLock PROVE TypeInv'
  <2>1. job # None /\ job.pc = "listed"
    BY <1>3 DEF SwitchLock, Switching
  <2>2. job \in Switch
    BY <2>1, SwitchFields DEF SwitchSteps
  <2>3. PoolTakes(live)
    BY <1>t, <1>3, <2>2, PoolFollows DEF SwitchLock
  <2>4. \/ job' = None /\ held' = held
        \/ job' = [job EXCEPT !.pc = "locked", !.before = live] /\ held' = TRUE
           /\ cards'[job.of] # None
    BY <1>3 DEF SwitchLock
  <2>5. job' \in Switch \cup {None} /\ (job' # None => held' /\ cards'[job'.of] # None)
    BY <1>t, <2>2, <2>4 DEF Switch
  <2> QED
    BY <1>t, <1>3, <2>3, <2>4, <2>5, SwitchMoves DEF SwitchLock, PoolTakes, PoolTyped
<1>4. ASSUME SwitchCredentials PROVE TypeInv'
  <2>1. job # None /\ job.pc = "locked"
    BY <1>4 DEF SwitchCredentials, Switching
  <2>2. job \in Switch /\ held /\ cards[job.of] \in Cards /\ cards[job.of].login \in Login
    BY <2>1, SwitchFields DEF SwitchSteps
  <2>3. job' \in Switch /\ job'.of = job.of /\ cards[job.of] # None
    BY <1>4, <2>2, NoneFacts DEF SwitchCredentials, Switch, Cards
  <2>4. live' \in Views
    BY <1>4, <1>n, <2>2 DEF SwitchCredentials, Shown, Views, View
  <2> QED
    BY <1>t, <1>4, <2>2, <2>3, <2>4, SwitchMoves DEF SwitchCredentials, PoolTyped
<1>5. ASSUME SwitchAccount PROVE TypeInv'
  <2>1. job # None /\ job.pc = "credentials"
    BY <1>5 DEF SwitchAccount, Switching
  <2>2. job \in Switch /\ held /\ cards[job.of] \in Cards /\ cards[job.of].login \in Login
        /\ job.of \in Accounts
    BY <2>1, SwitchFields DEF SwitchSteps
  <2>3. job' \in Switch /\ job'.of = job.of /\ cards[job.of] # None
    BY <1>5, <2>2, NoneFacts DEF SwitchAccount, Switch, Cards
  <2>4. live' \in Views
    BY <1>5, <1>n, <2>2 DEF SwitchAccount, Shown, Views, View
  <2> QED
    BY <1>t, <1>5, <2>2, <2>3, <2>4, SwitchMoves DEF SwitchAccount, PoolTyped
<1>6. ASSUME SwitchSave PROVE TypeInv'
  <2>1. job # None /\ job.pc = "account"
    BY <1>6 DEF SwitchSave, Switching
  <2>2. job.of \in Accounts
    BY <2>1, SwitchFields DEF SwitchSteps
  <2>3. PoolTakes(None)
    BY <1>t, <1>6, <2>2, SavedCards DEF SwitchSave
  <2> QED
    BY <1>t, <1>6, <2>3, SwitchMoves DEF SwitchSave, PoolTakes, PoolTyped
<1>7. ASSUME SwitchFails PROVE TypeInv'
  <2>1. job # None /\ job.pc \in SwitchSteps
    BY <1>7 DEF SwitchFails, Switching, SwitchSteps
  <2>2. job.before \in Views
    BY <2>1, SwitchFields
  <2>3. live' \in Views
    BY <1>7, <1>n, <2>2 DEF SwitchFails, RolledBack, Shown, Views, View
  <2>4. faults' \in 0..MaxFaults
    BY <1>t, <1>7, ClaudeCounts DEF SwitchFails
  <2> QED
    BY <1>t, <1>7, <2>3, <2>4, SwitchMoves DEF SwitchFails, PoolTyped
<1> QED
  BY <1>1, <1>2, <1>3, <1>4, <1>5, <1>6, <1>7 DEF SwitchStep

\* A step after which nothing holds operations, or that leaves what does alone.
LEMMA OtherMoves ==
  ASSUME TypeInv, PoolTyped', BooksTyped', RestTyped',
         \/ job' = None
         \/ job' \in Import /\ job'.view.named \in Accounts
         \/ job' = job /\ held' = held /\ \A a \in Accounts : held /\ cards[a] # None => cards'[a] # None
  PROVE  TypeInv'
<1>1. CASE job' = None
  BY <1>1 DEF TypeInv, JobTyped, SwitchLocked
<1>2. CASE job' \in Import /\ job'.view.named \in Accounts
  <2>1. job'.pc = "importing"
    BY <1>2 DEF Import
  <2> QED
    BY <1>2, <2>1 DEF TypeInv, JobTyped, SwitchLocked, AskedSteps
<1>3. CASE /\ job' = job /\ held' = held
           /\ \A a \in Accounts : held /\ cards[a] # None => cards'[a] # None
  <2>1. JobTyped'
    BY <1>3 DEF TypeInv, JobTyped
  <2>2. SwitchLocked'
    <3>1. job # None /\ job.pc \in {"locked", "credentials", "account"} => job.of \in Accounts
      BY SwitchFields DEF SwitchSteps
    <3> QED
      BY <1>3, <3>1 DEF TypeInv, SwitchLocked
  <2> QED
    BY <2>1, <2>2 DEF TypeInv
<1> QED
  BY <1>1, <1>2, <1>3

LEMMA ImportType ==
  ASSUME TypeInv, ImportStep
  PROVE  TypeInv'
<1> USE DEF pool, issuer, bounds
<1>t. /\ PoolTyped /\ BooksTyped /\ JobTyped /\ SwitchLocked /\ RestTyped /\ live \in Views
  BY DEF TypeInv, RestTyped
<1>1. ASSUME ImportReads PROVE TypeInv'
  <2>1. job' \in Import /\ job'.view.named \in Accounts
    BY <1>t, <1>1 DEF ImportReads, Import, Views, View
  <2> QED
    BY <1>t, <1>1, <2>1, OtherMoves DEF ImportReads, PoolTyped, BooksTyped, RestTyped
<1>2. ASSUME NEW defer \in BOOLEAN, ImportCurrent(defer) PROVE TypeInv'
  <2>1. job.view \in View /\ job.view.named \in Accounts
    BY <1>t, <1>2, JobKinds DEF ImportCurrent, JobTyped
  <2>2. PoolTyped'
    <3>1. PoolTakes(job.view)
      BY <1>t, <1>2, <2>1, PoolUpserts DEF ImportCurrent
    <3> QED
      BY <3>1 DEF PoolTakes, PoolTyped
  <2> QED
    BY <1>t, <1>2, <2>2, OtherMoves DEF ImportCurrent, BooksTyped, RestTyped
<1>3. ASSUME NEW defer \in BOOLEAN, NEW a \in Accounts, ImportLogin(a, defer) PROVE TypeInv'
  <2>1. issued[a] + 1 \in Gen
    BY <1>t, <1>3, ClaudeCounts DEF ImportLogin, BooksTyped, Gen
  <2>2. BooksTyped'
    BY <1>t, <1>3, <2>1 DEF ImportLogin, BooksTyped
  <2>3. PoolTyped'
    <3> DEFINE v == Shown(Issued(a), a)
    <3>1. v \in View /\ v.named = a
      BY <2>1 DEF Shown, Issued, Of, View, Login
    <3>2. Upserted(v, FALSE, defer) /\ job' = None
      BY <1>3 DEF ImportLogin
    <3> HIDE DEF v
    <3>3. PoolTakes(v)
      BY <1>t, <3>1, <3>2, PoolUpserts
    <3> QED
      BY <3>3 DEF PoolTakes, PoolTyped
  <2> QED
    BY <1>t, <1>3, <2>2, <2>3, OtherMoves DEF ImportLogin, RestTyped
<1>4. ASSUME NEW defer \in BOOLEAN, NEW a \in Accounts, NEW gen \in Gen, ImportJson(a, gen, defer)
      PROVE  TypeInv'
  <2>1. PoolTyped'
    <3> DEFINE v == Shown(Of(a, gen), a)
    <3>1. v \in View /\ v.named = a
      BY DEF Shown, Of, View, Login
    <3>2. Upserted(v, FALSE, defer) /\ job' = None
      BY <1>4 DEF ImportJson
    <3> HIDE DEF v
    <3>3. PoolTakes(v)
      BY <1>t, <3>1, <3>2, PoolUpserts
    <3> QED
      BY <3>3 DEF PoolTakes, PoolTyped
  <2> QED
    BY <1>t, <1>4, <2>1, OtherMoves DEF ImportJson, BooksTyped, RestTyped
<1> QED
  BY <1>1, <1>2, <1>3, <1>4 DEF ImportStep

\* The lists: what one has read is a login of Claude Code's, or none.
ListView(l) == IF listing[l].login = None THEN None
               ELSE Shown(listing[l].login, listing[l].named)

\* What a list read, put together.
LEMMA ListTyped ==
  ASSUME TypeInv, NEW l \in Lists, listing[l] # None
  PROVE  /\ listing[l] \in Reading /\ ListView(l) \in Views
         /\ listing[l].login # None =>
              ListView(l) # None /\ ListView(l).login = listing[l].login
              /\ ListView(l).named = listing[l].named
<1>1. listing[l] \in Reading
  BY DEF TypeInv, RestTyped
<1>2. CASE listing[l].login = None
  BY <1>1, <1>2 DEF ListView, Views
<1>3. CASE listing[l].login # None
  <2>1. ListView(l) \in View
    BY <1>1, <1>3 DEF ListView, Shown, View, Reading
  <2>2. ListView(l).login = listing[l].login /\ ListView(l).named = listing[l].named
    BY <1>3 DEF ListView, Shown
  <2> QED
    BY <1>1, <2>1, <2>2, NoneFacts DEF Views
<1> QED
  BY <1>2, <1>3

ListStep == \E l \in Lists : ListReads(l) \/ ListNames(l) \/ ListFollows(l)

LEMMA ListType ==
  ASSUME TypeInv, ListStep
  PROVE  TypeInv'
<1> USE DEF pool, issuer, bounds
<1>t. /\ PoolTyped /\ BooksTyped /\ RestTyped /\ live \in Views /\ Reads \subseteq Views
      /\ listing \in [Lists -> Reading \cup {None}]
  BY ReadsTyped DEF TypeInv, RestTyped
<1>1. ASSUME NEW l \in Lists, ListReads(l) PROVE TypeInv'
  <2>1. PICK v \in Reads : listing' = [listing EXCEPT ![l] =
          [login |-> IF v = None THEN None ELSE v.login, named |-> None, whole |-> FALSE]]
    BY <1>1 DEF ListReads
  <2>2. (IF v = None THEN None ELSE v.login) \in Login \cup {None}
    BY <1>t DEF Views, View
  <2>3. listing' \in [Lists -> Reading \cup {None}]
    BY <1>t, <2>1, <2>2 DEF Reading
  <2> QED
    BY <1>t, <1>1, <2>3, OtherMoves DEF ListReads, PoolTyped, BooksTyped, RestTyped
<1>2. ASSUME NEW l \in Lists, ListNames(l) PROVE TypeInv'
  <2> DEFINE named == IF live = None THEN None ELSE live.named
             r == listing[l]
  <2>1. named \in Accounts \cup {None}
    BY <1>t DEF Views, View
  <2>2. r \in Reading
    BY <1>t, <1>2 DEF ListNames
  <2>3. listing' = [listing EXCEPT ![l] = [r EXCEPT !.whole = TRUE, !.named = named]]
    BY <1>t, <1>2 DEF ListNames
  <2> HIDE DEF named, r
  <2>4. [r EXCEPT !.whole = TRUE, !.named = named] \in Reading
    BY <2>1, <2>2 DEF Reading
  <2>5. listing' \in [Lists -> Reading \cup {None}]
    BY <1>t, <2>3, <2>4
  <2> QED
    BY <1>t, <1>2, <2>5, OtherMoves DEF ListNames, PoolTyped, BooksTyped, RestTyped
<1>3. ASSUME NEW l \in Lists, ListFollows(l) PROVE TypeInv'
  <2>1. ListView(l) \in Views
    BY <1>3, ListTyped DEF ListFollows
  <2>2. PoolTakes(ListView(l))
    BY <1>t, <1>3, <2>1, PoolFollows DEF ListFollows, Follow, ListView
  <2>3. listing' \in [Lists -> Reading \cup {None}]
    BY <1>t, <1>3 DEF ListFollows
  <2> QED
    BY <1>t, <1>3, <2>2, <2>3, OtherMoves
       DEF ListFollows, PoolTakes, PoolTyped, BooksTyped, RestTyped
<1> QED
  BY <1>1, <1>2, <1>3 DEF ListStep

\* The settings of a card.
LEMMA SettingsStep ==
  ASSUME PoolTyped, NEW a \in Accounts, NEW choice \in Renewal,
         SetRenewal(a, choice) \/ Release(a)
  PROVE  PoolTakes(None) /\ cards'[a] # None
<1> DEFINE c == cards[a]
<1>1. c \in Cards
  BY DEF PoolTyped, Pools, SetRenewal, Release
<1>2. PICK d : cards' = [cards EXCEPT ![a] = d]
               /\ (d = [c EXCEPT !.renewal = choice] \/ d = [c EXCEPT !.waiting = FALSE])
  <2>1. CASE SetRenewal(a, choice)
    BY <2>1 DEF SetRenewal
  <2>2. CASE Release(a)
    BY <2>2 DEF Release
  <2> QED
    BY <2>1, <2>2
<1> HIDE DEF c
<1>3. Takes(c, d, {}) /\ d.login = c.login /\ d \in Cards
  <2>1. /\ d \in Card /\ d.login = c.login /\ d.alternates = c.alternates
        /\ d.rejected = c.rejected
    BY <1>1, <1>2 DEF Cards, Card
  <2>2. Takes(c, d, {})
    BY <1>1, <2>1, SettingsTake
  <2> QED
    BY <2>1, <2>2 DEF Takes
<1>4. ASSUME NEW b \in Accounts
      PROVE  IF cards[b] = None THEN cards'[b] = None
             ELSE /\ Takes(cards[b], cards'[b], {}) /\ cards'[b].login = cards[b].login
  <2>1. CASE b = a
    BY <1>1, <1>2, <1>3, <2>1, NoneFacts DEF PoolTyped, Pools, c, Cards
  <2>2. CASE b # a
    <3>1. cards'[b] = cards[b]
      BY <1>2, <2>2 DEF PoolTyped, Pools
    <3>2. cards[b] # None => Takes(cards[b], cards[b], {})
      BY TakesNothing DEF PoolTyped, Pools
    <3> QED
      BY <3>1, <3>2
  <2> QED
    BY <2>1, <2>2
<1>5. cards' \in [Accounts -> {None} \cup Cards]
  BY <1>2, <1>3 DEF PoolTyped, Pools
<1>6. current' \in Accounts \cup {None}
  BY DEF SetRenewal, Release, PoolTyped
<1>7. cards'[a] # None
  BY <1>2, <1>3, NoneFacts DEF PoolTyped, Pools, Cards
<1> QED
  BY <1>4, <1>5, <1>6, <1>7, PoolSettings

\* A deletion takes one card away and leaves the others.
LEMMA DeleteStep ==
  ASSUME PoolTyped, NEW a \in Accounts, Delete(a)
  PROVE  /\ PoolTyped' /\ cards'[a] = None
         /\ \A b \in Accounts : b # a => cards'[b] = cards[b]
  BY DEF PoolTyped, Pools, Delete

ClaudeStep ==
  \/ \E a \in Accounts : ClaudeSignsIn(a)
  \/ ClaudeRenews \/ ClaudeSignsOut \/ Crash
SettingStep == \E a \in Accounts :
  Release(a) \/ Delete(a) \/ \E choice \in RenewalChoices : SetRenewal(a, choice)

LEMMA SettingType ==
  ASSUME TypeInv, SettingStep
  PROVE  TypeInv'
<1> USE DEF pool, issuer, bounds
<1>t. PoolTyped /\ BooksTyped /\ RestTyped
  BY DEF TypeInv
<1>1. ASSUME NEW a \in Accounts, Delete(a) PROVE TypeInv'
  <2>1. PoolTyped'
    BY <1>t, <1>1, DeleteStep
  <2> QED
    BY <1>t, <1>1, <2>1, OtherMoves DEF Delete, BooksTyped, RestTyped
<1>2. ASSUME NEW a \in Accounts, NEW choice \in Renewal, SetRenewal(a, choice) \/ Release(a)
      PROVE  TypeInv'
  <2>1. PoolTakes(None)
    BY <1>t, <1>2, SettingsStep
  <2>2. UNCHANGED <<live, issuer, job, held, listing, bounds>> /\ ~held
    BY <1>2 DEF SetRenewal, Release
  <2> QED
    BY <1>t, <2>1, <2>2, OtherMoves DEF PoolTakes, PoolTyped, BooksTyped, RestTyped
<1>3. "never" \in Renewal /\ RenewalChoices \subseteq Renewal
  BY ClaudeChoices DEF Renewal
<1> QED
  BY <1>1, <1>2, <1>3 DEF SettingStep

LEMMA ClaudeType ==
  ASSUME TypeInv, ClaudeStep
  PROVE  TypeInv'
<1> USE DEF pool, issuer, bounds
<1>t. /\ PoolTyped /\ BooksTyped /\ RestTyped /\ live \in Views
      /\ signIns \in 0..MaxSignIns /\ crashes \in 0..MaxCrashes
  BY DEF TypeInv, RestTyped
<1>1. ASSUME ClaudeRenews PROVE TypeInv'
  <2>1. live \in View /\ live.login \in Login
    BY <1>t, <1>1 DEF ClaudeRenews, Views, View
  <2>2. BooksTyped' /\ Issued(live.login.of) \in Login
    BY <1>t, <1>1, <2>1, ExchangeTyped DEF ClaudeRenews
  <2>3. live' \in Views
    BY <1>1, <2>1, <2>2 DEF ClaudeRenews, Views, View
  <2> QED
    BY <1>t, <1>1, <2>2, <2>3, OtherMoves DEF ClaudeRenews, PoolTyped, RestTyped
<1>2. ASSUME NEW a \in Accounts, ClaudeSignsIn(a) PROVE TypeInv'
  <2>1. issued[a] + 1 \in Gen
    BY <1>t, <1>2, ClaudeCounts DEF ClaudeSignsIn, BooksTyped, Gen
  <2>2. BooksTyped'
    BY <1>t, <1>2, <2>1 DEF ClaudeSignsIn, BooksTyped
  <2>3. live' \in Views
    BY <1>2, <2>1 DEF ClaudeSignsIn, Shown, Issued, Of, Views, View, Login
  <2>4. signIns' \in 0..MaxSignIns
    BY <1>t, <1>2, ClaudeCounts DEF ClaudeSignsIn
  <2> QED
    BY <1>t, <1>2, <2>2, <2>3, <2>4, OtherMoves DEF ClaudeSignsIn, PoolTyped, RestTyped
<1>3. ASSUME ClaudeSignsOut PROVE TypeInv'
  <2>1. live' \in Views
    BY <1>3 DEF ClaudeSignsOut, Views
  <2>2. signIns' \in 0..MaxSignIns
    BY <1>t, <1>3, ClaudeCounts DEF ClaudeSignsOut
  <2> QED
    BY <1>t, <1>3, <2>1, <2>2, OtherMoves DEF ClaudeSignsOut, PoolTyped, BooksTyped, RestTyped
<1>4. ASSUME Crash PROVE TypeInv'
  <2>1. crashes' \in 0..MaxCrashes
    BY <1>t, <1>4, ClaudeCounts DEF Crash
  <2>2. listing' \in [Lists -> Reading \cup {None}] /\ held' \in BOOLEAN
    BY <1>4 DEF Crash
  <2> QED
    BY <1>t, <1>4, <2>1, <2>2, OtherMoves DEF Crash, PoolTyped, BooksTyped, RestTyped
<1> QED
  BY <1>1, <1>2, <1>3, <1>4 DEF ClaudeStep

\* The steps, grouped by what they disturb.
LEMMA NextSteps ==
  ASSUME Next
  PROVE  ListStep \/ RefreshStep \/ SwitchStep \/ ImportStep \/ SettingStep \/ ClaudeStep
  BY DEF Next, ListStep, SettingStep, ClaudeStep

\* Every step keeps the types.
LEMMA TypeStep == TypeInv /\ [Next]_vars => TypeInv'
<1> SUFFICES ASSUME TypeInv, [Next]_vars PROVE TypeInv'
  OBVIOUS
<1>1. CASE Next
  BY <1>1, NextSteps, ListType, RefreshType, SwitchType, ImportType, SettingType, ClaudeType
<1>2. CASE UNCHANGED vars
  BY <1>2 DEF vars, TypeInv, PoolTyped, BooksTyped, JobTyped, SwitchLocked, RestTyped
<1> QED
  BY <1>1, <1>2

LEMMA TypesHold == Spec => []TypeInv
  BY TypeInit, TypeStep, PTL DEF Spec

\* The pool, the issuer and what holds state.operations keep their types; no card,
\* and no refresh, ever has more logins to fall back on than a card keeps.
THEOREM LoginsTyped == Spec => []TypeOK
  BY TypesHold, TypeInvTypes, PTL

-----------------------------------------------------------------------------
(* What Claude rejected stays out, and what a card took meanwhile stays.   *)

\* The issuer has given the login out.
Known(l) == l.gen <= issued[l.of]
KnownView(v) == v # None => Known(v.login)

CardsKnown == \A a \in Accounts : cards[a] # None =>
  \A l \in Held(cards[a]) \cup cards[a].rejected : Known(l)
ViewsKnown ==
  /\ KnownView(live)
  /\ \A l \in Lists : listing[l] # None /\ listing[l].login # None => Known(listing[l].login)
JobKnown == job # None =>
  /\ job.pc \in RefreshSteps \cup SwitchSteps => KnownView(job.before)
  /\ job.pc = "importing" => Known(job.view.login)
  /\ job.pc = "snapping" => job.rejected = {}
  /\ job.pc \in AskedSteps =>
       \A l \in Held(job) \cup job.rejected \cup job.base.rejected : Known(l)

\* Nothing to fall back on was rejected.
CardsClean == \A a \in Accounts : cards[a] # None =>
  Alternates(cards[a]) \cap cards[a].rejected = {}

\* A refresh uses the login its card had, or one its card does not reject now.
RefreshClean == job # None /\ job.pc \in AskedSteps =>
  /\ cards[job.of] # None => cards[job.of].rejected = job.base.rejected
  /\ \A l \in Held(job) : l = job.base.login \/ l \notin job.base.rejected

RejectionsInv == CardsKnown /\ ViewsKnown /\ JobKnown /\ CardsClean /\ RefreshClean

RejectedKept == \A a \in Accounts : cards[a] # None /\ cards'[a] # None =>
  /\ cards'[a].login \in cards[a].rejected => cards'[a].login = cards[a].login
  /\ ToSet(cards'[a].alternates) \cap cards'[a].rejected = {}

\* Given out after the step.
KnownAfter(l) == l.gen <= issued'[l.of]
KnownViewAfter(v) == v # None => KnownAfter(v.login)
\* The issuer only gives out more.
Grown == BooksTyped' /\ \A a \in Accounts : issued[a] <= issued'[a]

\* A login once given out stays so.
LEMMA KnownGrows ==
  ASSUME TypeInv, Grown, NEW l \in Login, Known(l)
  PROVE  KnownAfter(l)
<1>1. l.of \in Accounts /\ l.gen \in Int
  BY DEF Login, Gen
<1>2. issued[l.of] \in Int /\ issued'[l.of] \in Int
  BY <1>1 DEF TypeInv, BooksTyped, Gen, Grown
<1> QED
  BY <1>1, <1>2 DEF Grown, Known, KnownAfter

\* Where the issuer did nothing, it gave out no less.
LEMMA BooksStay ==
  ASSUME TypeInv, UNCHANGED issuer
  PROVE  Grown
<1>1. \A a \in Accounts : issued[a] \in Int
  BY DEF TypeInv, BooksTyped, Gen
<1> QED
  BY <1>1 DEF TypeInv, BooksTyped, issuer, Grown

\* The login an exchange gives was not given out before.
LEMMA ExchangeGrows ==
  ASSUME TypeInv, NEW l \in Login, Exchange(l), rotated' \subseteq rotated \cup {l}
  PROVE  /\ Grown /\ Issued(l.of) \in Login /\ KnownAfter(Issued(l.of))
         /\ \A k \in Login : Known(k) => k # Issued(l.of)
<1>1. /\ BooksTyped' /\ Issued(l.of) \in Login /\ Issued(l.of).of = l.of
      /\ Issued(l.of).gen = issued'[l.of] /\ issued'[l.of] = issued[l.of] + 1
  BY ExchangeTyped DEF TypeInv
<1>2. \A a \in Accounts : issued[a] \in Int /\ issued'[a] \in Int
  BY <1>1 DEF TypeInv, BooksTyped, Gen
<1>3. l.of \in Accounts
  BY DEF Login
<1>4. \A a \in Accounts : issued[a] <= issued'[a]
  BY <1>1, <1>2, <1>3 DEF Exchange, TypeInv, BooksTyped
<1>5. KnownAfter(Issued(l.of))
  BY <1>1, <1>2, <1>3 DEF KnownAfter
<1>6. ASSUME NEW k \in Login, Known(k) PROVE k # Issued(l.of)
  BY <1>1, <1>2, <1>3, <1>6 DEF Known
<1> QED
  BY <1>1, <1>4, <1>5, <1>6 DEF Grown

\* The logins a card holds are logins.
LEMMA HeldLogins ==
  ASSUME NEW c \in Card
  PROVE  Held(c) \subseteq Login /\ c.rejected \subseteq Login /\ Alternates(c) \subseteq Held(c)
<1>1. c.login \in Login /\ c.alternates \in Seq(Login) /\ c.rejected \subseteq Login
  BY DEF Card
<1>2. ToSet(c.alternates) \subseteq Login
  BY <1>1 DEF ToSet
<1> QED
  BY <1>1, <1>2 DEF Held, Alternates

\* What the pool takes is known, and nothing rejected comes back with it.
LEMMA PoolKnown ==
  ASSUME TypeInv, RejectionsInv, Grown, NEW v \in Views, PoolTakes(v), KnownViewAfter(v)
  PROVE  CardsKnown' /\ CardsClean' /\ RejectedKept
<1>1. ASSUME NEW a \in Accounts, cards[a] # None
      PROVE  LET c == cards[a]
                 d == cards'[a]
             IN  /\ \A l \in Held(d) \cup d.rejected : KnownAfter(l)
                 /\ Alternates(d) \cap d.rejected = {}
                 /\ d.login \in c.rejected => d.login = c.login
  <2> DEFINE c == cards[a]
             d == cards'[a]
  <2>1. c \in Card /\ Takes(c, d, IF v = None THEN {} ELSE {v.login})
    BY <1>1 DEF PoolTakes, TypeInv, PoolTyped, Pools, Cards
  <2>2. /\ \A l \in Held(c) \cup c.rejected : Known(l)
        /\ Alternates(c) \cap c.rejected = {}
    BY <1>1 DEF RejectionsInv, CardsKnown, CardsClean
  <2>3. v # None => KnownAfter(v.login)
    BY DEF KnownViewAfter
  <2> HIDE DEF c, d
  <2>4. \A l \in Held(c) \cup c.rejected : KnownAfter(l)
    BY <2>1, <2>2, HeldLogins, KnownGrows
  <2>5. Held(d) \subseteq Held(c) \cup (IF v = None THEN {} ELSE {v.login})
    BY <2>1 DEF Takes, Held, Alternates
  <2>6. d.rejected = c.rejected
    BY <2>1 DEF Takes
  <2>7. \A l \in Held(d) \cup d.rejected : KnownAfter(l)
    BY <2>3, <2>4, <2>5, <2>6
  <2>8. Alternates(d) \cap d.rejected = {} /\ (d.login \in c.rejected => d.login = c.login)
    BY <2>1, <2>2 DEF Takes
  <2> QED
    BY <2>7, <2>8 DEF c, d
<1>2. ASSUME NEW a \in Accounts, cards[a] = None, cards'[a] # None
      PROVE  LET d == cards'[a]
             IN  /\ \A l \in Held(d) \cup d.rejected : KnownAfter(l)
                 /\ Alternates(d) \cap d.rejected = {}
  <2>1. v # None /\ cards'[a].login = v.login /\ cards'[a].rejected = {} /\ Alternates(cards'[a]) = {}
    BY <1>2 DEF PoolTakes
  <2>2. KnownAfter(v.login)
    BY <2>1 DEF KnownViewAfter
  <2> QED
    BY <2>1, <2>2 DEF Held, Alternates
<1>3. CardsKnown'
  BY <1>1, <1>2 DEF CardsKnown, Known, KnownAfter
<1>4. CardsClean'
  BY <1>1, <1>2 DEF CardsClean
<1>5. RejectedKept
  BY <1>1 DEF RejectedKept, Alternates
<1> QED
  BY <1>3, <1>4, <1>5

\* A step that leaves alone what holds operations.
LEMMA JobStays ==
  ASSUME TypeInv, RejectionsInv, Grown, NEW v \in Views, PoolTakes(v), job' = job
  PROVE  JobKnown' /\ RefreshClean'
<1>1. CASE job = None
  BY <1>1 DEF JobKnown, RefreshClean
<1>2. CASE job # None
  <2>1. job.pc \in RefreshSteps \cup SwitchSteps => KnownView(job.before)'
    <3> SUFFICES ASSUME job.pc \in RefreshSteps \cup SwitchSteps, job.before # None
                 PROVE  KnownAfter(job.before.login)
      BY DEF KnownView, Known, KnownAfter
    <3>1. job.before \in Views
      BY <1>2, JobKinds DEF TypeInv, JobTyped
    <3>2. job.before.login \in Login /\ Known(job.before.login)
      BY <1>2, <3>1 DEF Views, View, RejectionsInv, JobKnown, KnownView
    <3> QED
      BY <3>2, KnownGrows
  <2>2. job.pc = "importing" => Known(job.view.login)'
    <3> SUFFICES ASSUME job.pc = "importing"
                 PROVE  KnownAfter(job.view.login)
      BY DEF Known, KnownAfter
    <3>1. job.view \in View
      BY <1>2, JobKinds DEF TypeInv, JobTyped
    <3>2. job.view.login \in Login /\ Known(job.view.login)
      BY <1>2, <3>1 DEF View, RejectionsInv, JobKnown
    <3> QED
      BY <3>2, KnownGrows
  <2>3. job.pc = "snapping" => job.rejected = {}
    BY <1>2 DEF RejectionsInv, JobKnown
  <2>4. ASSUME job.pc \in AskedSteps
        PROVE  /\ \A l \in Held(job) \cup job.rejected \cup job.base.rejected : KnownAfter(l)
               /\ cards'[job.of] # None => cards'[job.of].rejected = job.base.rejected
               /\ \A l \in Held(job) : l = job.base.login \/ l \notin job.base.rejected
    <3>1. /\ job.of \in Accounts /\ job.base \in Card /\ job.rejected \subseteq Login
          /\ Held(job) \subseteq Login
      BY <1>2, <2>4, AskedFields DEF Held, ToSet
    <3>2. \A l \in Held(job) \cup job.rejected \cup job.base.rejected : l \in Login /\ Known(l)
      BY <1>2, <2>4, <3>1, HeldLogins DEF RejectionsInv, JobKnown
    <3>3. cards'[job.of] # None => cards[job.of] # None
      BY <1>2, <3>1 DEF PoolTakes
    <3>4. cards'[job.of] # None => cards'[job.of].rejected = job.base.rejected
      BY <1>2, <2>4, <3>1, <3>3 DEF PoolTakes, Takes, RejectionsInv, RefreshClean
    <3>5. \A l \in Held(job) : l = job.base.login \/ l \notin job.base.rejected
      BY <1>2, <2>4 DEF RejectionsInv, RefreshClean
    <3> QED
      BY <3>2, <3>4, <3>5, KnownGrows
  <2>5. JobKnown'
    BY <2>1, <2>2, <2>3, <2>4 DEF JobKnown, Known, KnownAfter, Held
  <2>6. RefreshClean'
    BY <2>4 DEF RefreshClean, Held
  <2> QED
    BY <2>5, <2>6
<1> QED
  BY <1>1, <1>2

\* A step of a refresh that has read its card.
LEMMA RefreshKept ==
  ASSUME TypeInv, RejectionsInv, UNCHANGED pool, job # None, job.pc \in AskedSteps,
         job' # None, job'.pc \in AskedSteps, job'.of = job.of, job'.base = job.base,
         KnownViewAfter(job'.before), Grown,
         \A l \in job'.rejected : KnownAfter(l),
         \A l \in Held(job') : /\ KnownAfter(l)
                               /\ l \in Held(job) \/ l \notin job.base.rejected
  PROVE  JobKnown' /\ RefreshClean'
<1>1. \A l \in job.base.rejected : KnownAfter(l)
  <2>1. job.base \in Card
    BY AskedFields
  <2>2. \A l \in job.base.rejected : l \in Login /\ Known(l)
    BY <2>1, HeldLogins DEF RejectionsInv, JobKnown
  <2> QED
    BY <2>2, KnownGrows
<1>2. job'.pc # "snapping" /\ job'.pc # "importing"
  BY DEF AskedSteps
<1>3. JobKnown'
  BY <1>1, <1>2 DEF JobKnown, Known, KnownAfter, KnownView, KnownViewAfter, Held
<1>4. RefreshClean'
  BY DEF RefreshClean, Held, pool, RejectionsInv
<1> QED
  BY <1>3, <1>4

\* What was rejected stays out when the pool is left alone.
LEMMA NothingTaken ==
  ASSUME TypeInv, RejectionsInv, Grown, UNCHANGED pool
  PROVE  PoolTakes(None) /\ CardsKnown' /\ CardsClean' /\ RejectedKept
<1>1. PoolTakes(None)
  BY PoolStays DEF TypeInv
<1>2. KnownViewAfter(None) /\ None \in Views
  BY DEF KnownViewAfter, Views
<1> QED
  BY <1>1, <1>2, PoolKnown

\* What may be read stays given out when Claude Code's login changes to another given
\* out.
LEMMA ViewsMove ==
  ASSUME TypeInv, RejectionsInv, Grown, live' = live \/ KnownViewAfter(live'),
         listing' = listing \/ listing' = [l \in Lists |-> None]
  PROVE  ViewsKnown'
<1>1. KnownView(live)'
  <2>1. CASE live' = live /\ live # None
    <3>1. live.login \in Login /\ Known(live.login)
      BY <2>1 DEF TypeInv, RestTyped, Views, View, RejectionsInv, ViewsKnown, KnownView
    <3> QED
      BY <2>1, <3>1, KnownGrows DEF KnownView, Known, KnownAfter
  <2>2. CASE KnownViewAfter(live')
    BY <2>2 DEF KnownView, Known, KnownViewAfter, KnownAfter
  <2> QED
    BY <2>1, <2>2 DEF KnownView
<1>2. ASSUME NEW l \in Lists, listing'[l] # None, listing'[l].login # None
      PROVE  KnownAfter(listing'[l].login)
  <2>1. listing'[l] = listing[l]
    BY <1>2
  <2>2. listing[l].login \in Login /\ Known(listing[l].login)
    BY <1>2, <2>1, ListTyped DEF Reading, RejectionsInv, ViewsKnown
  <2> QED
    BY <2>1, <2>2, KnownGrows
<1> QED
  BY <1>1, <1>2 DEF ViewsKnown, Known, KnownAfter

\* What was read before, or is read now, is still given out.
LEMMA ViewKnown ==
  ASSUME TypeInv, RejectionsInv, Grown, NEW v \in Views, KnownView(v)
  PROVE  KnownViewAfter(v)
<1>1. v # None => v.login \in Login /\ Known(v.login)
  BY DEF Views, View, KnownView
<1> QED
  BY <1>1, KnownGrows DEF KnownViewAfter

\* What is read of Claude Code's login was given out.
LEMMA ReadKnown ==
  ASSUME TypeInv, RejectionsInv, NEW v \in Reads
  PROVE  v \in Views /\ KnownView(v)
  BY ReadsTyped DEF TypeInv, RejectionsInv, ViewsKnown, KnownView, Reads

LEMMA ListRejections ==
  ASSUME TypeInv, RejectionsInv, ListStep
  PROVE  RejectionsInv' /\ RejectedKept
<1> USE DEF issuer
<1>1. PICK l \in Lists : ListReads(l) \/ ListNames(l) \/ ListFollows(l)
  BY DEF ListStep
<1>2. Grown /\ job' = job /\ live' = live
  BY <1>1, BooksStay DEF ListReads, ListNames, ListFollows
<1>3. listing \in [Lists -> Reading \cup {None}]
  BY DEF TypeInv, RestTyped
<1>4. ASSUME NEW v \in Views, KnownViewAfter(v), PoolTakes(v), ViewsKnown'
      PROVE  RejectionsInv' /\ RejectedKept
  <2>1. CardsKnown' /\ CardsClean' /\ RejectedKept
    BY <1>2, <1>4, PoolKnown
  <2>2. JobKnown' /\ RefreshClean'
    BY <1>2, <1>4, JobStays
  <2> QED
    BY <1>4, <2>1, <2>2 DEF RejectionsInv
<1>5. ASSUME NEW r, \A k \in Lists : k # l => listing'[k] = listing[k], listing'[l] = r,
             r # None /\ r.login # None => KnownAfter(r.login)
      PROVE  ViewsKnown'
  <2>1. KnownView(live)'
    <3>1. KnownViewAfter(live)
      BY <1>2, ViewKnown DEF TypeInv, RestTyped, RejectionsInv, ViewsKnown
    <3> QED
      BY <1>2, <3>1 DEF KnownView, Known, KnownViewAfter, KnownAfter
  <2>2. ASSUME NEW k \in Lists, listing'[k] # None, listing'[k].login # None
        PROVE  KnownAfter(listing'[k].login)
    <3>1. CASE k = l
      BY <1>5, <2>2, <3>1
    <3>2. CASE k # l
      <4>1. listing'[k] = listing[k]
        BY <1>5, <3>2
      <4>2. listing[k].login \in Login /\ Known(listing[k].login)
        BY <2>2, <4>1, ListTyped DEF Reading, RejectionsInv, ViewsKnown
      <4> QED
        BY <1>2, <4>1, <4>2, KnownGrows
    <3> QED
      BY <3>1, <3>2
  <2> QED
    BY <2>1, <2>2 DEF ViewsKnown, Known, KnownAfter
<1>6. CASE ListReads(l)
  <2>1. PICK v \in Reads : listing' = [listing EXCEPT ![l] =
          [login |-> IF v = None THEN None ELSE v.login, named |-> None, whole |-> FALSE]]
    BY <1>6 DEF ListReads
  <2>2. v \in Views /\ KnownViewAfter(v)
    BY <1>2, ReadKnown, ViewKnown
  <2> DEFINE login == IF v = None THEN None ELSE v.login
             r == [login |-> login, named |-> None, whole |-> FALSE]
  <2>3. login # None => KnownAfter(login)
    BY <2>2 DEF KnownViewAfter
  <2>4. listing'[l] = r /\ \A k \in Lists : k # l => listing'[k] = listing[k]
    BY <1>3, <2>1
  <2>5. r.login = login
    OBVIOUS
  <2> HIDE DEF r, login
  <2>6. ViewsKnown'
    BY <1>5, <2>3, <2>4, <2>5
  <2>7. PoolTakes(None) /\ KnownViewAfter(None) /\ None \in Views
    BY <1>2, <1>6, NothingTaken DEF ListReads, KnownViewAfter, Views
  <2> QED
    BY <1>4, <2>6, <2>7
<1>7. CASE ListNames(l)
  <2> DEFINE r == listing[l]
             named == IF live = None THEN None ELSE live.named
             n == [r EXCEPT !.whole = TRUE, !.named = named]
  <2>1. r \in Reading
    BY <1>3, <1>7 DEF ListNames
  <2>2. listing' = [listing EXCEPT ![l] = n]
    BY <1>3, <1>7 DEF ListNames
  <2>3. listing'[l] = n /\ \A k \in Lists : k # l => listing'[k] = listing[k]
    BY <1>3, <2>2
  <2>4. r.login # None => KnownAfter(r.login)
    <3>1. r.login # None => r.login \in Login /\ Known(r.login)
      BY <1>7, <2>1 DEF ListNames, Reading, RejectionsInv, ViewsKnown
    <3> QED
      BY <1>2, <3>1, KnownGrows
  <2> HIDE DEF r, named
  <2>5. n.login = r.login
    BY <2>1 DEF Reading
  <2> HIDE DEF n
  <2>6. ViewsKnown'
    BY <1>5, <2>3, <2>4, <2>5
  <2>7. PoolTakes(None) /\ KnownViewAfter(None) /\ None \in Views
    BY <1>2, <1>7, NothingTaken DEF ListNames, KnownViewAfter, Views
  <2> QED
    BY <1>4, <2>6, <2>7
<1>8. CASE ListFollows(l)
  <2>1. /\ listing[l] # None /\ ListView(l) \in Views
        /\ listing[l].login # None => ListView(l).login = listing[l].login
        /\ listing[l] \in Reading
    BY <1>8, ListTyped DEF ListFollows
  <2>2. KnownView(ListView(l))
    BY <2>1 DEF KnownView, ListView, RejectionsInv, ViewsKnown
  <2>3. KnownViewAfter(ListView(l))
    BY <1>2, <2>1, <2>2, ViewKnown
  <2>4. PoolTakes(ListView(l))
    BY <1>8, <2>1, PoolFollows DEF TypeInv, ListFollows, Follow, ListView
  <2>5. listing'[l] = None /\ \A k \in Lists : k # l => listing'[k] = listing[k]
    BY <1>3, <1>8 DEF ListFollows
  <2>6. ViewsKnown'
    BY <1>5, <2>5
  <2> QED
    BY <1>4, <2>1, <2>3, <2>4, <2>6
<1> QED
  BY <1>1, <1>6, <1>7, <1>8

\* A refresh that goes on with the login and the alternates it had.
LEMMA RefreshGoesOn ==
  ASSUME TypeInv, RejectionsInv, Grown, UNCHANGED pool, job # None, job.pc \in AskedSteps,
         job' # None, job'.pc \in AskedSteps, job'.of = job.of, job'.base = job.base,
         job'.before = job.before, job'.rejected = job.rejected, job'.login = job.login,
         job'.alternates = job.alternates
  PROVE  JobKnown' /\ RefreshClean'
<1>1. /\ job.before \in Views /\ job.rejected \subseteq Login /\ Held(job) \subseteq Login
  BY AskedFields DEF Held, ToSet
<1>2. KnownView(job.before)
  BY DEF RejectionsInv, JobKnown, AskedSteps, RefreshSteps
<1>3. KnownViewAfter(job'.before)
  BY <1>1, <1>2, ViewKnown
<1>4. \A l \in Held(job) \cup job.rejected : KnownAfter(l)
  BY <1>1, KnownGrows DEF RejectionsInv, JobKnown
<1>5. Held(job') = Held(job)
  BY DEF Held
<1> QED
  BY <1>3, <1>4, <1>5, RefreshKept

LEMMA RefreshRejections ==
  ASSUME TypeInv, RejectionsInv, RefreshStep
  PROVE  RejectionsInv' /\ RejectedKept
<1> USE DEF pool, issuer, bounds
<1>p. ASSUME Grown, UNCHANGED <<pool, listing>>, live' = live \/ KnownViewAfter(live'),
             JobKnown', RefreshClean'
      PROVE  RejectionsInv' /\ RejectedKept
  <2>1. ViewsKnown'
    BY <1>p, ViewsMove
  <2>2. CardsKnown' /\ CardsClean' /\ RejectedKept
    BY <1>p, NothingTaken
  <2> QED
    BY <1>p, <2>1, <2>2 DEF RejectionsInv
<1>1. ASSUME NEW a \in Accounts, RefreshStart(a) PROVE RejectionsInv' /\ RejectedKept
  <2>1. Grown
    BY <1>1, BooksStay DEF RefreshStart
  <2>2. PICK v \in Reads : job'.before = v /\ job'.pc = "snapping" /\ job'.rejected = {}
    BY <1>1 DEF RefreshStart
  <2>3. KnownViewAfter(v)
    BY <2>1, ReadKnown, ViewKnown
  <2>4. JobKnown' /\ RefreshClean'
    BY <2>2, <2>3 DEF JobKnown, RefreshClean, KnownView, Known, KnownViewAfter, KnownAfter, AskedSteps
  <2> QED
    BY <1>1, <1>p, <2>1, <2>4 DEF RefreshStart
<1>2. ASSUME RefreshSnapshot PROVE RejectionsInv' /\ RejectedKept
  <2>1. job # None /\ job.pc = "snapping" /\ Grown
    BY <1>2, BooksStay DEF RefreshSnapshot, Refreshing
  <2>2. job \in Refresh /\ job.before \in Views /\ job.of \in Accounts
    BY <2>1, JobKinds DEF TypeInv, JobTyped, RefreshSteps
  <2>3. KnownView(job.before) /\ job.rejected = {}
    BY <2>1 DEF RejectionsInv, JobKnown, RefreshSteps
  <2>4. KnownViewAfter(job.before)
    BY <2>1, <2>2, <2>3, ViewKnown
  <2>5. PoolTakes(job.before)
    BY <1>2, <2>2, PoolFollows DEF RefreshSnapshot, TypeInv
  <2>6. CardsKnown' /\ CardsClean' /\ RejectedKept
    BY <2>1, <2>2, <2>4, <2>5, PoolKnown
  <2>7. ViewsKnown'
    BY <1>2, <2>1, ViewsMove DEF RefreshSnapshot
  <2>8. CASE job' = None
    BY <2>6, <2>7, <2>8 DEF RejectionsInv, JobKnown, RefreshClean
  <2>9. CASE job' # None
    <3> DEFINE c == cards'[job.of]
    <3>1. /\ c # None
          /\ \E b : job' = [job EXCEPT !.pc = "asking", !.base = c, !.login = c.login,
                     !.alternates = c.alternates, !.inUse = b]
      BY <1>2, <2>9 DEF RefreshSnapshot
    <3>2. c \in Card
      BY <2>2, <2>5, <3>1 DEF PoolTakes, Pools, Cards
    <3>3. (\A l \in Held(c) \cup c.rejected : KnownAfter(l)) /\ Alternates(c) \cap c.rejected = {}
      BY <2>2, <2>6, <3>1 DEF CardsKnown, CardsClean, Known, KnownAfter
    <3>4. \A l \in Held(c) : l = c.login \/ l \notin c.rejected
      BY <3>3 DEF Held, Alternates
    <3>5. cards'[job.of] = c
      OBVIOUS
    <3> HIDE DEF c
    <3>6. /\ job'.pc = "asking" /\ job'.base = c /\ job'.login = c.login /\ job'.of = job.of
          /\ job'.alternates = c.alternates /\ job'.before = job.before /\ job'.rejected = {}
      BY <2>2, <2>3, <3>1 DEF Refresh
    <3>7. Held(job') = Held(c)
      BY <3>6 DEF Held
    <3>8. JobKnown'
      BY <2>4, <3>3, <3>6, <3>7
         DEF JobKnown, KnownView, Known, KnownViewAfter, KnownAfter, Held
    <3>9. RefreshClean'
      BY <3>4, <3>5, <3>6, <3>7 DEF RefreshClean, Held
    <3> QED
      BY <2>6, <2>7, <3>8, <3>9 DEF RejectionsInv
  <2> QED
    BY <2>8, <2>9
<1>3. ASSUME \/ RefreshCheck \/ RefreshRefused \/ RefreshRenewFails \/ RefreshWriteFails
             \/ \E result \in {"ok", "failed"} : RefreshAnswer(result)
             \/ RefreshRenewLost
      PROVE  RejectionsInv' /\ RejectedKept
  <2>1. job # None /\ job.pc \in AskedSteps /\ UNCHANGED <<pool, live, listing>>
    BY <1>3 DEF RefreshCheck, RefreshRefused, RefreshRenewFails, RefreshWriteFails, RefreshAnswer,
                RefreshRenewLost, Refreshing, AskedSteps
  <2>2. job \in Refresh /\ job.login \in Login
    BY <2>1, AskedFields
  <2>3. Grown
    <3>1. CASE RefreshRenewLost
      BY <2>2, <3>1, ExchangeGrows DEF RefreshRenewLost
    <3>2. CASE ~RefreshRenewLost
      BY <1>3, <3>2, BooksStay DEF RefreshCheck, RefreshRefused, RefreshRenewFails,
                                   RefreshWriteFails, RefreshAnswer
    <3> QED
      BY <3>1, <3>2
  <2>4. /\ job' \in Refresh /\ job'.pc \in AskedSteps /\ job'.of = job.of /\ job'.base = job.base
        /\ job'.before = job.before /\ job'.rejected = job.rejected /\ job'.login = job.login
        /\ job'.alternates = job.alternates
    <3>1. CASE RefreshCheck
      <4>1. PICK result \in {"none", "failed", "refused"} :
              job' = [job EXCEPT !.pc = IF result = "none" THEN "renewing" ELSE "answered",
                                 !.result = result, !.left = @ - 1]
        BY <3>1 DEF RefreshCheck
      <4> DEFINE pc == IF result = "none" THEN "renewing" ELSE "answered"
                 left == job.left - 1
      <4>2. job' = [job EXCEPT !.pc = pc, !.result = result, !.left = left]
        BY <4>1
      <4>3. pc \in {"renewing", "answered"} /\ left \in 0..2
        BY <2>1, <3>1, AskedFields DEF RefreshCheck
      <4> HIDE DEF pc, left
      <4> QED
        BY <2>2, <4>2, <4>3 DEF Refresh, AskedSteps
    <3>2. CASE RefreshRefused \/ RefreshRenewFails \/ RefreshRenewLost
               \/ \E result \in {"ok", "failed"} : RefreshAnswer(result)
      <4>1. PICK result \in {"ok", "failed", "refused"} :
              job' = [job EXCEPT !.pc = "answered", !.result = result]
        BY <3>2 DEF RefreshRefused, RefreshRenewFails, RefreshAnswer, RefreshRenewLost
      <4> QED
        BY <2>2, <4>1 DEF Refresh, AskedSteps
    <3>3. CASE RefreshWriteFails
      <4>1. job' = [job EXCEPT !.pc = "merging", !.inLive = FALSE]
        BY <3>3 DEF RefreshWriteFails
      <4> QED
        BY <2>2, <4>1 DEF Refresh, AskedSteps
    <3> QED
      BY <1>3, <3>1, <3>2, <3>3
  <2> QED
    BY <1>p, <2>1, <2>3, <2>4, RefreshGoesOn, NoneFacts
<1>4. ASSUME RefreshRenew PROVE RejectionsInv' /\ RejectedKept
  <2>1. job # None /\ job.pc = "renewing" /\ job.pc \in AskedSteps
    BY <1>4 DEF RefreshRenew, Refreshing, AskedSteps
  <2>2. /\ job \in Refresh /\ job.login \in Login /\ job.before \in Views /\ job.base \in Card
        /\ job.rejected \subseteq Login /\ Held(job) \subseteq Login
    BY <2>1, AskedFields DEF Held, ToSet
  <2> DEFINE next == Issued(job.login.of)
  <2>3. Grown /\ next \in Login /\ KnownAfter(next) /\ \A k \in Login : Known(k) => k # next
    BY <1>4, <2>2, ExchangeGrows DEF RefreshRenew
  <2>4. job' = [job EXCEPT !.pc = "asking", !.login = next, !.renewed = TRUE, !.renewals = TRUE]
    BY <1>4 DEF RefreshRenew
  <2> HIDE DEF next
  <2>5. /\ job' \in Refresh /\ job'.pc \in AskedSteps /\ job'.of = job.of /\ job'.base = job.base
        /\ job'.before = job.before /\ job'.rejected = job.rejected /\ job'.login = next
        /\ job'.alternates = job.alternates
    BY <2>2, <2>3, <2>4 DEF Refresh, AskedSteps
  <2>6. KnownView(job.before) /\ \A l \in Held(job) \cup job.rejected \cup job.base.rejected : Known(l)
    BY <2>1 DEF RejectionsInv, JobKnown, AskedSteps, RefreshSteps
  <2>7. KnownViewAfter(job'.before)
    BY <2>2, <2>3, <2>5, <2>6, ViewKnown
  <2>8. Held(job') \subseteq Held(job) \cup {next}
    BY <2>5 DEF Held
  <2>9. next \notin job.base.rejected
    BY <2>2, <2>3, <2>6, HeldLogins
  <2>10. \A l \in Held(job) \cup job.rejected : KnownAfter(l)
    BY <2>2, <2>3, <2>6, KnownGrows
  <2>11. JobKnown' /\ RefreshClean'
    BY <1>4, <2>1, <2>3, <2>5, <2>7, <2>8, <2>9, <2>10, RefreshKept, NoneFacts DEF RefreshRenew
  <2> QED
    BY <1>4, <1>p, <2>3, <2>11 DEF RefreshRenew
<1>5. ASSUME RefreshSettle PROVE RejectionsInv' /\ RejectedKept
  <2>1. job # None /\ job.pc \in AskedSteps /\ Grown
    BY <1>5, BooksStay DEF RefreshSettle, Refreshing, AskedSteps
  <2>2. /\ job \in Refresh /\ job.login \in Login /\ job.before \in Views
        /\ job.rejected \subseteq Login /\ Held(job) \subseteq Login
    BY <2>1, AskedFields DEF Held, ToSet
  <2>3. PICK v \in Reads : SettleWith(v)
    BY <1>5, SettleFacts
  <2>4. Left \in Seq(Login) /\ ToSet(Left) \subseteq ToSet(job.alternates)
    BY <1>5, SettleFacts
  <2>5. KnownView(job.before) /\ \A l \in Held(job) \cup job.rejected : Known(l)
    BY <2>1 DEF RejectionsInv, JobKnown, AskedSteps, RefreshSteps
  <2>6. KnownViewAfter(job.before) /\ \A l \in Held(job) \cup job.rejected : KnownAfter(l)
    BY <2>1, <2>2, <2>5, ViewKnown, KnownGrows
  <2>7. KnownViewAfter(v)
    BY <2>1, ReadKnown, ViewKnown
  <2>8. SettleRejected \subseteq job.rejected \cup {job.login}
    BY DEF SettleRejected
  <2>9. /\ job'.of = job.of /\ job'.base = job.base /\ job'.rejected = SettleRejected
        /\ job' \in Refresh /\ job'.pc \in AskedSteps
    BY <2>3 DEF SettleWith, AskedSteps
  <2>10. KnownViewAfter(job'.before)
    BY <2>3, <2>6, <2>7 DEF SettleWith
  <2>11. ToSet(Push(Left, job.login)) \subseteq Held(job)
    BY <2>2, <2>4, PushFacts DEF Held
  <2>12. Left # <<>> => Head(Left) \in ToSet(Left) /\ ToSet(Tail(Left)) \subseteq ToSet(Left)
    BY <2>4 DEF ToSet
  <2>13. \A l \in Held(job') : \/ l \in Held(job)
                               \/ v # None /\ l = v.login /\ l \notin job.base.rejected
    BY <2>3, <2>4, <2>11, <2>12 DEF SettleWith, Held
  <2>14. JobKnown' /\ RefreshClean'
    <3>1. \A l \in job'.rejected : KnownAfter(l)
      BY <2>6, <2>8, <2>9 DEF Held
    <3>2. \A l \in Held(job') : KnownAfter(l) /\ (l \in Held(job) \/ l \notin job.base.rejected)
      BY <2>6, <2>7, <2>13 DEF KnownViewAfter
    <3>3. job' # None /\ UNCHANGED pool
      BY <1>5, <2>9, NoneFacts DEF RefreshSettle
    <3> QED
      BY <2>1, <2>9, <2>10, <3>1, <3>2, <3>3, RefreshKept
  <2> QED
    BY <1>5, <1>p, <2>1, <2>14 DEF RefreshSettle
<1>6. ASSUME RefreshWrite PROVE RejectionsInv' /\ RejectedKept
  <2>1. job # None /\ job.pc \in AskedSteps /\ Grown
    BY <1>6, BooksStay DEF RefreshWrite, Refreshing, AskedSteps
  <2>2. job \in Refresh /\ job.login \in Login
    BY <2>1, AskedFields
  <2>3. job' = [job EXCEPT !.pc = "merging", !.inLive = TRUE]
    BY <1>6 DEF RefreshWrite
  <2>4. /\ job' \in Refresh /\ job'.pc \in AskedSteps /\ job'.of = job.of /\ job'.base = job.base
        /\ job'.before = job.before /\ job'.rejected = job.rejected /\ job'.login = job.login
        /\ job'.alternates = job.alternates
    BY <2>2, <2>3 DEF Refresh, AskedSteps
  <2>5. JobKnown' /\ RefreshClean'
    BY <1>6, <2>1, <2>4, RefreshGoesOn, NoneFacts DEF RefreshWrite
  <2>6. KnownAfter(job.login)
    BY <2>1, <2>2, KnownGrows DEF RejectionsInv, JobKnown, Held
  <2>7. KnownViewAfter(live')
    BY <1>6, <2>6 DEF RefreshWrite, Shown, KnownViewAfter
  <2> QED
    BY <1>6, <1>p, <2>1, <2>5, <2>7 DEF RefreshWrite
<1>7. ASSUME RefreshMerge PROVE RejectionsInv' /\ RejectedKept
  <2>1. MergedInto
    BY <1>7, MergeTakes
  <2>2. job # None /\ job.pc = "merging" /\ job.pc \in AskedSteps /\ job' = None /\ Grown
    BY <2>1, BooksStay DEF MergedInto, AskedSteps
  <2>3. /\ job.of \in Accounts /\ job.base \in Card /\ job.rejected \subseteq Login
        /\ Held(job) \subseteq Login
    BY <2>2, AskedFields DEF Held, ToSet
  <2>4. ViewsKnown'
    BY <2>1, <2>2, ViewsMove DEF MergedInto
  <2>5. JobKnown' /\ RefreshClean'
    BY <2>2 DEF JobKnown, RefreshClean
  <2>6. ASSUME NEW a \in Accounts, cards'[a] # None
        PROVE  /\ cards[a] # None
               /\ \A l \in Held(cards'[a]) \cup cards'[a].rejected : KnownAfter(l)
               /\ Alternates(cards'[a]) \cap cards'[a].rejected = {}
               /\ cards'[a].login \in cards[a].rejected => cards'[a].login = cards[a].login
    <3>1. cards[a] # None
      BY <2>1, <2>6 DEF MergedInto
    <3>2. /\ \A l \in Held(cards[a]) \cup cards[a].rejected : Known(l) /\ l \in Login
          /\ Alternates(cards[a]) \cap cards[a].rejected = {}
      BY <3>1, HeldLogins DEF RejectionsInv, CardsKnown, CardsClean, TypeInv, PoolTyped, Pools, Cards
    <3>3. \A l \in Held(cards[a]) \cup cards[a].rejected : KnownAfter(l)
      BY <2>2, <3>2, KnownGrows
    <3>4. CASE a # job.of
      <4>1. cards'[a] = cards[a]
        BY <2>1, <3>4 DEF MergedInto
      <4> QED
        BY <3>1, <3>2, <3>3, <4>1
    <3>5. CASE a = job.of
      <4> DEFINE c == cards[a]
                 d == cards'[a]
      <4>1. /\ d \in Cards /\ d.rejected = c.rejected \cup job.rejected
            /\ d.login = IF job.login # job.base.login THEN job.login ELSE c.login
            /\ Alternates(d) \subseteq (Alternates(job) \cup Held(c)) \ (c.rejected \cup job.rejected)
        BY <2>1, <3>1, <3>5 DEF MergedInto
      <4>2. /\ \A l \in Held(job) \cup job.rejected : Known(l)
            /\ job.login = job.base.login \/ job.login \notin job.base.rejected
            /\ c.rejected = job.base.rejected
        BY <2>2, <3>1, <3>5 DEF RejectionsInv, JobKnown, RefreshClean, Held
      <4>3. \A l \in Held(job) \cup job.rejected : KnownAfter(l)
        BY <2>2, <2>3, <4>2, KnownGrows
      <4> HIDE DEF c, d
      <4>4. Held(d) \cup d.rejected \subseteq Held(c) \cup c.rejected \cup Held(job) \cup job.rejected
        BY <4>1 DEF Held, Alternates
      <4>5. \A l \in Held(d) \cup d.rejected : KnownAfter(l)
        BY <3>3, <4>3, <4>4 DEF c
      <4>6. d.login \in c.rejected => d.login = c.login
        BY <4>1, <4>2
      <4> QED
        BY <3>1, <4>1, <4>5, <4>6 DEF c, d
    <3> QED
      BY <3>4, <3>5
  <2>7. CardsKnown' /\ CardsClean'
    BY <2>6 DEF CardsKnown, CardsClean, Known, KnownAfter
  <2>8. RejectedKept
    BY <2>6 DEF RejectedKept, Alternates
  <2> QED
    BY <2>4, <2>5, <2>7, <2>8 DEF RejectionsInv
<1> QED
  BY <1>1, <1>2, <1>3, <1>4, <1>5, <1>6, <1>7 DEF RefreshStep

\* A switch, an import, or nothing holds operations after the step.
LEMMA NoRefresh ==
  ASSUME job' # None => job' \in Switch \cup Import,
         job' # None /\ job' \in Switch => KnownViewAfter(job'.before),
         job' # None /\ job' \in Import => KnownAfter(job'.view.login)
  PROVE  JobKnown' /\ RefreshClean'
<1>1. CASE job' = None
  BY <1>1 DEF JobKnown, RefreshClean
<1>2. CASE job' # None /\ job' \in Switch
  <2>1. job'.pc \in SwitchSteps
    BY <1>2 DEF Switch, SwitchSteps
  <2> QED
    BY <1>2, <2>1 DEF JobKnown, RefreshClean, KnownView, Known, KnownViewAfter, KnownAfter,
                      SwitchSteps, AskedSteps
<1>3. CASE job' # None /\ job' \in Import
  <2>1. job'.pc = "importing"
    BY <1>3 DEF Import
  <2> QED
    BY <1>3, <2>1 DEF JobKnown, RefreshClean, Known, KnownAfter, RefreshSteps, SwitchSteps, AskedSteps
<1> QED
  BY <1>1, <1>2, <1>3

LEMMA SwitchRejections ==
  ASSUME TypeInv, RejectionsInv, SwitchStep
  PROVE  RejectionsInv' /\ RejectedKept
<1> USE DEF pool, issuer, bounds
<1>g. Grown /\ listing' = listing
  BY BooksStay DEF SwitchStep, SwitchStart, SwitchLists, SwitchLock, SwitchCredentials,
                   SwitchAccount, SwitchSave, SwitchFails
<1>l. /\ live \in Views /\ KnownViewAfter(live)
      /\ live # None => live.login \in Login /\ live.named \in Accounts \cup {None}
  BY <1>g, ViewKnown DEF TypeInv, RestTyped, RejectionsInv, ViewsKnown, Views, View
<1>j. job # None /\ job.pc \in SwitchSteps =>
        job \in Switch /\ job.of \in Accounts /\ job.before \in Views /\ KnownViewAfter(job.before)
  <2>1. job # None /\ job.pc \in SwitchSteps => KnownView(job.before)
    BY DEF RejectionsInv, JobKnown
  <2> QED
    BY <1>g, <2>1, SwitchFields, ViewKnown
<1>p. ASSUME NEW v \in Views, KnownViewAfter(v), PoolTakes(v), KnownViewAfter(live'),
             job' # None => job' \in Switch /\ KnownViewAfter(job'.before)
      PROVE  RejectionsInv' /\ RejectedKept
  <2>1. ViewsKnown'
    BY <1>g, <1>p, ViewsMove
  <2>2. CardsKnown' /\ CardsClean' /\ RejectedKept
    BY <1>g, <1>p, PoolKnown
  <2>3. job' # None => job' \notin Import
    BY <1>p DEF Switch, Import
  <2>4. JobKnown' /\ RefreshClean'
    BY <1>p, <2>3, NoRefresh
  <2> QED
    BY <2>1, <2>2, <2>4 DEF RejectionsInv
<1>n. None \in Views /\ KnownViewAfter(None)
  BY DEF Views, KnownViewAfter
<1>1. ASSUME NEW a \in Accounts, SwitchStart(a) PROVE RejectionsInv' /\ RejectedKept
  <2>1. PICK v \in Reads : job' = [pc |-> "listing", of |-> a, before |-> v]
    BY <1>1 DEF SwitchStart
  <2>2. v \in Views /\ KnownViewAfter(v)
    BY <1>g, ReadKnown, ViewKnown
  <2>3. job' \in Switch /\ job'.before = v
    BY <2>1, <2>2 DEF Switch
  <2>4. PoolTakes(None)
    BY <1>1, PoolStays DEF SwitchStart, TypeInv
  <2> QED
    BY <1>1, <1>l, <1>n, <1>p, <2>2, <2>3, <2>4 DEF SwitchStart
<1>2. ASSUME SwitchLists PROVE RejectionsInv' /\ RejectedKept
  <2>1. job # None /\ job.pc \in SwitchSteps
    BY <1>2 DEF SwitchLists, Switching, SwitchSteps
  <2>2. PoolTakes(job.before)
    BY <1>2, <1>j, <2>1, PoolFollows DEF SwitchLists, Follow, TypeInv
  <2>3. job' \in Switch /\ job'.before = job.before
    BY <1>2, <1>j, <2>1 DEF SwitchLists, Switch
  <2> QED
    BY <1>2, <1>l, <1>j, <1>p, <2>1, <2>2, <2>3 DEF SwitchLists
<1>3. ASSUME SwitchLock PROVE RejectionsInv' /\ RejectedKept
  <2>1. job # None /\ job.pc \in SwitchSteps
    BY <1>3 DEF SwitchLock, Switching, SwitchSteps
  <2>2. PoolTakes(live)
    BY <1>3, <1>l, PoolFollows DEF SwitchLock, TypeInv
  <2>3. job' = None \/ job' = [job EXCEPT !.pc = "locked", !.before = live]
    BY <1>3 DEF SwitchLock
  <2>4. job' # None => job' \in Switch /\ job'.before = live
    BY <1>l, <1>j, <2>1, <2>3 DEF Switch
  <2> QED
    BY <1>3, <1>l, <1>p, <2>2, <2>4 DEF SwitchLock
<1>4. ASSUME SwitchCredentials \/ SwitchAccount PROVE RejectionsInv' /\ RejectedKept
  <2>1. job # None /\ job.pc \in SwitchSteps /\ job.pc \in {"locked", "credentials", "account"}
    BY <1>4 DEF SwitchCredentials, SwitchAccount, Switching, SwitchSteps
  <2>2. job \in Switch /\ job.of \in Accounts /\ cards[job.of] \in Cards
    BY <2>1, SwitchFields
  <2> DEFINE login == cards[job.of].login
  <2>3. login \in Login /\ Known(login)
    BY <2>2, CardFields, NoneFacts DEF RejectionsInv, CardsKnown, Held, Cards
  <2>4. KnownAfter(login)
    BY <1>g, <2>3, KnownGrows
  <2>5. \E pc \in {"credentials", "account"} : job' = [job EXCEPT !.pc = pc]
    BY <1>4 DEF SwitchCredentials, SwitchAccount
  <2>6. job' \in Switch /\ job'.before = job.before
    BY <2>2, <2>5 DEF Switch
  <2>7. KnownViewAfter(live')
    <3>1. CASE SwitchCredentials
      BY <2>4, <3>1 DEF SwitchCredentials, Shown, KnownViewAfter
    <3>2. CASE SwitchAccount
      <4>1. live'.login = IF live = None THEN login ELSE live.login
        BY <3>2 DEF SwitchAccount, Shown
      <4> HIDE DEF login
      <4> QED
        BY <1>l, <2>4, <4>1 DEF KnownViewAfter
    <3> QED
      BY <1>4, <3>1, <3>2
  <2>8. PoolTakes(None)
    BY <1>4, PoolStays DEF SwitchCredentials, SwitchAccount, TypeInv
  <2> QED
    BY <1>j, <1>n, <1>p, <2>1, <2>6, <2>7, <2>8
<1>5. ASSUME SwitchSave PROVE RejectionsInv' /\ RejectedKept
  <2>1. job # None /\ job.pc \in SwitchSteps
    BY <1>5 DEF SwitchSave, Switching, SwitchSteps
  <2>2. PoolTakes(None)
    BY <1>5, <1>j, <2>1, SavedCards DEF SwitchSave, TypeInv
  <2> QED
    BY <1>5, <1>l, <1>n, <1>p, <2>2 DEF SwitchSave
<1>6. ASSUME SwitchFails PROVE RejectionsInv' /\ RejectedKept
  <2>1. job # None /\ job.pc \in SwitchSteps
    BY <1>6 DEF SwitchFails, Switching, SwitchSteps
  <2>2. KnownViewAfter(live')
    BY <1>6, <1>j, <2>1 DEF SwitchFails, RolledBack, Shown, KnownViewAfter
  <2>3. PoolTakes(None)
    BY <1>6, PoolStays DEF SwitchFails, TypeInv
  <2> QED
    BY <1>6, <1>n, <1>p, <2>2, <2>3 DEF SwitchFails
<1> QED
  BY <1>1, <1>2, <1>3, <1>4, <1>5, <1>6 DEF SwitchStep

LEMMA ImportRejections ==
  ASSUME TypeInv, RejectionsInv, ImportStep
  PROVE  RejectionsInv' /\ RejectedKept
<1> USE DEF pool, issuer, bounds
<1>t. PoolTyped /\ BooksTyped /\ live \in Views
  BY DEF TypeInv, RestTyped
<1>p. ASSUME Grown, UNCHANGED <<live, listing>>, job' = None,
             NEW v \in Views, KnownViewAfter(v), PoolTakes(v)
      PROVE  RejectionsInv' /\ RejectedKept
  <2>1. ViewsKnown'
    BY <1>p, ViewsMove
  <2>2. CardsKnown' /\ CardsClean' /\ RejectedKept
    BY <1>p, PoolKnown
  <2>3. JobKnown' /\ RefreshClean'
    BY <1>p, NoRefresh
  <2> QED
    BY <2>1, <2>2, <2>3 DEF RejectionsInv
<1>1. ASSUME ImportReads PROVE RejectionsInv' /\ RejectedKept
  <2>1. Grown
    BY <1>1, BooksStay DEF ImportReads
  <2>2. live \in View /\ KnownViewAfter(live) /\ live # None
    BY <1>1, <1>t, <2>1, ViewKnown DEF ImportReads, Views, RejectionsInv, ViewsKnown
  <2>3. job' \in Import /\ job'.view = live /\ job' \notin Switch
    BY <1>1, <2>2 DEF ImportReads, Import, Switch
  <2>4. JobKnown' /\ RefreshClean'
    BY <2>2, <2>3, NoRefresh DEF KnownViewAfter
  <2>5. ViewsKnown'
    BY <1>1, <2>1, ViewsMove DEF ImportReads
  <2>6. CardsKnown' /\ CardsClean' /\ RejectedKept
    BY <1>1, <2>1, NothingTaken DEF ImportReads
  <2> QED
    BY <2>4, <2>5, <2>6 DEF RejectionsInv
<1>2. ASSUME NEW defer \in BOOLEAN, ImportCurrent(defer) PROVE RejectionsInv' /\ RejectedKept
  <2>1. Grown
    BY <1>2, BooksStay DEF ImportCurrent
  <2>2. job.view \in View /\ job.view.named \in Accounts /\ job' = None
    BY <1>2, JobKinds DEF ImportCurrent, TypeInv, JobTyped
  <2>3. job.view \in Views /\ KnownView(job.view)
    BY <1>2, <2>2 DEF ImportCurrent, Views, RejectionsInv, JobKnown, KnownView
  <2>4. KnownViewAfter(job.view)
    BY <2>1, <2>3, ViewKnown
  <2>5. PoolTakes(job.view)
    BY <1>2, <1>t, <2>2, PoolUpserts DEF ImportCurrent
  <2> QED
    BY <1>2, <1>p, <2>1, <2>2, <2>3, <2>4, <2>5 DEF ImportCurrent
<1>3. ASSUME NEW defer \in BOOLEAN, NEW a \in Accounts, ImportLogin(a, defer)
      PROVE  RejectionsInv' /\ RejectedKept
  <2> DEFINE v == Shown(Issued(a), a)
  <2>1. issued[a] \in Int /\ issued[a] + 1 \in Gen
    BY <1>3, <1>t, ClaudeCounts DEF ImportLogin, BooksTyped, Gen
  <2>2. issued'[a] = issued[a] + 1 /\ \A b \in Accounts : b # a => issued'[b] = issued[b]
    BY <1>3, <1>t DEF ImportLogin, BooksTyped
  <2>3. Grown
    <3>1. BooksTyped'
      BY <1>3, <1>t, <2>1 DEF ImportLogin, BooksTyped
    <3>2. \A b \in Accounts : issued[b] \in Int
      BY <1>t DEF BooksTyped, Gen
    <3>3. \A b \in Accounts : issued[b] <= issued'[b]
      BY <2>2, <3>2
    <3> QED
      BY <3>1, <3>3 DEF Grown
  <2>4. v \in View /\ v \in Views /\ v.named = a /\ KnownViewAfter(v)
    BY <2>1, <2>2 DEF Shown, Issued, Of, View, Views, Login, KnownViewAfter, KnownAfter
  <2>5. Upserted(v, FALSE, defer) /\ job' = None
    BY <1>3 DEF ImportLogin
  <2> HIDE DEF v
  <2>6. PoolTakes(v)
    BY <1>t, <2>4, <2>5, PoolUpserts
  <2> QED
    BY <1>3, <1>p, <2>3, <2>4, <2>5, <2>6 DEF ImportLogin
<1>4. ASSUME NEW defer \in BOOLEAN, NEW a \in Accounts, NEW gen \in Gen, ImportJson(a, gen, defer)
      PROVE  RejectionsInv' /\ RejectedKept
  <2> DEFINE v == Shown(Of(a, gen), a)
  <2>1. Grown
    BY <1>4, BooksStay DEF ImportJson
  <2>2. v \in View /\ v \in Views /\ v.named = a /\ KnownViewAfter(v)
    BY <1>4 DEF ImportJson, Shown, Of, View, Views, Login, KnownViewAfter, KnownAfter
  <2>3. Upserted(v, FALSE, defer) /\ job' = None
    BY <1>4 DEF ImportJson
  <2> HIDE DEF v
  <2>4. PoolTakes(v)
    BY <1>t, <2>2, <2>3, PoolUpserts
  <2> QED
    BY <1>4, <1>p, <2>1, <2>2, <2>3, <2>4 DEF ImportJson
<1> QED
  BY <1>1, <1>2, <1>3, <1>4 DEF ImportStep

LEMMA SettingRejections ==
  ASSUME TypeInv, RejectionsInv, SettingStep
  PROVE  RejectionsInv' /\ RejectedKept
<1> USE DEF pool, issuer, bounds
<1>1. Grown /\ UNCHANGED <<live, listing, job>>
  BY BooksStay DEF SettingStep, SetRenewal, Release, Delete
<1>2. ViewsKnown'
  BY <1>1, ViewsMove
<1>3. ASSUME NEW a \in Accounts, NEW choice \in Renewal, SetRenewal(a, choice) \/ Release(a)
      PROVE  RejectionsInv' /\ RejectedKept
  <2>1. PoolTakes(None) /\ None \in Views /\ KnownViewAfter(None)
    BY <1>3, SettingsStep DEF TypeInv, Views, KnownViewAfter
  <2>2. CardsKnown' /\ CardsClean' /\ RejectedKept
    BY <1>1, <2>1, PoolKnown
  <2>3. JobKnown' /\ RefreshClean'
    BY <1>1, <2>1, JobStays
  <2> QED
    BY <1>2, <2>2, <2>3 DEF RejectionsInv
<1>4. ASSUME NEW a \in Accounts, Delete(a) PROVE RejectionsInv' /\ RejectedKept
  <2>1. cards'[a] = None /\ \A b \in Accounts : b # a => cards'[b] = cards[b]
    BY <1>4, DeleteStep DEF TypeInv
  <2>2. \A b \in Accounts : cards'[b] # None => cards'[b] = cards[b] /\ issued' = issued
    BY <1>4, <2>1 DEF Delete
  <2>3. CardsKnown' /\ CardsClean'
    BY <2>2 DEF RejectionsInv, CardsKnown, CardsClean, Known
  <2>4. RejectedKept
    BY <2>2 DEF RejectedKept, RejectionsInv, CardsClean, Alternates
  <2>5. job' = job /\ issued' = issued
    BY <1>4 DEF Delete
  <2>6. JobKnown'
    BY <2>5 DEF RejectionsInv, JobKnown, KnownView, Known
  <2>7. RefreshClean'
    <3>1. job # None /\ job.pc \in AskedSteps => job.of \in Accounts
      BY AskedFields
    <3> QED
      BY <2>2, <2>5, <3>1 DEF RejectionsInv, RefreshClean
  <2> QED
    BY <1>2, <2>3, <2>4, <2>6, <2>7 DEF RejectionsInv
<1>5. "never" \in Renewal /\ RenewalChoices \subseteq Renewal
  BY ClaudeChoices DEF Renewal
<1> QED
  BY <1>3, <1>4, <1>5 DEF SettingStep

LEMMA ClaudeRejections ==
  ASSUME TypeInv, RejectionsInv, ClaudeStep
  PROVE  RejectionsInv' /\ RejectedKept
<1> USE DEF pool, issuer, bounds
<1>t. PoolTyped /\ BooksTyped /\ live \in Views
  BY DEF TypeInv, RestTyped
<1>p. ASSUME Grown, UNCHANGED <<pool, job, listing>>, KnownViewAfter(live')
      PROVE  RejectionsInv' /\ RejectedKept
  <2>1. ViewsKnown'
    BY <1>p, ViewsMove
  <2>2. PoolTakes(None) /\ CardsKnown' /\ CardsClean' /\ RejectedKept
    BY <1>p, NothingTaken
  <2>3. JobKnown' /\ RefreshClean'
    BY <1>p, <2>2, JobStays DEF Views
  <2> QED
    BY <2>1, <2>2, <2>3 DEF RejectionsInv
<1>1. ASSUME ClaudeRenews PROVE RejectionsInv' /\ RejectedKept
  <2>1. live \in View /\ live.login \in Login
    BY <1>t, <1>1 DEF ClaudeRenews, Views, View
  <2> DEFINE next == Issued(live.login.of)
  <2>2. Grown /\ KnownAfter(next)
    BY <1>1, <2>1, ExchangeGrows DEF ClaudeRenews
  <2>3. live'.login = next
    BY <1>1, <2>1 DEF ClaudeRenews, View
  <2> HIDE DEF next
  <2> QED
    BY <1>1, <1>p, <2>2, <2>3 DEF ClaudeRenews, KnownViewAfter
<1>2. ASSUME NEW a \in Accounts, ClaudeSignsIn(a) PROVE RejectionsInv' /\ RejectedKept
  <2>1. issued[a] \in Int /\ issued[a] + 1 \in Gen
    BY <1>2, <1>t, ClaudeCounts DEF ClaudeSignsIn, BooksTyped, Gen
  <2>2. issued'[a] = issued[a] + 1 /\ \A b \in Accounts : b # a => issued'[b] = issued[b]
    BY <1>2, <1>t DEF ClaudeSignsIn, BooksTyped
  <2>3. Grown
    <3>1. BooksTyped'
      BY <1>2, <1>t, <2>1 DEF ClaudeSignsIn, BooksTyped
    <3>2. \A b \in Accounts : issued[b] \in Int
      BY <1>t DEF BooksTyped, Gen
    <3>3. \A b \in Accounts : issued[b] <= issued'[b]
      BY <2>2, <3>2
    <3> QED
      BY <3>1, <3>3 DEF Grown
  <2>4. KnownViewAfter(live')
    BY <1>2, <2>1, <2>2 DEF ClaudeSignsIn, Shown, Issued, Of, KnownViewAfter, KnownAfter
  <2> QED
    BY <1>2, <1>p, <2>3, <2>4 DEF ClaudeSignsIn
<1>3. ASSUME ClaudeSignsOut PROVE RejectionsInv' /\ RejectedKept
  BY <1>3, <1>p, BooksStay DEF ClaudeSignsOut, KnownViewAfter
<1>4. ASSUME Crash PROVE RejectionsInv' /\ RejectedKept
  <2>1. Grown
    BY <1>4, BooksStay DEF Crash
  <2>2. ViewsKnown'
    BY <1>4, <2>1, ViewsMove DEF Crash
  <2>3. CardsKnown' /\ CardsClean' /\ RejectedKept
    BY <1>4, <2>1, NothingTaken DEF Crash
  <2>4. JobKnown' /\ RefreshClean'
    BY <1>4, NoRefresh DEF Crash
  <2> QED
    BY <2>2, <2>3, <2>4 DEF RejectionsInv
<1> QED
  BY <1>1, <1>2, <1>3, <1>4 DEF ClaudeStep

\* At first nothing is rejected and all logins were given out.
LEMMA RejectionsInit == Init => RejectionsInv
<1> SUFFICES ASSUME Init PROVE RejectionsInv
  OBVIOUS
<1>1. ASSUME NEW a \in Accounts, cards[a] # None
      PROVE  /\ \A l \in Held(cards[a]) \cup cards[a].rejected : Known(l)
             /\ Alternates(cards[a]) \cap cards[a].rejected = {}
  <2>1. cards[a] = NewCard(Of(a, 1), FALSE, FALSE)
    BY <1>1 DEF Init
  <2>2. Held(cards[a]) = {Of(a, 1)} /\ cards[a].rejected = {} /\ Alternates(cards[a]) = {}
    BY <2>1 DEF NewCard, Held, Alternates, ToSet
  <2>3. Known(Of(a, 1))
    BY DEF Init, Known, Of
  <2> QED
    BY <2>2, <2>3
<1>2. KnownView(live)
  BY DEF Init, KnownView, Known, Shown, Of
<1> QED
  BY <1>1, <1>2 DEF Init, RejectionsInv, CardsKnown, ViewsKnown, JobKnown, CardsClean, RefreshClean

\* Only a refresh merged ends one that is merging.
LEMMA MergingEnds ==
  ASSUME TypeInv, Next, job # None, job.pc = "merging", job' = None, crashes' = crashes
  PROVE  RefreshMerge
<1> USE DEF pool, issuer, bounds
<1>1. CASE ListStep
  BY <1>1 DEF ListStep, ListReads, ListNames, ListFollows
<1>2. CASE RefreshStep
  <2>1. job \in Refresh
    BY AskedFields DEF AskedSteps
  <2> QED
    BY <1>2, <2>1 DEF RefreshStep, RefreshStart, RefreshSnapshot, RefreshCheck, RefreshRenew,
       RefreshRefused, RefreshRenewFails, RefreshRenewLost, RefreshAnswer, RefreshSettle,
       RefreshWrite, RefreshWriteFails, Refreshing
<1>3. CASE SwitchStep
  BY <1>3 DEF SwitchStep, SwitchStart, SwitchLists, SwitchLock, SwitchCredentials, SwitchAccount,
     SwitchSave, SwitchFails, Switching
<1>4. CASE ImportStep
  BY <1>4 DEF ImportStep, ImportReads, ImportCurrent, ImportLogin, ImportJson
<1>5. CASE SettingStep
  BY <1>5 DEF SettingStep, SetRenewal, Release, Delete
<1>6. CASE ClaudeStep
  <2>1. crashes \in Int
    BY DEF TypeInv, RestTyped
  <2> QED
    BY <1>6, <2>1 DEF ClaudeStep, ClaudeRenews, ClaudeSignsIn, ClaudeSignsOut, Crash
<1> QED
  BY <1>1, <1>2, <1>3, <1>4, <1>5, <1>6, NextSteps

AdoptedKept == \A a \in Accounts :
  /\ job # None /\ job.pc = "merging" /\ job.of = a /\ job' = None /\ crashes' = crashes
  /\ cards[a] # None /\ cards'[a] # None
  /\ cards[a].login \notin {job.base.login} \cup cards'[a].rejected
  => cards[a].login \in {cards'[a].login} \cup ToSet(cards'[a].alternates)

LEMMA RejectionsStep ==
  TypeInv /\ RejectionsInv /\ [Next]_vars =>
    RejectionsInv' /\ [AdoptedKept /\ RejectedKept]_vars
<1> SUFFICES ASSUME TypeInv, RejectionsInv, [Next]_vars
             PROVE  RejectionsInv' /\ [AdoptedKept /\ RejectedKept]_vars
  OBVIOUS
<1>1. CASE Next
  <2>1. RejectionsInv' /\ RejectedKept
    BY <1>1, NextSteps, ListRejections, RefreshRejections, SwitchRejections, ImportRejections,
       SettingRejections, ClaudeRejections
  <2>2. AdoptedKept
    <3> SUFFICES ASSUME NEW a \in Accounts,
                        job # None, job.pc = "merging", job.of = a, job' = None, crashes' = crashes,
                        cards[a] # None, cards[a].login \notin {job.base.login} \cup cards'[a].rejected
                 PROVE  cards[a].login \in Held(cards'[a])
      BY DEF AdoptedKept, Held
    <3>1. MergedInto
      BY <1>1, MergingEnds, MergeTakes
    <3> QED
      BY <3>1 DEF MergedInto
  <2> QED
    BY <2>1, <2>2
<1>2. CASE UNCHANGED vars
  BY <1>2 DEF vars, RejectionsInv, CardsKnown, ViewsKnown, JobKnown, CardsClean, RefreshClean,
              KnownView, Known
<1> QED
  BY <1>1, <1>2

\* Nothing a card took while a refresh ran is lost when its answer is merged, and
\* no login that Claude rejected is used again or kept to fall back on, whatever
\* the accounts, the lists and how often anything happens.
THEOREM LoginsSettled == Spec => LoginsSettle
<1>1. TypeInv /\ RejectionsInv /\ [Next]_vars => [AdoptedKept /\ RejectedKept]_vars
  BY RejectionsStep
<1>2. [][AdoptedKept /\ RejectedKept]_vars => LoginsSettle
  <2>1. [AdoptedKept /\ RejectedKept]_vars => [AdoptedKept]_vars /\ [RejectedKept]_vars
    OBVIOUS
  <2>2. [][AdoptedKept]_vars /\ [][RejectedKept]_vars => LoginsSettle
    BY DEF LoginsSettle, AdoptedMeanwhileKept, RejectedStaysOut, AdoptedKept, RejectedKept
  <2> QED
    BY <2>1, <2>2, PTL
<1>3. Spec => []RejectionsInv
  BY RejectionsInit, RejectionsStep, TypesHold, PTL DEF Spec
<1> QED
  BY <1>1, <1>2, <1>3, TypesHold, PTL DEF Spec

-----------------------------------------------------------------------------
(* Claude Code's login stays that of the account it names.                 *)

\* What a list read in two parts is one login, or is seen to be another card's.
ListsSafe == \A l \in Lists :
  listing[l] # None /\ listing[l].whole /\ listing[l].login # None
  => listing[l].named \in {None, listing[l].login.of} \/ Mixed(cards, ListView(l))

RefreshOwn == job # None /\ job.pc \in AskedSteps => \A l \in Held(job) : l.of = job.of
\* A refresh that writes back still finds the account, and a switch under way has
\* replaced the credentials, and the account not yet.
JobWhole == job # None =>
  /\ job.pc \in RefreshSteps \cup SwitchSteps => WholeView(job.before)
  /\ job.pc = "importing" => WholeView(job.view)
  /\ job.pc = "writing" => live # None /\ live.named = job.of
  /\ job.pc = "credentials" => live # None /\ live.login.of = job.of
  /\ job.pc \in {"locked", "credentials"} /\ job.before # None
       => live # None /\ live.named = job.before.named
LiveInv == (job = None \/ job.pc # "credentials") => Whole
Undisturbed == crashes + signIns = 0
WholeInv == Undisturbed => Own(cards) /\ RefreshOwn /\ JobWhole /\ LiveInv

\* What the pool takes from a login that is that of the account it names.
LEMMA OwnTaken ==
  ASSUME TypeInv, Own(cards), NEW v \in Views, PoolTakes(v),
         v # None /\ v.named # None => v.named = v.login.of
  PROVE  Own(cards')
<1> SUFFICES ASSUME NEW a \in Accounts, cards'[a] # None
             PROVE  \A l \in Held(cards'[a]) : l.of = a
  BY DEF Own, Held
<1>1. CASE cards[a] # None
  <2>1. /\ Takes(cards[a], cards'[a], IF v = None THEN {} ELSE {v.login})
        /\ cards'[a].login # cards[a].login => v # None /\ v.named = a
    BY <1>1 DEF PoolTakes
  <2>2. \A l \in Held(cards[a]) : l.of = a
    BY <1>1 DEF Own, Held
  <2>3. cards'[a].login.of = a
    <3>1. CASE cards'[a].login = cards[a].login
      BY <2>2, <3>1 DEF Held
    <3>2. CASE cards'[a].login # cards[a].login
      BY <2>1, <3>2, NoneFacts DEF Takes
    <3> QED
      BY <3>1, <3>2
  <2> QED
    BY <2>1, <2>2, <2>3 DEF Takes, Held, Alternates
<1>2. CASE cards[a] = None
  <2>1. v # None /\ v.named = a /\ cards'[a].login = v.login /\ Alternates(cards'[a]) = {}
    BY <1>2 DEF PoolTakes
  <2>2. v.login.of = a
    BY <2>1, NoneFacts
  <2> QED
    BY <2>1, <2>2 DEF Held, Alternates
<1> QED
  BY <1>1, <1>2

\* The merge of a refresh with logins of its own leaves each card its own.
LEMMA OwnMerged ==
  ASSUME TypeInv, Own(cards), MergedInto, \A l \in Held(job) : l.of = job.of
  PROVE  Own(cards')
<1> SUFFICES ASSUME NEW a \in Accounts, cards'[a] # None
             PROVE  \A l \in Held(cards'[a]) : l.of = a
  BY DEF Own, Held
<1>1. cards[a] # None
  BY DEF MergedInto
<1>2. \A l \in Held(cards[a]) : l.of = a
  BY <1>1 DEF Own, Held
<1>3. CASE a # job.of
  BY <1>1, <1>2, <1>3 DEF MergedInto
<1>4. CASE a = job.of
  <2>1. /\ cards'[a].login \in {job.login, cards[a].login}
        /\ Alternates(cards'[a]) \subseteq Alternates(job) \cup Held(cards[a])
    BY <1>1, <1>4 DEF MergedInto
  <2> QED
    BY <1>2, <1>4, <2>1 DEF Held, Alternates
<1> QED
  BY <1>3, <1>4

\* Where a login taken into the pool comes from: a read made before a refresh or a
\* switch, or for an import; the one Claude Code has; an import of its own account;
\* or a list, unless what it read is seen to be another card's.
Source(v) ==
  \/ v = None
  \/ job # None /\ job.pc \in {"snapping", "listing"} /\ v = job.before
  \/ job # None /\ job.pc = "listed" /\ v = live
  \/ job # None /\ job.pc = "importing" /\ v = job.view
  \/ v # None /\ v.named = v.login.of
  \/ \E l \in Lists : /\ listing[l] # None /\ listing[l].whole /\ v = ListView(l)
                      /\ v # None /\ ~Mixed(cards, v)
PoolMoves ==
  \/ cards' = cards
  \/ MergedInto
  \/ \E a \in Deletable : Delete(a)
  \/ \E v \in Views : PoolTakes(v) /\ Source(v)

\* Every step leaves the logins of the pool, merges an answer, deletes a card or
\* takes a login from where there is one.
LEMMA PoolSteps ==
  ASSUME TypeInv, Next
  PROVE  PoolMoves
<1> USE DEF pool, issuer, bounds
<1>t. PoolTyped /\ live \in Views
  BY DEF TypeInv, RestTyped
<1>u. ASSUME cards' = cards PROVE PoolMoves
  BY <1>u DEF PoolMoves
<1>w. ASSUME NEW v \in Views, Source(v), PoolTakes(v) PROVE PoolMoves
  BY <1>w DEF PoolMoves
<1>n. ASSUME PoolTakes(None) PROVE PoolMoves
  BY <1>n, <1>w DEF Source, Views
<1>1. ASSUME NEW l \in Lists, ListFollows(l) PROVE PoolMoves
  <2>1. /\ listing[l] # None /\ listing[l].whole /\ ListView(l) \in Views
        /\ cards' = Followed(cards, current, ListView(l)).cards
        /\ current' = Followed(cards, current, ListView(l)).current
    BY <1>1, ListTyped DEF ListFollows, Follow, ListView
  <2>2. CASE ListView(l) # None /\ ~Mixed(cards, ListView(l))
    <3>1. PoolTakes(ListView(l))
      BY <1>t, <2>1, PoolFollows
    <3>2. Source(ListView(l))
      BY <2>1, <2>2 DEF Source
    <3> QED
      BY <1>w, <2>1, <3>1, <3>2
  <2>3. CASE ListView(l) = None \/ (ListView(l) # None /\ Mixed(cards, ListView(l)))
    <3>1. cards' = cards
      BY <2>1, <2>3 DEF Followed
    <3> QED
      BY <1>u, <3>1
  <2> QED
    BY <2>2, <2>3
<1>2. ASSUME NEW l \in Lists, ListReads(l) \/ ListNames(l) PROVE PoolMoves
  BY <1>2, <1>u DEF ListReads, ListNames
<1>3. ASSUME RefreshSnapshot PROVE PoolMoves
  <2>1. job # None /\ job.pc = "snapping"
    BY <1>3 DEF RefreshSnapshot, Refreshing
  <2>2. job.before \in Views /\ Source(job.before)
    BY <2>1, JobKinds DEF TypeInv, JobTyped, RefreshSteps, Source
  <2>3. PoolTakes(job.before)
    BY <1>3, <1>t, <2>2, PoolFollows DEF RefreshSnapshot
  <2> QED
    BY <1>w, <2>2, <2>3
<1>4. ASSUME RefreshMerge PROVE PoolMoves
  BY <1>4, MergeTakes DEF PoolMoves
<1>5. ASSUME RefreshStep, ~RefreshSnapshot, ~RefreshMerge PROVE PoolMoves
  BY <1>5, <1>u DEF RefreshStep, RefreshStart, RefreshCheck, RefreshRenew,
       RefreshRefused, RefreshRenewFails, RefreshRenewLost, RefreshAnswer, RefreshSettle,
       RefreshWrite, RefreshWriteFails
<1>6. ASSUME SwitchLists PROVE PoolMoves
  <2>1. job # None /\ job.pc = "listing"
    BY <1>6 DEF SwitchLists, Switching
  <2>2. job.before \in Views /\ Source(job.before)
    BY <2>1, JobKinds DEF TypeInv, JobTyped, SwitchSteps, Source
  <2>3. PoolTakes(job.before)
    BY <1>6, <1>t, <2>2, PoolFollows DEF SwitchLists, Follow
  <2> QED
    BY <1>w, <2>2, <2>3
<1>7. ASSUME SwitchLock PROVE PoolMoves
  <2>1. Source(live)
    BY <1>7 DEF SwitchLock, Switching, Source
  <2>2. PoolTakes(live)
    BY <1>7, <1>t, PoolFollows DEF SwitchLock
  <2> QED
    BY <1>t, <1>w, <2>1, <2>2
<1>8. ASSUME SwitchSave PROVE PoolMoves
  <2>1. job # None /\ job.pc \in SwitchSteps
    BY <1>8 DEF SwitchSave, Switching, SwitchSteps
  <2>2. PoolTakes(None)
    BY <1>8, <1>t, <2>1, SwitchFields, SavedCards DEF SwitchSave
  <2> QED
    BY <1>n, <2>2
<1>9. ASSUME SwitchStep, ~SwitchLists, ~SwitchLock, ~SwitchSave PROVE PoolMoves
  BY <1>9, <1>u DEF SwitchStep, SwitchStart, SwitchCredentials, SwitchAccount, SwitchFails
<1>10. ASSUME ImportReads PROVE PoolMoves
  BY <1>10, <1>u DEF ImportReads
<1>11. ASSUME NEW defer \in BOOLEAN, ImportCurrent(defer) PROVE PoolMoves
  <2>1. job # None /\ job.pc = "importing" /\ job' = None
    BY <1>11 DEF ImportCurrent
  <2>2. job.view \in View /\ job.view.named \in Accounts /\ Source(job.view)
    BY <2>1, JobKinds DEF TypeInv, JobTyped, Source
  <2>3. PoolTakes(job.view)
    BY <1>11, <1>t, <2>1, <2>2, PoolUpserts DEF ImportCurrent
  <2> QED
    BY <1>w, <2>2, <2>3 DEF Views
<1>12. ASSUME NEW defer \in BOOLEAN, NEW a \in Accounts, NEW gen \in Gen,
              Upserted(Shown(Of(a, gen), a), FALSE, defer), job' = None
       PROVE  PoolMoves
  <2> DEFINE v == Shown(Of(a, gen), a)
  <2>1. v \in View /\ v \in Views /\ v.named = a /\ v.login.of = a
    BY DEF Shown, Of, View, Views, Login
  <2>2. Upserted(v, FALSE, defer)
    BY <1>12
  <2> HIDE DEF v
  <2>3. PoolTakes(v)
    BY <1>12, <1>t, <2>1, <2>2, PoolUpserts
  <2> QED
    BY <1>w, <2>1, <2>3, NoneFacts DEF Source
<1>13. ASSUME NEW defer \in BOOLEAN, NEW a \in Accounts, ImportLogin(a, defer) PROVE PoolMoves
  <2>1. issued[a] + 1 \in Gen
    BY <1>13, ClaudeCounts DEF ImportLogin, TypeInv, BooksTyped, Gen
  <2>2. Upserted(Shown(Of(a, issued[a] + 1), a), FALSE, defer) /\ job' = None
    BY <1>13 DEF ImportLogin, Issued
  <2> QED
    BY <1>12, <2>1, <2>2
<1>14. ASSUME NEW defer \in BOOLEAN, NEW a \in Accounts, NEW gen \in Gen, ImportJson(a, gen, defer)
       PROVE  PoolMoves
  BY <1>12, <1>14 DEF ImportJson
<1>15. ASSUME NEW a \in Accounts, NEW choice \in Renewal, SetRenewal(a, choice) \/ Release(a)
       PROVE  PoolMoves
  BY <1>n, <1>t, <1>15, SettingsStep
<1>16. ASSUME ClaudeStep PROVE PoolMoves
  BY <1>16, <1>u DEF ClaudeStep, ClaudeRenews, ClaudeSignsIn, ClaudeSignsOut, Crash
<1>17. ListStep => PoolMoves
  BY <1>1, <1>2 DEF ListStep
<1>18. RefreshStep => PoolMoves
  BY <1>3, <1>4, <1>5
<1>19. SwitchStep => PoolMoves
  BY <1>6, <1>7, <1>8, <1>9
<1>20. ImportStep => PoolMoves
  BY <1>10, <1>11, <1>13, <1>14 DEF ImportStep
<1>21. CASE \E a \in Accounts : a \in Deletable /\ Delete(a)
  BY <1>21 DEF PoolMoves
<1>22. "never" \in Renewal /\ RenewalChoices \subseteq Renewal
  BY ClaudeChoices DEF Renewal
<1> QED
  BY <1>15, <1>16, <1>17, <1>18, <1>19, <1>20, <1>21, <1>22 DEF Next, ListStep, ClaudeStep

\* No step puts a login of another account into a card, when what it reads is that
\* of the account it names.
LEMMA OwnStep ==
  ASSUME TypeInv, ListsSafe, Own(cards), LiveInv, ReadOwn, Next
  PROVE  Own(cards')
<1>1. CASE cards' = cards
  BY <1>1
<1>2. CASE MergedInto
  <2>1. job # None /\ Asked(job.of)
    BY <1>2 DEF MergedInto, Asked
  <2>2. \A l \in Held(job) : l.of = job.of
    BY <2>1 DEF ReadOwn, Held
  <2> QED
    BY <1>2, <2>2, OwnMerged
<1>3. CASE \E a \in Deletable : Delete(a)
  BY <1>3, ClaudePool, DeleteStep DEF TypeInv, Own
<1>4. ASSUME NEW v \in Views, PoolTakes(v), Source(v)
      PROVE  Own(cards')
  <2>1. v # None /\ v.named # None => v.named = v.login.of
    <3>1. ASSUME NEW l \in Lists, listing[l] # None, listing[l].whole, v = ListView(l),
                 v # None, ~Mixed(cards, v), v.named # None
          PROVE  v.named = v.login.of
      <4>1. listing[l].login # None
        BY <3>1 DEF ListView
      <4>2. v.login = listing[l].login /\ v.named = listing[l].named
        BY <3>1, <4>1, ListTyped
      <4> QED
        BY <3>1, <4>1, <4>2 DEF ListsSafe
    <3>2. job # None /\ job.pc \in {"snapping", "listing"} => WholeView(job.before)
      BY DEF ReadOwn
    <3>3. job # None /\ job.pc = "importing" => WholeView(job.view)
      BY DEF ReadOwn
    <3>4. job # None /\ job.pc = "listed" => WholeView(live)
      BY DEF LiveInv, Whole
    <3> QED
      BY <1>4, <3>1, <3>2, <3>3, <3>4 DEF Source, WholeView
  <2> QED
    BY <1>4, <2>1, OwnTaken
<1> QED
  BY <1>1, <1>2, <1>3, <1>4, PoolSteps DEF PoolMoves

\* Nothing disturbed stays so only by steps that disturb nothing.
LEMMA UndisturbedBefore ==
  ASSUME TypeInv, Next, Undisturbed'
  PROVE  Undisturbed /\ ~Crash /\ ~ClaudeSignsOut /\ \A a \in Accounts : ~ClaudeSignsIn(a)
<1> USE DEF bounds
<1>1. signIns \in Nat /\ crashes \in Nat
  BY ClaudeCounts DEF TypeInv, RestTyped
<1>2. CASE UNCHANGED <<signIns, crashes>>
  BY <1>1, <1>2 DEF Undisturbed, Crash, ClaudeSignsOut, ClaudeSignsIn
<1>3. CASE Crash \/ ClaudeSignsOut \/ \E a \in Accounts : ClaudeSignsIn(a)
  BY <1>1, <1>3 DEF Undisturbed, Crash, ClaudeSignsOut, ClaudeSignsIn
<1>4. ListStep \/ SettingStep => UNCHANGED <<signIns, crashes>>
  BY DEF ListStep, ListReads, ListNames, ListFollows, SettingStep, SetRenewal, Release, Delete
<1>5. RefreshStep => UNCHANGED <<signIns, crashes>>
  BY DEF RefreshStep, RefreshStart, RefreshSnapshot, RefreshCheck, RefreshRenew, RefreshRefused,
         RefreshRenewFails, RefreshRenewLost, RefreshAnswer, RefreshSettle, RefreshWrite,
         RefreshWriteFails, RefreshMerge
<1>6. SwitchStep \/ ImportStep => UNCHANGED <<signIns, crashes>>
  BY DEF SwitchStep, SwitchStart, SwitchLists, SwitchLock, SwitchCredentials, SwitchAccount,
         SwitchSave, SwitchFails, ImportStep, ImportReads, ImportCurrent, ImportLogin, ImportJson
<1>7. ClaudeRenews => UNCHANGED <<signIns, crashes>>
  BY DEF ClaudeRenews
<1> QED
  BY <1>2, <1>3, <1>4, <1>5, <1>6, <1>7, NextSteps DEF ClaudeStep

\* What Claude Code's login is between two steps of a switch.
LEMMA WholeReads ==
  ASSUME TypeInv, LiveInv, job = None \/ job.pc # "credentials", NEW v \in Reads
  PROVE  v \in Views /\ WholeView(v) /\ (v # None => v = live) /\ Whole
  BY ReadsTyped DEF TypeInv, LiveInv, Whole, WholeView, Reads

WholeJob == RefreshOwn /\ JobWhole /\ LiveInv

\* The activity's part of the invariant depends on it and on Claude Code's login
\* alone.
LEMMA WholeJobStays ==
  ASSUME WholeJob, UNCHANGED <<job, live>>
  PROVE  WholeJob'
  BY DEF WholeJob, RefreshOwn, JobWhole, LiveInv, Held, Whole, WholeView

\* A renewal of Claude Code leaves its login that of the account it names.
LEMMA WholeRenews ==
  ASSUME TypeInv, WholeJob, ClaudeRenews
  PROVE  WholeJob'
<1>1. live \in View /\ live # None
  BY DEF TypeInv, RestTyped, Views, ClaudeRenews
<1>2. live'.named = live.named /\ live'.login.of = live.login.of /\ job' = job /\ live' # None
  <2>1. live' = [live EXCEPT !.login = Issued(live.login.of)] /\ job' = job
    BY DEF ClaudeRenews
  <2>2. live'.named = live.named /\ live'.login = Issued(live.login.of)
    BY <1>1, <2>1 DEF View
  <2>3. BooksTyped' /\ Issued(live.login.of) \in Login /\ Issued(live.login.of).of = live.login.of
    BY <1>1, ExchangeTyped DEF View, TypeInv, ClaudeRenews
  <2>4. live' \in View
    BY <1>1, <2>1, <2>3 DEF View
  <2> QED
    BY <2>1, <2>2, <2>3, <2>4, NoneFacts
<1> QED
  BY <1>1, <1>2 DEF WholeJob, RefreshOwn, JobWhole, LiveInv, Held, Whole, WholeView

\* A refresh that leaves Claude Code's login alone, and does not write it next.
LEMMA WholeRefreshKept ==
  ASSUME TypeInv, WholeJob, Whole, job # None, job.pc \in AskedSteps, live' = live,
         job'.pc \in AskedSteps, job'.of = job.of, WholeView(job'.before),
         \A l \in Held(job') : l.of = job.of,
         job'.pc = "writing" => live # None /\ live.named = job.of
  PROVE  WholeJob'
<1>1. job'.pc \notin {"importing", "credentials", "locked"}
  BY DEF AskedSteps
<1> QED
  BY <1>1 DEF WholeJob, RefreshOwn, JobWhole, LiveInv, Held, Whole, WholeView

LEMMA WholeRefresh ==
  ASSUME TypeInv, WholeJob, Own(cards'), RefreshStep
  PROVE  WholeJob'
<1> USE DEF pool, issuer, bounds
<1>w. Whole /\ \A v \in Reads : v \in Views /\ WholeView(v) /\ (v # None => v = live)
  <2>1. job = None \/ job.pc # "credentials"
    BY DEF RefreshStep, RefreshStart, RefreshSnapshot, RefreshCheck, RefreshRenew, RefreshRefused,
         RefreshRenewFails, RefreshRenewLost, RefreshAnswer, RefreshSettle, RefreshWrite,
         RefreshWriteFails, RefreshMerge, Refreshing
  <2>2. LiveInv
    BY DEF WholeJob
  <2> QED
    BY <2>1, <2>2, WholeReads DEF LiveInv
<1>a. job # None /\ job.pc \in AskedSteps =>
        /\ job \in Refresh /\ job.login \in Login /\ WholeView(job.before)
        /\ \A l \in Held(job) : l.of = job.of
  <2>1. AskedSteps \subseteq RefreshSteps
    BY DEF AskedSteps, RefreshSteps
  <2> QED
    BY <2>1, AskedFields DEF WholeJob, RefreshOwn, JobWhole
<1>1. ASSUME NEW a \in Accounts, RefreshStart(a) PROVE WholeJob'
  <2>1. PICK v \in Reads : job'.before = v /\ job'.pc = "snapping" /\ job' # None
    <3>1. PICK v \in Reads :
       job' = [pc |-> "snapping", of |-> a, before |-> v, inUse |-> FALSE,
               base |-> None, login |-> None, alternates |-> <<>>, rejected |-> {},
               renewed |-> FALSE, renewals |-> FALSE, left |-> 2,
               reloaded |-> FALSE, inLive |-> FALSE, result |-> "none"]
      BY <1>1 DEF RefreshStart
    <3>2. job' \in Refresh
      BY <1>w, <3>1 DEF Refresh
    <3> QED
      BY <3>1, <3>2, NoneFacts
  <2> QED
    BY <1>1, <1>w, <2>1
       DEF RefreshStart, WholeJob, RefreshOwn, JobWhole, LiveInv, AskedSteps, Whole, WholeView
<1>2. ASSUME RefreshSnapshot PROVE WholeJob'
  <2>1. job # None /\ job.pc = "snapping" /\ live' = live
    BY <1>2 DEF RefreshSnapshot, Refreshing
  <2>2. job \in Refresh /\ job.of \in Accounts /\ WholeView(job.before)
    BY <2>1, JobKinds DEF TypeInv, JobTyped, RefreshSteps, WholeJob, JobWhole
  <2>3. CASE job' = None
    BY <1>w, <2>1, <2>3 DEF WholeJob, RefreshOwn, JobWhole, LiveInv, Whole, WholeView
  <2>4. CASE job' # None
    <3> DEFINE c == cards'[job.of]
    <3>1. /\ c # None
          /\ \E b : job' = [job EXCEPT !.pc = "asking", !.base = c, !.login = c.login,
                     !.alternates = c.alternates, !.inUse = b]
      BY <1>2, <2>4 DEF RefreshSnapshot
    <3>2. \A l \in Held(c) : l.of = job.of
      BY <2>2, <3>1 DEF Own, Held
    <3> HIDE DEF c
    <3>3. /\ job'.pc = "asking" /\ job'.login = c.login /\ job'.of = job.of
          /\ job'.alternates = c.alternates /\ job'.before = job.before
      BY <2>2, <3>1 DEF Refresh
    <3> QED
      BY <1>w, <2>1, <2>2, <3>2, <3>3
         DEF WholeJob, RefreshOwn, JobWhole, LiveInv, Held, Whole, WholeView
  <2> QED
    BY <2>3, <2>4
<1>3. ASSUME RefreshCheck PROVE WholeJob'
  <2>1. job # None /\ job.pc \in AskedSteps /\ live' = live
    BY <1>3 DEF RefreshCheck, Refreshing, AskedSteps
  <2>2. PICK result : job' = [job EXCEPT !.pc = IF result = "none" THEN "renewing" ELSE "answered",
                                         !.result = result, !.left = @ - 1]
    BY <1>3 DEF RefreshCheck
  <2> DEFINE pc == IF result = "none" THEN "renewing" ELSE "answered"
             left == job.left - 1
  <2>3. job' = [job EXCEPT !.pc = pc, !.result = result, !.left = left]
    BY <2>2
  <2>4. pc \in AskedSteps /\ pc # "writing"
    BY DEF AskedSteps
  <2> HIDE DEF pc, left
  <2>5. /\ job'.pc = pc /\ job'.of = job.of /\ job'.before = job.before
        /\ job'.login = job.login /\ job'.alternates = job.alternates
    BY <1>a, <2>1, <2>3 DEF Refresh
  <2>6. Held(job') = Held(job)
    BY <2>5 DEF Held
  <2> QED
    BY <1>a, <1>w, <2>1, <2>4, <2>5, <2>6, WholeRefreshKept
<1>4. ASSUME \/ RefreshRefused \/ RefreshRenewFails \/ RefreshWriteFails \/ RefreshRenewLost
             \/ \E result \in {"ok", "failed"} : RefreshAnswer(result)
      PROVE  WholeJob'
  <2>1. job # None /\ job.pc \in AskedSteps /\ live' = live
    BY <1>4 DEF RefreshRefused, RefreshRenewFails, RefreshWriteFails, RefreshRenewLost,
                RefreshAnswer, Refreshing, AskedSteps
  <2>2. /\ job'.pc \in {"answered", "merging"} /\ job'.of = job.of /\ job'.before = job.before
        /\ job'.login = job.login /\ job'.alternates = job.alternates
    <3>1. CASE ~RefreshWriteFails
      <4>1. \E result : job' = [job EXCEPT !.pc = "answered", !.result = result]
        BY <1>4, <3>1 DEF RefreshRefused, RefreshRenewFails, RefreshRenewLost, RefreshAnswer
      <4> QED
        BY <1>a, <2>1, <4>1 DEF Refresh
    <3>2. CASE RefreshWriteFails
      <4>1. job' = [job EXCEPT !.pc = "merging", !.inLive = FALSE]
        BY <3>2 DEF RefreshWriteFails
      <4> QED
        BY <1>a, <2>1, <4>1 DEF Refresh
    <3> QED
      BY <3>1, <3>2
  <2>3. Held(job') = Held(job)
    BY <2>2 DEF Held
  <2>4. job'.pc \in AskedSteps /\ job'.pc # "writing"
    BY <2>2 DEF AskedSteps
  <2> QED
    BY <1>a, <1>w, <2>1, <2>2, <2>3, <2>4, WholeRefreshKept
<1>5. ASSUME RefreshRenew PROVE WholeJob'
  <2>1. job # None /\ job.pc \in AskedSteps /\ live' = live
    BY <1>5 DEF RefreshRenew, Refreshing, AskedSteps
  <2> DEFINE next == Issued(job.login.of)
  <2>2. next.of = job.login.of
    BY <1>5, <1>a, <2>1, ExchangeTyped DEF RefreshRenew, TypeInv
  <2>3. job' = [job EXCEPT !.pc = "asking", !.login = next, !.renewed = TRUE, !.renewals = TRUE]
    BY <1>5 DEF RefreshRenew
  <2> HIDE DEF next
  <2>4. /\ job'.pc = "asking" /\ job'.of = job.of /\ job'.before = job.before
        /\ job'.login = next /\ job'.alternates = job.alternates
    BY <1>a, <2>1, <2>3 DEF Refresh
  <2>5. \A l \in Held(job') : l.of = job.of
    BY <1>a, <2>1, <2>2, <2>4 DEF Held
  <2>6. job'.pc \in AskedSteps /\ job'.pc # "writing"
    BY <2>4 DEF AskedSteps
  <2> QED
    BY <1>a, <1>w, <2>1, <2>4, <2>5, <2>6, WholeRefreshKept
<1>6. ASSUME RefreshSettle PROVE WholeJob'
  <2>1. job # None /\ job.pc \in AskedSteps /\ live' = live
    BY <1>6 DEF RefreshSettle, Refreshing, AskedSteps
  <2>2. PICK v \in Reads : SettleWith(v)
    BY <1>6, SettleFacts
  <2>3. Left \in Seq(Login) /\ ToSet(Left) \subseteq ToSet(job.alternates)
    BY <1>6, SettleFacts
  <2>4. v \in Views /\ WholeView(v) /\ (v # None => v = live /\ v.named = v.login.of)
    BY <1>w DEF WholeView
  <2>5. ToSet(Push(Left, job.login)) \subseteq Held(job)
    BY <1>a, <2>1, <2>3, PushFacts DEF Held
  <2>6. Left # <<>> => Head(Left) \in ToSet(Left) /\ ToSet(Tail(Left)) \subseteq ToSet(Left)
    BY <2>3 DEF ToSet
  <2>7. \A l \in Held(job') : l \in Held(job) \/ (v # None /\ l = v.login /\ v.named = job.of)
    BY <2>2, <2>3, <2>5, <2>6 DEF SettleWith, Held
  <2>8. \A l \in Held(job') : l.of = job.of
    BY <1>a, <2>1, <2>4, <2>7
  <2>9. WholeView(job'.before) /\ job'.of = job.of /\ job'.pc \in AskedSteps
    BY <1>a, <2>1, <2>2, <2>4 DEF SettleWith, AskedSteps
  <2>10. ASSUME job'.pc = "writing" PROVE live # None /\ live.named = job.of
    <3>1. v # None /\ (v.named = None \/ v.named = job.of)
      BY <2>2, <2>10 DEF SettleWith
    <3>2. v.named # None
      <4>1. v.login.of \in Accounts
        BY <2>4, <3>1 DEF Views, View, Login
      <4> QED
        BY <2>4, <3>1, <4>1, NoneFacts
    <3> QED
      BY <2>4, <3>1, <3>2
  <2> QED
    BY <1>w, <2>1, <2>8, <2>9, <2>10, WholeRefreshKept
<1>7. ASSUME RefreshWrite PROVE WholeJob'
  <2>1. job # None /\ job.pc = "writing" /\ job.pc \in AskedSteps
    BY <1>7 DEF RefreshWrite, Refreshing, AskedSteps
  <2>2. live # None /\ live.named = job.of /\ job.login.of = job.of
    BY <1>a, <2>1 DEF WholeJob, JobWhole, Held
  <2>3. job' = [job EXCEPT !.pc = "merging", !.inLive = TRUE]
    BY <1>7 DEF RefreshWrite
  <2>4. /\ job'.pc = "merging" /\ job'.of = job.of /\ job'.before = job.before
        /\ job'.login = job.login /\ job'.alternates = job.alternates
    BY <1>a, <2>1, <2>3 DEF Refresh
  <2>5. Held(job') = Held(job)
    BY <2>4 DEF Held
  <2>6. live' = Shown(job.login, live.named)
    BY <1>7, <2>2 DEF RefreshWrite
  <2>7. WholeView(live)'
    BY <2>2, <2>6 DEF WholeView, Shown
  <2> QED
    BY <1>a, <2>1, <2>4, <2>5, <2>7
       DEF WholeJob, RefreshOwn, JobWhole, LiveInv, Held, Whole, WholeView
<1>8. ASSUME RefreshMerge PROVE WholeJob'
  BY <1>8, <1>w DEF RefreshMerge, WholeJob, RefreshOwn, JobWhole, LiveInv, Whole, WholeView
<1> QED
  BY <1>1, <1>2, <1>3, <1>4, <1>5, <1>6, <1>7, <1>8 DEF RefreshStep

LEMMA WholeSwitch ==
  ASSUME TypeInv, WholeJob, Own(cards), SwitchStep
  PROVE  WholeJob'
<1> USE DEF pool, issuer, bounds
<1>l. live \in Views /\ (job = None \/ job.pc # "credentials" => Whole)
  BY DEF TypeInv, RestTyped, WholeJob, LiveInv
<1>j. job # None /\ job.pc \in SwitchSteps =>
        /\ job \in Switch /\ job.of \in Accounts /\ job.before \in Views /\ WholeView(job.before)
  BY SwitchFields DEF WholeJob, JobWhole
\* A step after which the switch goes on.
<1>p. ASSUME job' # None, job'.pc \in SwitchSteps, WholeView(job'.before),
             job'.pc = "credentials" => live' # None /\ live'.login.of = job'.of,
             job'.pc \in {"locked", "credentials"} /\ job'.before # None
               => live' # None /\ live'.named = job'.before.named,
             job'.pc # "credentials" => WholeView(live')
      PROVE  WholeJob'
  <2>1. job'.pc \notin AskedSteps /\ job'.pc # "importing" /\ job'.pc # "writing"
    BY <1>p DEF SwitchSteps, AskedSteps
  <2> QED
    BY <1>p, <2>1 DEF WholeJob, RefreshOwn, JobWhole, LiveInv, Whole, WholeView
<1>e. ASSUME job' = None, WholeView(live') PROVE WholeJob'
  BY <1>e DEF WholeJob, RefreshOwn, JobWhole, LiveInv, Whole, WholeView
<1>1. ASSUME NEW a \in Accounts, SwitchStart(a) PROVE WholeJob'
  <2>1. PICK v \in Reads : job' = [pc |-> "listing", of |-> a, before |-> v]
    BY <1>1 DEF SwitchStart
  <2>2. v \in Views /\ WholeView(v) /\ Whole
    BY <1>1, WholeReads DEF SwitchStart, WholeJob
  <2>3. job' # None
    <3>1. job' \in Switch
      BY <2>1, <2>2 DEF Switch
    <3> QED
      BY <3>1, NoneFacts
  <2> QED
    BY <1>1, <1>p, <2>1, <2>2, <2>3 DEF SwitchStart, SwitchSteps, Whole
<1>2. ASSUME SwitchLists PROVE WholeJob'
  <2>1. job # None /\ job.pc = "listing" /\ job.pc \in SwitchSteps
    BY <1>2 DEF SwitchLists, Switching, SwitchSteps
  <2>2. /\ job' \in Switch /\ job'.pc = "listed" /\ job'.before = job.before
    BY <1>2, <1>j, <2>1 DEF SwitchLists, Switch
  <2> QED
    BY <1>2, <1>l, <1>j, <1>p, <2>1, <2>2, NoneFacts DEF SwitchLists, SwitchSteps, Whole
<1>3. ASSUME SwitchLock PROVE WholeJob'
  <2>1. job # None /\ job.pc = "listed" /\ job.pc \in SwitchSteps /\ live' = live
    BY <1>3 DEF SwitchLock, Switching, SwitchSteps
  <2>2. WholeView(live)
    BY <1>l, <2>1 DEF Whole
  <2>3. job' = None \/ job' = [job EXCEPT !.pc = "locked", !.before = live]
    BY <1>3 DEF SwitchLock
  <2>4. CASE job' = None
    BY <1>e, <2>1, <2>2, <2>4
  <2>5. CASE job' = [job EXCEPT !.pc = "locked", !.before = live]
    <3>1. job' \in Switch /\ job'.pc = "locked" /\ job'.before = live
      BY <1>l, <1>j, <2>1, <2>5 DEF Switch
    <3> QED
      BY <1>p, <2>1, <2>2, <3>1, NoneFacts DEF SwitchSteps
  <2> QED
    BY <2>3, <2>4, <2>5
<1>4. ASSUME SwitchCredentials PROVE WholeJob'
  <2>1. job # None /\ job.pc = "locked" /\ job.pc \in SwitchSteps
    BY <1>4 DEF SwitchCredentials, Switching, SwitchSteps
  <2>2. cards[job.of] \in Cards /\ cards[job.of].login \in Login
    BY <2>1, SwitchFields
  <2>3. cards[job.of].login.of = job.of
    BY <1>j, <2>1, <2>2, NoneFacts DEF Own, Cards
  <2>4. job' \in Switch /\ job'.pc = "credentials" /\ job'.before = job.before /\ job'.of = job.of
    BY <1>4, <1>j, <2>1 DEF SwitchCredentials, Switch
  <2> DEFINE login == cards[job.of].login
             named == IF live = None THEN None ELSE live.named
  <2>5. live' = Shown(login, named)
    BY <1>4 DEF SwitchCredentials
  <2>6. named \in Accounts \cup {None}
    BY <1>l DEF Views, View
  <2>7. live' \in View /\ live'.login = login /\ live'.named = named
    BY <2>2, <2>5, <2>6 DEF Shown, View
  <2>8. job.before # None => live # None /\ named = job.before.named
    BY <2>1 DEF WholeJob, JobWhole
  <2> HIDE DEF login, named
  <2>9. live'.login.of = job.of
    BY <2>3, <2>7 DEF login
  <2> QED
    BY <1>j, <1>p, <2>1, <2>4, <2>7, <2>8, <2>9, NoneFacts DEF SwitchSteps
<1>5. ASSUME SwitchAccount PROVE WholeJob'
  <2>1. job # None /\ job.pc = "credentials" /\ job.pc \in SwitchSteps
    BY <1>5 DEF SwitchAccount, Switching, SwitchSteps
  <2>2. live # None /\ live.login.of = job.of
    BY <2>1 DEF WholeJob, JobWhole
  <2>3. job' \in Switch /\ job'.pc = "account" /\ job'.before = job.before
    BY <1>5, <1>j, <2>1 DEF SwitchAccount, Switch
  <2>4. live' = Shown(live.login, job.of)
    BY <1>5, <2>2 DEF SwitchAccount
  <2>5. WholeView(live')
    BY <2>2, <2>4 DEF WholeView, Shown
  <2> QED
    BY <1>j, <1>p, <2>1, <2>3, <2>5, NoneFacts DEF SwitchSteps
<1>6. ASSUME SwitchSave PROVE WholeJob'
  BY <1>6, <1>l, <1>e DEF SwitchSave, Switching, Whole
<1>7. ASSUME SwitchFails PROVE WholeJob'
  <2>1. job # None /\ job.pc \in {"credentials", "account"} /\ job.pc \in SwitchSteps
    BY <1>7 DEF SwitchFails, Switching, SwitchSteps
  <2>2. live' = RolledBack(job, live) /\ job' = None
    BY <1>7 DEF SwitchFails
  <2>3. CASE job.before = None \/ live = None \/ job.pc = "account"
    BY <1>e, <1>j, <2>1, <2>2, <2>3 DEF RolledBack
  <2>4. CASE job.before # None /\ live # None /\ job.pc = "credentials"
    <3>1. live' = Shown(job.before.login, live.named)
      BY <2>2, <2>4 DEF RolledBack
    <3>2. live.named = job.before.named /\ job.before.named = job.before.login.of
      BY <1>j, <2>1, <2>4 DEF WholeJob, JobWhole, WholeView
    <3>3. WholeView(live')
      BY <3>1, <3>2 DEF WholeView, Shown
    <3> QED
      BY <1>e, <2>2, <3>3
  <2> QED
    BY <2>1, <2>3, <2>4
<1> QED
  BY <1>1, <1>2, <1>3, <1>4, <1>5, <1>6, <1>7 DEF SwitchStep

LEMMA WholeImport ==
  ASSUME TypeInv, WholeJob, ImportStep
  PROVE  WholeJob'
<1> USE DEF pool, issuer, bounds
<1>1. Whole /\ live' = live /\ live \in Views
  BY DEF ImportStep, ImportReads, ImportCurrent, ImportLogin, ImportJson, WholeJob, LiveInv,
         TypeInv, RestTyped
<1>2. CASE ImportReads
  <2>1. job' = [pc |-> "importing", view |-> live] /\ live \in View
    BY <1>1, <1>2 DEF ImportReads, Views
  <2>2. job' # None
    <3>1. job' \in Import
      BY <2>1 DEF Import
    <3> QED
      BY <3>1, NoneFacts
  <2>3. job'.pc = "importing" /\ job'.view = live
    BY <2>1
  <2> QED
    BY <1>1, <2>2, <2>3 DEF WholeJob, RefreshOwn, JobWhole, LiveInv, Whole, WholeView,
                            AskedSteps, RefreshSteps, SwitchSteps
<1>3. CASE ~ImportReads
  <2>1. job' = None
    BY <1>3 DEF ImportStep, ImportCurrent, ImportLogin, ImportJson
  <2> QED
    BY <1>1, <2>1 DEF WholeJob, RefreshOwn, JobWhole, LiveInv, Whole, WholeView
<1> QED
  BY <1>2, <1>3

\* What nothing disturbed has read is whole.
LEMMA WholeReadOwn ==
  ASSUME TypeInv, WholeJob
  PROVE  ReadOwn
<1> SUFFICES ASSUME job # None
             PROVE  /\ WholeView(IF job.pc = "importing" THEN job.view ELSE job.before)
                    /\ Asked(job.of) => \A l \in Held(job) : l.of = job.of
  BY DEF ReadOwn, Held
<1>1. job.pc \in RefreshSteps \cup SwitchSteps \/ job.pc = "importing"
  BY JobKinds DEF TypeInv, JobTyped
<1>2. job.pc \in RefreshSteps \cup SwitchSteps => job.pc # "importing"
  BY DEF RefreshSteps, SwitchSteps
<1> QED
  BY <1>1, <1>2 DEF WholeJob, JobWhole, RefreshOwn, Asked, AskedSteps

LEMMA WholeStep ==
  TypeInv /\ ListsSafe /\ WholeInv /\ [Next]_vars => WholeInv'
<1> SUFFICES ASSUME TypeInv, ListsSafe, WholeInv, [Next]_vars, Undisturbed'
             PROVE  Own(cards') /\ WholeJob'
  BY DEF WholeInv, WholeJob, Own
<1>1. CASE Next
  <2>1. Undisturbed /\ ~Crash /\ ~ClaudeSignsOut /\ \A a \in Accounts : ~ClaudeSignsIn(a)
    BY <1>1, UndisturbedBefore
  <2>2. Own(cards) /\ WholeJob /\ LiveInv
    BY <2>1 DEF WholeInv, WholeJob
  <2>3. Own(cards')
    BY <1>1, <2>2, WholeReadOwn, OwnStep
  <2>4. ListStep \/ SettingStep => UNCHANGED <<job, live>>
    BY DEF ListStep, ListReads, ListNames, ListFollows, SettingStep, SetRenewal, Release, Delete
  <2>5. WholeJob'
    BY <1>1, <2>1, <2>2, <2>3, <2>4, NextSteps, WholeJobStays, WholeRefresh, WholeSwitch,
       WholeImport, WholeRenews DEF ClaudeStep
  <2> QED
    BY <2>3, <2>5
<1>2. CASE UNCHANGED vars
  <2>1. Undisturbed /\ cards' = cards /\ UNCHANGED <<job, live>>
    BY <1>2 DEF vars, Undisturbed
  <2> QED
    BY <2>1, WholeJobStays DEF WholeInv, WholeJob
<1> QED
  BY <1>1, <1>2

\* At first every card has a login of its own, and Claude Code one of the account it
\* names.
LEMMA WholeInit == Init => WholeInv
<1> SUFFICES ASSUME Init PROVE WholeInv
  OBVIOUS
<1>1. ASSUME NEW a \in Accounts, cards[a] # None
      PROVE  \A l \in Held(cards[a]) : l.of = a
  <2>1. cards[a] = NewCard(Of(a, 1), FALSE, FALSE)
    BY <1>1 DEF Init
  <2>2. Held(cards[a]) = {Of(a, 1)}
    BY <2>1 DEF NewCard, Held, ToSet
  <2> QED
    BY <2>2 DEF Of
<1>2. WholeView(live)
  BY DEF Init, WholeView, Shown, Of
<1> QED
  BY <1>1, <1>2 DEF Init, WholeInv, Own, Held, RefreshOwn, JobWhole, LiveInv, Whole

\* As long as no list pairs two logins unseen, Claude Code's login is that of the
\* account it names whenever no switch is under way, rolled back or not.
THEOREM LiveStaysWhole == Spec /\ []ListsSafe => []LiveWhole
<1>1. TypeInv /\ WholeInv => LiveWhole
  BY DEF WholeInv, LiveWhole, LiveInv, Undisturbed
<1> QED
  BY <1>1, TypesHold, WholeInit, WholeStep, PTL DEF Spec

OwnKept == Own(cards) /\ Whole /\ (signIns' + crashes' = 0 \/ ReadOwn) => Own(cards')

\* As long as no list pairs two logins unseen, no card ever takes a login of another
\* account: neither following, nor importing, nor the answer of a refresh does.
THEOREM OwnLoginsOnly == Spec /\ []ListsSafe => OtherPoolLoginsStayOut
<1>1. TypeInv /\ ListsSafe /\ WholeInv /\ [Next]_vars => [OwnKept]_vars
  <2> SUFFICES ASSUME TypeInv, ListsSafe, WholeInv, Next, Own(cards), Whole,
                      signIns' + crashes' = 0 \/ ReadOwn
               PROVE  Own(cards')
    BY DEF OwnKept
  <2>1. CASE ReadOwn
    BY <2>1, OwnStep DEF LiveInv
  <2>2. CASE signIns' + crashes' = 0
    <3>1. Undisturbed'
      <4>1. TypeInv'
        BY TypeStep
      <4>2. signIns' \in Nat /\ crashes' \in Nat
        BY <4>1, ClaudeCounts DEF TypeInv, RestTyped
      <4>3. \A m, n \in Nat : m + n = 0 => n + m = 0
        OBVIOUS
      <4>4. crashes' + signIns' = 0
        BY <2>2, <4>2, <4>3, Zenon
      <4> QED
        BY <4>4 DEF Undisturbed
    <3> QED
      BY <3>1, WholeStep DEF WholeInv, Own
  <2> QED
    BY <2>1, <2>2
<1>2. [][OwnKept]_vars => OtherPoolLoginsStayOut
  BY DEF OtherPoolLoginsStayOut, OwnKept
<1> QED
  BY <1>1, <1>2, TypesHold, WholeInit, WholeStep, PTL DEF Spec

-----------------------------------------------------------------------------
(* A renewal reaches Claude Code.                                          *)

\* Claude Code has another login of the refreshed account than the one compared.
Moved == job.before # None /\ live # None /\ live.named = job.of /\ live.login # job.before.login

\* A login that Claude Code moved to is none the refresh saw rejected, so that it is
\* seen to have changed; one the refresh renewed is not the one its card had, and is
\* not spent; and what Claude Code has when that is merged was not spent by Copool.
RefreshRenews ==
  /\ job.pc = "snapping" => ~job.renewed
  /\ job.pc = "snapping" /\ Moved /\ cards[job.of] # None =>
       live.login \notin cards[job.of].rejected
  /\ job.pc = "renewing" => job.base.renewal # "never"
  /\ job.pc \in AskedSteps /\ job.renewed =>
       job.login \notin rotated /\ job.login # job.base.login /\ job.base.renewal # "never"
  /\ job.pc \in {"asking", "renewing", "answered"} /\ Moved =>
       live.login \notin job.rejected \cup job.base.rejected
  /\ (job.pc = "renewing" \/ (job.pc = "answered" /\ Refusal)) /\ Moved => live.login # job.login
  /\ job.pc = "merging" /\ job.renewed /\ job.before # None /\ live # None
     /\ live.named = job.of => live.login \notin rotated

RotatedKnown == \A l \in rotated : Known(l)
BaseKnown == job # None /\ job.pc \in AskedSteps => Known(job.base.login)
RenewalInv ==
  RotatedKnown /\ BaseKnown /\ (faults = 0 /\ ~Unreadable /\ job # None => RefreshRenews)

\* What Copool exchanged, and the login a card had, stay given out.
LEMMA RotatedGrows ==
  ASSUME TypeInv, RejectionsInv, RenewalInv, Grown, rotated' \subseteq rotated \cup {job.login},
         rotated' # rotated => job # None /\ job.pc \in AskedSteps
  PROVE  RotatedKnown'
<1>1. rotated \subseteq Login /\ \A l \in rotated : KnownAfter(l)
  BY KnownGrows DEF TypeInv, BooksTyped, RenewalInv, RotatedKnown
<1>2. ASSUME job # None, job.pc \in AskedSteps PROVE KnownAfter(job.login)
  BY <1>2, AskedFields, KnownGrows DEF RejectionsInv, JobKnown, Held
<1> QED
  BY <1>1, <1>2 DEF RotatedKnown, Known, KnownAfter

\* The card a refresh read does not change while it goes on.
LEMMA BaseStays ==
  ASSUME TypeInv, RenewalInv, Grown,
         job' # None /\ job'.pc \in AskedSteps =>
           job # None /\ job.pc \in AskedSteps /\ job'.base = job.base
  PROVE  BaseKnown'
<1> SUFFICES ASSUME job' # None, job'.pc \in AskedSteps PROVE KnownAfter(job'.base.login)
  BY DEF BaseKnown, Known, KnownAfter
<1>1. job.base.login \in Login
  BY AskedFields DEF Card
<1>2. KnownAfter(job.base.login)
  BY <1>1, KnownGrows DEF RenewalInv, BaseKnown
<1> QED
  BY <1>2

\* Nothing that a refresh knows about is issued again.
LEMMA NewLoginIsUnknown ==
  ASSUME TypeInv, RejectionsInv, RenewalInv, NEW l \in Login, ~Known(l), job # None
  PROVE  /\ l \notin rotated
         /\ job.pc \in AskedSteps =>
              /\ l \notin job.rejected \cup job.base.rejected
              /\ l # job.login /\ l # job.base.login
         /\ \A a \in Accounts : cards[a] # None => l \notin cards[a].rejected
  BY DEF RejectionsInv, JobKnown, CardsKnown, RenewalInv, RotatedKnown, BaseKnown, Held

\* A step that leaves alone what holds operations: Claude Code may have a new login.
LEMMA RenewalStays ==
  ASSUME TypeInv, RejectionsInv, RenewalInv, Grown, job' = job, rotated' = rotated,
         faults' = 0 => faults = 0,
         live' = live \/ live' = None \/ (live' # None /\ live'.login \in Login /\ ~Known(live'.login)),
         \A a \in Accounts : cards'[a] # None /\ job # None =>
           cards[a] # None /\ cards'[a].rejected = cards[a].rejected
  PROVE  RenewalInv'
<1>1. RotatedKnown' /\ BaseKnown'
  BY RotatedGrows, BaseStays
<1>2. ASSUME faults' = 0, ~Unreadable, job' # None PROVE RefreshRenews'
  <2>1. RefreshRenews /\ job # None
    BY <1>2 DEF RenewalInv
  <2>2. job.pc = "snapping" => job.of \in Accounts
    BY <2>1, JobKinds DEF TypeInv, JobTyped, RefreshSteps
  <2>3. CASE live' = live
    BY <2>1, <2>2, <2>3 DEF RefreshRenews, Moved, Refusal
  <2>4. CASE live' = None
    BY <2>1, <2>4 DEF RefreshRenews, Moved, Refusal
  <2>5. CASE live' # None /\ live'.login \in Login /\ ~Known(live'.login)
    <3> DEFINE l == live'.login
    <3>1. l \in Login /\ ~Known(l)
      BY <2>5
    <3>2. /\ l \notin rotated
          /\ job.pc \in AskedSteps => l \notin job.rejected \cup job.base.rejected /\ l # job.login
          /\ \A a \in Accounts : cards[a] # None => l \notin cards[a].rejected
      <4> HIDE DEF l
      <4> QED BY <2>1, <3>1, NewLoginIsUnknown
    <3> QED
      BY <2>1, <2>2, <3>2 DEF RefreshRenews, Moved, Refusal, AskedSteps
  <2> QED
    BY <2>3, <2>4, <2>5
<1> QED
  BY <1>1, <1>2 DEF RenewalInv

\* No refresh holds operations after the step.
LEMMA RenewalEnds ==
  ASSUME TypeInv, RejectionsInv, RenewalInv, Grown, rotated' = rotated,
         job' # None => job'.pc \notin RefreshSteps
  PROVE  RenewalInv'
<1>1. job' # None => job'.pc \notin AskedSteps /\ job'.pc # "snapping"
  BY DEF AskedSteps, RefreshSteps
<1>2. RotatedKnown' /\ BaseKnown'
  BY <1>1, RotatedGrows, BaseStays
<1>3. job' # None => RefreshRenews'
  BY <1>1 DEF RefreshRenews, AskedSteps
<1> QED
  BY <1>2, <1>3 DEF RenewalInv

\* A step of a refresh that leaves the pool and the issuer alone, and what it uses.
LEMMA RenewalGoesOn ==
  ASSUME TypeInv, RejectionsInv, RenewalInv, UNCHANGED <<issuer, live>>,
         faults' = 0 => faults = 0, job # None, job.pc \in AskedSteps,
         job' # None, job'.pc \in AskedSteps \ {"merging"}, job'.of = job.of, job'.base = job.base,
         job'.before = job.before, job'.rejected = job.rejected, job'.login = job.login,
         job'.renewed = job.renewed,
         job'.pc \in {"asking", "renewing", "answered"} => job.pc \in {"asking", "renewing", "answered"},
         job'.pc = "renewing" => job.base.renewal # "never",
         /\ job'.pc = "renewing" \/ (job'.pc = "answered" /\ Refusal')
         /\ faults = 0 /\ ~Unreadable /\ Moved
         => live.login # job.login
  PROVE  RenewalInv'
<1>1. Grown
  BY BooksStay DEF issuer
<1>2. RotatedKnown' /\ BaseKnown'
  BY <1>1, RotatedGrows, BaseStays DEF issuer
<1>3. ASSUME faults' = 0, ~Unreadable PROVE RefreshRenews'
  <2>1. RefreshRenews /\ rotated' = rotated /\ faults = 0
    BY <1>3 DEF RenewalInv, issuer
  <2>2. Moved' <=> Moved
    BY DEF Moved
  <2> QED
    BY <1>3, <2>1, <2>2 DEF RefreshRenews, AskedSteps
<1> QED
  BY <1>2, <1>3 DEF RenewalInv

\* The rejected logins of a card stay what they were, unless the card is given up.
LEMMA RejectedStay ==
  ASSUME NEW v, PoolTakes(v), job' # None
  PROVE  \A a \in Accounts : cards'[a] # None =>
           cards[a] # None /\ cards'[a].rejected = cards[a].rejected
  BY DEF PoolTakes, Takes

\* The steps of lists, switches, imports, settings and Claude Code.
LEMMA RenewalOthers ==
  ASSUME TypeInv, RejectionsInv, RenewalInv,
         ListStep \/ SwitchStep \/ ImportStep \/ SettingStep \/ ClaudeStep
  PROVE  RenewalInv'
<1> USE DEF pool, issuer, bounds
<1>0. PoolTyped /\ BooksTyped /\ RestTyped /\ Reads \subseteq Views
  BY ReadsTyped DEF TypeInv
<1>1. ASSUME ListStep PROVE RenewalInv'
  <2>1. Grown /\ rotated' = rotated /\ job' = job /\ live' = live /\ faults' = faults
    BY <1>1, BooksStay DEF ListStep, ListReads, ListNames, ListFollows
  <2>2. \A a \in Accounts : cards'[a] # None /\ job # None =>
          cards[a] # None /\ cards'[a].rejected = cards[a].rejected
    <3>1. PICK l \in Lists : ListReads(l) \/ ListNames(l) \/ ListFollows(l)
      BY <1>1 DEF ListStep
    <3>2. CASE ListFollows(l)
      <4>1. ListView(l) \in Views
        BY <3>2, ListTyped DEF ListFollows
      <4>2. PoolTakes(ListView(l))
        BY <1>0, <3>2, <4>1, PoolFollows DEF ListFollows, Follow, ListView
      <4> QED
        BY <2>1, <4>2, RejectedStay
    <3> QED
      BY <3>1, <3>2 DEF ListReads, ListNames
  <2> QED
    BY <2>1, <2>2, RenewalStays
<1>2. ASSUME SwitchStep PROVE RenewalInv'
  <2>1. Grown /\ rotated' = rotated
    BY <1>2, BooksStay DEF SwitchStep, SwitchStart, SwitchLists, SwitchLock, SwitchCredentials,
                           SwitchAccount, SwitchSave, SwitchFails
  <2>2. job' # None => job'.pc \notin RefreshSteps
    <3>1. ASSUME NEW a \in Accounts, SwitchStart(a) PROVE job'.pc = "listing"
      BY <3>1 DEF SwitchStart
    <3>2. job # None /\ job.pc \in SwitchSteps => job \in Switch
      BY SwitchFields
    <3>3. CASE SwitchLists
      BY <3>2, <3>3 DEF SwitchLists, Switching, SwitchSteps, Switch, RefreshSteps
    <3>4. CASE SwitchLock
      <4>1. job \in Switch
        BY <3>2, <3>4 DEF SwitchLock, Switching, SwitchSteps
      <4>2. job' = None \/ job' = [job EXCEPT !.pc = "locked", !.before = live]
        BY <3>4 DEF SwitchLock
      <4> QED
        BY <4>1, <4>2 DEF Switch, RefreshSteps
    <3>5. CASE SwitchCredentials \/ SwitchAccount
      BY <3>2, <3>5 DEF SwitchCredentials, SwitchAccount, Switching, SwitchSteps, Switch, RefreshSteps
    <3>6. CASE SwitchSave \/ SwitchFails
      BY <3>6 DEF SwitchSave, SwitchFails
    <3> QED
      BY <1>2, <3>1, <3>3, <3>4, <3>5, <3>6 DEF SwitchStep, RefreshSteps
  <2> QED
    BY <2>1, <2>2, RenewalEnds
<1>3. ASSUME ImportStep PROVE RenewalInv'
  <2>1. rotated' = rotated /\ (job' # None => job'.pc \notin RefreshSteps)
    <3>1. CASE ImportReads
      <4>1. job'.pc = "importing"
        BY <3>1 DEF ImportReads
      <4> QED
        BY <3>1, <4>1 DEF ImportReads, RefreshSteps
    <3>2. ASSUME NEW defer \in BOOLEAN, ImportCurrent(defer)
          PROVE  rotated' = rotated /\ job' = None
      BY <3>2 DEF ImportCurrent
    <3>3. ASSUME NEW a \in Accounts, NEW defer \in BOOLEAN, NEW gen \in Gen,
                 ImportLogin(a, defer) \/ ImportJson(a, gen, defer)
          PROVE  rotated' = rotated /\ job' = None
      BY <3>3 DEF ImportLogin, ImportJson
    <3>4. CASE \E a \in Accounts, defer \in BOOLEAN : ImportLogin(a, defer)
      <4>1. 1 \in Gen
        BY ClaudeCounts DEF Gen
      <4> QED
        BY <3>3, <3>4, <4>1
    <3> QED
      BY <1>3, <3>1, <3>2, <3>3, <3>4 DEF ImportStep
  <2>2. Grown
    <3>1. ASSUME NEW a \in Accounts, NEW defer, ImportLogin(a, defer) PROVE Grown
      <4>1. issued' = [issued EXCEPT ![a] = @ + 1] /\ issued[a] < MaxGen /\ UNCHANGED <<spent, rotated>>
        BY <3>1 DEF ImportLogin
      <4>2. issued[a] \in Int /\ issued[a] + 1 \in Gen
        BY <1>0, <4>1, ClaudeCounts DEF BooksTyped, Gen
      <4>3. BooksTyped'
        BY <1>0, <4>1, <4>2 DEF BooksTyped
      <4>4. \A b \in Accounts : issued[b] \in Int
        BY <1>0 DEF BooksTyped, Gen
      <4>5. \A b \in Accounts : issued[b] <= issued'[b]
        BY <1>0, <4>1, <4>4 DEF BooksTyped
      <4> QED
        BY <4>3, <4>5 DEF Grown
    <3>2. ASSUME ~ \E a \in Accounts, defer \in BOOLEAN : ImportLogin(a, defer) PROVE Grown
      BY <1>3, <3>2, BooksStay DEF ImportStep, ImportReads, ImportCurrent, ImportJson
    <3> QED
      BY <3>1, <3>2
  <2> QED
    BY <2>1, <2>2, RenewalEnds
<1>4. ASSUME SettingStep PROVE RenewalInv'
  <2>1. Grown /\ rotated' = rotated /\ job' = job /\ live' = live /\ faults' = faults
    BY <1>4, BooksStay DEF SettingStep, SetRenewal, Release, Delete
  <2>2. ASSUME NEW a \in Accounts, Delete(a) PROVE RenewalInv'
    <3>1. \A b \in Accounts : cards'[b] # None => cards'[b] = cards[b]
      BY <1>0, <2>2, DeleteStep
    <3> QED
      BY <2>1, <3>1, RenewalStays
  <2>3. ASSUME NEW a \in Accounts, NEW choice \in Renewal, SetRenewal(a, choice) \/ Release(a)
        PROVE  RenewalInv'
    <3>1. PoolTakes(None)
      BY <1>0, <2>3, SettingsStep
    <3> QED
      BY <2>1, <3>1, RejectedStay, RenewalStays
  <2>4. "never" \in Renewal /\ RenewalChoices \subseteq Renewal
    BY ClaudeChoices DEF Renewal
  <2> QED
    BY <1>4, <2>2, <2>3, <2>4 DEF SettingStep
<1>5. ASSUME ClaudeStep PROVE RenewalInv'
  <2>1. ASSUME Crash PROVE RenewalInv'
    BY <2>1, BooksStay, RenewalEnds DEF Crash
  <2>2. ASSUME ClaudeSignsOut PROVE RenewalInv'
    BY <2>2, BooksStay, RenewalStays DEF ClaudeSignsOut
  <2>3. ASSUME ClaudeRenews PROVE RenewalInv'
    <3>1. live \in View /\ live.login \in Login
      BY <1>0, <2>3 DEF RestTyped, ClaudeRenews, Views, View
    <3> DEFINE next == Issued(live.login.of)
    <3>2. Grown /\ next \in Login /\ ~Known(next)
      BY <2>3, <3>1, ExchangeGrows DEF ClaudeRenews
    <3>3. live' # None /\ live'.login = next
      <4>1. live' = [live EXCEPT !.login = next]
        BY <2>3 DEF ClaudeRenews
      <4> HIDE DEF next
      <4>2. live' \in View /\ live'.login = next
        BY <3>1, <3>2, <4>1 DEF View
      <4> QED
        BY <4>2, NoneFacts
    <3> HIDE DEF next
    <3> QED
      BY <2>3, <3>2, <3>3, RenewalStays DEF ClaudeRenews
  <2>4. ASSUME NEW a \in Accounts, ClaudeSignsIn(a) PROVE RenewalInv'
    <3>1. issued' = [issued EXCEPT ![a] = @ + 1] /\ issued[a] < MaxGen /\ UNCHANGED <<spent, rotated>>
      BY <2>4 DEF ClaudeSignsIn
    <3>2. issued[a] \in Int /\ issued[a] + 1 \in Gen
      BY <1>0, <3>1, ClaudeCounts DEF BooksTyped, Gen
    <3>3. BooksTyped'
      BY <1>0, <3>1, <3>2 DEF BooksTyped
    <3>4. \A b \in Accounts : issued[b] \in Int
      BY <1>0 DEF BooksTyped, Gen
    <3>5. \A b \in Accounts : issued[b] <= issued'[b]
      BY <1>0, <3>1, <3>4 DEF BooksTyped
    <3>6. Grown
      BY <3>3, <3>5 DEF Grown
    <3>7. Issued(a) \in Login /\ ~Known(Issued(a))
      BY <3>2 DEF Issued, Of, Login, Known
    <3>8. live'.login = Issued(a) /\ live' \in View
      BY <2>4, <3>7 DEF ClaudeSignsIn, Shown, View
    <3> QED
      BY <2>4, <3>6, <3>7, <3>8, NoneFacts, RenewalStays DEF ClaudeSignsIn
  <2> QED
    BY <1>5, <2>1, <2>2, <2>3, <2>4 DEF ClaudeStep
<1> QED
  BY <1>1, <1>2, <1>3, <1>4, <1>5

\* The steps of a refresh itself.
LEMMA RenewalSteps ==
  ASSUME TypeInv, RejectionsInv, RenewalInv, RefreshStep
  PROVE  RenewalInv'
<1> USE DEF pool, issuer, bounds
<1>0. /\ PoolTyped /\ BooksTyped /\ RestTyped /\ Reads \subseteq Views
      /\ ~Unreadable => Reads = {live}
      /\ faults \in Nat
  BY ReadsTyped DEF TypeInv, Reads, RestTyped
<1>i. ASSUME RotatedKnown', BaseKnown', faults' = 0 /\ ~Unreadable /\ job' # None => RefreshRenews'
      PROVE  RenewalInv'
  BY <1>i DEF RenewalInv
<1>1. ASSUME NEW a \in Accounts, RefreshStart(a) PROVE RenewalInv'
  <2>1. PICK v \in Reads :
          job'.pc = "snapping" /\ job'.of = a /\ job'.before = v /\ ~job'.renewed
    BY <1>1 DEF RefreshStart
  <2>2. Grown /\ rotated' = rotated /\ live' = live /\ job'.pc \notin AskedSteps
    BY <1>1, <2>1, BooksStay DEF RefreshStart, AskedSteps
  <2>3. RotatedKnown' /\ BaseKnown'
    BY <2>2, RotatedGrows, BaseStays
  <2>4. ~Unreadable => ~Moved'
    BY <1>0, <2>1, <2>2 DEF Moved
  <2>5. ~Unreadable => RefreshRenews'
    BY <2>1, <2>4 DEF RefreshRenews, AskedSteps
  <2> QED
    BY <1>i, <2>3, <2>5
<1>2. ASSUME RefreshSnapshot PROVE RenewalInv'
  <2>1. job # None /\ job.pc = "snapping" /\ Grown /\ UNCHANGED <<live, rotated, faults>>
    BY <1>2, BooksStay DEF RefreshSnapshot, Refreshing
  <2>2. job \in Refresh /\ job.before \in Views /\ job.of \in Accounts
    BY <2>1, JobKinds DEF TypeInv, JobTyped, RefreshSteps
  <2>3. PoolTakes(job.before)
    BY <1>2, <2>2, PoolFollows DEF RefreshSnapshot, TypeInv
  <2>4. CASE job' = None
    BY <2>1, <2>4, RenewalEnds
  <2>5. CASE job' # None
    <3> DEFINE c == cards'[job.of]
    <3>1. /\ c # None
          /\ \E b : job' = [job EXCEPT !.pc = "asking", !.base = c, !.login = c.login,
                     !.alternates = c.alternates, !.inUse = b]
      <4> DEFINE f == Followed(cards, current, job.before)
                 inUse == f.current = job.of
      <4>1. cards' = f.cards
        BY <1>2 DEF RefreshSnapshot
      <4>2. /\ f.cards[job.of] # None
            /\ job' = [job EXCEPT !.pc = "asking", !.base = f.cards[job.of],
                         !.login = f.cards[job.of].login,
                         !.alternates = f.cards[job.of].alternates,
                         !.inUse = inUse]
        BY <1>2, <2>5 DEF RefreshSnapshot
      <4> HIDE DEF f, inUse
      <4> QED
        BY <4>1, <4>2, Zenon
    <3>2. c \in Card /\ cards[job.of] # None /\ c.rejected = cards[job.of].rejected
      BY <2>2, <2>3, <2>5, <3>1 DEF PoolTakes, Pools, Cards, Takes
    <3>3. KnownAfter(c.login)
      <4>1. KnownViewAfter(job.before)
        BY <2>1, <2>2, ViewKnown DEF RejectionsInv, JobKnown, RefreshSteps
      <4>2. CardsKnown'
        BY <2>1, <2>2, <2>3, <4>1, PoolKnown
      <4>3. \A l \in Held(c) : KnownAfter(l)
        BY <2>2, <3>1, <4>2 DEF CardsKnown, Known, KnownAfter
      <4> HIDE DEF c
      <4> QED
        BY <4>3 DEF Held
    <3> HIDE DEF c
    <3>4. /\ job'.pc = "asking" /\ job'.base = c /\ job'.login = c.login /\ job'.of = job.of
          /\ job'.before = job.before /\ job'.rejected = job.rejected /\ job'.renewed = job.renewed
      BY <2>2, <3>1 DEF Refresh
    <3>5. RotatedKnown' /\ BaseKnown'
      BY <2>1, <3>3, <3>4, RotatedGrows DEF BaseKnown, Known, KnownAfter
    <3>6. ASSUME faults' = 0, ~Unreadable PROVE RefreshRenews'
      <4>1. RefreshRenews /\ job.rejected = {}
        BY <2>1, <3>6 DEF RenewalInv, RejectionsInv, JobKnown
      <4>2. Moved' <=> Moved
        BY <2>1, <3>4 DEF Moved
      <4> QED
        BY <2>1, <3>2, <3>4, <4>1, <4>2 DEF RefreshRenews
    <3> QED
      BY <1>i, <3>5, <3>6
  <2> QED
    BY <2>4, <2>5
<1>3. ASSUME RefreshCheck PROVE RenewalInv'
  <2>1. /\ job # None /\ job.pc = "asking" /\ job.pc \in AskedSteps
        /\ UNCHANGED <<pool, live, issuer, faults>>
    BY <1>3 DEF RefreshCheck, Refreshing, AskedSteps
  <2>2. job \in Refresh /\ job.left - 1 \in 0..2
    BY <1>3, <2>1, AskedFields DEF RefreshCheck
  <2>3. PICK v \in Reads, result \in {"none", "failed", "refused"} :
          /\ job' = [job EXCEPT !.pc = IF result = "none" THEN "renewing" ELSE "answered",
                                !.result = result, !.left = @ - 1]
          /\ result # "failed" => ~Changed(job, v)
          /\ result = "none" => job.base.renewal # "never"
    BY <1>3 DEF RefreshCheck
  <2> DEFINE pc == IF result = "none" THEN "renewing" ELSE "answered"
             left == job.left - 1
  <2>4. job' = [job EXCEPT !.pc = pc, !.result = result, !.left = left]
    BY <2>3
  <2>5. left \in 0..2 /\ pc \in {"renewing", "answered"} /\ (pc = "renewing" <=> result = "none")
    BY <2>2
  <2> HIDE DEF pc, left
  <2>6. /\ job' \in Refresh /\ job'.pc = pc /\ job'.of = job.of /\ job'.base = job.base
        /\ job'.before = job.before /\ job'.rejected = job.rejected /\ job'.login = job.login
        /\ job'.renewed = job.renewed /\ job'.result = result
    BY <2>2, <2>4, <2>5 DEF Refresh
  <2>7. ASSUME pc = "renewing" \/ (pc = "answered" /\ result = "refused"),
               faults = 0, ~Unreadable, Moved
        PROVE  live.login # job.login
    <3>1. live.login \notin job.rejected \cup job.base.rejected
      BY <2>1, <2>7 DEF RenewalInv, RefreshRenews
    <3>2. Changed(job, live)
      BY <2>7, <3>1 DEF Changed, Moved
    <3>3. v = live /\ result # "failed"
      BY <1>0, <2>5, <2>7
    <3> QED
      BY <2>3, <3>2, <3>3
  <2>8. job' # None
    BY <2>6, NoneFacts
  <2> QED
    BY <2>1, <2>3, <2>5, <2>6, <2>7, <2>8, RenewalGoesOn DEF Refusal, AskedSteps
<1>4. ASSUME RefreshRefused \/ RefreshRenewFails
             \/ \E result \in {"ok", "failed"} : RefreshAnswer(result)
      PROVE RenewalInv'
  <2>1. /\ job # None /\ job.pc \in {"asking", "renewing"} /\ job.pc \in AskedSteps
        /\ UNCHANGED <<pool, live, issuer, faults>>
    BY <1>4 DEF RefreshRefused, RefreshRenewFails, RefreshAnswer, Refreshing, AskedSteps
  <2>2. job \in Refresh
    BY <2>1, AskedFields
  <2>3. PICK result \in {"ok", "failed", "refused"} :
          /\ job' = [job EXCEPT !.pc = "answered", !.result = result]
          /\ result = "refused" => job.pc = "renewing"
    BY <1>4 DEF RefreshRefused, RefreshRenewFails, RefreshAnswer, Refreshing
  <2>4. /\ job' \in Refresh /\ job'.pc = "answered" /\ job'.of = job.of /\ job'.base = job.base
        /\ job'.before = job.before /\ job'.rejected = job.rejected /\ job'.login = job.login
        /\ job'.renewed = job.renewed /\ job'.result = result
    BY <2>2, <2>3 DEF Refresh
  <2>5. ASSUME result = "refused", faults = 0, ~Unreadable, Moved
        PROVE  live.login # job.login
    BY <2>1, <2>3, <2>5 DEF RenewalInv, RefreshRenews
  <2>6. job' # None
    BY <2>4, NoneFacts
  <2> QED
    BY <2>1, <2>4, <2>5, <2>6, RenewalGoesOn DEF Refusal, AskedSteps
<1>5. ASSUME RefreshRenew PROVE RenewalInv'
  <2>1. /\ job # None /\ job.pc = "renewing" /\ job.pc \in AskedSteps
        /\ rotated' = rotated \cup {job.login} /\ UNCHANGED <<live, faults>>
    BY <1>5 DEF RefreshRenew, Refreshing, AskedSteps
  <2>2. job \in Refresh /\ job.login \in Login /\ job.base \in Card
    BY <2>1, AskedFields
  <2> DEFINE next == Issued(job.login.of)
  <2>3. Grown /\ next \in Login /\ \A k \in Login : Known(k) => k # next
    BY <1>5, <2>2, ExchangeGrows DEF RefreshRenew
  <2>4. job' = [job EXCEPT !.pc = "asking", !.login = next, !.renewed = TRUE, !.renewals = TRUE]
    BY <1>5 DEF RefreshRenew
  <2> HIDE DEF next
  <2>5. /\ job' \in Refresh /\ job'.pc = "asking" /\ job'.of = job.of /\ job'.base = job.base
        /\ job'.before = job.before /\ job'.rejected = job.rejected /\ job'.login = next
    BY <2>2, <2>3, <2>4 DEF Refresh
  <2>6. next \notin rotated' /\ next # job.base.login
    <3>1. job.base.login \in Login /\ rotated \subseteq Login
      BY <1>0, <2>2 DEF Card, BooksTyped
    <3>2. Known(job.base.login) /\ Known(job.login) /\ \A l \in rotated : Known(l)
      BY <2>1 DEF RenewalInv, BaseKnown, RotatedKnown, RejectionsInv, JobKnown, Held
    <3> QED
      BY <2>1, <2>2, <2>3, <3>1, <3>2
  <2>7. RotatedKnown' /\ BaseKnown'
    BY <2>1, <2>3, <2>5, RotatedGrows, BaseStays
  <2>8. ASSUME faults' = 0, ~Unreadable PROVE RefreshRenews'
    <3>1. RefreshRenews
      BY <2>1, <2>8 DEF RenewalInv
    <3>2. Moved' <=> Moved
      BY <2>1, <2>5 DEF Moved
    <3> QED
      BY <2>1, <2>5, <2>6, <3>1, <3>2 DEF RefreshRenews
  <2> QED
    BY <1>i, <2>7, <2>8
<1>6. ASSUME RefreshRenewLost \/ RefreshWriteFails PROVE RenewalInv'
  <2>1. /\ job # None /\ job.pc \in {"renewing", "writing"} /\ job.pc \in AskedSteps
        /\ faults' # 0 /\ rotated' \subseteq rotated \cup {job.login}
    BY <1>0, <1>6 DEF RefreshRenewLost, RefreshWriteFails, Refreshing, AskedSteps
  <2>2. job \in Refresh /\ job.login \in Login
    BY <2>1, AskedFields
  <2>3. Grown
    <3>1. CASE RefreshRenewLost
      BY <2>2, <3>1, ExchangeGrows DEF RefreshRenewLost
    <3>2. CASE RefreshWriteFails
      BY <3>2, BooksStay DEF RefreshWriteFails
    <3> QED
      BY <1>6, <3>1, <3>2
  <2>4. job'.base = job.base
    <3>1. CASE RefreshRenewLost
      BY <2>2, <3>1 DEF RefreshRenewLost, Refresh
    <3>2. CASE RefreshWriteFails
      BY <2>2, <3>2 DEF RefreshWriteFails, Refresh
    <3> QED
      BY <1>6, <3>1, <3>2
  <2>5. RotatedKnown' /\ BaseKnown'
    BY <2>1, <2>3, <2>4, RotatedGrows, BaseStays
  <2> QED
    BY <1>i, <2>1, <2>5
<1>7. ASSUME RefreshSettle PROVE RenewalInv'
  <2>1. /\ job # None /\ job.pc = "answered" /\ job.pc \in AskedSteps
        /\ Grown /\ UNCHANGED <<live, rotated, faults>>
    BY <1>7, BooksStay DEF RefreshSettle, Refreshing, AskedSteps
  <2>2. PICK v \in Reads : SettleWith(v)
    BY <1>7, SettleFacts
  <2>3. /\ job'.of = job.of /\ job'.base = job.base /\ job'.rejected = SettleRejected
    BY <2>2 DEF SettleWith
  <2>4. RotatedKnown' /\ BaseKnown'
    BY <2>1, <2>3, RotatedGrows, BaseStays
  <2>5. ASSUME faults' = 0, ~Unreadable PROVE RefreshRenews'
    <3>1. RefreshRenews /\ v = live
      BY <1>0, <2>1, <2>5 DEF RenewalInv
    <3>2. ASSUME Moved PROVE ChangedTo(live)
      <4>1. live.login \notin job.rejected \cup job.base.rejected
        BY <2>1, <3>1, <3>2 DEF RefreshRenews
      <4>2. Refusal => live.login # job.login
        BY <2>1, <3>1, <3>2 DEF RefreshRenews
      <4> QED
        BY <3>2, <4>1, <4>2 DEF ChangedTo, SettleRejected, Moved
    <3>3. CASE job'.login = v.login /\ job'.before = v /\ job'.pc \in {"asking", "merging"}
               /\ ~job'.renewed
      <4>1. ~Moved'
        BY <2>1, <3>1, <3>3 DEF Moved
      <4> QED
        BY <3>3, <4>1 DEF RefreshRenews
    <3>4. CASE ~ChangedTo(v) /\ ~job'.renewed /\ job'.before = job.before /\ job'.pc = "asking"
      <4>1. ~Moved'
        BY <2>1, <2>3, <3>1, <3>2, <3>4 DEF Moved
      <4> QED
        BY <3>4, <4>1 DEF RefreshRenews
    <3>5. CASE /\ ~ChangedTo(v) /\ job'.renewed = job.renewed /\ job'.login = job.login
               /\ job'.before = job.before /\ job'.pc \in {"writing", "merging"}
               /\ job'.pc = "merging" => ~WrittenOver(v)
      <4>1. ~Moved
        BY <3>1, <3>2, <3>5
      <4>2. ASSUME job'.pc = "merging", job.renewed, job.before # None, live # None,
                   live.named = job.of
            PROVE  live.login \notin rotated
        <5>1. job.login \notin rotated /\ job.login # job.base.login /\ job.base.renewal # "never"
          BY <2>1, <3>1, <4>2 DEF RefreshRenews
        <5>2. live.login = job.before.login
          BY <4>1, <4>2 DEF Moved
        <5>3. live.named # None
          BY <2>1, <4>2, AskedFields, NoneFacts
        <5>4. live.login = job.login
          BY <3>1, <3>5, <4>2, <5>1, <5>2, <5>3 DEF WrittenOver
        <5> QED
          BY <5>1, <5>4
      <4> QED
        BY <2>1, <2>3, <3>1, <3>5, <4>2 DEF RefreshRenews
    <3> QED
      BY <2>2, <3>3, <3>4, <3>5 DEF SettleWith
  <2> QED
    BY <1>i, <2>4, <2>5
<1>8. ASSUME RefreshWrite PROVE RenewalInv'
  <2>1. /\ job # None /\ job.pc = "writing" /\ job.pc \in AskedSteps
        /\ Grown /\ UNCHANGED <<rotated, faults>> /\ live'.login = job.login
    BY <1>8, BooksStay DEF RefreshWrite, Refreshing, AskedSteps, Shown
  <2>2. job \in Refresh
    BY <2>1, AskedFields
  <2>3. job' = [job EXCEPT !.pc = "merging", !.inLive = TRUE]
    BY <1>8 DEF RefreshWrite
  <2>4. /\ job'.pc = "merging" /\ job'.base = job.base /\ job'.login = job.login
        /\ job'.renewed = job.renewed
    BY <2>2, <2>3 DEF Refresh
  <2>5. RotatedKnown' /\ BaseKnown'
    BY <2>1, <2>4, RotatedGrows, BaseStays
  <2>6. ASSUME faults' = 0, ~Unreadable PROVE RefreshRenews'
    <3>1. RefreshRenews
      BY <2>1, <2>6 DEF RenewalInv
    <3> QED
      BY <2>1, <2>4, <3>1 DEF RefreshRenews
  <2> QED
    BY <1>i, <2>5, <2>6
<1>9. ASSUME RefreshMerge PROVE RenewalInv'
  BY <1>9, BooksStay, RenewalEnds DEF RefreshMerge
<1> QED
  BY <1>1, <1>2, <1>3, <1>4, <1>5, <1>6, <1>7, <1>8, <1>9 DEF RefreshStep

\* At first nothing was renewed.
LEMMA RenewalInit == Init => RenewalInv
  BY DEF Init, RenewalInv, RotatedKnown, BaseKnown

\* Every step keeps what a renewal rests on, and a refresh that renewed ends with
\* Claude Code having a login Copool did not spend.
RenewalArrives ==
  /\ job # None /\ job.pc = "merging" /\ job' = None /\ faults' + crashes' = 0 /\ ~Unreadable
  /\ job.before # None /\ job.renewed /\ live # None /\ live.named = job.of
  => live.login \notin rotated
LEMMA RenewalStep ==
  TypeInv /\ RejectionsInv /\ RenewalInv /\ [Next]_vars => RenewalInv' /\ [RenewalArrives]_vars
<1> SUFFICES ASSUME TypeInv, RejectionsInv, RenewalInv, [Next]_vars
             PROVE  RenewalInv' /\ [RenewalArrives]_vars
  OBVIOUS
<1>1. CASE Next
  <2>1. RenewalInv'
    BY <1>1, NextSteps, RenewalOthers, RenewalSteps
  <2>2. ASSUME job # None, job.pc = "merging", job' = None, faults' + crashes' = 0, ~Unreadable,
               job.before # None, job.renewed, live # None, live.named = job.of
        PROVE  live.login \notin rotated
    <3>1. TypeInv'
      BY TypeStep
    <3>2. faults \in Nat /\ crashes \in Nat /\ faults' \in Nat /\ crashes' \in Nat
      <4>1. RestTyped /\ RestTyped'
        BY <3>1 DEF TypeInv
      <4>2. faults \in 0..MaxFaults /\ crashes \in 0..MaxCrashes
        BY <4>1, Zenon DEF RestTyped
      <4>3. faults' \in 0..MaxFaults /\ crashes' \in 0..MaxCrashes
        BY <4>1, Zenon DEF RestTyped
      <4> QED
        BY <4>2, <4>3
    <3>3. faults' = 0 /\ crashes' = 0
      <4>1. ASSUME NEW m \in Nat, NEW n \in Nat, m + n = 0 PROVE m = 0 /\ n = 0
        BY <4>1
      <4>2. faults' + crashes' = 0
        BY <2>2
      <4> QED
        BY <3>2, <4>1, <4>2
    <3>4. crashes' = crashes
      <4> USE DEF bounds
      <4>1. CASE ListStep
        <5>1. PICK l \in Lists : ListReads(l) \/ ListNames(l) \/ ListFollows(l)
          BY <4>1 DEF ListStep
        <5> QED
          BY <5>1 DEF ListReads, ListNames, ListFollows
      <4>2. CASE RefreshStep
        BY <4>2 DEF RefreshStep, RefreshStart, RefreshSnapshot, RefreshCheck, RefreshRenew,
           RefreshRefused, RefreshRenewFails, RefreshRenewLost, RefreshAnswer, RefreshSettle,
           RefreshWrite, RefreshWriteFails, RefreshMerge
      <4>3. CASE SwitchStep
        BY <4>3 DEF SwitchStep, SwitchStart, SwitchLists, SwitchLock, SwitchCredentials,
           SwitchAccount, SwitchSave, SwitchFails
      <4>4. CASE ImportStep
        BY <4>4 DEF ImportStep, ImportReads, ImportCurrent, ImportLogin, ImportJson
      <4>5. CASE SettingStep
        BY <4>5 DEF SettingStep, SetRenewal, Release, Delete
      <4>6. CASE ClaudeStep
        BY <3>2, <3>3, <4>6 DEF ClaudeStep, ClaudeRenews, ClaudeSignsIn, ClaudeSignsOut, Crash
      <4> QED
        BY <1>1, <4>1, <4>2, <4>3, <4>4, <4>5, <4>6, NextSteps
    <3>5. RefreshMerge
      BY <1>1, <2>2, <3>4, MergingEnds
    <3>6. faults = 0
      BY <3>3, <3>5 DEF RefreshMerge, bounds
    <3> QED
      BY <2>2, <3>6 DEF RenewalInv, RefreshRenews
  <2> QED
    BY <2>1, <2>2 DEF RenewalArrives
<1>2. CASE UNCHANGED vars
  BY <1>2 DEF vars, RenewalInv, RotatedKnown, BaseKnown, RefreshRenews, Moved, Refusal, Known
<1> QED
  BY <1>1, <1>2

\* A refresh that renewed the login Claude Code had never leaves it a login that
\* Copool spent, whenever Claude Code signs in, signs out or renews and whatever is
\* read, switched or deleted meanwhile, unless its login cannot be read, or an answer
\* or a write is lost.
THEOREM RenewalsArrive == Spec => RenewalReachesClaude
<1>1. Spec => []RejectionsInv
  BY RejectionsInit, RejectionsStep, TypesHold, PTL DEF Spec
<1>2. Spec => []RenewalInv
  BY <1>1, RenewalInit, RenewalStep, TypesHold, PTL DEF Spec
<1>3. [][RenewalArrives]_vars => RenewalReachesClaude
  BY DEF RenewalReachesClaude, RenewalArrives
<1> QED
  BY <1>1, <1>2, <1>3, RenewalStep, TypesHold, PTL DEF Spec

-----------------------------------------------------------------------------
(* The logins of a card whose account is to be learnt: ClaudeIdentities.   *)

IdCards == [CardNumbers -> IdCard \cup {NoCard}]

\* There are cards, and no card is none of them; and so for what runs.
LEMMA NoCardFacts ==
  NoCard \notin IdCard /\ Idle \notin Probing /\ Idle \notin Joining /\ Nobody \notin People
<1>1. ASSUME NEW c \in IdCard PROVE c # NoCard
  <2>1. DOMAIN c = {"who", "login", "alternates", "rejected", "inLive", "route", "waits"}
    BY DEF IdCard
  <2>2. DOMAIN NoCard = {}
    BY DEF NoCard
  <2> QED
    BY <2>1, <2>2
<1>2. ASSUME NEW p \in Probing \cup Joining PROVE p # Idle
  <2>1. "pc" \in DOMAIN p
    BY DEF Probing, Joining
  <2>2. DOMAIN Idle = {}
    BY DEF Idle
  <2> QED
    BY <2>1, <2>2
<1> QED
  BY <1>1, <1>2, NobodyIsNone

\* The fields of a card.
LEMMA IdCardFields ==
  ASSUME NEW c \in IdCard
  PROVE  /\ c.who \in Whose /\ c.login \in IdLogin /\ c.alternates \in Seq(IdLogin)
         /\ c.rejected \in SUBSET IdLogin /\ c.inLive \in BOOLEAN /\ c.route \in Routes
         /\ c.waits \in BOOLEAN
  BY DEF IdCard

\* A card d is c but for the logins it holds.
SameCard(c, d) == d \in IdCard /\ d.who = c.who /\ d.route = c.route /\ d.waits = c.waits

\* What replacing the logins of a card leaves.
LEMMA IdCardMade ==
  ASSUME NEW c \in IdCard, NEW l \in IdLogin, NEW s \in Seq(IdLogin),
         NEW r \in SUBSET IdLogin, NEW b \in BOOLEAN
  PROVE  /\ SameCard(c, [c EXCEPT !.inLive = b])
         /\ SameCard(c, [c EXCEPT !.alternates = s])
         /\ SameCard(c, [c EXCEPT !.login = l, !.inLive = b, !.alternates = s])
         /\ SameCard(c, [c EXCEPT !.alternates = s, !.login = l, !.inLive = b])
         /\ SameCard(c, [c EXCEPT !.rejected = r, !.alternates = s])
  BY DEF SameCard, IdCard

\* What keeping the logins of L makes of the card c.
IdKeeps(c, d, L) ==
  /\ SameCard(c, d) /\ d.login = c.login /\ d.rejected = c.rejected /\ d.inLive = c.inLive
  /\ Alternates(d) \subseteq Alternates(c) \cup L

\* A login kept is there to fall back on, unless Claude rejected it.
LEMMA IdKeepFacts ==
  ASSUME NEW c \in IdCard, NEW l \in IdLogin
  PROVE  /\ IdKeeps(c, KeepAlternate(c, l), {l})
         /\ l \in c.rejected \cup Held(KeepAlternate(c, l))
<1>1. CASE l \in c.rejected \/ l = c.login
  BY <1>1 DEF KeepAlternate, IdKeeps, SameCard, Held
<1>2. CASE l \notin c.rejected /\ l # c.login
  <2>1. KeepAlternate(c, l) = [c EXCEPT !.alternates = Push(c.alternates, l)]
    BY <1>2 DEF KeepAlternate
  <2>2. /\ Push(c.alternates, l) \in Seq(IdLogin) /\ l \in ToSet(Push(c.alternates, l))
        /\ ToSet(Push(c.alternates, l)) \subseteq ToSet(c.alternates) \cup {l}
    BY IdCardFields, PushFacts
  <2> DEFINE d == KeepAlternate(c, l)
  <2>3. SameCard(c, d)
    BY <2>1, <2>2, IdCardMade, IdCardFields
  <2>4. /\ d.login = c.login /\ d.rejected = c.rejected /\ d.inLive = c.inLive
        /\ d.alternates = Push(c.alternates, l)
    BY <2>1 DEF IdCard
  <2> HIDE DEF d
  <2> QED
    BY <2>2, <2>3, <2>4 DEF IdKeeps, Alternates, Held, d
<1> QED
  BY <1>1, <1>2

\* And so for each of the logins given.
LEMMA IdKeepAllFacts ==
  ASSUME NEW c \in IdCard, NEW s \in Seq(IdLogin)
  PROVE  IdKeeps(c, KeepAlternates(c, s), ToSet(s))
<1>1. PICK f : /\ f \in [0..Len(s) -> IdCard] /\ f[0] = c
               /\ KeepAlternates(c, s) = f[Len(s)]
               /\ \A n \in 1..Len(s) : f[n] = KeepAlternate(f[n - 1], s[Len(s) + 1 - n])
  <2>1. \A d \in IdCard : \A l \in IdLogin : KeepAlternate(d, l) \in IdCard
    BY IdKeepFacts DEF IdKeeps, SameCard
  <2> QED
    BY <2>1, KeepAlternatesSteps
<1> DEFINE T == {n \in 0..Len(s) : IdKeeps(c, f[n], ToSet(s))}
<1>2. 0 \in T
  BY <1>1 DEF IdKeeps, SameCard
<1>3. ASSUME NEW n \in 1..Len(s), n - 1 \in T PROVE n \in T
  <2> DEFINE d == f[n - 1]
             l == s[Len(s) + 1 - n]
  <2>1. n - 1 \in 0..Len(s) /\ Len(s) + 1 - n \in 1..Len(s)
    OBVIOUS
  <2>2. d \in IdCard /\ l \in ToSet(s) /\ l \in IdLogin
    BY <1>1, <2>1 DEF ToSet
  <2>3. IdKeeps(c, d, ToSet(s))
    BY <1>3
  <2>4. f[n] = KeepAlternate(d, l)
    BY <1>1
  <2> HIDE DEF d, l
  <2>5. IdKeeps(d, f[n], {l})
    BY <2>2, <2>4, IdKeepFacts
  <2>6. IdKeeps(c, f[n], ToSet(s))
    BY ONLY <2>2, <2>3, <2>5, Zenon DEF IdKeeps, SameCard
  <2> QED
    BY <2>6
<1>4. \A n \in 0..Len(s) : n \in T
  <2> HIDE DEF T
  <2>1. Len(s) \in Nat
    OBVIOUS
  <2> QED
    BY <1>2, <1>3, <2>1, InductionUpTo, Zenon
<1>5. Len(s) \in 0..Len(s)
  OBVIOUS
<1> QED
  BY <1>1, <1>4, <1>5

\* A sequence read backwards holds what it held.
LEMMA ReverseFacts ==
  ASSUME NEW S, NEW s \in Seq(S)
  PROVE  Reverse(s) \in Seq(S) /\ ToSet(Reverse(s)) \subseteq ToSet(s)
<1> DEFINE t == Reverse(s)
<1>1. t = [i \in 1..Len(s) |-> s[(Len(s) - i) + 1]]
  BY DEF Reverse
<1>2. \A i \in 1..Len(s) : (Len(s) - i) + 1 \in 1..Len(s)
  OBVIOUS
<1>3. t \in Seq(S) /\ Len(t) = Len(s) /\ \A i \in 1..Len(s) : t[i] = s[(Len(s) - i) + 1]
  BY <1>1, <1>2
<1> HIDE DEF t
<1>4. ToSet(t) \subseteq ToSet(s)
  BY <1>2, <1>3, InToSet
<1> QED
  BY <1>3, <1>4 DEF t

\* A login adopted is used, unless Claude rejected it, and the one used before is
\* there to fall back on, unless Claude rejected it or Claude Code replaced it.
LEMMA IdAdoptFacts ==
  ASSUME NEW c \in IdCard, NEW l \in IdLogin, NEW b \in BOOLEAN
  PROVE  LET d == Adopt(c, l, b)
         IN  /\ SameCard(c, d) /\ d.rejected = c.rejected
             /\ d.login = (IF l \in c.rejected THEN c.login ELSE l)
             /\ Held(d) \subseteq Held(c) \cup {l}
             /\ c.login \in Held(d) \cup c.rejected \/ (c.inLive /\ b)
<1> DEFINE d == Adopt(c, l, b)
<1>0. c.inLive \in BOOLEAN /\ c.login \in IdLogin /\ c.alternates \in Seq(IdLogin)
  BY IdCardFields
<1>1. CASE l \in c.rejected
  <2> DEFINE x == c.inLive /\ ~b
  <2>1. d = [c EXCEPT !.inLive = x]
    BY <1>1 DEF Adopt
  <2>2. x \in BOOLEAN
    OBVIOUS
  <2> HIDE DEF x
  <2>3. SameCard(c, d)
    BY <2>1, <2>2, IdCardMade, <1>0, IdCardFields
  <2>4. d.rejected = c.rejected /\ d.login = c.login /\ d.alternates = c.alternates
    BY <2>1 DEF IdCard
  <2> HIDE DEF d
  <2> QED
    BY <1>1, <2>3, <2>4 DEF Held, d
<1>2. CASE l \notin c.rejected /\ c.login = l
  <2> DEFINE x == c.inLive \/ b
  <2>1. d = [c EXCEPT !.inLive = x]
    BY <1>2 DEF Adopt
  <2>2. x \in BOOLEAN
    OBVIOUS
  <2> HIDE DEF x
  <2>3. SameCard(c, d)
    BY <2>1, <2>2, IdCardMade, <1>0, IdCardFields
  <2>4. d.rejected = c.rejected /\ d.login = c.login /\ d.alternates = c.alternates
    BY <2>1 DEF IdCard
  <2> HIDE DEF d
  <2> QED
    BY <1>2, <2>3, <2>4 DEF Held, d
<1>3. CASE l \notin c.rejected /\ c.login # l
  <2> DEFINE rest == Without(c.alternates, {l})
             next == [c EXCEPT !.login = l, !.inLive = b, !.alternates = rest]
  <2>1. d = IF b /\ c.inLive THEN next ELSE KeepAlternate(next, c.login)
    BY <1>3 DEF Adopt
  <2>2. rest \in Seq(IdLogin) /\ ToSet(rest) \subseteq ToSet(c.alternates)
    BY <1>0, WithoutFacts
  <2> HIDE DEF rest
  <2>3. SameCard(c, next)
    BY <2>2, IdCardMade, IdCardFields
  <2>4. next.login = l /\ next.rejected = c.rejected /\ next.alternates = rest
    BY DEF IdCard
  <2> HIDE DEF next
  <2>5. CASE b /\ c.inLive
    BY <1>3, <2>1, <2>2, <2>3, <2>4, <2>5 DEF Held
  <2>6. CASE ~ (b /\ c.inLive)
    <3>1. d = KeepAlternate(next, c.login)
      BY <2>1, <2>6
    <3> HIDE DEF d
    <3>2. next \in IdCard
      BY <2>3 DEF SameCard
    <3>3. IdKeeps(next, d, {c.login}) /\ c.login \in next.rejected \cup Held(d)
      BY <1>0, <3>1, <3>2, IdKeepFacts
    <3>4. /\ d.login = l /\ d.rejected = c.rejected
          /\ Alternates(d) \subseteq ToSet(rest) \cup {c.login}
      BY <2>4, <3>3 DEF IdKeeps, Alternates
    <3>5. SameCard(c, d)
      BY ONLY <2>3, <3>3, Zenon DEF IdKeeps, SameCard
    <3>6. Held(d) \subseteq Held(c) \cup {l}
      BY <2>2, <3>4 DEF Held, Alternates
    <3>7. c.login \in Held(d) \cup c.rejected
      BY <2>4, <3>3
    <3> QED
      BY <1>3, <3>4, <3>5, <3>6, <3>7 DEF d
  <2> QED
    BY <2>5, <2>6
<1> QED
  BY <1>1, <1>2, <1>3

\* What Claude rejected is not there to fall back on.
LEMMA IdRejectingFacts ==
  ASSUME NEW c \in IdCard, NEW L \in SUBSET IdLogin
  PROVE  LET d == Rejecting(c, L)
         IN  /\ SameCard(c, d) /\ d.login = c.login /\ d.inLive = c.inLive
             /\ d.rejected = c.rejected \cup L /\ Alternates(d) \subseteq Alternates(c)
<1> DEFINE d == Rejecting(c, L)
           r == c.rejected \cup L
           rest == Without(c.alternates, r)
<1>1. d = [c EXCEPT !.rejected = r, !.alternates = rest]
  BY DEF Rejecting
<1>2. r \in SUBSET IdLogin
  BY IdCardFields
<1>3. rest \in Seq(IdLogin) /\ ToSet(rest) \subseteq ToSet(c.alternates)
  BY IdCardFields, WithoutFacts
<1> HIDE DEF r, rest, d
<1>4. SameCard(c, d)
  <2>1. c.login \in IdLogin /\ c.inLive \in BOOLEAN
    BY IdCardFields
  <2> QED
    BY <1>1, <1>2, <1>3, <2>1, IdCardMade
<1>5. d.login = c.login /\ d.inLive = c.inLive /\ d.rejected = r /\ d.alternates = rest
  BY <1>1 DEF IdCard
<1> QED
  BY <1>3, <1>4, <1>5 DEF Alternates, d, r

\* What a refresh has when it is merged.
IdSettled(w) ==
  /\ w.base \in IdCard /\ w.login \in IdLogin /\ w.alternates \in Seq(IdLogin)
  /\ w.rejected \in SUBSET IdLogin /\ w.inLive \in BOOLEAN /\ w.renewed \in BOOLEAN

\* A card whose login is as the refresh read it takes the login the refresh used.
LEMMA IdMergedFacts ==
  ASSUME NEW c \in IdCard, NEW w, IdSettled(w)
  PROVE  LET d == Merged(c, w)
         IN  /\ SameCard(c, d)
             /\ d.login \in {c.login, w.login}
             /\ Held(d) \subseteq Held(c) \cup {w.login} \cup ToSet(w.alternates)
             /\ c.login = w.base.login => d.login = w.login /\ d.inLive = w.inLive
<1> DEFINE arrived == Without(c.alternates, ToSet(w.base.alternates))
           given == w.login # w.base.login
           others == IF given /\ c.login # w.base.login THEN <<c.login>> \o arrived ELSE arrived
           kept == IF w.renewed THEN <<>> ELSE w.alternates
           l == IF given THEN w.login ELSE c.login
           b == IF given \/ c.login = w.login THEN w.inLive ELSE c.inLive
           used == [c EXCEPT !.alternates = kept, !.login = l, !.inLive = b]
           barred == Rejecting(used, w.rejected)
           d == Merged(c, w)
<1>1. d = KeepAlternates(barred, others)
  BY DEF Merged
<1>2. /\ c.login \in IdLogin /\ c.alternates \in Seq(IdLogin) /\ c.inLive \in BOOLEAN
      /\ w.login \in IdLogin /\ w.inLive \in BOOLEAN /\ w.alternates \in Seq(IdLogin)
      /\ w.rejected \in SUBSET IdLogin
  BY IdCardFields DEF IdSettled
<1>3. arrived \in Seq(IdLogin) /\ ToSet(arrived) \subseteq ToSet(c.alternates)
  BY <1>2, WithoutFacts
<1> HIDE DEF arrived
<1>4. others \in Seq(IdLogin) /\ ToSet(others) \subseteq Held(c)
  <2>1. CASE given /\ c.login # w.base.login
    <3>1. others = <<c.login>> \o arrived
      BY <2>1
    <3>2. /\ others \in Seq(IdLogin) /\ Len(others) = Len(arrived) + 1
          /\ others[1] = c.login
          /\ \A i \in 2..Len(others) : others[i] = arrived[i - 1]
      BY <1>2, <1>3, <3>1
    <3> HIDE DEF others
    <3>3. \A i \in 1..Len(others) : others[i] \in Held(c)
      <4>1. \A i \in 2..Len(others) : others[i] \in ToSet(arrived)
        BY <1>3, <3>2, InToSet
      <4> QED
        BY <1>3, <3>2, <4>1 DEF Held
    <3> QED
      BY <3>2, <3>3, InToSet
  <2>2. CASE ~ (given /\ c.login # w.base.login)
    BY <1>3, <2>2 DEF Held
  <2> QED
    BY <2>1, <2>2
<1> HIDE DEF others
<1>5. kept \in Seq(IdLogin) /\ ToSet(kept) \subseteq ToSet(w.alternates)
  BY <1>2 DEF ToSet
<1>6. l \in IdLogin /\ l \in {c.login, w.login}
  BY <1>2
<1>7. b \in BOOLEAN /\ (c.login = w.base.login => l = w.login /\ b = w.inLive)
  BY <1>2
<1> HIDE DEF kept, l, b
<1>8. SameCard(c, used)
  BY <1>5, <1>6, <1>7, IdCardMade, IdCardFields
<1>9. used.login = l /\ used.inLive = b /\ used.alternates = kept
  BY DEF IdCard
<1> HIDE DEF used
<1>10. used \in IdCard
  BY <1>8 DEF SameCard
<1>11. /\ SameCard(used, barred) /\ barred.login = l /\ barred.inLive = b
       /\ Alternates(barred) \subseteq ToSet(kept)
  BY <1>2, <1>9, <1>10, IdRejectingFacts DEF Alternates
<1> HIDE DEF barred
<1>12. barred \in IdCard
  BY <1>11 DEF SameCard
<1>13. IdKeeps(barred, d, ToSet(others))
  BY <1>1, <1>4, <1>12, IdKeepAllFacts
<1> HIDE DEF d
<1>14. SameCard(c, d)
  BY ONLY <1>8, <1>11, <1>13, Zenon DEF IdKeeps, SameCard
<1>15. d.login = l /\ d.inLive = b
  BY ONLY <1>11, <1>13, Zenon DEF IdKeeps
<1>16. Held(d) \subseteq Held(c) \cup {w.login} \cup ToSet(w.alternates)
  BY <1>4, <1>5, <1>6, <1>11, <1>13, <1>15 DEF IdKeeps, Held, Alternates
<1>17. c.login = w.base.login => d.login = w.login /\ d.inLive = w.inLive
  BY ONLY <1>7, <1>15, Zenon
<1> QED
  BY <1>6, <1>14, <1>15, <1>16, <1>17 DEF d

-----------------------------------------------------------------------------
(* Whose the cards are.                                                    *)

\* A login is of the account it names, and a card holds logins of one account.
NamedBy(login, who) == who \in {Nobody, login.of}
OwnCard(c) == NamedBy(c.login, c.who) /\ \A l \in Held(c) : l.of = c.login.of
OwnPool(cs) == cs \in IdCards /\ \A i \in In(cs) : OwnCard(cs[i])

\* A card d is c later on: of the same account, and with the login it had if its
\* account is not known.
StaysOwn(c, d) ==
  /\ d \in IdCard /\ OwnCard(d) /\ d.who = c.who /\ d.login.of = c.login.of
  /\ c.who = Nobody => d.login = c.login

\* The cards in the pool.
LEMMA InPool ==
  ASSUME NEW cs \in IdCards, NEW i
  PROVE  /\ i \in In(cs) <=> i \in CardNumbers /\ cs[i] \in IdCard
         /\ i \in CardNumbers /\ i \notin In(cs) => cs[i] = NoCard
  BY NoCardFacts DEF In, IdCards

\* The lowest of the numbers given is one of them.
LEMMA LowestFacts ==
  ASSUME NEW N \in SUBSET CardNumbers, N # {}
  PROVE  Lowest(N) \in N
<1>1. N \subseteq Nat
  BY IdentityCounts DEF CardNumbers
<1>2. \E n \in N : \A m \in N : n <= m
  BY <1>1, LeastNumber
<1> QED
  BY <1>2 DEF Lowest

\* The cards found for a login are of its account, and have that login if unnamed.
LEMMA MatchesOwn ==
  ASSUME NEW cs, OwnPool(cs), NEW login \in IdLogin, NEW who, NamedBy(login, who),
         NEW i \in Matches(cs, login, who)
  PROVE  /\ i \in In(cs) /\ cs[i] \in IdCard /\ OwnCard(cs[i])
         /\ cs[i].login.of = login.of
         /\ cs[i].who = Nobody => cs[i].login = login
         /\ who # Nobody => cs[i].who = who
<1>1. i \in In(cs) /\ cs[i] \in IdCard /\ OwnCard(cs[i])
  BY InPool DEF Matches, OwnPool
<1>2. IF who # Nobody THEN cs[i].who = who ELSE cs[i].login = login
  BY DEF Matches, SameTokens
<1> QED
  BY <1>1, <1>2 DEF OwnCard, NamedBy

\* A login of its account that a card adopts leaves it what it was.
LEMMA AdoptStays ==
  ASSUME NEW c \in IdCard, OwnCard(c), NEW l \in IdLogin, NEW b \in BOOLEAN,
         l.of = c.login.of, c.who = Nobody => c.login = l
  PROVE  StaysOwn(c, Adopt(c, l, b))
<1> DEFINE d == Adopt(c, l, b)
<1>1. /\ SameCard(c, d) /\ d.login = (IF l \in c.rejected THEN c.login ELSE l)
      /\ Held(d) \subseteq Held(c) \cup {l}
  BY IdAdoptFacts
<1> HIDE DEF d
<1>2. d \in IdCard /\ d.who = c.who
  BY <1>1 DEF SameCard
<1>3. d.login.of = c.login.of /\ (c.who = Nobody => d.login = c.login)
  BY <1>1
<1>4. OwnCard(d)
  BY <1>1, <1>2, <1>3 DEF OwnCard, NamedBy
<1> QED
  BY <1>2, <1>3, <1>4 DEF StaysOwn, d

\* So do a proxy, a release, and that Claude Code has another login.
LEMMA WishesStay ==
  ASSUME NEW c \in IdCard, OwnCard(c), NEW b \in BOOLEAN, NEW r \in Routes
  PROVE  /\ StaysOwn(c, c) /\ StaysOwn(c, [c EXCEPT !.inLive = b])
         /\ StaysOwn(c, [c EXCEPT !.waits = b]) /\ StaysOwn(c, [c EXCEPT !.route = r])
<1>1. /\ [c EXCEPT !.inLive = b] \in IdCard /\ [c EXCEPT !.waits = b] \in IdCard
      /\ [c EXCEPT !.route = r] \in IdCard
  BY DEF IdCard
<1>2. ASSUME NEW d \in {c, [c EXCEPT !.inLive = b], [c EXCEPT !.waits = b], [c EXCEPT !.route = r]}
      PROVE  d.login = c.login /\ d.who = c.who /\ d.alternates = c.alternates
  BY <1>2 DEF IdCard
<1>3. ASSUME NEW d \in IdCard, d.login = c.login, d.who = c.who, d.alternates = c.alternates
      PROVE  StaysOwn(c, d)
  BY <1>3 DEF StaysOwn, OwnCard, Held
<1> QED
  BY <1>1, <1>2, <1>3

\* The cards of ds are those of cs, and one more at most, of an account of its own.
Grows(cs, ds, n) ==
  /\ ds \in IdCards
  /\ \A i \in In(ds) :
       \/ i \in In(cs) /\ StaysOwn(cs[i], ds[i])
       \/ /\ i = n + 1 /\ i \notin In(cs) /\ OwnCard(ds[i])
          /\ ds[i].who = Nobody \/ \A j \in In(cs) : cs[j].who # ds[i].who

\* What a refresh read, and the card it read as it is now.
ProbeLogins(w) ==
  /\ NamedBy(w.base.login, w.base.who) /\ NamedBy(w.base.login, w.found)
  /\ w.login.of = w.base.login.of
  /\ \A l \in ToSet(w.alternates) : l.of = w.base.login.of
CardProbed(cs, n, w) ==
  /\ w.card <= n
  /\ cs[w.card] # NoCard =>
       /\ cs[w.card].who = w.base.who /\ cs[w.card].login.of = w.base.login.of
       /\ w.base.who = Nobody => cs[w.card].login = w.base.login

Numbered == In(roll) \subseteq 1..joined
OwnLogins == \A i \in In(roll) : OwnCard(roll[i])
Selected == picked # 0 => picked \in In(roll)
NamesKnown ==
  /\ code # NoCard => NamedBy(code.login, code.who)
  /\ signing # Idle => NamedBy(signing.login, signing.who)
ProbeOwn ==
  /\ probe \in Joining => NamedBy(probe.login, probe.who)
  /\ probe \in Probing => ProbeLogins(probe) /\ CardProbed(roll, joined, probe)

PoolInv == Numbered /\ OneCardEach /\ OwnLogins
IdInv == IdentitiesTypeOK /\ PoolInv /\ Selected /\ NamesKnown /\ ProbeOwn

\* The pool the invariant describes.
LEMMA PoolOwned ==
  ASSUME IdInv
  PROVE  roll \in IdCards /\ OwnPool(roll)
  BY DEF IdInv, IdentitiesTypeOK, IdCards, PoolInv, OwnLogins, OwnPool

\* A pool that grows like that has one card of each account still, and the card of a
\* refresh is what it was.
LEMMA PoolGrows ==
  ASSUME IdInv, Grows(roll, roll', joined), In(roll') \subseteq 1..joined',
         joined' \in Nat, joined <= joined'
  PROVE  PoolInv' /\ \A w \in Probing : CardProbed(roll, joined, w) => CardProbed(roll', joined', w)
<1>1. \A i \in In(roll') : roll'[i] \in IdCard /\ i \in CardNumbers
  BY InPool DEF Grows
<1>2. ASSUME NEW i \in In(roll')
      PROVE  \/ i \in In(roll) /\ StaysOwn(roll[i], roll'[i])
             \/ /\ i = joined + 1 /\ i \notin In(roll) /\ OwnCard(roll'[i])
                /\ roll'[i].who = Nobody \/ \A j \in In(roll) : roll[j].who # roll'[i].who
  BY DEF Grows
<1>3. \A i, j \in In(roll) : roll[i].who # Nobody /\ roll[i].who = roll[j].who => i = j
  BY DEF IdInv, PoolInv, OneCardEach
<1>4. \A i, j \in In(roll') : roll'[i].who # Nobody /\ roll'[i].who = roll'[j].who => i = j
  <2> SUFFICES ASSUME NEW i \in In(roll'), NEW j \in In(roll'),
                      roll'[i].who # Nobody, roll'[i].who = roll'[j].who
               PROVE  i = j
    OBVIOUS
  <2>1. CASE i \in In(roll) /\ j \in In(roll)
    BY <1>2, <1>3, <2>1 DEF StaysOwn
  <2>2. CASE i \notin In(roll)
    BY <1>2, <2>2 DEF StaysOwn
  <2>3. CASE j \notin In(roll)
    BY <1>2, <2>3 DEF StaysOwn
  <2> QED
    BY <2>1, <2>2, <2>3
<1>5. \A i \in In(roll') : OwnCard(roll'[i])
  BY <1>2 DEF StaysOwn
<1>6. PoolInv'
  BY <1>4, <1>5 DEF PoolInv, Numbered, OneCardEach, OwnLogins, In
<1>7. ASSUME NEW w \in Probing, CardProbed(roll, joined, w)
      PROVE  CardProbed(roll', joined', w)
  <2>1. w.card \in CardNumbers /\ w.card \in Nat /\ joined \in Nat
    BY IdentityCounts DEF Probing, CardNumbers, IdInv, IdentitiesTypeOK
  <2>2. w.card <= joined /\ w.card <= joined'
    BY <1>7, <2>1 DEF CardProbed
  <2>3. ASSUME roll'[w.card] # NoCard
        PROVE  w.card \in In(roll) /\ StaysOwn(roll[w.card], roll'[w.card])
    <3>1. w.card \in In(roll') /\ w.card # joined + 1
      BY <2>1, <2>2, <2>3 DEF In
    <3> QED
      BY <1>2, <3>1
  <2> QED
    BY <1>7, <2>2, <2>3 DEF CardProbed, StaysOwn, In
<1> QED
  BY <1>6, <1>7

\* A login that Claude Code has is followed by a card of its account; the others
\* only forget that it was theirs.
LEMMA FollowedFacts ==
  ASSUME IdInv
  PROVE  LET f == FollowedCode(roll, picked)
         IN  /\ f.cards \in IdCards /\ In(f.cards) = In(roll)
             /\ \A i \in In(roll) : StaysOwn(roll[i], f.cards[i])
             /\ f.picked \in 0..MaxCards /\ (f.picked # 0 => f.picked \in In(roll))
<1> DEFINE f == FollowedCode(roll, picked)
           own == Matches(roll, code.login, code.who)
           i == IF own = {} THEN 0 ELSE Lowest(own)
           left == [j \in CardNumbers |->
             IF roll[j] = NoCard \/ j = i THEN roll[j] ELSE [roll[j] EXCEPT !.inLive = FALSE]]
           next == IF i = 0 THEN left ELSE [left EXCEPT ![i] = Adopt(@, code.login, TRUE)]
           Right == /\ f.cards \in IdCards /\ In(f.cards) = In(roll)
                    /\ \A j \in In(roll) : StaysOwn(roll[j], f.cards[j])
                    /\ f.picked \in 0..MaxCards /\ (f.picked # 0 => f.picked \in In(roll))
<1>1. roll \in IdCards /\ OwnPool(roll)
  BY PoolOwned
<1>2. picked \in 0..MaxCards /\ (picked # 0 => picked \in In(roll))
  BY DEF IdInv, IdentitiesTypeOK, Selected
<1>3. \A j \in In(roll) : StaysOwn(roll[j], roll[j]) /\ StaysOwn(roll[j], [roll[j] EXCEPT !.inLive = FALSE])
  <2>1. FALSE \in BOOLEAN /\ "" \in Routes
    BY DEF Routes
  <2> QED
    BY <1>1, <2>1, InPool, WishesStay DEF OwnPool
<1> HIDE DEF next, i, own
<1>4. \/ f = [cards |-> roll, picked |-> picked]
      \/ code # NoCard /\ f = [cards |-> next, picked |-> i]
  <2>1. CASE code = NoCard
    BY <2>1 DEF FollowedCode
  <2>2. CASE code # NoCard
    BY <2>2 DEF FollowedCode, next, i, own
  <2> QED
    BY <2>1, <2>2
<1> HIDE DEF f
<1>5. ASSUME f = [cards |-> roll, picked |-> picked] PROVE Right
  <2>1. f.cards = roll /\ f.picked = picked
    BY <1>5
  <2> QED
    BY <1>1, <1>2, <1>3, <2>1
<1>6. ASSUME code # NoCard, f = [cards |-> next, picked |-> i] PROVE Right
  <2>1. code.login \in IdLogin /\ NamedBy(code.login, code.who)
    BY <1>6 DEF IdInv, IdentitiesTypeOK, CodeLogin, NamesKnown
  <2>2. own \subseteq In(roll) /\ In(roll) \subseteq CardNumbers
    BY DEF Matches, In, own
  <2>3. i = 0 \/ i \in own
    BY <2>2, LowestFacts DEF i
  <2>4. i \in 0..MaxCards /\ (i # 0 => i \in In(roll))
    BY <2>2, <2>3, IdentityCounts DEF CardNumbers
  <2>5. i # 0 => StaysOwn(roll[i], Adopt(roll[i], code.login, TRUE))
    <3>1. ASSUME i # 0
          PROVE  /\ roll[i] \in IdCard /\ OwnCard(roll[i]) /\ roll[i].login.of = code.login.of
                 /\ roll[i].who = Nobody => roll[i].login = code.login
      BY <1>1, <2>1, <2>3, <3>1, MatchesOwn DEF own
    <3>2. TRUE \in BOOLEAN
      OBVIOUS
    <3> QED
      BY <2>1, <3>1, <3>2, AdoptStays
  <2>5a. 0 \notin CardNumbers
    BY DEF CardNumbers
  <2>6. ASSUME NEW j \in CardNumbers
        PROVE  /\ j = i => next[j] = Adopt(roll[j], code.login, TRUE)
               /\ j # i /\ roll[j] # NoCard => next[j] = [roll[j] EXCEPT !.inLive = FALSE]
               /\ j # i /\ roll[j] = NoCard => next[j] = NoCard
    <3>1. left[j] = IF roll[j] = NoCard \/ j = i THEN roll[j] ELSE [roll[j] EXCEPT !.inLive = FALSE]
      OBVIOUS
    <3>2. next[j] = IF j = i THEN Adopt(left[j], code.login, TRUE) ELSE left[j]
      <4> DEFINE x == Adopt(left[i], code.login, TRUE)
      <4>1. next = IF i = 0 THEN left ELSE [left EXCEPT ![i] = x]
        BY DEF next
      <4>2. DOMAIN left = CardNumbers
        OBVIOUS
      <4> HIDE DEF left, x
      <4>3. j = i => i # 0
        BY <2>5a
      <4>4. next[j] = IF j = i THEN x ELSE left[j]
        BY <4>1, <4>2, <4>3
      <4> QED
        BY <4>4 DEF x
    <3> HIDE DEF left
    <3>3. j = i => left[j] = roll[j]
      BY <3>1
    <3> QED
      BY <3>1, <3>2, <3>3
  <2>7. next = [j \in CardNumbers |-> next[j]]
    BY DEF next
  <2>8. ASSUME NEW j \in CardNumbers
        PROVE  /\ j \in In(roll) => StaysOwn(roll[j], next[j])
               /\ j \notin In(roll) => next[j] = NoCard
    <3>1. CASE j \notin In(roll)
      <4>1. roll[j] = NoCard /\ j # i
        BY <2>4, <2>5a, <3>1 DEF In
      <4> QED
        BY <2>6, <3>1, <4>1
    <3>2. CASE j \in In(roll) /\ j = i
      BY <2>5, <2>5a, <2>6, <3>2
    <3>3. CASE j \in In(roll) /\ j # i
      <4>1. next[j] = [roll[j] EXCEPT !.inLive = FALSE]
        BY <2>6, <3>3 DEF In
      <4> QED
        BY <1>3, <3>3, <4>1
    <3> QED
      BY <3>1, <3>2, <3>3
  <2>9. \A j \in CardNumbers : next[j] \in IdCard \cup {NoCard}
    <3>1. ASSUME NEW j \in CardNumbers PROVE next[j] \in IdCard \cup {NoCard}
      BY <2>8, <3>1 DEF StaysOwn
    <3> QED
      BY <3>1
  <2>10. next \in IdCards
    BY <2>7, <2>9 DEF IdCards
  <2>11. In(next) = In(roll)
    <3>1. ASSUME NEW j \in CardNumbers PROVE j \in In(next) <=> j \in In(roll)
      BY <2>8, <2>10, <3>1, InPool, NoCardFacts DEF StaysOwn
    <3> QED
      BY <3>1 DEF In
  <2>12. f.cards = next /\ f.picked = i
    BY <1>6
  <2> QED
    BY <2>2, <2>4, <2>8, <2>10, <2>11, <2>12
<1>7. Right
  <2> HIDE DEF Right
  <2> QED BY <1>4, <1>5, <1>6
<1> QED
  BY <1>7, Zenon DEF f

\* A login joins the card of its account, or a card of its own.
LEMMA UpsertFacts ==
  ASSUME IdInv, NEW login \in IdLogin, NEW who, NamedBy(login, who), NEW cur \in BOOLEAN,
         Upsert(login, who, cur)
  PROVE  /\ Grows(roll, roll', joined) /\ In(roll') \subseteq 1..joined'
         /\ joined' \in 0..MaxCards /\ joined <= joined'
         /\ picked' \in 0..MaxCards /\ Selected'
<1> DEFINE own == Matches(roll, login, who)
           i == IF own = {} THEN joined + 1 ELSE Lowest(own)
           was == Adopt(roll[i], login, cur)
           named == [was EXCEPT !.who = IF who # Nobody THEN who ELSE @]
           new == [who |-> who, login |-> login, alternates |-> <<>>, rejected |-> {},
                   inLive |-> cur, route |-> "", waits |-> ~asksNew]
           card == IF own # {} THEN named ELSE new
<1>1. roll \in IdCards /\ OwnPool(roll)
  BY PoolOwned
<1>2. /\ joined \in 0..MaxCards /\ In(roll) \subseteq 1..joined /\ asksNew \in BOOLEAN
      /\ picked \in 0..MaxCards /\ (picked # 0 => picked \in In(roll))
  BY DEF IdInv, IdentitiesTypeOK, PoolInv, Numbered, Selected
<1>3. /\ i <= MaxCards /\ joined' = (IF own = {} THEN i ELSE joined)
      /\ roll' = [j \in CardNumbers |->
           IF j = i THEN card
           ELSE IF cur /\ roll[j] # NoCard THEN [roll[j] EXCEPT !.inLive = FALSE]
           ELSE roll[j]]
      /\ picked' = IF cur THEN i ELSE picked
  BY DEF Upsert
<1>4. own \subseteq In(roll) /\ In(roll) \subseteq CardNumbers
  BY DEF Matches, In
<1>5. IF own = {} THEN i = joined + 1 ELSE i \in own
  BY <1>4, LowestFacts
<1>6. /\ i \in CardNumbers /\ i \in 0..MaxCards /\ i # 0
      /\ joined' \in 0..MaxCards /\ joined <= joined' /\ i <= joined'
  <2>1. CASE own = {}
    <3>1. i = joined + 1 /\ joined' = i /\ i <= MaxCards
      BY <1>3, <1>5, <2>1
    <3> HIDE DEF i, own
    <3> QED
      BY <1>2, <3>1, IdentityCounts DEF CardNumbers
  <2>2. CASE own # {}
    <3>1. i \in In(roll) /\ joined' = joined
      BY <1>3, <1>4, <1>5, <2>2
    <3> HIDE DEF i, own
    <3> QED
      BY <1>2, <1>4, <3>1, IdentityCounts DEF CardNumbers
  <2> QED
    BY <2>1, <2>2
<1>7. ASSUME own # {} PROVE i \in In(roll) /\ StaysOwn(roll[i], card)
  <2>1. /\ i \in In(roll) /\ roll[i] \in IdCard /\ OwnCard(roll[i])
        /\ roll[i].login.of = login.of /\ (roll[i].who = Nobody => roll[i].login = login)
        /\ (who # Nobody => roll[i].who = who)
    <3>1. i \in own
      BY <1>5, <1>7
    <3> HIDE DEF i
    <3> QED
      BY <1>1, <3>1, MatchesOwn
  <2> HIDE DEF i
  <2>2. StaysOwn(roll[i], was)
    BY <2>1, AdoptStays
  <2> HIDE DEF was
  <2>3. was \in IdCard /\ was.who = (IF who # Nobody THEN who ELSE was.who)
    BY <2>1, <2>2 DEF StaysOwn
  <2>4. named = was
    BY <2>3 DEF IdCard
  <2> HIDE DEF named
  <2> QED
    BY <1>7, <2>1, <2>2, <2>4
<1>8. ASSUME own = {}
      PROVE  /\ i = joined + 1 /\ i \notin In(roll) /\ OwnCard(card) /\ card \in IdCard
             /\ card.who = Nobody \/ \A j \in In(roll) : roll[j].who # card.who
  <2>1. i = joined + 1 /\ i \notin In(roll) /\ card = new
    BY <1>2, <1>5, <1>8
  <2>2. who \in Whose
    BY DEF NamedBy, IdLogin, Whose
  <2>3. new \in IdCard
    BY <1>2, <2>2 DEF IdCard, Routes
  <2>4. OwnCard(new)
    <3>1. Held(new) = {login}
      BY DEF Held, ToSet
    <3> QED
      BY <3>1 DEF OwnCard
  <2>5. new.who = Nobody \/ \A j \in In(roll) : roll[j].who # new.who
    <3>1. CASE who = Nobody
      BY <3>1
    <3>2. CASE who # Nobody
      <4>1. \A j \in In(roll) : roll[j].who # who
        BY <1>8, <3>2 DEF Matches
      <4> QED
        BY <4>1
    <3> QED
      BY <3>1, <3>2
  <2> QED
    BY <2>1, <2>3, <2>4, <2>5
<1> HIDE DEF card, own, i
<1>9. roll \in IdCards /\ \A j \in In(roll) : StaysOwn(roll[j], roll[j])
                                /\ StaysOwn(roll[j], [roll[j] EXCEPT !.inLive = FALSE])
  <2>1. FALSE \in BOOLEAN /\ "" \in Routes
    BY DEF Routes
  <2> QED
    BY <1>1, <2>1, InPool, WishesStay DEF OwnPool
<1>10. card \in IdCard
  BY <1>7, <1>8 DEF StaysOwn
<1>11. ASSUME NEW j \in CardNumbers, j # i
       PROVE  /\ j \in In(roll) => StaysOwn(roll[j], roll'[j])
              /\ j \notin In(roll) => roll'[j] = NoCard
  BY <1>3, <1>9, <1>11 DEF In
<1>12. roll'[i] = card
  BY <1>3, <1>6
<1>13. \A j \in CardNumbers : roll'[j] \in IdCard \cup {NoCard}
  BY <1>10, <1>11, <1>12 DEF StaysOwn
<1>14. roll' \in IdCards
  BY <1>3, <1>13 DEF IdCards
<1>15. ASSUME NEW j \in In(roll')
       PROVE  \/ j \in In(roll) /\ StaysOwn(roll[j], roll'[j])
              \/ /\ j = joined + 1 /\ j \notin In(roll) /\ OwnCard(roll'[j])
                 /\ roll'[j].who = Nobody \/ \A k \in In(roll) : roll[k].who # roll'[j].who
  <2>1. CASE j = i
    BY <1>7, <1>8, <1>12, <2>1
  <2>2. CASE j # i
    BY <1>11, <2>2 DEF In
  <2> QED
    BY <2>1, <2>2
<1>16. Grows(roll, roll', joined)
  BY <1>14, <1>15 DEF Grows
<1>17. In(roll') \subseteq In(roll) \cup {i} /\ i \in In(roll')
  BY <1>6, <1>10, <1>11, <1>12, NoCardFacts DEF In
<1>18. In(roll') \subseteq 1..joined'
  BY <1>2, <1>6, <1>17, IdentityCounts
<1>19. picked' # 0 => picked' \in In(roll')
  <2>1. \A j \in In(roll) : j \in In(roll')
    BY <1>4, <1>11, <1>17, NoCardFacts DEF In, StaysOwn
  <2> QED
    BY <1>2, <1>3, <1>17, <2>1
<1> QED
  BY <1>2, <1>3, <1>6, <1>16, <1>18, <1>19 DEF Selected, In

\* What is made of the card c that stays, and of the card m of the same account.
Folded(c, m, d) ==
  /\ d \in IdCard /\ d.who = c.who
  /\ d.login = (IF m.login \in d.rejected THEN c.login ELSE m.login)
  /\ Held(d) \subseteq Held(c) \cup Held(m)
  /\ \/ c.login \in {d.login} \cup ToSet(d.alternates) \cup d.rejected
     \/ c.inLive /\ m.inLive
  /\ c.route # "" => d.route = c.route

\* Of two cards one is left, and nothing else changes.
LEMMA FoldFacts ==
  ASSUME NEW cs \in IdCards, NEW i \in In(cs), NEW j \in In(cs), i # j
  PROVE  LET ds == FoldedInto(cs, i, j)
         IN  /\ ds \in IdCards /\ ds[i] = NoCard /\ Folded(cs[j], cs[i], ds[j])
             /\ \A k \in CardNumbers \ {i, j} : ds[k] = cs[k]
<1> DEFINE ds == FoldedInto(cs, i, j)
           c == cs[j]
           m == cs[i]
           barred == Rejecting(c, m.rejected)
           back == Reverse(m.alternates)
           backed == KeepAlternates(barred, back)
           used == Adopt(backed, m.login, m.inLive)
           r == IF used.route = "" THEN m.route ELSE used.route
           d == [used EXCEPT !.waits = FALSE, !.route = r]
<1>1. i \in CardNumbers /\ j \in CardNumbers /\ c \in IdCard /\ m \in IdCard
  BY InPool
<1>2. ds = [cs EXCEPT ![i] = NoCard, ![j] = d]
  BY <1>1 DEF FoldedInto, IdCards
<1> HIDE DEF ds, c, m
<1>3. /\ m.login \in IdLogin /\ m.alternates \in Seq(IdLogin) /\ m.rejected \in SUBSET IdLogin
      /\ m.inLive \in BOOLEAN /\ m.route \in Routes
  BY <1>1, IdCardFields
<1>4. /\ SameCard(c, barred) /\ barred.login = c.login /\ barred.inLive = c.inLive
      /\ Alternates(barred) \subseteq Alternates(c)
  BY <1>1, <1>3, IdRejectingFacts
<1> HIDE DEF barred
<1>5. barred \in IdCard
  BY <1>4 DEF SameCard
<1>6. back \in Seq(IdLogin) /\ ToSet(back) \subseteq ToSet(m.alternates)
  BY <1>3, ReverseFacts
<1> HIDE DEF back
<1>7. IdKeeps(barred, backed, ToSet(back))
  BY <1>5, <1>6, IdKeepAllFacts
<1> HIDE DEF backed
<1>8. SameCard(c, backed) /\ backed.inLive = c.inLive
  BY ONLY <1>4, <1>7, Zenon DEF IdKeeps, SameCard
<1>9. /\ backed \in IdCard /\ backed.login = c.login
      /\ Alternates(backed) \subseteq Alternates(c) \cup ToSet(m.alternates)
  BY <1>4, <1>6, <1>7, <1>8 DEF IdKeeps, SameCard
<1>10. /\ SameCard(backed, used) /\ used.rejected = backed.rejected
       /\ used.login = (IF m.login \in used.rejected THEN c.login ELSE m.login)
       /\ Held(used) \subseteq Held(backed) \cup {m.login}
  BY <1>3, <1>9, IdAdoptFacts
<1>11. c.login \in Held(used) \cup used.rejected \/ (c.inLive /\ m.inLive)
  <2>1. backed.login \in Held(used) \cup backed.rejected \/ (backed.inLive /\ m.inLive)
    BY <1>3, <1>9, IdAdoptFacts
  <2> HIDE DEF used
  <2> QED
    BY ONLY <1>8, <1>9, <1>10, <2>1, Zenon
<1> HIDE DEF used
<1>12. used \in IdCard /\ used.who = c.who /\ used.route = c.route
  BY ONLY <1>8, <1>10, Zenon DEF SameCard
<1>13. Held(used) \subseteq Held(c) \cup Held(m)
  BY <1>9, <1>10 DEF Held, Alternates
<1>14. r \in Routes /\ (c.route # "" => r = c.route)
  BY <1>3, <1>12, IdCardFields
<1> HIDE DEF r
<1>15. d \in IdCard /\ d.who = used.who /\ d.login = used.login /\ d.rejected = used.rejected
       /\ d.alternates = used.alternates /\ d.route = r
  BY <1>12, <1>14 DEF IdCard
<1> HIDE DEF d
<1>16. Folded(c, m, d)
  <2>1. c.login \in {d.login} \cup ToSet(d.alternates) \cup d.rejected \/ (c.inLive /\ m.inLive)
    BY ONLY <1>11, <1>15, Zenon DEF Held
  <2>2. Held(d) \subseteq Held(c) \cup Held(m)
    BY <1>13, <1>15 DEF Held
  <2> QED
    BY <1>10, <1>12, <1>14, <1>15, <2>1, <2>2 DEF Folded
<1>17. /\ ds[i] = NoCard /\ ds[j] = d /\ \A k \in CardNumbers \ {i, j} : ds[k] = cs[k]
       /\ ds \in IdCards
  BY <1>1, <1>2, <1>15 DEF IdCards
<1> QED
  BY <1>16, <1>17 DEF ds, c, m

\* A refresh that is settled holds what can be merged.
LEMMA ProbingSettled ==
  ASSUME NEW w \in Probing
  PROVE  IdSettled(w) /\ w.found \in Whose /\ w.card \in CardNumbers
  BY DEF Probing, IdSettled

\* The card a refresh was for, with what the refresh learnt.
Told(c, w) ==
  [Merged(c, w) EXCEPT !.who = IF w.found # Nobody /\ @ = Nobody THEN w.found ELSE @]

\* It is of the account it was of, or learns it; an unnamed card has the login asked with.
LEMMA ToldFacts ==
  ASSUME NEW w \in Probing, ProbeLogins(w), NEW c \in IdCard, OwnCard(c),
         c.login.of = w.base.login.of, c.who = Nobody => c.login = w.base.login
  PROVE  LET d == Told(c, w)
         IN  /\ d \in IdCard /\ OwnCard(d) /\ d.login.of = c.login.of
             /\ d.who = (IF w.found # Nobody /\ c.who = Nobody THEN w.found ELSE c.who)
             /\ c.who = Nobody => d.login = w.login /\ d.inLive = w.inLive
<1> DEFINE m == Merged(c, w)
           x == IF w.found # Nobody /\ m.who = Nobody THEN w.found ELSE m.who
           d == Told(c, w)
<1>1. IdSettled(w) /\ w.found \in Whose
  BY ProbingSettled
<1>2. /\ SameCard(c, m) /\ m.login \in {c.login, w.login}
      /\ Held(m) \subseteq Held(c) \cup {w.login} \cup ToSet(w.alternates)
  BY <1>1, IdMergedFacts
<1>3. c.who = Nobody => m.login = w.login /\ m.inLive = w.inLive
  BY <1>1, IdMergedFacts
<1>4. d = [m EXCEPT !.who = x]
  BY DEF Told
<1> HIDE DEF m, d
<1>5. m \in IdCard /\ m.who = c.who
  BY <1>2 DEF SameCard
<1>6. x \in Whose
  BY <1>1, <1>5, IdCardFields
<1>7. /\ x = (IF w.found # Nobody /\ c.who = Nobody THEN w.found ELSE c.who)
      /\ NamedBy(c.login, x)
  BY <1>5 DEF ProbeLogins, OwnCard, NamedBy
<1> HIDE DEF x
<1>8. d \in IdCard /\ d.who = x /\ d.login = m.login /\ d.alternates = m.alternates
  BY <1>4, <1>5, <1>6 DEF IdCard
<1>9. d.inLive = m.inLive
  BY <1>4, <1>5 DEF IdCard
<1>10. d.login.of = c.login.of /\ \A l \in Held(m) : l.of = c.login.of
  BY <1>2, <1>8 DEF ProbeLogins, OwnCard
<1>11. OwnCard(d)
  BY <1>7, <1>8, <1>10 DEF OwnCard, NamedBy, Held
<1>12. c.who = Nobody => d.login = w.login /\ d.inLive = w.inLive
  BY ONLY <1>3, <1>8, <1>9, Zenon
<1> QED
  BY <1>7, <1>8, <1>10, <1>11, <1>12 DEF d

\* What FoldKeepsAll asks of a step.
FoldKept ==
  \A i \in In(roll) :
       probe # Idle /\ probe' = Idle /\ probe.pc = "merging" /\ roll'[i] = NoCard =>
       \E j \in In(roll) \ {i} :
         LET was == roll[j]  now == roll'[j]
         IN  /\ now.who = probe.found
             /\ now.login = (IF probe.login \in now.rejected THEN was.login ELSE probe.login)
             /\ \/ was.login \in {now.login} \cup ToSet(now.alternates) \cup now.rejected
                \/ was.inLive /\ probe.inLive
             /\ was.route # "" => now.route = was.route
             /\ picked = i => picked' = j

\* The pool after a refresh is merged.
MergeRight ==
  /\ PoolInv' /\ Selected' /\ roll' \in IdCards /\ picked' \in 0..MaxCards /\ FoldKept

\* A card that is not found to be of an account that has one only changes its logins,
\* and its name.
LEMMA NamedAlone ==
  ASSUME IdInv, NEW i \in In(roll), NEW d \in IdCard, OwnCard(d),
         d.who = Nobody \/ \A j \in In(roll) \ {i} : roll[j].who # d.who,
         roll' = [roll EXCEPT ![i] = d], picked' = picked, joined' = joined
  PROVE  MergeRight
<1>1. roll \in IdCards /\ OwnPool(roll) /\ i \in CardNumbers
  BY PoolOwned, InPool
<1>2. roll'[i] = d /\ \A j \in CardNumbers \ {i} : roll'[j] = roll[j]
  BY <1>1 DEF IdCards
<1>3. roll' \in IdCards
  BY <1>1 DEF IdCards
<1>4. In(roll') = In(roll)
  <2>1. \A j \in CardNumbers : j \in In(roll') <=> j \in In(roll)
    BY <1>2, NoCardFacts DEF In
  <2> QED
    BY <2>1 DEF In
<1>5. \A j \in In(roll) : OwnCard(roll'[j])
  BY <1>1, <1>2 DEF OwnPool, In
<1>6. ASSUME NEW j \in In(roll), NEW k \in In(roll), roll'[j].who # Nobody,
             roll'[j].who = roll'[k].who
      PROVE  j = k
  <2>1. j \in CardNumbers /\ k \in CardNumbers
    BY DEF In
  <2>2. CASE j # i /\ k # i
    BY <1>2, <1>6, <2>1, <2>2 DEF IdInv, PoolInv, OneCardEach
  <2>3. CASE j = i /\ k # i
    BY <1>2, <1>6, <2>1, <2>3
  <2>4. CASE j # i /\ k = i
    BY <1>2, <1>6, <2>1, <2>4
  <2> QED
    BY <2>2, <2>3, <2>4
<1>7. PoolInv'
  <2>1. Numbered'
    BY <1>4 DEF IdInv, PoolInv, Numbered
  <2>2. OneCardEach'
    BY <1>4, <1>6 DEF OneCardEach
  <2>3. OwnLogins'
    BY <1>4, <1>5 DEF OwnLogins
  <2> QED
    BY <2>1, <2>2, <2>3 DEF PoolInv
<1>8. Selected' /\ picked' \in 0..MaxCards
  BY <1>4 DEF IdInv, IdentitiesTypeOK, Selected
<1>9. FoldKept
  <2>1. \A j \in In(roll) : roll'[j] # NoCard
    BY <1>4 DEF In
  <2> QED
    BY <2>1 DEF FoldKept
<1> QED
  BY <1>3, <1>7, <1>8, <1>9 DEF MergeRight

\* A card found to be of an account that has one gives way to that one.
LEMMA FoldedAway ==
  ASSUME IdInv, probe \in Probing, NEW i \in In(roll), i = probe.card,
         NEW d \in IdCard, d = Told(roll[i], probe), NEW j \in In(roll) \ {i},
         d.who # Nobody, roll[j].who = d.who,
         roll' = FoldedInto([roll EXCEPT ![i] = d], i, j),
         picked' = (IF picked = i THEN j ELSE picked), joined' = joined
  PROVE  MergeRight
<1> DEFINE cs == [roll EXCEPT ![i] = d]
<1>1. /\ roll \in IdCards /\ OwnPool(roll) /\ i \in CardNumbers /\ roll[i] \in IdCard
      /\ j \in CardNumbers /\ roll[j] \in IdCard /\ OwnCard(roll[i]) /\ OwnCard(roll[j])
  BY PoolOwned, InPool DEF OwnPool
<1>2. ProbeLogins(probe) /\ CardProbed(roll, joined, probe)
  BY DEF IdInv, ProbeOwn
<1>3. /\ roll[i].who = probe.base.who /\ roll[i].login.of = probe.base.login.of
      /\ roll[i].who = Nobody => roll[i].login = probe.base.login
  BY <1>2 DEF CardProbed, In
<1>4. /\ OwnCard(d)
      /\ d.who = (IF probe.found # Nobody /\ roll[i].who = Nobody THEN probe.found ELSE roll[i].who)
      /\ roll[i].who = Nobody => d.login = probe.login /\ d.inLive = probe.inLive
  BY <1>1, <1>2, <1>3, ToldFacts
<1>5. roll[i].who = Nobody /\ d.who = probe.found /\ d.login = probe.login
      /\ d.inLive = probe.inLive
  <2>1. roll[i].who # roll[j].who \/ roll[i].who = Nobody
    BY DEF IdInv, PoolInv, OneCardEach
  <2> QED
    BY <1>4, <2>1
<1>6. /\ cs \in IdCards /\ i \in In(cs) /\ j \in In(cs) /\ i # j
      /\ cs[i] = d /\ \A k \in CardNumbers \ {i} : cs[k] = roll[k]
  BY <1>1, NoCardFacts DEF IdCards, In
<1> HIDE DEF cs
<1>7. /\ roll' \in IdCards /\ roll'[i] = NoCard /\ Folded(roll[j], d, roll'[j])
      /\ \A k \in CardNumbers \ {i, j} : roll'[k] = roll[k]
  <2>1. roll' = FoldedInto(cs, i, j)
    BY DEF cs
  <2>2. cs[j] = roll[j]
    BY <1>1, <1>6
  <2> DEFINE ds == FoldedInto(cs, i, j)
  <2>3. /\ ds \in IdCards /\ ds[i] = NoCard /\ Folded(cs[j], cs[i], ds[j])
        /\ \A k \in CardNumbers \ {i, j} : ds[k] = cs[k]
    BY <1>6, FoldFacts
  <2> HIDE DEF ds
  <2>4. \A k \in CardNumbers \ {i, j} : ds[k] = roll[k]
    BY <1>6, <2>3
  <2>5. Folded(roll[j], d, ds[j])
    BY <1>6, <2>2, <2>3
  <2>6. roll' = ds
    BY <2>1 DEF ds
  <2> QED
    BY <2>3, <2>4, <2>5, <2>6
<1> DEFINE now == roll'[j]
<1>8. /\ now \in IdCard /\ now.who = roll[j].who
      /\ now.login = (IF d.login \in now.rejected THEN roll[j].login ELSE d.login)
      /\ Held(now) \subseteq Held(roll[j]) \cup Held(d)
  BY <1>7 DEF Folded
<1>9. /\ \/ roll[j].login \in {now.login} \cup ToSet(now.alternates) \cup now.rejected
         \/ roll[j].inLive /\ d.inLive
      /\ roll[j].route # "" => now.route = roll[j].route
  BY <1>7, Zenon DEF Folded
<1>10. d.login.of = roll[j].login.of
  BY <1>1, <1>4 DEF OwnCard, NamedBy
<1> HIDE DEF now
<1>11. OwnCard(now)
  <2>1. now.login.of = roll[j].login.of
    BY <1>8, <1>10
  <2>2. \A l \in Held(now) : l.of = roll[j].login.of
    BY <1>1, <1>4, <1>8, <1>10 DEF OwnCard
  <2> QED
    BY <1>1, <1>8, <2>1, <2>2 DEF OwnCard, NamedBy
<1>12. In(roll') = In(roll) \ {i}
  <2>1. \A k \in CardNumbers : k \in In(roll') <=> k \in In(roll) \ {i}
    BY <1>7, <1>8, NoCardFacts DEF In, now
  <2> QED
    BY <2>1 DEF In
<1>13. \A k \in In(roll') : roll'[k].who = roll[k].who /\ OwnCard(roll'[k])
  BY <1>1, <1>7, <1>8, <1>11, <1>12 DEF OwnPool, In, now
<1>14. PoolInv'
  <2>1. Numbered'
    BY <1>12 DEF IdInv, PoolInv, Numbered
  <2>2. OneCardEach'
    <3>1. \A k, h \in In(roll) : roll[k].who # Nobody /\ roll[k].who = roll[h].who => k = h
      BY DEF IdInv, PoolInv, OneCardEach
    <3>2. \A k, h \in In(roll') : roll'[k].who # Nobody /\ roll'[k].who = roll'[h].who => k = h
      BY ONLY <1>12, <1>13, <3>1
    <3> QED
      BY <3>2 DEF OneCardEach
  <2>3. OwnLogins'
    BY <1>13 DEF OwnLogins
  <2> QED
    BY <2>1, <2>2, <2>3 DEF PoolInv
<1>15. Selected' /\ picked' \in 0..MaxCards
  <2>1. picked \in 0..MaxCards /\ (picked # 0 => picked \in In(roll))
    BY DEF IdInv, IdentitiesTypeOK, Selected
  <2>2. j \in 0..MaxCards
    BY <1>1, IdentityCounts DEF CardNumbers
  <2>3. CASE picked = i
    BY <1>12, <2>2, <2>3 DEF Selected
  <2>4. CASE picked # i
    BY <1>12, <2>1, <2>4 DEF Selected
  <2> QED
    BY <2>3, <2>4
<1>16. FoldKept
  <2> SUFFICES ASSUME NEW k \in In(roll), roll'[k] = NoCard
               PROVE  \E h \in In(roll) \ {k} :
                        LET was == roll[h]  new == roll'[h]
                        IN  /\ new.who = probe.found
                            /\ new.login = (IF probe.login \in new.rejected THEN was.login
                                            ELSE probe.login)
                            /\ \/ was.login \in {new.login} \cup ToSet(new.alternates)
                                                  \cup new.rejected
                               \/ was.inLive /\ probe.inLive
                            /\ was.route # "" => new.route = was.route
                            /\ picked = k => picked' = h
    BY Zenon DEF FoldKept
  <2>1. k = i
    BY <1>12 DEF In
  <2>2. now.who = probe.found
    BY <1>5, <1>8
  <2>3. now.login = (IF probe.login \in now.rejected THEN roll[j].login ELSE probe.login)
    BY <1>5, <1>8
  <2>4. \/ roll[j].login \in {now.login} \cup ToSet(now.alternates) \cup now.rejected
        \/ roll[j].inLive /\ probe.inLive
    BY ONLY <1>5, <1>9, Zenon
  <2>5. picked = k => picked' = j
    BY <2>1
  <2> QED
    BY <1>9, <2>1, <2>2, <2>3, <2>4, <2>5, Zenon DEF now
<1> QED
  BY <1>7, <1>14, <1>15, <1>16 DEF MergeRight

\* What a refresh learnt is merged: a card just named joins the one of its account.
LEMMA MergeFacts ==
  ASSUME IdInv, probe \in Probing, ProbeMerges
  PROVE  MergeRight
<1> DEFINE i == probe.card
           d == Told(roll[i], probe)
           cs == [roll EXCEPT ![i] = d]
           same == {j \in In(cs) \ {i} : cs[i].who # Nobody /\ cs[j].who = cs[i].who}
           m == MergeIdentified(cs, i)
<1>1. roll \in IdCards /\ OwnPool(roll) /\ i \in CardNumbers
  BY PoolOwned, ProbingSettled
<1>2. /\ IF roll[i] = NoCard THEN UNCHANGED <<roll, picked>>
         ELSE roll' = m.cards /\ picked' = m.picked
      /\ joined' = joined
  BY DEF ProbeMerges, Told
<1>3. CASE roll[i] = NoCard
  <2>1. roll' = roll /\ picked' = picked /\ joined' = joined
    BY <1>2, <1>3
  <2>2. PoolInv' /\ Selected' /\ picked' \in 0..MaxCards
    BY <2>1 DEF IdInv, IdentitiesTypeOK, PoolInv, Numbered, OneCardEach, OwnLogins, Selected
  <2>3. FoldKept
    BY <2>1 DEF FoldKept, In
  <2> QED
    BY <1>1, <2>1, <2>2, <2>3 DEF MergeRight
<1>4. CASE roll[i] # NoCard
  <2>1. i \in In(roll) /\ roll[i] \in IdCard /\ OwnCard(roll[i])
    BY <1>1, <1>4, InPool DEF In, OwnPool
  <2>2. ProbeLogins(probe) /\ CardProbed(roll, joined, probe)
    BY DEF IdInv, ProbeOwn
  <2>3. d \in IdCard /\ OwnCard(d)
    <3>1. /\ roll[i].login.of = probe.base.login.of
          /\ roll[i].who = Nobody => roll[i].login = probe.base.login
      BY <1>4, <2>2 DEF CardProbed
    <3> HIDE DEF d, i
    <3> QED
      BY <2>1, <2>2, <3>1, ToldFacts DEF d
  <2>4. cs[i] = d /\ \A k \in CardNumbers \ {i} : cs[k] = roll[k]
    BY <1>1 DEF IdCards
  <2>5. same = {j \in In(roll) \ {i} : d.who # Nobody /\ roll[j].who = d.who}
    BY <2>4 DEF In
  <2>6. m = IF same = {} THEN [cards |-> cs, picked |-> picked]
            ELSE [cards |-> FoldedInto(cs, i, Lowest(same)),
                  picked |-> IF picked = i THEN Lowest(same) ELSE picked]
    BY DEF MergeIdentified
  <2> HIDE DEF m, same, d
  <2>7. CASE same = {}
    <3>1. roll' = cs /\ picked' = picked /\ joined' = joined
      BY <1>2, <1>4, <2>6, <2>7
    <3>2. d.who = Nobody \/ \A j \in In(roll) \ {i} : roll[j].who # d.who
      BY <2>5, <2>7
    <3> HIDE DEF i
    <3> QED
      BY <2>1, <2>3, <3>1, <3>2, NamedAlone
  <2>8. CASE same # {}
    <3> DEFINE j == Lowest(same)
    <3>1. j \in same
      BY <2>5, <2>8, LowestFacts DEF In
    <3> HIDE DEF j
    <3>2. j \in In(roll) \ {i} /\ d.who # Nobody /\ roll[j].who = d.who
      BY <2>5, <3>1
    <3>3. /\ roll' = FoldedInto(cs, i, j) /\ picked' = (IF picked = i THEN j ELSE picked)
          /\ joined' = joined
      BY <1>2, <1>4, <2>6, <2>8 DEF j
    <3>4. i = probe.card /\ d = Told(roll[i], probe)
      BY DEF d
    <3> HIDE DEF i
    <3> QED
      BY <2>1, <2>3, <3>2, <3>3, <3>4, FoldedAway
  <2> QED
    BY <2>7, <2>8
<1> QED
  BY <1>3, <1>4

-----------------------------------------------------------------------------
(* The invariant, by what holds which part of it.                          *)

PoolFine ==
  /\ roll \in IdCards /\ picked \in 0..MaxCards /\ joined \in 0..MaxCards
  /\ PoolInv /\ Selected
ClaudeFine ==
  /\ code \in CodeLogin \cup {NoCard} /\ granted \in [People -> 0..MaxGranted]
  /\ dead \in SUBSET IdLogin /\ taken \subseteq dead
  /\ code # NoCard => NamedBy(code.login, code.who)
ProbeFine == probe \in Probing \cup Joining \cup {Idle} /\ ProbeOwn
SigningFine ==
  signing \in Joining \cup {Idle} /\ (signing # Idle => NamedBy(signing.login, signing.who))
WishesFine == asksNew \in BOOLEAN /\ routed \in 0..MaxRoutes

\* The invariant is its parts.
LEMMA IdInvParts ==
  /\ IdInv => PoolFine /\ ClaudeFine /\ ProbeFine /\ SigningFine /\ WishesFine
  /\ PoolFine /\ ClaudeFine /\ ProbeFine /\ SigningFine /\ WishesFine => IdInv
  BY DEF IdInv, PoolFine, ClaudeFine, ProbeFine, SigningFine, WishesFine, IdentitiesTypeOK,
         NamesKnown, IdCards

\* And so after a step.
LEMMA IdInvNext ==
  ASSUME PoolFine', ClaudeFine', ProbeFine', SigningFine', WishesFine'
  PROVE  IdInv'
  BY DEF IdInv, PoolFine, ClaudeFine, ProbeFine, SigningFine, WishesFine, IdentitiesTypeOK,
         NamesKnown, IdCards

\* A pool of the same accounts, in which the card of a refresh is what it was.
PoolNext ==
  PoolFine' /\ \A w \in Probing : CardProbed(roll, joined, w) => CardProbed(roll', joined', w)

\* What a step of the specification comes to.
IdStep == IdInv' /\ FoldKept

\* Only a merge ends a refresh that is to be merged.
LEMMA NothingFolded ==
  ASSUME \/ probe = Idle \/ probe' = probe \/ probe' \in Probing \cup Joining
         \/ probe.pc # "merging"
  PROVE  FoldKept
  BY NoCardFacts DEF FoldKept

\* What is running is a refresh or an import, as its stage tells.
LEMMA WhichProbe ==
  ASSUME IdInv, probe # Idle
  PROVE  /\ probe.pc \in {"naming", "asking", "answered", "merging"} => probe \in Probing
         /\ probe.pc = "profile" => probe \in Joining
  BY DEF IdInv, IdentitiesTypeOK, Probing, Joining

\* A refresh or an import that waits while the pool changes.
LEMMA ProbeStands ==
  ASSUME IdInv, PoolNext, probe' = probe
  PROVE  ProbeFine'
  BY IdInvParts DEF PoolNext, ProbeFine, ProbeOwn

\* Nothing runs.
LEMMA ProbeGone ==
  ASSUME probe' = Idle
  PROVE  ProbeFine'
  BY NoCardFacts DEF ProbeFine, ProbeOwn

\* The pool does not change.
LEMMA PoolStands ==
  ASSUME IdInv, UNCHANGED poolOf
  PROVE  PoolNext
<1>1. roll' = roll /\ picked' = picked /\ joined' = joined
  BY DEF poolOf
<1>2. PoolFine
  BY IdInvParts
<1>3. PoolFine'
  BY <1>1, <1>2 DEF PoolFine, PoolInv, Numbered, OneCardEach, OwnLogins, Selected
<1> QED
  BY <1>1, <1>3 DEF PoolNext

\* Cards change as their logins and wishes may, or leave.
LEMMA PoolChanges ==
  ASSUME IdInv, roll' \in IdCards, joined' = joined, picked' \in 0..MaxCards, Selected',
         \A i \in In(roll') : i \in In(roll) /\ StaysOwn(roll[i], roll'[i])
  PROVE  PoolNext
<1>1. joined \in 0..MaxCards /\ In(roll) \subseteq 1..joined
  BY DEF IdInv, IdentitiesTypeOK, PoolInv, Numbered
<1>2. Grows(roll, roll', joined) /\ In(roll') \subseteq 1..joined'
  BY <1>1 DEF Grows
<1>3. joined' \in Nat /\ joined <= joined'
  BY <1>1, IdentityCounts
<1>4. PoolInv' /\ \A w \in Probing : CardProbed(roll, joined, w) => CardProbed(roll', joined', w)
  BY <1>2, <1>3, PoolGrows
<1> QED
  BY <1>1, <1>4 DEF PoolNext, PoolFine

\* Claude Code's login is followed.
LEMMA RollFollows ==
  ASSUME IdInv, roll' = FollowedCode(roll, picked).cards,
         picked' = FollowedCode(roll, picked).picked, joined' = joined
  PROVE  PoolNext
<1> DEFINE f == FollowedCode(roll, picked)
<1>1. /\ f.cards \in IdCards /\ In(f.cards) = In(roll)
      /\ \A i \in In(roll) : StaysOwn(roll[i], f.cards[i])
      /\ f.picked \in 0..MaxCards /\ (f.picked # 0 => f.picked \in In(roll))
  BY FollowedFacts
<1>2. roll' = f.cards /\ picked' = f.picked /\ joined' = joined
  OBVIOUS
<1> HIDE DEF f
<1>3. Selected'
  BY <1>1, <1>2 DEF Selected
<1>4. \A i \in In(roll') : i \in In(roll) /\ StaysOwn(roll[i], roll'[i])
  BY <1>1, <1>2
<1>5. roll' \in IdCards /\ picked' \in 0..MaxCards
  BY <1>1, <1>2
<1>6. PoolNext
  BY <1>2, <1>3, <1>4, <1>5, PoolChanges
<1> QED
  BY <1>6

\* A login joins the pool.
LEMMA PoolJoined ==
  ASSUME IdInv, NEW login \in IdLogin, NEW who, NamedBy(login, who), NEW cur \in BOOLEAN,
         Upsert(login, who, cur)
  PROVE  PoolNext
<1>1. /\ Grows(roll, roll', joined) /\ In(roll') \subseteq 1..joined'
      /\ joined' \in 0..MaxCards /\ joined <= joined'
      /\ picked' \in 0..MaxCards /\ Selected'
  BY UpsertFacts
<1>2. joined' \in Nat
  BY <1>1, IdentityCounts
<1>3. PoolInv' /\ \A w \in Probing : CardProbed(roll, joined, w) => CardProbed(roll', joined', w)
  BY <1>1, <1>2, PoolGrows
<1> QED
  BY <1>1, <1>3 DEF PoolNext, PoolFine, Grows

\* What a user wishes of a card, and a card deleted.
LEMMA PoolWished ==
  ASSUME IdInv, NEW i \in CardNumbers, roll[i] # NoCard, NEW d \in IdCard \cup {NoCard},
         d # NoCard => StaysOwn(roll[i], d), roll' = [roll EXCEPT ![i] = d],
         picked' = (IF d = NoCard /\ picked = i THEN 0 ELSE picked), joined' = joined
  PROVE  PoolNext
<1>1. roll \in IdCards /\ OwnPool(roll) /\ i \in In(roll)
  BY PoolOwned DEF In
<1>2. roll'[i] = d /\ \A j \in CardNumbers \ {i} : roll'[j] = roll[j]
  BY <1>1 DEF IdCards
<1>3. roll' \in IdCards
  BY <1>1 DEF IdCards
<1>4. picked \in 0..MaxCards /\ (picked # 0 => picked \in In(roll))
  BY DEF IdInv, IdentitiesTypeOK, Selected
<1>5. picked' \in 0..MaxCards
  BY <1>4, IdentityCounts
<1>6. Selected'
  BY <1>2, <1>4 DEF Selected, In
<1>7. ASSUME NEW j \in In(roll') PROVE j \in In(roll) /\ StaysOwn(roll[j], roll'[j])
  <2>1. CASE j = i
    BY <1>1, <1>2, <1>7, <2>1 DEF In
  <2>2. CASE j # i
    <3>1. j \in In(roll) /\ roll'[j] = roll[j]
      BY <1>2, <1>7, <2>2 DEF In
    <3>2. roll[j] \in IdCard /\ OwnCard(roll[j]) /\ "" \in Routes /\ TRUE \in BOOLEAN
      BY <1>1, <3>1, InPool DEF OwnPool, Routes
    <3> QED
      BY <3>1, <3>2, WishesStay
  <2> QED
    BY <2>1, <2>2
<1> QED
  BY <1>3, <1>5, <1>6, <1>7, PoolChanges

\* A step that leaves what runs alone.
LEMMA StepBeside ==
  ASSUME IdInv, PoolNext, probe' = probe, ClaudeFine', SigningFine', WishesFine'
  PROVE  IdStep
  BY ProbeStands, NothingFolded, IdInvNext DEF IdStep, PoolNext

\* What stays the same is as it was.
LEMMA StandStill ==
  ASSUME IdInv
  PROVE  /\ UNCHANGED claudeOf => ClaudeFine'
         /\ UNCHANGED signing => SigningFine'
         /\ UNCHANGED wishes => WishesFine'
<1>1. ClaudeFine /\ SigningFine /\ WishesFine
  BY IdInvParts
<1> QED
  BY <1>1 DEF claudeOf, wishes, ClaudeFine, SigningFine, WishesFine

\* The parts make the step.
LEMMA StepMade ==
  ASSUME PoolNext, ClaudeFine', ProbeFine', SigningFine', WishesFine', FoldKept
  PROVE  IdStep
  BY IdInvNext DEF IdStep, PoolNext

\* A refresh goes on: with its card, and with logins of the account of that.
LEMMA ProbeGoesOn ==
  ASSUME IdInv, probe \in Probing, UNCHANGED poolOf, probe' \in Probing,
         probe'.card = probe.card, probe'.base = probe.base, ProbeLogins(probe')
  PROVE  PoolNext /\ ProbeFine' /\ FoldKept
<1>1. PoolNext /\ roll' = roll /\ joined' = joined
  BY PoolStands DEF poolOf
<1>2. CardProbed(roll, joined, probe)
  BY DEF IdInv, ProbeOwn
<1>3. CardProbed(roll', joined', probe')
  BY <1>1, <1>2 DEF CardProbed
<1>4. probe' \notin Joining
  BY DEF Probing, Joining
<1>5. ProbeFine'
  BY <1>3, <1>4 DEF ProbeFine, ProbeOwn
<1> QED
  BY <1>1, <1>5, NothingFolded

\* A refresh that begins has read its card as Claude Code's login leaves it.
LEMMA ProbeStartsStep ==
  ASSUME IdInv, NEW i \in CardNumbers, ProbeStarts(i)
  PROVE  IdStep
<1> DEFINE f == FollowedCode(roll, picked)
           c == f.cards[i]
           pc == IF c.who = Nobody THEN "naming" ELSE "asking"
           new == [pc |-> pc, card |-> i,
                    base |-> c, login |-> c.login, alternates |-> c.alternates,
                    rejected |-> {}, renewed |-> FALSE, inLive |-> FALSE, found |-> Nobody,
                    result |-> "none"]
<1>1. /\ probe = Idle /\ i \in In(roll) /\ roll' = f.cards /\ picked' = f.picked
      /\ joined' = joined /\ UNCHANGED claudeOf /\ UNCHANGED signing /\ UNCHANGED wishes
      /\ probe' = Idle \/ probe' = new
  BY DEF ProbeStarts, In
<1>2. PoolNext
  BY <1>1, RollFollows
<1>3. c \in IdCard /\ OwnCard(c) /\ i <= joined
  <2>1. StaysOwn(roll[i], c)
    BY <1>1, FollowedFacts
  <2>2. i \in 1..joined
    BY <1>1 DEF IdInv, PoolInv, Numbered
  <2> HIDE DEF c
  <2> QED
    BY <2>1, <2>2 DEF StaysOwn
<1>4. roll'[i] = c
  BY <1>1
<1> HIDE DEF c
<1>5. new \in Probing
  BY <1>3, IdCardFields DEF Probing, Whose
<1>6. ProbeLogins(new)
  BY <1>3 DEF ProbeLogins, OwnCard, NamedBy, Held
<1>7. CardProbed(roll', joined', new)
  BY <1>1, <1>3, <1>4 DEF CardProbed
<1>8. new \notin Joining
  <2> HIDE DEF new
  <2> QED BY <1>5 DEF Probing, Joining
<1> HIDE DEF new
<1>9. ProbeFine'
  <2>1. CASE probe' = Idle
    BY <2>1, ProbeGone
  <2>2. CASE probe' = new
    BY <1>5, <1>6, <1>7, <1>8, <2>2 DEF ProbeFine, ProbeOwn
  <2> QED
    BY <1>1, <2>1, <2>2
<1>10. ClaudeFine' /\ SigningFine' /\ WishesFine'
  BY <1>1, StandStill
<1> QED
  BY <1>1, <1>2, <1>9, <1>10, NothingFolded, IdInvNext DEF IdStep, PoolNext

\* The fields of a refresh.
LEMMA ProbingFields ==
  ASSUME NEW w \in Probing
  PROVE  /\ w.login \in IdLogin /\ w.alternates \in Seq(IdLogin) /\ w.rejected \in SUBSET IdLogin
         /\ w.base \in IdCard /\ w.found \in Whose /\ w.login.of \in People
         /\ w.pc \in {"naming", "asking", "answered", "merging"}
         /\ w.result \in {"none", "ok", "failed", "refused"}
  BY DEF Probing, IdLogin

\* A renewal gives the account another login.
LEMMA ProbeRenewsStep ==
  ASSUME IdInv, ProbeRenews
  PROVE  IdStep
<1> DEFINE p == probe.login.of
           gone == probe.login \in dead \cup probe.base.rejected
           next == [probe.login EXCEPT !.gen = granted[p] + 1]
<1>1. probe \in Probing
  BY WhichProbe DEF ProbeRenews, Asking
<1>2. ProbeLogins(probe)
  BY <1>1 DEF IdInv, ProbeOwn
<1>3. UNCHANGED poolOf /\ UNCHANGED signing /\ UNCHANGED wishes
  BY DEF ProbeRenews
<1>4. /\ probe.login \in IdLogin /\ p \in People /\ granted \in [People -> 0..MaxGranted]
      /\ ClaudeFine
  BY <1>1, ProbingFields, IdInvParts DEF ClaudeFine
<1>5. CASE gone
  <2>1. probe' = [probe EXCEPT !.pc = "answered", !.result = "refused"] /\ UNCHANGED claudeOf
    BY <1>5 DEF ProbeRenews
  <2>2. probe' \in Probing
    BY <1>1, <2>1 DEF Probing
  <2>3. /\ probe'.card = probe.card /\ probe'.base = probe.base /\ probe'.found = probe.found
        /\ probe'.login = probe.login /\ probe'.alternates = probe.alternates
    BY <1>1, <2>1 DEF Probing
  <2>4. ProbeLogins(probe')
    BY <1>2, <2>3 DEF ProbeLogins
  <2>5. PoolNext /\ ProbeFine' /\ FoldKept
    BY <1>1, <1>3, <2>2, <2>3, <2>4, ProbeGoesOn
  <2> QED
    <3>1. ClaudeFine' /\ SigningFine' /\ WishesFine'
      BY <1>3, <2>1, StandStill
    <3> QED
      BY <2>5, <3>1, StepMade
<1>6. CASE ~ gone
  <2>1. /\ granted[p] < MaxGranted /\ granted' = [granted EXCEPT ![p] = @ + 1]
        /\ dead' = dead \cup {probe.login} /\ taken' = taken \cup {probe.login}
        /\ probe' = [probe EXCEPT !.renewed = TRUE, !.login = next] /\ code' = code
    BY <1>6 DEF ProbeRenews, Renewed
  <2>2. next \in IdLogin /\ next.of = p
    BY <1>4, <2>1, IdentityCounts DEF IdLogin
  <2> HIDE DEF next
  <2>3. probe' \in Probing
    BY <1>1, <2>1, <2>2 DEF Probing
  <2>4. /\ probe'.card = probe.card /\ probe'.base = probe.base /\ probe'.found = probe.found
        /\ probe'.login = next /\ probe'.alternates = probe.alternates
    BY <1>1, <2>1 DEF Probing
  <2>5. ProbeLogins(probe')
    BY <1>2, <2>2, <2>4 DEF ProbeLogins
  <2>6. PoolNext /\ ProbeFine' /\ FoldKept
    BY <1>1, <1>3, <2>3, <2>4, <2>5, ProbeGoesOn
  <2>7. granted' \in [People -> 0..MaxGranted]
    BY <1>4, <2>1, IdentityCounts
  <2>8. ClaudeFine'
    BY <1>4, <2>1, <2>7 DEF ClaudeFine
  <2> QED
    <3>1. SigningFine' /\ WishesFine'
      BY <1>3, StandStill
    <3> QED
      BY <2>6, <2>8, <3>1, StepMade
<1> QED
  BY <1>5, <1>6

\* The profile names the account of the login it is asked with.
LEMMA ProbeNamesStep ==
  ASSUME IdInv, ProbeNames
  PROVE  IdStep
<1>1. probe \in Probing
  BY WhichProbe DEF ProbeNames, Asking
<1>2. ProbeLogins(probe)
  BY <1>1 DEF IdInv, ProbeOwn
<1>3. /\ UNCHANGED poolOf /\ UNCHANGED claudeOf /\ UNCHANGED signing /\ UNCHANGED wishes
      /\ probe' = [probe EXCEPT !.pc = "asking", !.found = probe.login.of]
  BY DEF ProbeNames
<1>4. probe.login.of \in Whose
  BY <1>1, ProbingFields DEF Whose
<1>5. probe' \in Probing
  BY <1>1, <1>3, <1>4 DEF Probing
<1>6. /\ probe'.card = probe.card /\ probe'.base = probe.base
      /\ probe'.found = probe.login.of /\ probe'.login = probe.login
      /\ probe'.alternates = probe.alternates
  BY <1>1, <1>3 DEF Probing
<1>7. ProbeLogins(probe')
  BY <1>2, <1>6 DEF ProbeLogins, NamedBy
<1>8. PoolNext /\ ProbeFine' /\ FoldKept
  BY <1>1, <1>3, <1>5, <1>6, <1>7, ProbeGoesOn
<1>9. ClaudeFine' /\ SigningFine' /\ WishesFine'
  BY <1>3, StandStill
<1> QED
  BY <1>8, <1>9, StepMade

\* The usage answers, or something fails.
LEMMA ProbeAnswersStep ==
  ASSUME IdInv, NEW result \in {"ok", "failed"}, ProbeAnswers(result)
  PROVE  IdStep
<1>1. probe \in Probing
  BY WhichProbe DEF ProbeAnswers, Asking
<1>2. ProbeLogins(probe)
  BY <1>1 DEF IdInv, ProbeOwn
<1>3. /\ UNCHANGED poolOf /\ UNCHANGED claudeOf /\ UNCHANGED signing /\ UNCHANGED wishes
      /\ probe' = [probe EXCEPT !.pc = "answered", !.result = result]
  BY DEF ProbeAnswers
<1>4. probe' \in Probing
  BY <1>1, <1>3 DEF Probing
<1>5. /\ probe'.card = probe.card /\ probe'.base = probe.base /\ probe'.found = probe.found
      /\ probe'.login = probe.login /\ probe'.alternates = probe.alternates
  BY <1>1, <1>3 DEF Probing
<1>6. ProbeLogins(probe')
  BY <1>2, <1>5 DEF ProbeLogins
<1>7. PoolNext /\ ProbeFine' /\ FoldKept
  BY <1>1, <1>3, <1>4, <1>5, <1>6, ProbeGoesOn
<1>8. ClaudeFine' /\ SigningFine' /\ WishesFine'
  BY <1>3, StandStill
<1> QED
  BY <1>7, <1>8, StepMade

\* A login written back to Claude Code is of the account it names.
LEMMA WrittenNamed ==
  ASSUME IdInv, NEW w, code # NoCard, WrittenBack(w), NamedBy(w.base.login, w.base.who),
         w.login \in IdLogin, w.login.of = w.base.login.of
  PROVE  /\ [code EXCEPT !.login = w.login] \in CodeLogin
         /\ NamedBy(w.login, code.who)
         /\ [code EXCEPT !.login = w.login].login = w.login
         /\ [code EXCEPT !.login = w.login].who = code.who
<1>1. code \in CodeLogin /\ NamedBy(code.login, code.who)
  BY DEF IdInv, IdentitiesTypeOK, NamesKnown
<1>2. code.who # Nobody => code.who = w.base.who
  BY DEF WrittenBack
<1>3. NamedBy(w.login, code.who)
  BY <1>1, <1>2 DEF NamedBy
<1> QED
  BY <1>1, <1>3 DEF CodeLogin

\* A refresh asks again with the next login, or settles.
LEMMA ProbeSettlesStep ==
  ASSUME IdInv, ProbeSettles
  PROVE  IdStep
<1> DEFINE refused == probe.result = "refused"
           rejected == probe.rejected \cup (IF refused THEN {probe.login} ELSE {})
           left == Without(probe.alternates, rejected)
           w == [probe EXCEPT !.rejected = rejected, !.alternates = left]
           back == WrittenBack(w)
           seen == back \/ (code # NoCard /\ code.login = w.login)
           pc == IF w.base.who = Nobody THEN "naming" ELSE "asking"
<1>1. probe \in Probing
  BY WhichProbe DEF ProbeSettles
<1>2. ProbeLogins(probe)
  BY <1>1 DEF IdInv, ProbeOwn
<1>3. UNCHANGED poolOf /\ UNCHANGED signing /\ UNCHANGED wishes
      /\ UNCHANGED <<granted, dead, taken>>
  BY DEF ProbeSettles
<1>4. /\ probe.login \in IdLogin /\ probe.alternates \in Seq(IdLogin)
      /\ probe.rejected \in SUBSET IdLogin
  BY <1>1, ProbingFields
<1>5. rejected \in SUBSET IdLogin
  BY <1>4
<1>6. left \in Seq(IdLogin) /\ ToSet(left) \subseteq ToSet(probe.alternates)
  BY <1>4, WithoutFacts
<1>7. \/ /\ left # <<>> /\ code' = code
         /\ probe' = [w EXCEPT !.login = Head(w.alternates), !.alternates = Tail(@),
                        !.renewed = FALSE, !.result = "none", !.pc = pc]
      \/ /\ probe' = [w EXCEPT !.pc = "merging", !.inLive = seen]
         /\ code' = IF back THEN [code EXCEPT !.login = w.login] ELSE code
  <2>1. w.alternates = left
    BY <1>1 DEF Probing
  <2> QED
    BY <2>1 DEF ProbeSettles
<1> HIDE DEF rejected, left
<1>8. /\ w \in Probing /\ w.card = probe.card /\ w.base = probe.base /\ w.found = probe.found
      /\ w.login = probe.login /\ w.alternates = left
  BY <1>1, <1>5, <1>6 DEF Probing
<1> HIDE DEF w
<1>9. CASE /\ left # <<>> /\ code' = code
           /\ probe' = [w EXCEPT !.login = Head(w.alternates), !.alternates = Tail(@),
                          !.renewed = FALSE, !.result = "none", !.pc = pc]
  <2> DEFINE l == Head(left)
             s == Tail(left)
  <2>1. l \in IdLogin /\ l \in ToSet(left) /\ s \in Seq(IdLogin) /\ ToSet(s) \subseteq ToSet(left)
    <3>1. /\ left \in Seq(IdLogin) /\ Len(left) \in Nat /\ Len(left) >= 1 /\ l = left[1]
          /\ s \in Seq(IdLogin) /\ Len(s) = Len(left) - 1
          /\ \A i \in 1..Len(s) : s[i] = left[i + 1]
      BY <1>6, <1>9
    <3> HIDE DEF l, s
    <3>2. \A x : x \in ToSet(s) => x \in ToSet(left)
      <4> SUFFICES ASSUME NEW x, x \in ToSet(s) PROVE x \in ToSet(left)
        OBVIOUS
      <4>1. PICK i \in 1..Len(s) : s[i] = x
        BY <3>1, InToSet
      <4>2. i + 1 \in 1..Len(left) /\ left[i + 1] = x
        BY <3>1, <4>1
      <4> QED
        BY <3>1, <4>2, InToSet
    <3>3. 1 \in 1..Len(left)
      BY <3>1
    <3> QED
      BY <3>1, <3>2, <3>3, InToSet
  <2>2. pc \in {"naming", "asking"}
    OBVIOUS
  <2>3. probe' = [w EXCEPT !.login = l, !.alternates = s, !.renewed = FALSE,
                           !.result = "none", !.pc = pc]
    BY <1>8, <1>9
  <2> HIDE DEF l, s, pc
  <2>4. probe' \in Probing
    BY <1>8, <2>1, <2>2, <2>3 DEF Probing
  <2>5. /\ probe'.card = probe.card /\ probe'.base = probe.base /\ probe'.found = probe.found
        /\ probe'.login = l /\ probe'.alternates = s
    BY <1>8, <2>3 DEF Probing
  <2>6. ProbeLogins(probe')
    BY <1>2, <1>6, <2>1, <2>5 DEF ProbeLogins
  <2>7. PoolNext /\ ProbeFine' /\ FoldKept
    BY <1>1, <1>3, <2>4, <2>5, <2>6, ProbeGoesOn
  <2>8. ClaudeFine' /\ SigningFine' /\ WishesFine'
    <3>1. UNCHANGED claudeOf
      BY <1>3, <1>9 DEF claudeOf
    <3> QED
      BY <1>3, <3>1, StandStill
  <2> QED
    BY <2>7, <2>8, StepMade
<1>10. CASE /\ probe' = [w EXCEPT !.pc = "merging", !.inLive = seen]
            /\ code' = IF back THEN [code EXCEPT !.login = w.login] ELSE code
  <2>1. seen \in BOOLEAN /\ (back => code # NoCard)
    BY DEF WrittenBack
  <2> HIDE DEF seen
  <2>2. probe' \in Probing
    BY <1>8, <1>10, <2>1 DEF Probing
  <2>3. /\ probe'.card = probe.card /\ probe'.base = probe.base /\ probe'.found = probe.found
        /\ probe'.login = probe.login /\ probe'.alternates = left
    BY <1>8, <1>10 DEF Probing
  <2>4. ProbeLogins(probe')
    BY <1>2, <1>6, <2>3 DEF ProbeLogins
  <2>5. PoolNext /\ ProbeFine' /\ FoldKept
    BY <1>1, <1>3, <2>2, <2>3, <2>4, ProbeGoesOn
  <2>6. SigningFine' /\ WishesFine'
    BY <1>3, StandStill
  <2>7. ClaudeFine
    BY IdInvParts
  <2>8. ClaudeFine'
    <3>1. CASE ~ back
      BY <1>3, <1>10, <2>7, <3>1 DEF ClaudeFine
    <3>2. CASE back
      <4>1. code' = [code EXCEPT !.login = w.login]
        BY <1>10, <3>2
      <4>2. /\ code' \in CodeLogin /\ NamedBy(w.login, code.who)
            /\ code'.login = w.login /\ code'.who = code.who
        <5>1. code # NoCard /\ WrittenBack(w)
          BY <2>1, <3>2
        <5>2. /\ NamedBy(w.base.login, w.base.who) /\ w.login \in IdLogin
              /\ w.login.of = w.base.login.of
          BY <1>2, <1>4, <1>8 DEF ProbeLogins
        <5> QED
          BY <4>1, <5>1, <5>2, WrittenNamed
      <4> QED
        BY <1>3, <2>7, <4>2 DEF ClaudeFine
    <3> QED
      BY <3>1, <3>2
  <2> QED
    BY <2>5, <2>6, <2>8, StepMade
<1> QED
  BY <1>7, <1>9, <1>10

\* A refresh is merged.
LEMMA ProbeMergesStep ==
  ASSUME IdInv, ProbeMerges
  PROVE  IdStep
<1>1. probe \in Probing
  BY WhichProbe DEF ProbeMerges
<1>2. MergeRight
  BY <1>1, MergeFacts
<1>3. /\ probe' = Idle /\ joined' = joined
      /\ UNCHANGED claudeOf /\ UNCHANGED signing /\ UNCHANGED wishes
  BY DEF ProbeMerges
<1>4. ClaudeFine' /\ SigningFine' /\ WishesFine' /\ ProbeFine'
  BY <1>3, StandStill, ProbeGone
<1>5. joined' \in 0..MaxCards
  BY <1>3 DEF IdInv, IdentitiesTypeOK
<1>6. PoolFine'
  BY <1>2, <1>5 DEF MergeRight, PoolFine
<1> QED
  BY <1>2, <1>4, <1>6, IdInvNext DEF IdStep, MergeRight

\* A login is imported: it joins the pool, or its profile is asked first.
LEMMA ImportStartsStep ==
  ASSUME IdInv, NEW login \in IdLogin, NEW who, NamedBy(login, who), NEW cur \in BOOLEAN,
         ImportStarts(login, who, cur)
  PROVE  IdStep
<1> DEFINE own == Matches(roll, login, Nobody)
           w == IF who = Nobody /\ own # {} THEN roll[Lowest(own)].who ELSE who
           new == [pc |-> "profile", login |-> login, who |-> Nobody, current |-> cur]
<1>1. /\ probe = Idle /\ UNCHANGED claudeOf /\ UNCHANGED signing /\ UNCHANGED wishes
      /\ \/ probe' = new /\ UNCHANGED poolOf
         \/ Upsert(login, w, cur) /\ probe' = probe
  BY DEF ImportStarts
<1>2. ClaudeFine' /\ SigningFine' /\ WishesFine' /\ FoldKept
  BY <1>1, StandStill, NothingFolded
<1>3. CASE probe' = new /\ UNCHANGED poolOf
  <2>1. new \in Joining /\ NamedBy(new.login, new.who)
    BY DEF Joining, Whose, NamedBy
  <2>2. new \notin Probing
    BY DEF Probing
  <2> HIDE DEF new
  <2>3. ProbeFine'
    BY <1>3, <2>1, <2>2 DEF ProbeFine, ProbeOwn
  <2> QED
    BY <1>2, <1>3, <2>3, PoolStands, StepMade
<1>4. CASE Upsert(login, w, cur) /\ probe' = probe
  <2>1. NamedBy(login, w)
    <3>1. CASE who = Nobody /\ own # {}
      <4> DEFINE k == Lowest(own)
      <4>1. k \in own
        BY <3>1, LowestFacts DEF Matches, In
      <4>2. OwnPool(roll) /\ NamedBy(login, Nobody)
        BY PoolOwned DEF NamedBy
      <4> HIDE DEF k
      <4>3. OwnCard(roll[k]) /\ roll[k].login.of = login.of
        BY <4>1, <4>2, MatchesOwn
      <4>4. w = roll[k].who
        BY <3>1 DEF k
      <4> HIDE DEF w
      <4> QED
        BY <4>3, <4>4 DEF OwnCard, NamedBy
    <3>2. CASE ~ (who = Nobody /\ own # {})
      BY <3>2
    <3> QED
      BY <3>1, <3>2
  <2> HIDE DEF w
  <2>2. PoolNext
    BY <1>4, <2>1, PoolJoined
  <2>3. ProbeFine'
    BY <1>4, <2>2, ProbeStands
  <2> QED
    BY <1>2, <2>2, <2>3, StepMade
<1> QED
  BY <1>1, <1>3, <1>4

\* The profile of a login imported answers.
LEMMA ImportAnswersStep ==
  ASSUME IdInv, ImportAnswers
  PROVE  IdStep
<1>1. probe \in Joining /\ probe.pc # "merging"
  BY WhichProbe DEF ImportAnswers
<1>2. probe' = Idle /\ UNCHANGED claudeOf /\ UNCHANGED signing /\ UNCHANGED wishes
  BY DEF ImportAnswers
<1>3. PICK who \in {Nobody, probe.login.of} : Upsert(probe.login, who, probe.current)
  BY DEF ImportAnswers
<1>4. probe.login \in IdLogin /\ probe.current \in BOOLEAN /\ NamedBy(probe.login, who)
  BY <1>1 DEF Joining, NamedBy
<1>5. PoolNext
  BY <1>3, <1>4, PoolJoined
<1>6. ClaudeFine' /\ SigningFine' /\ WishesFine' /\ FoldKept /\ ProbeFine'
  BY <1>1, <1>2, StandStill, NothingFolded, ProbeGone
<1> QED
  BY <1>5, <1>6, StepMade

\* A browser sign-in ends, with a login more of its account.
LEMMA SignInEndsStep ==
  ASSUME IdInv, NEW p \in People, NEW told \in BOOLEAN, SignInEnds(p, told)
  PROVE  IdStep
<1> DEFINE login == [of |-> p, gen |-> granted[p] + 1]
           who == IF told THEN p ELSE Nobody
           own == Matches(roll, login, who)
           pc == IF MayContact(own) THEN "profile" ELSE "joining"
           new == [pc |-> pc, login |-> login, who |-> who, current |-> FALSE]
<1>1. /\ granted[p] < MaxGranted /\ granted' = [granted EXCEPT ![p] = @ + 1]
      /\ signing' = Idle \/ signing' = new
      /\ UNCHANGED poolOf /\ UNCHANGED wishes /\ code' = code /\ dead' = dead
      /\ taken' = taken /\ probe' = probe
  BY DEF SignInEnds
<1>2. ClaudeFine
  BY IdInvParts
<1>3. /\ granted \in [People -> 0..MaxGranted] /\ granted' \in [People -> 0..MaxGranted]
      /\ login \in IdLogin /\ login.of = p
  BY <1>1, <1>2, IdentityCounts DEF ClaudeFine, IdLogin
<1>4. who \in Whose /\ NamedBy(login, who)
  BY DEF Whose, NamedBy
<1>5. pc \in {"profile", "joining"}
  OBVIOUS
<1> HIDE DEF login, who, pc
<1>6. new \in Joining /\ new.login = login /\ new.who = who
  BY <1>3, <1>4, <1>5 DEF Joining
<1> HIDE DEF new
<1>7. SigningFine'
  BY <1>1, <1>4, <1>6 DEF SigningFine
<1>8. ClaudeFine'
  BY <1>1, <1>2, <1>3 DEF ClaudeFine
<1> QED
  BY <1>1, <1>7, <1>8, PoolStands, StandStill, StepBeside

\* The profile asked at a sign-in answers.
LEMMA SignInAnswersStep ==
  ASSUME IdInv, SignInAnswers
  PROVE  IdStep
<1>1. /\ signing \in Joining /\ NamedBy(signing.login, signing.who)
  BY IdInvParts DEF SignInAnswers, SigningFine
<1>2. PICK who \in {signing.who, signing.login.of} :
        signing' = [signing EXCEPT !.pc = "joining", !.who = who]
  BY DEF SignInAnswers
<1>3. /\ UNCHANGED poolOf /\ UNCHANGED claudeOf /\ probe' = probe /\ UNCHANGED wishes
  BY DEF SignInAnswers
<1>4. who \in Whose /\ NamedBy(signing.login, who)
  BY <1>1 DEF Joining, IdLogin, Whose, NamedBy
<1>5. signing' \in Joining /\ signing'.login = signing.login /\ signing'.who = who
  BY <1>1, <1>2, <1>4 DEF Joining
<1>6. SigningFine'
  BY <1>4, <1>5 DEF SigningFine
<1> QED
  BY <1>3, <1>6, PoolStands, StandStill, StepBeside

\* The login of a sign-in joins the pool.
LEMMA SignInJoinsStep ==
  ASSUME IdInv, SignInJoins
  PROVE  IdStep
<1>1. signing \in Joining /\ NamedBy(signing.login, signing.who)
  BY IdInvParts DEF SignInJoins, SigningFine
<1>2. /\ Upsert(signing.login, signing.who, FALSE) /\ signing' = Idle
      /\ UNCHANGED claudeOf /\ probe' = probe /\ UNCHANGED wishes
  BY DEF SignInJoins
<1>3. signing.login \in IdLogin /\ FALSE \in BOOLEAN
  BY <1>1 DEF Joining
<1>4. PoolNext
  BY <1>1, <1>2, <1>3, PoolJoined
<1>5. SigningFine'
  BY <1>2 DEF SigningFine
<1> QED
  BY <1>2, <1>4, <1>5, StandStill, StepBeside

\* Claude Code's login is imported, and so is one exported elsewhere.
LEMMA ImportsStep ==
  ASSUME IdInv,
         \/ ImportCurrentLogin
         \/ \E p \in People, told \in BOOLEAN, gen \in 1..MaxGranted : ImportExport(p, gen, told)
  PROVE  IdStep
<1>1. CASE ImportCurrentLogin
  <2>1. code # NoCard /\ ImportStarts(code.login, code.who, TRUE)
    BY <1>1 DEF ImportCurrentLogin
  <2>2. code.login \in IdLogin /\ NamedBy(code.login, code.who) /\ TRUE \in BOOLEAN
    BY <2>1, IdInvParts DEF ClaudeFine, CodeLogin
  <2> QED
    BY <2>1, <2>2, ImportStartsStep
<1>2. CASE \E p \in People, told \in BOOLEAN, gen \in 1..MaxGranted : ImportExport(p, gen, told)
  <2>1. PICK p \in People, told \in BOOLEAN, gen \in 1..MaxGranted : ImportExport(p, gen, told)
    BY <1>2
  <2> DEFINE login == [of |-> p, gen |-> gen]
             who == IF told THEN p ELSE Nobody
  <2>2. ImportStarts(login, who, FALSE) /\ FALSE \in BOOLEAN
    BY <2>1 DEF ImportExport
  <2>3. login \in IdLogin /\ NamedBy(login, who)
    BY DEF IdLogin, NamedBy
  <2> HIDE DEF login, who
  <2> QED
    BY <2>2, <2>3, ImportStartsStep
<1> QED
  BY <1>1, <1>2

\* Claude Code signs in, and learns whose its login is.
LEMMA CodeStep ==
  ASSUME IdInv,
         CodeLearns \/ \E p \in People, told \in BOOLEAN : CodeSignsIn(p, told)
  PROVE  IdStep
<1>1. ClaudeFine
  BY IdInvParts
<1>2. /\ UNCHANGED poolOf /\ UNCHANGED signing /\ UNCHANGED wishes
      /\ dead' = dead /\ taken' = taken /\ probe' = probe
  BY DEF CodeLearns, CodeSignsIn
<1>3. CASE CodeLearns
  <2>1. /\ code # NoCard /\ code' = [code EXCEPT !.who = code.login.of] /\ granted' = granted
    BY <1>3 DEF CodeLearns
  <2>2. code \in CodeLogin
    BY <1>1, <2>1 DEF ClaudeFine
  <2>3. code' \in CodeLogin /\ code'.login = code.login /\ code'.who = code.login.of
    BY <2>1, <2>2 DEF CodeLogin, IdLogin, Whose
  <2>4. ClaudeFine'
    BY <1>1, <1>2, <2>1, <2>3 DEF ClaudeFine, NamedBy
  <2> QED
    BY <1>2, <2>4, PoolStands, StandStill, StepBeside
<1>4. CASE \E p \in People, told \in BOOLEAN : CodeSignsIn(p, told)
  <2>1. PICK p \in People, told \in BOOLEAN : CodeSignsIn(p, told)
    BY <1>4
  <2> DEFINE login == [of |-> p, gen |-> granted[p] + 1]
             who == IF told THEN p ELSE Nobody
  <2>2. /\ granted[p] < MaxGranted /\ granted' = [granted EXCEPT ![p] = @ + 1]
        /\ code' = [login |-> login, who |-> who]
    BY <2>1 DEF CodeSignsIn
  <2>3. /\ granted' \in [People -> 0..MaxGranted] /\ login \in IdLogin /\ login.of = p
    BY <1>1, <2>2, IdentityCounts DEF ClaudeFine, IdLogin
  <2>4. who \in Whose /\ NamedBy(login, who)
    BY DEF Whose, NamedBy
  <2> HIDE DEF login, who
  <2>5. code' \in CodeLogin /\ code'.login = login /\ code'.who = who
    BY <2>2, <2>3, <2>4 DEF CodeLogin
  <2>6. ClaudeFine'
    BY <1>1, <1>2, <2>3, <2>4, <2>5 DEF ClaudeFine
  <2> QED
    BY <1>2, <2>6, PoolStands, StandStill, StepBeside
<1> QED
  BY <1>3, <1>4

\* What users do to a card of the pool.
LEMMA UserStep ==
  ASSUME IdInv, NEW i \in CardNumbers,
         DeleteCard(i) \/ ReleaseCard(i) \/ \E route \in Routes : SaveRoute(i, route)
  PROVE  IdStep
<1>1. /\ roll[i] # NoCard /\ joined' = joined /\ probe' = probe
      /\ UNCHANGED claudeOf /\ UNCHANGED signing
  BY DEF DeleteCard, ReleaseCard, SaveRoute
<1>2. roll[i] \in IdCard /\ OwnCard(roll[i])
  BY <1>1, PoolOwned, InPool DEF In, OwnPool
<1>3. WishesFine
  BY IdInvParts
<1>4. CASE DeleteCard(i)
  <2>1. /\ roll' = [roll EXCEPT ![i] = NoCard]
        /\ picked' = IF NoCard = NoCard /\ picked = i THEN 0 ELSE picked
        /\ UNCHANGED wishes
    BY <1>4 DEF DeleteCard
  <2>2. PoolNext
    BY <1>1, <2>1, PoolWished
  <2> QED
    BY <1>1, <2>1, <2>2, StandStill, StepBeside
<1>5. CASE ReleaseCard(i)
  <2> DEFINE d == [roll[i] EXCEPT !.waits = FALSE]
  <2>1. roll' = [roll EXCEPT ![i] = d] /\ picked' = picked /\ UNCHANGED wishes
    BY <1>5 DEF ReleaseCard
  <2>2. StaysOwn(roll[i], d)
    <3>1. FALSE \in BOOLEAN /\ "" \in Routes
      BY DEF Routes
    <3> QED
      BY <1>2, <3>1, WishesStay
  <2> HIDE DEF d
  <2>3. d \in IdCard /\ d # NoCard
    BY <2>2, NoCardFacts DEF StaysOwn
  <2>4. PoolNext
    BY <1>1, <2>1, <2>2, <2>3, PoolWished
  <2> QED
    BY <1>1, <2>1, <2>4, StandStill, StepBeside
<1>6. CASE \E route \in Routes : SaveRoute(i, route)
  <2>1. PICK route \in Routes : SaveRoute(i, route)
    BY <1>6
  <2> DEFINE d == [roll[i] EXCEPT !.route = route]
  <2>2. /\ roll' = [roll EXCEPT ![i] = d] /\ picked' = picked /\ asksNew' = asksNew
        /\ routed < MaxRoutes /\ routed' = routed + 1
    BY <2>1 DEF SaveRoute
  <2>3. StaysOwn(roll[i], d)
    BY <1>2, WishesStay
  <2> HIDE DEF d
  <2>4. d \in IdCard /\ d # NoCard
    BY <2>3, NoCardFacts DEF StaysOwn
  <2>5. PoolNext
    BY <1>1, <2>2, <2>3, <2>4, PoolWished
  <2>6. WishesFine'
    BY <1>3, <2>2, IdentityCounts DEF WishesFine
  <2> QED
    BY <1>1, <2>5, <2>6, StandStill, StepBeside
<1> QED
  BY <1>4, <1>5, <1>6

\* A list of the cards is read, and the preference changes.
LEMMA ListsStep ==
  ASSUME IdInv, ListsCards \/ AskNewAccounts
  PROVE  IdStep
<1>1. CASE ListsCards
  <2>1. /\ roll' = FollowedCode(roll, picked).cards /\ picked' = FollowedCode(roll, picked).picked
        /\ joined' = joined /\ probe' = probe /\ UNCHANGED claudeOf /\ UNCHANGED signing
        /\ UNCHANGED wishes
    BY <1>1 DEF ListsCards
  <2> QED
    BY <2>1, RollFollows, StandStill, StepBeside
<1>2. CASE AskNewAccounts
  <2>1. /\ UNCHANGED poolOf /\ UNCHANGED claudeOf /\ probe' = probe /\ UNCHANGED signing
        /\ routed < MaxRoutes /\ routed' = routed + 1 /\ asksNew' = ~asksNew
    BY <1>2 DEF AskNewAccounts
  <2>2. WishesFine
    BY IdInvParts
  <2>3. asksNew' \in BOOLEAN /\ routed' \in 0..MaxRoutes
    BY <2>1, <2>2, IdentityCounts DEF WishesFine
  <2>4. WishesFine'
    BY <2>3 DEF WishesFine
  <2> QED
    BY <2>1, <2>4, PoolStands, StandStill, StepBeside
<1> QED
  BY <1>1, <1>2

\* An empty pool, and Claude Code signed in or not.
LEMMA IdInitOk ==
  ASSUME IdentitiesInit
  PROVE  IdInv
<1>1. /\ roll = [i \in CardNumbers |-> NoCard] /\ picked = 0 /\ dead = {} /\ taken = {}
      /\ probe = Idle /\ signing = Idle /\ asksNew \in BOOLEAN /\ joined = 0 /\ routed = 0
  BY DEF IdentitiesInit
<1>2. In(roll) = {}
  BY <1>1 DEF In
<1>3. PoolFine
  <2>1. roll \in IdCards
    BY <1>1 DEF IdCards
  <2>2. PoolInv
    BY <1>2 DEF PoolInv, Numbered, OneCardEach, OwnLogins
  <2> QED
    BY <1>1, <2>1, <2>2, IdentityCounts DEF PoolFine, Selected
<1>4. ClaudeFine
  <2>1. CASE code = NoCard /\ granted = [p \in People |-> 0]
    BY <1>1, <2>1, IdentityCounts DEF ClaudeFine
  <2>2. CASE \E p \in People, known \in BOOLEAN :
               /\ code = [login |-> [of |-> p, gen |-> 1], who |-> IF known THEN p ELSE Nobody]
               /\ granted = [q \in People |-> IF q = p THEN 1 ELSE 0]
    <3>1. PICK p \in People, known \in BOOLEAN :
               /\ code = [login |-> [of |-> p, gen |-> 1], who |-> IF known THEN p ELSE Nobody]
               /\ granted = [q \in People |-> IF q = p THEN 1 ELSE 0]
      BY <2>2
    <3> DEFINE login == [of |-> p, gen |-> 1]
               who == IF known THEN p ELSE Nobody
    <3>2. login \in IdLogin /\ login.of = p /\ who \in Whose /\ NamedBy(login, who)
      BY IdentityCounts DEF IdLogin, Whose, NamedBy
    <3>3. code = [login |-> login, who |-> who]
      BY <3>1
    <3> HIDE DEF login, who
    <3>4. code \in CodeLogin /\ code.login = login /\ code.who = who
      BY <3>2, <3>3 DEF CodeLogin
    <3>5. granted \in [People -> 0..MaxGranted]
      BY <3>1, IdentityCounts
    <3> QED
      BY <1>1, <3>2, <3>4, <3>5 DEF ClaudeFine
  <2> QED
    BY <2>1, <2>2 DEF IdentitiesInit
<1>5. ProbeFine /\ SigningFine /\ WishesFine
  BY <1>1, NoCardFacts, IdentityCounts DEF ProbeFine, ProbeOwn, SigningFine, WishesFine
<1> QED
  BY <1>3, <1>4, <1>5, IdInvParts

\* Every step keeps the invariant, and a card that gives way leaves all it had.
LEMMA IdStepOk ==
  ASSUME IdInv, [IdentitiesNext]_idVars
  PROVE  IdStep
<1>1. CASE UNCHANGED idVars
  BY <1>1, PoolStands, StandStill, StepBeside DEF idVars, poolOf, claudeOf, wishes
<1>2. CASE ListsCards \/ AskNewAccounts
  BY <1>2, ListsStep
<1>3. CASE Probes
  <2>1. CASE \E i \in CardNumbers : ProbeStarts(i)
    BY <2>1, ProbeStartsStep
  <2>2. CASE \E result \in {"ok", "failed"} : ProbeAnswers(result)
    BY <2>2, ProbeAnswersStep
  <2> QED
    BY <1>3, <2>1, <2>2, ProbeRenewsStep, ProbeNamesStep, ProbeSettlesStep, ProbeMergesStep
    DEF Probes
<1>4. CASE Joins
  <2>1. CASE \E p \in People, told \in BOOLEAN : SignInEnds(p, told)
    BY <2>1, SignInEndsStep
  <2>2. CASE CodeLearns \/ \E p \in People, told \in BOOLEAN : CodeSignsIn(p, told)
    BY <2>2, CodeStep
  <2>3. CASE \/ ImportCurrentLogin
             \/ \E p \in People, told \in BOOLEAN, gen \in 1..MaxGranted : ImportExport(p, gen, told)
    BY <2>3, ImportsStep
  <2>4. CASE ImportAnswers
    BY <2>4, ImportAnswersStep
  <2>5. CASE SignInAnswers
    BY <2>5, SignInAnswersStep
  <2>6. CASE SignInJoins
    BY <2>6, SignInJoinsStep
  <2> QED
    BY <1>4, <2>1, <2>2, <2>3, <2>4, <2>5, <2>6 DEF Joins
<1>5. CASE CodeLearns
  BY <1>5, CodeStep
<1>6. CASE \E i \in CardNumbers :
             DeleteCard(i) \/ ReleaseCard(i) \/ \E route \in Routes : SaveRoute(i, route)
  BY <1>6, UserStep
<1> QED
  BY <1>1, <1>2, <1>3, <1>4, <1>5, <1>6 DEF IdentitiesNext

\* The invariant, of the specification.
LEMMA IdInvEver == IdentitiesSpec => []IdInv /\ [][FoldKept]_idVars
<1>1. IdentitiesInit => IdInv
  BY IdInitOk
<1>2. IdInv /\ [IdentitiesNext]_idVars => IdInv' /\ FoldKept
  BY IdStepOk DEF IdStep
<1> QED
  BY <1>1, <1>2, PTL DEF IdentitiesSpec

\* However its logins come, an account has one card, which is named after none but the
\* account of its login, and a card that turns out to be of an account that has one
\* gives way to that without losing a login, a proxy or the selection (claude_upsert,
\* claude_refresh_usage, merge_identified).
THEOREM IdentifiedOnceEver == IdentitiesSpec => IdentifiedOnce
<1>1. IdInv => OneCardEach /\ Rightly
  BY DEF IdInv, PoolInv, Selected, OwnLogins, OwnCard, NamedBy, Rightly, In
<1>2. [][FoldKept]_idVars => FoldKeepsAll
  BY DEF FoldKeepsAll, FoldKept
<1> QED
  BY <1>1, <1>2, IdInvEver, PTL DEF IdentifiedOnce

-----------------------------------------------------------------------------
(* The scenes that TLC explores.                                           *)

\* Each scene is a behaviour of both specifications, so that what is proved of either
\* holds of what is explored.
LEMMA SceneOfBoth == SceneSpec => Spec /\ IdentitiesSpec
<1>1. SceneInit => Init /\ IdentitiesInit
  BY DEF SceneInit
<1>2. [SceneNext]_<<vars, idVars, scene>> => [Next]_vars /\ [IdentitiesNext]_idVars
  BY DEF SceneNext
<1> QED
  BY <1>1, <1>2, PTL DEF SceneSpec, Spec, IdentitiesSpec

\* Every variable keeps its type in every scene (claude.rs: the pool, Claude Code's
\* login and what runs under state.operations).
THEOREM ScenesTyped == SceneSpec => []SceneTypeOK
<1>1. TypeOK /\ IdInv => SceneTypeOK
  BY DEF SceneTypeOK, IdInv
<1> QED
  BY <1>1, SceneOfBoth, LoginsTyped, IdInvEver, PTL

=============================================================================
