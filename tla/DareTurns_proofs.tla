---------------------------- MODULE DareTurns_proofs ----------------------------
(* What TLAPS proves of the dare game, for every roster, number of rounds,    *)
(* restarts and awaiting handlers: its tables are well formed, and a running  *)
(* game is always watched.                                                    *)
(*                                                                            *)
(* removePlayerFromGame and advanceTurn call each other, to a depth that      *)
(* only the number of players bounds. The argument is a contract of the two:  *)
(* removing a player leaves the turn armed, or the same player's turn as it   *)
(* was (Follows); advancing the turn leaves it armed (AdvancesWell). Each     *)
(* call within another is about fewer players, so that a least number of      *)
(* players for which the contract fails would be one for which it holds.      *)
(* Every step then either keeps the current player's watch, or ends that      *)
(* player's turn by advancing it.                                             *)
EXTENDS DareTurns, SequenceTheorems, WellFoundedInduction, TLAPS

(* The least number of a set.                                                 *)
LEMMA Least ==
    ASSUME NEW S, S \subseteq Nat, S # {}
    PROVE  \E m \in S : \A n \in S : m <= n
<1> DEFINE Less == {p \in Nat \X Nat : p[1] < p[2]}
<1>1. IsWellFoundedOn(Less, Nat)
  BY NatLessThanWellFounded DEF OpToRel
<1>2. PICK m \in S : \A n \in S : ~ (<<n, m>> \in Less)
  BY <1>1, WFMin
<1>3. ASSUME NEW n \in S PROVE m <= n
  <2>1. m \in Nat /\ n \in Nat /\ ~ (<<n, m>> \in Less)
    BY <1>2
  <2> QED BY <2>1
<1> QED BY <1>3

(* What steps keep is kept by the first of them, the second, and so on.       *)
IsCourse(f, S, x, n) ==
    f = [k \in 0..n |-> IF k = 0 THEN x ELSE S[k][f[k - 1]]]

(* The recursive function by which Applied is defined exists: a least n for   *)
(* which it did not would be one for which it does.                           *)
LEMMA CourseExists ==
    ASSUME NEW S, NEW x, NEW n \in Nat
    PROVE  \E f : IsCourse(f, S, x, n)
<1> SUFFICES ASSUME \A f : ~IsCourse(f, S, x, n) PROVE FALSE
  OBVIOUS
<1> DEFINE Bad == {k \in Nat : \A f : ~IsCourse(f, S, x, k)}
<1>1. PICK m \in Bad : \A k \in Bad : m <= k
  <2>1. n \in Bad
    OBVIOUS
  <2> HIDE DEF Bad
  <2>2. Bad \subseteq Nat
    BY DEF Bad
  <2> QED BY <2>1, <2>2, Least
<1>2. CASE m = 0
  <2>1. IsCourse([k \in 0..0 |-> x], S, x, 0)
    BY DEF IsCourse
  <2> QED BY <1>1, <1>2, <2>1
<1>3. CASE m # 0
  <2>1. m - 1 \in Nat /\ m \in Nat /\ ~(m <= m - 1)
    BY <1>1, <1>3
  <2>2. PICK f : IsCourse(f, S, x, m - 1)
    BY <1>1, <2>1
  <2> DEFINE g == [k \in 0..m |-> IF k = m THEN S[m][f[m - 1]] ELSE f[k]]
  <2>3. \A k \in 0..(m - 1) : g[k] = f[k]
    BY <2>1
  <2>4. \A k \in 0..(m - 1) : f[k] = IF k = 0 THEN x ELSE S[k][f[k - 1]]
    BY <2>1, <2>2 DEF IsCourse
  <2>5. ASSUME NEW k \in 0..m PROVE g[k] = IF k = 0 THEN x ELSE S[k][g[k - 1]]
    <3>1. CASE k = m
      <4>1. m - 1 \in 0..(m - 1) /\ k # 0
        BY <2>1, <3>1, <1>3
      <4> QED BY <2>3, <3>1, <4>1
    <3>2. CASE k # m
      <4>1. k \in 0..(m - 1) /\ (k # 0 => k - 1 \in 0..(m - 1))
        BY <2>1, <3>2
      <4> QED BY <2>3, <2>4, <4>1
    <3> QED BY <3>1, <3>2
  <2>6. g = [k \in 0..m |-> g[k]]
    OBVIOUS
  <2> HIDE DEF g
  <2>7. IsCourse(g, S, x, m)
    BY <2>5, <2>6 DEF IsCourse
  <2> QED BY <1>1, <2>7
<1> QED BY <1>2, <1>3

(* Applied, by its course.                                                    *)
LEMMA AppliedIs ==
    ASSUME NEW S, NEW x, NEW n \in Nat, Len(S) = n
    PROVE  \E f : IsCourse(f, S, x, n) /\ Applied(S, x) = f[n]
<1> DEFINE f == CHOOSE f : f = [k \in 0..n |-> IF k = 0 THEN x ELSE S[k][f[k - 1]]]
<1>1. Applied(S, x) = f[n]
  BY DEF Applied
<1>2. \E g : g = [k \in 0..n |-> IF k = 0 THEN x ELSE S[k][g[k - 1]]]
  <2>1. \E g : IsCourse(g, S, x, n)
    BY CourseExists
  <2> QED BY <2>1, Zenon DEF IsCourse
<1>3. f = [k \in 0..n |-> IF k = 0 THEN x ELSE S[k][f[k - 1]]]
  BY <1>2, Zenon
<1>4. IsCourse(f, S, x, n)
  BY <1>3, Zenon DEF IsCourse
<1> HIDE DEF f
<1> QED BY <1>1, <1>4

(* A set that every one of the functions maps into itself keeps what they are *)
(* applied to, one after the other; functions that are the same on that set   *)
(* have the same result.                                                      *)
LEMMA AppliedKeeps ==
    ASSUME NEW S, NEW T, Len(S) \in Nat, Len(T) = Len(S), NEW X, NEW x \in X,
           \A k \in 1..Len(S) : \A y \in X : S[k][y] \in X /\ T[k][y] = S[k][y]
    PROVE  Applied(S, x) \in X /\ Applied(T, x) = Applied(S, x)
<1> PICK n \in Nat : n = Len(S)
  OBVIOUS
<1>1. PICK f : IsCourse(f, S, x, n) /\ Applied(S, x) = f[n]
  BY AppliedIs
<1>2. PICK g : IsCourse(g, T, x, n) /\ Applied(T, x) = g[n]
  BY AppliedIs
<1> DEFINE Bad == {k \in 0..n : ~(f[k] \in X /\ g[k] = f[k])}
<1>3. SUFFICES ASSUME n \in Bad PROVE FALSE
  BY <1>1, <1>2
<1>4. PICK m \in Bad : \A k \in Bad : m <= k
  <2>1. Bad \subseteq Nat
    OBVIOUS
  <2> HIDE DEF Bad
  <2> QED BY <1>3, <2>1, Least
<1>5. m \in 0..n /\ ~(f[m] \in X /\ g[m] = f[m]) /\ m \in Nat
  OBVIOUS
<1>6. /\ f[m] = (IF m = 0 THEN x ELSE S[m][f[m - 1]])
      /\ g[m] = (IF m = 0 THEN x ELSE T[m][g[m - 1]])
  BY <1>1, <1>2, <1>5 DEF IsCourse
<1>7. m # 0
  BY <1>5, <1>6
<1>8. m - 1 \in 0..n /\ ~(m <= m - 1) /\ m \in 1..n
  BY <1>5, <1>7
<1>9. f[m - 1] \in X /\ g[m - 1] = f[m - 1]
  BY <1>4, <1>8
<1> QED BY <1>5, <1>6, <1>7, <1>8, <1>9

(* advanceTurn among k players calls itself among one less.                   *)
IsAdvance(f, n) ==
    f = [k \in 0..n |-> IF k = 0 THEN [d \in Table |-> d] ELSE AdvancedBy(f[k - 1])]

(* The function AdvancedAmong exists: it is defined by the recursion over     *)
(* the number of players.                                                     *)
LEMMA AdvanceExists ==
    ASSUME NEW n \in Nat
    PROVE  \E f : IsAdvance(f, n)
<1> SUFFICES ASSUME \A f : ~IsAdvance(f, n) PROVE FALSE
  OBVIOUS
<1> DEFINE Bad == {k \in Nat : \A f : ~IsAdvance(f, k)}
<1>1. PICK m \in Bad : \A k \in Bad : m <= k
  <2>1. n \in Bad
    OBVIOUS
  <2> HIDE DEF Bad
  <2>2. Bad \subseteq Nat
    BY DEF Bad
  <2> QED BY <2>1, <2>2, Least
<1>2. CASE m = 0
  <2>1. IsAdvance([k \in 0..0 |-> [d \in Table |-> d]], 0)
    BY DEF IsAdvance
  <2> QED BY <1>1, <1>2, <2>1
<1>3. CASE m # 0
  <2>1. m - 1 \in Nat /\ m \in Nat /\ ~(m <= m - 1)
    BY <1>1, <1>3
  <2>2. PICK f : IsAdvance(f, m - 1)
    BY <1>1, <2>1
  <2> DEFINE g == [k \in 0..m |-> IF k = m THEN AdvancedBy(f[m - 1]) ELSE f[k]]
  <2>3. \A k \in 0..(m - 1) : g[k] = f[k]
    BY <2>1
  <2>4. \A k \in 0..(m - 1) : f[k] = IF k = 0 THEN [d \in Table |-> d] ELSE AdvancedBy(f[k - 1])
    BY <2>1, <2>2 DEF IsAdvance
  <2>5. ASSUME NEW k \in 0..m PROVE g[k] = IF k = 0 THEN [d \in Table |-> d] ELSE AdvancedBy(g[k - 1])
    <3>1. CASE k = m
      <4>1. m - 1 \in 0..(m - 1) /\ k # 0
        BY <2>1, <3>1, <1>3
      <4> QED BY <2>3, <3>1, <4>1
    <3>2. CASE k # m
      <4>1. k \in 0..(m - 1) /\ (k # 0 => k - 1 \in 0..(m - 1))
        BY <2>1, <3>2
      <4> QED BY <2>3, <2>4, <4>1
    <3> QED BY <3>1, <3>2
  <2>6. g = [k \in 0..m |-> g[k]]
    OBVIOUS
  <2> HIDE DEF g
  <2>7. IsAdvance(g, m)
    BY <2>5, <2>6 DEF IsAdvance
  <2> QED BY <1>1, <2>7
<1> QED BY <1>2, <1>3

(* advanceTurn among k players, as the code has it, in terms of advanceTurn   *)
(* among k - 1.                                                               *)
LEMMA AdvanceIs ==
    /\ AdvancedAmong[0] = [d \in Table |-> d]
    /\ \A k \in 1..Len(Roster) : AdvancedAmong[k] = AdvancedBy(AdvancedAmong[k - 1])
<1> PICK n \in Nat : n = Len(Roster)
  BY RosterAssumption, LenProperties
<1>1. \E g : g = [k \in 0..n |-> IF k = 0 THEN [d \in Table |-> d] ELSE AdvancedBy(g[k - 1])]
  BY AdvanceExists, Zenon DEF IsAdvance
<1>2. AdvancedAmong =
        [k \in 0..n |-> IF k = 0 THEN [d \in Table |-> d] ELSE AdvancedBy(AdvancedAmong[k - 1])]
  BY <1>1, Zenon DEF AdvancedAmong
<1> HIDE DEF AdvancedAmong
<1> QED BY <1>2

--------------------------------------------------------------------------------
(* Tables                                                                     *)

(* A table is well formed: a running game has two players at least, each      *)
(* once, and one of them has the turn; without a game nobody is in the        *)
(* order; and a decision has its dare.                                        *)
Sound(d) ==
    /\ d \in Table
    /\ IsInjective(d.order)
    /\ d.on => Len(d.order) >= 2 /\ d.cur <= Len(d.order)
    /\ ~d.on => d.order = <<>>
    /\ d.bondage \subseteq d.pending

(* The player whose turn it is, and their auto-pass timer.                    *)
Current(d) == d.order[d.cur]
Armed(d) == d.on => Current(d) \in d.autoPass

(* Table e has the current player of d, with their timer if they had one.     *)
SameTurn(d, e) ==
    /\ d.on /\ Current(e) = Current(d)
    /\ Current(d) \in d.autoPass => Current(d) \in e.autoPass

(* What removing players makes of a table: the turn is armed, or it is the    *)
(* same turn as before; nobody joins.                                         *)
Follows(d, e) ==
    /\ Sound(e) /\ Len(e.order) <= Len(d.order)
    /\ Armed(e) \/ SameTurn(d, e)

(* A advances the turn as it should, in games of up to n players: the turn    *)
(* that comes is armed, or the game is over.                                  *)
AdvancesWell(A, n) ==
    \A d : Sound(d) /\ Len(d.order) <= n =>
        Sound(A[d]) /\ Len(A[d].order) <= Len(d.order) /\ Armed(A[d])

(* A and B advance the turn alike, in games of up to n players.               *)
AdvanceAlike(A, B, n) ==
    \A d : Sound(d) /\ Len(d.order) <= n => B[d] = A[d]

(* The order of a table is a sequence of players, no longer than the roster.  *)
LEMMA OrderIsSeq ==
    ASSUME NEW d, d \in Table
    PROVE  /\ d.order \in Seq(Players) /\ Len(d.order) \in 0..Len(Roster)
           /\ DOMAIN d.order = 1..Len(d.order)
           /\ Len(Roster) \in Nat
<1>1. PICK n \in 0..Len(Roster) : d.order \in [1..n -> Players]
  BY DEF Table, BoundedSeq, SeqOf
<1>2. Len(Roster) \in Nat /\ n \in Nat
  BY <1>1, RosterAssumption, LenProperties
<1>3. d.order \in Seq(Players) /\ Len(d.order) = n
  BY <1>1, <1>2
<1> QED BY <1>1, <1>2, <1>3

(* Every such sequence may be the order of a table.                           *)
LEMMA SeqIsOrder ==
    ASSUME NEW s \in Seq(Players), Len(s) <= Len(Roster)
    PROVE  s \in BoundedSeq(Players, Len(Roster))
<1>1. Len(Roster) \in Nat /\ Len(s) \in Nat /\ s \in [1..Len(s) -> Players]
  BY RosterAssumption, LenProperties
<1>2. Len(s) \in 0..Len(Roster)
  BY <1>1
<1> QED BY <1>1, <1>2 DEF BoundedSeq, SeqOf

(* Removing an element of a sequence: the elements behind it move up.         *)
LEMMA RemoveAtFacts ==
    ASSUME NEW P, NEW s \in Seq(P), NEW i \in 1..Len(s)
    PROVE  /\ RemoveAt(s, i) \in Seq(P)
           /\ Len(RemoveAt(s, i)) = Len(s) - 1
           /\ \A j \in 1..(Len(s) - 1) : RemoveAt(s, i)[j] = IF j < i THEN s[j] ELSE s[j + 1]
<1> DEFINE n == Len(s)
           a == SubSeq(s, 1, i - 1)
           b == SubSeq(s, i + 1, n)
<1>1. n \in Nat /\ i \in 1..n /\ \A j \in 1..n : s[j] \in P
  BY LenProperties, ElementOfSeq
<1> HIDE DEF n
<1>2. a \in Seq(P) /\ Len(a) = i - 1 /\ \A j \in 1..(i - 1) : a[j] = s[j]
  <2>1. 1 \in Int /\ i - 1 \in Int /\ \A j \in 1..(i - 1) : s[j] \in P
    BY <1>1
  <2>2. /\ SubSeq(s, 1, i - 1) \in Seq(P)
        /\ Len(SubSeq(s, 1, i - 1)) = IF 1 <= i - 1 THEN (i - 1) - 1 + 1 ELSE 0
        /\ \A j \in 1..((i - 1) - 1 + 1) : SubSeq(s, 1, i - 1)[j] = s[1 + j - 1]
    BY <2>1, SubSeqProperties
  <2> HIDE DEF a
  <2>3. /\ a \in Seq(P) /\ Len(a) = IF 1 <= i - 1 THEN (i - 1) - 1 + 1 ELSE 0
        /\ \A j \in 1..((i - 1) - 1 + 1) : a[j] = s[1 + j - 1]
    BY <2>2 DEF a
  <2> QED BY <1>1, <2>3
<1>3. b \in Seq(P) /\ Len(b) = n - i /\ \A j \in 1..(n - i) : b[j] = s[j + i]
  <2>1. i + 1 \in Int /\ n \in Int /\ \A j \in (i + 1)..n : s[j] \in P
    BY <1>1
  <2>2. /\ SubSeq(s, i + 1, n) \in Seq(P)
        /\ Len(SubSeq(s, i + 1, n)) = IF i + 1 <= n THEN n - (i + 1) + 1 ELSE 0
        /\ \A j \in 1..(n - (i + 1) + 1) : SubSeq(s, i + 1, n)[j] = s[(i + 1) + j - 1]
    BY <2>1, SubSeqProperties
  <2> HIDE DEF b
  <2>3. /\ b \in Seq(P) /\ Len(b) = IF i + 1 <= n THEN n - (i + 1) + 1 ELSE 0
        /\ \A j \in 1..(n - (i + 1) + 1) : b[j] = s[(i + 1) + j - 1]
    BY <2>2 DEF b
  <2> QED BY <1>1, <2>3
<1> HIDE DEF a, b
<1> DEFINE r == a \o b
<1>4. /\ r \in Seq(P) /\ Len(r) = Len(a) + Len(b)
      /\ \A j \in 1..(Len(a) + Len(b)) : r[j] = IF j <= Len(a) THEN a[j] ELSE b[j - Len(a)]
  BY <1>2, <1>3, ConcatProperties
<1>5. RemoveAt(s, i) = r
  BY DEF RemoveAt, a, b, n
<1> HIDE DEF r
<1>6. Len(r) = n - 1
  BY <1>1, <1>2, <1>3, <1>4
<1>7. ASSUME NEW j \in 1..(n - 1) PROVE r[j] = IF j < i THEN s[j] ELSE s[j + 1]
  <2>1. r[j] = IF j <= i - 1 THEN a[j] ELSE b[j - (i - 1)]
    BY <1>1, <1>2, <1>3, <1>4
  <2>2. CASE j < i
    BY <1>1, <1>2, <2>1, <2>2
  <2>3. CASE ~(j < i)
    <3>1. j - (i - 1) \in 1..(n - i) /\ (j - (i - 1)) + i = j + 1
      BY <1>1, <2>3
    <3>2. b[j - (i - 1)] = s[(j - (i - 1)) + i]
      BY <1>3, <3>1
    <3> QED BY <1>1, <2>1, <2>3, <3>1, <3>2
  <2> QED BY <2>2, <2>3
<1> QED BY <1>4, <1>5, <1>6, <1>7 DEF n

(* GameManager.removePlayer leaves an order with each other player once, and  *)
(* an index within it; who had the turn and is not the one removed still has  *)
(* it.                                                                        *)
LEMMA WithoutFacts ==
    ASSUME NEW d, Sound(d), NEW m \in Range(d.order)
    PROVE  LET e == Without(d, m)
           IN  /\ e \in Table /\ e = [d EXCEPT !.order = e.order, !.cur = e.cur]
               /\ Len(e.order) = Len(d.order) - 1 /\ Len(e.order) \in 1..Len(Roster) /\ d.on
               /\ IsInjective(e.order) /\ m \notin Range(e.order)
               /\ e.cur \in 1..Len(e.order)
               /\ d.order[d.cur] # m => e.order[e.cur] = d.order[d.cur]
<1> DEFINE s == d.order
           n == Len(s)
           i == CHOOSE j \in DOMAIN s : s[j] = m
           r == RemoveAt(s, i)
           c == CASE i < d.cur -> d.cur - 1
                  [] i = d.cur /\ i > Len(r) -> 1
                  [] OTHER -> d.cur
           e == Without(d, m)
<1>1. /\ s \in Seq(Players) /\ n \in 0..Len(Roster) /\ DOMAIN s = 1..n /\ Len(Roster) \in Nat
      /\ d.cur \in 1..Len(Roster) /\ d \in Table
  BY OrderIsSeq DEF Sound, Table
<1>2. \E j \in DOMAIN s : s[j] = m
  BY DEF Range
<1>3. i \in 1..n /\ s[i] = m
  BY <1>1, <1>2
<1>4. \A j, k \in 1..n : s[j] = s[k] => j = k
  BY <1>1 DEF Sound, IsInjective
<1>5. d.on /\ n >= 2 /\ d.cur \in 1..n
  <2>1. s # <<>>
    BY <1>3
  <2> QED BY <1>1, <2>1 DEF Sound, Table
<1>6. e = [d EXCEPT !.order = r, !.cur = c]
  BY DEF Without
<1> HIDE DEF i
<1>7. /\ r \in Seq(Players) /\ Len(r) = n - 1
      /\ \A j \in 1..(n - 1) : r[j] = IF j < i THEN s[j] ELSE s[j + 1]
  BY <1>1, <1>3, RemoveAtFacts
<1> HIDE DEF n, r, s, e
<1>8. DOMAIN r = 1..(n - 1)
  BY <1>7, LenProperties
<1>9. IsInjective(r)
  <2> SUFFICES ASSUME NEW j \in 1..(n - 1), NEW k \in 1..(n - 1), r[j] = r[k] PROVE j = k
    BY <1>8 DEF IsInjective
  <2>1. /\ r[j] = (IF j < i THEN s[j] ELSE s[j + 1])
        /\ r[k] = (IF k < i THEN s[k] ELSE s[k + 1])
    BY <1>7
  <2>2. j \in 1..n /\ j + 1 \in 1..n /\ k \in 1..n /\ k + 1 \in 1..n
    BY <1>1
  <2>3. /\ j < i /\ k < i => s[j] = s[k]
        /\ j < i /\ ~(k < i) => s[j] = s[k + 1]
        /\ ~(j < i) /\ k < i => s[j + 1] = s[k]
        /\ ~(j < i) /\ ~(k < i) => s[j + 1] = s[k + 1]
    BY <2>1
  <2>4. /\ j < i /\ k < i => j = k
        /\ j < i /\ ~(k < i) => j = k + 1
        /\ ~(j < i) /\ k < i => j + 1 = k
        /\ ~(j < i) /\ ~(k < i) => j + 1 = k + 1
    BY <1>4, <2>2, <2>3
  <2> QED BY <1>1, <1>3, <2>4
<1>10. m \notin Range(r)
  <2> SUFFICES ASSUME NEW j \in 1..(n - 1), r[j] = m PROVE FALSE
    BY <1>8 DEF Range
  <2>1. r[j] = (IF j < i THEN s[j] ELSE s[j + 1])
    BY <1>7
  <2>2. j \in 1..n /\ j + 1 \in 1..n
    BY <1>1
  <2> QED BY <1>1, <1>3, <1>4, <2>1, <2>2
<1>11. c \in 1..(n - 1)
  BY <1>1, <1>3, <1>5, <1>7
<1>12. s[d.cur] # m => r[c] = s[d.cur]
  <2> SUFFICES ASSUME s[d.cur] # m PROVE r[c] = s[d.cur]
    OBVIOUS
  <2>1. d.cur # i
    BY <1>3
  <2>2. CASE i < d.cur
    <3>1. c = d.cur - 1 /\ ~(c < i) /\ c + 1 = d.cur
      BY <1>1, <1>3, <1>5, <2>2
    <3> QED BY <1>7, <1>11, <3>1
  <2>3. CASE d.cur < i
    <3>1. c = d.cur /\ c < i
      BY <1>1, <1>3, <1>5, <2>3
    <3> QED BY <1>7, <1>11, <3>1
  <2> QED BY <1>1, <1>3, <2>1, <2>2, <2>3
<1> HIDE DEF c
<1>13. r \in BoundedSeq(Players, Len(Roster)) /\ c \in 1..Len(Roster) /\ n - 1 \in 1..Len(Roster)
  <2>1. n - 1 <= Len(Roster) /\ n - 1 \in 1..Len(Roster) /\ c \in 1..Len(Roster)
    BY <1>1, <1>5, <1>11
  <2> QED BY <1>7, <2>1, SeqIsOrder
<1>14. e \in Table /\ e.order = r /\ e.cur = c /\ e = [d EXCEPT !.order = e.order, !.cur = e.cur]
  BY <1>1, <1>6, <1>13 DEF Table
<1> QED BY <1>5, <1>7, <1>9, <1>10, <1>11, <1>12, <1>13, <1>14 DEF e, s, n

(* resetGameState leaves a well-formed table without a game.                  *)
LEMMA OverFacts ==
    ASSUME NEW d, d \in Table, d.bondage \subseteq d.pending
    PROVE  Sound(Over(d)) /\ ~Over(d).on /\ Len(Over(d).order) = 0 /\ Armed(Over(d))
<1>1. <<>> \in BoundedSeq(Players, Len(Roster)) /\ Len(<<>>) = 0 /\ 1 \in 1..Len(Roster)
  <2>1. <<>> \in Seq(Players) /\ Len(<<>>) = 0 /\ Len(Roster) \in Nat /\ Len(Roster) >= 2
    BY RosterAssumption, EmptySeq, LenProperties
  <2>2. Len(<<>>) <= Len(Roster)
    BY <2>1
  <2>3. <<>> \in BoundedSeq(Players, Len(Roster))
    BY <2>1, <2>2, SeqIsOrder
  <2> QED BY <2>1, <2>3
<1>2. 1 \in 1..TotalRounds
  BY BoundsAssumption
<1>3. /\ Over(d).on = FALSE /\ Over(d).order = <<>>
      /\ Over(d).bondage = d.bondage \ Range(d.order)
      /\ Over(d).pending = d.pending \ Range(d.order)
  BY DEF Over, Table
<1>4. Over(d) \in Table
  BY <1>1, <1>2 DEF Over, Table
<1>5. IsInjective(<<>>)
  BY DEF IsInjective
<1> QED BY <1>1, <1>3, <1>4, <1>5 DEF Sound, Armed

(* GameManager.advanceTurn leaves a well-formed table, unless the rounds are  *)
(* over.                                                                      *)
LEMMA MovedFacts ==
    ASSUME NEW d, Sound(d), d.on
    PROVE  /\ Over(Moved(d)) = Over(d) /\ Moved(d).order = d.order /\ Moved(d).on
           /\ Moved(d).round <= TotalRounds => Sound(Moved(d))
<1> DEFINE e == Moved(d)
<1>1. /\ d \in Table /\ d.cur \in 1..Len(d.order) /\ Len(d.order) \in 0..Len(Roster)
      /\ d.round \in 1..TotalRounds /\ Len(Roster) \in Nat /\ TotalRounds \in Nat
  BY OrderIsSeq, BoundsAssumption DEF Sound, Table
<1>2. \E c \in 1..Len(d.order), r \in 1..(TotalRounds + 1) :
          e = [d EXCEPT !.cur = c, !.round = r]
  <2>1. CASE d.cur < Len(d.order)
    <3>1. e = [d EXCEPT !.cur = d.cur + 1, !.round = d.round]
      BY <1>1, <2>1 DEF Moved, Table
    <3>2. d.cur + 1 \in 1..Len(d.order) /\ d.round \in 1..(TotalRounds + 1)
      BY <1>1, <2>1
    <3> QED BY <3>1, <3>2
  <2>2. CASE ~(d.cur < Len(d.order))
    <3>1. e = [d EXCEPT !.cur = 1, !.round = d.round + 1]
      BY <1>1, <2>2 DEF Moved, Table
    <3>2. 1 \in 1..Len(d.order) /\ d.round + 1 \in 1..(TotalRounds + 1)
      BY <1>1
    <3> QED BY <3>1, <3>2
  <2> QED BY <2>1, <2>2
<1>3. PICK c \in 1..Len(d.order), r \in 1..(TotalRounds + 1) :
          e = [d EXCEPT !.cur = c, !.round = r]
  BY <1>2
<1> HIDE DEF e
<1>4. Over(e) = Over(d)
  BY <1>1, <1>3 DEF Over, Table
<1>5. /\ e.order = d.order /\ e.on = d.on /\ e.cur = c /\ e.round = r
      /\ e.bondage = d.bondage /\ e.pending = d.pending
  BY <1>1, <1>3 DEF Table
<1>6. ASSUME r <= TotalRounds PROVE e \in Table
  <2>1. r \in 1..TotalRounds /\ c \in 1..Len(Roster)
    BY <1>1, <1>6
  <2> QED BY <1>1, <1>3, <2>1 DEF Table
<1>7. e.round <= TotalRounds => Sound(e)
  BY <1>1, <1>5, <1>6 DEF Sound
<1> QED BY <1>4, <1>5, <1>7 DEF e

(* startTurnTimers arms the current turn.                                     *)
LEMMA BegunFacts ==
    ASSUME NEW d, Sound(d), d.on
    PROVE  Sound(Begun(d)) /\ Armed(Begun(d)) /\ Begun(d).order = d.order
<1>1. d \in Table /\ d.cur \in 1..Len(d.order) /\ d.order \in Seq(Players)
  BY OrderIsSeq DEF Sound, Table
<1>2. d.order[d.cur] \in Players
  BY <1>1, ElementOfSeq
<1>3. /\ Begun(d) \in Table /\ Begun(d).order = d.order /\ Begun(d).cur = d.cur
      /\ Begun(d).on = d.on /\ Begun(d).autoPass = d.autoPass \cup {d.order[d.cur]}
      /\ Begun(d).bondage = d.bondage /\ Begun(d).pending = d.pending
  BY <1>1, <1>2 DEF Begun, Table
<1> QED BY <1>3 DEF Sound, Armed, Current

(* cleanupMemberBookkeeping touches neither the order nor the turn, takes     *)
(* the timer of the one removed only, and keeps decisions with their dares.   *)
LEMMA ForgottenFacts ==
    ASSUME NEW d, d \in Table, NEW m
    PROVE  /\ Forgotten(d, m) \in Table
           /\ Forgotten(d, m).on = d.on /\ Forgotten(d, m).order = d.order
           /\ Forgotten(d, m).cur = d.cur
           /\ Forgotten(d, m).autoPass = d.autoPass \ {m}
           /\ Forgotten(d, m).bondage = d.bondage \ {m}
           /\ Forgotten(d, m).pending = d.pending \ {m}
BY DEF Forgotten, Table

(* removePlayerFromGame, if the turn is advanced as it should be among fewer  *)
(* players: the table follows the one before, and if who was removed had the  *)
(* turn, it is armed.  What matters of the advance is what it does among      *)
(* fewer players.                                                             *)
LEMMA RemovedFacts ==
    ASSUME NEW A, NEW B, NEW n \in Nat, AdvancesWell(A, n), AdvanceAlike(A, B, n),
           NEW d, Sound(d), Len(d.order) <= n + 1, NEW m \in Range(d.order)
    PROVE  /\ Follows(d, RemovedBy(A, d, m))
           /\ HasTurn(d, m) => Armed(RemovedBy(A, d, m))
           /\ RemovedBy(B, d, m) = RemovedBy(A, d, m)
<1> DEFINE w == Without(d, m)
           e == Forgotten(w, m)
           R == RemovedBy(A, d, m)
           Q == RemovedBy(B, d, m)
<1>1. /\ w \in Table /\ w = [d EXCEPT !.order = w.order, !.cur = w.cur]
      /\ Len(w.order) = Len(d.order) - 1 /\ Len(w.order) \in 1..Len(Roster) /\ d.on
      /\ IsInjective(w.order) /\ w.cur \in 1..Len(w.order)
      /\ d.order[d.cur] # m => w.order[w.cur] = d.order[d.cur]
  BY WithoutFacts
<1>2. d \in Table /\ d.bondage \subseteq d.pending /\ Len(d.order) \in Nat
  BY OrderIsSeq DEF Sound
<1>3. w.on = d.on /\ w.autoPass = d.autoPass /\ w.bondage = d.bondage /\ w.pending = d.pending
  BY <1>1, <1>2 DEF Table
<1>4. /\ e \in Table /\ e.on /\ e.order = w.order /\ e.cur = w.cur
      /\ e.autoPass = d.autoPass \ {m} /\ e.bondage = d.bondage \ {m}
      /\ e.pending = d.pending \ {m}
  <2>1. /\ e \in Table /\ e.on = w.on /\ e.order = w.order /\ e.cur = w.cur
        /\ e.autoPass = w.autoPass \ {m} /\ e.bondage = w.bondage \ {m}
        /\ e.pending = w.pending \ {m}
    BY <1>1, ForgottenFacts
  <2> HIDE DEF w, e
  <2> QED BY <1>1, <1>3, <2>1
<1>5. /\ R = (IF Len(e.order) <= 1 THEN Over(e) ELSE IF HasTurn(d, m) THEN A[e] ELSE e)
      /\ Q = (IF Len(e.order) <= 1 THEN Over(e) ELSE IF HasTurn(d, m) THEN B[e] ELSE e)
  BY DEF RemovedBy
<1> HIDE DEF w, e, R, Q
<1>6. e.bondage \subseteq e.pending
  BY <1>2, <1>4
<1>7. CASE Len(e.order) <= 1
  <2>1. Sound(R) /\ Len(R.order) = 0 /\ Armed(R) /\ Q = R
    BY <1>4, <1>5, <1>6, <1>7, OverFacts
  <2> QED BY <1>2, <2>1 DEF Follows, R, Q
<1>8. CASE ~(Len(e.order) <= 1)
  <2>1. Sound(e)
    BY <1>1, <1>4, <1>6, <1>8 DEF Sound
  <2>2. Len(e.order) <= n /\ Len(e.order) <= Len(d.order) /\ Len(e.order) \in Nat
    BY <1>1, <1>2, <1>4
  <2>3. CASE HasTurn(d, m)
    <3>0. B[e] = A[e]
      BY <2>1, <2>2 DEF AdvanceAlike
    <3>1. R = A[e] /\ Q = R
      BY <1>5, <1>8, <2>3, <3>0
    <3>2. Sound(A[e]) /\ Len(A[e].order) <= Len(e.order) /\ Armed(A[e])
      BY <2>1, <2>2 DEF AdvancesWell
    <3>3. Len(A[e].order) \in Nat
      BY <3>2, OrderIsSeq DEF Sound
    <3>4. Len(R.order) <= Len(d.order)
      BY <1>2, <2>2, <3>1, <3>2, <3>3
    <3> QED BY <3>1, <3>2, <3>4 DEF Follows, R, Q
  <2>4. CASE ~HasTurn(d, m)
    <3>1. R = e /\ Q = R /\ d.order[d.cur] # m
      BY <1>1, <1>5, <1>8, <2>4 DEF HasTurn
    <3>2. SameTurn(d, e)
      BY <1>1, <1>4, <3>1 DEF SameTurn, Current
    <3> QED BY <2>1, <2>2, <2>4, <3>1, <3>2 DEF Follows, R, Q
  <2> QED BY <2>3, <2>4
<1> QED BY <1>7, <1>8

(* Nobody removed: the same turn.                                             *)
LEMMA FollowsItself == ASSUME NEW d, Sound(d) PROVE Follows(d, d)
<1>1. Len(d.order) <= Len(d.order)
  BY OrderIsSeq DEF Sound
<1> QED BY <1>1 DEF Follows, Armed, SameTurn, Sound, Table

(* One removal after the other.                                               *)
LEMMA FollowsOn ==
    ASSUME NEW d, NEW e, NEW f, Sound(d), Follows(d, e), Follows(e, f)
    PROVE  Follows(d, f)
<1>1. Len(d.order) \in Nat /\ Len(e.order) \in Nat /\ Len(f.order) \in Nat
  BY OrderIsSeq DEF Follows, Sound
<1>2. Len(f.order) <= Len(d.order)
  BY <1>1 DEF Follows
<1>3. Armed(f) \/ SameTurn(d, f)
  BY DEF Follows, Armed, SameTurn
<1> QED BY <1>2, <1>3 DEF Follows

(* pruneUnavailableParticipants, if the turn is advanced as it should be      *)
(* among fewer players.                                                       *)
LEMMA PrunedFacts ==
    ASSUME NEW A, NEW B, NEW n \in Nat, AdvancesWell(A, n), AdvanceAlike(A, B, n),
           NEW d, Sound(d), Len(d.order) <= n + 1
    PROVE  Follows(d, PrunedBy(A, d)) /\ PrunedBy(B, d) = PrunedBy(A, d)
<1> DEFINE Gone(e, m) == m \notin present \cup d.grace /\ InGame(e, m)
           l == Len(d.order)
           S == [k \in 1..l |-> [e \in Table |->
                    IF Gone(e, d.order[k]) THEN RemovedBy(A, e, d.order[k]) ELSE e]]
           T == [k \in 1..l |-> [e \in Table |->
                    IF Gone(e, d.order[k]) THEN RemovedBy(B, e, d.order[k]) ELSE e]]
           X == {e \in Table : Follows(d, e)}
<1>1. PrunedBy(A, d) = Applied(S, d) /\ PrunedBy(B, d) = Applied(T, d)
  BY DEF PrunedBy
<1>2. l \in Nat
  BY OrderIsSeq DEF Sound
<1>3. d \in X
  BY FollowsItself DEF Sound
<1>4. ASSUME NEW k \in 1..l, NEW e \in X PROVE S[k][e] \in X /\ T[k][e] = S[k][e]
  <2> DEFINE f == RemovedBy(A, e, d.order[k])
             g == RemovedBy(B, e, d.order[k])
  <2>1. e \in Table /\ Follows(d, e) /\ Sound(e)
    BY DEF Follows
  <2>2. /\ S[k][e] = (IF Gone(e, d.order[k]) THEN f ELSE e)
        /\ T[k][e] = (IF Gone(e, d.order[k]) THEN g ELSE e)
    BY <2>1
  <2>3. ASSUME Gone(e, d.order[k]) PROVE f \in X /\ g = f
    <3>1. d.order[k] \in Range(e.order)
      BY <2>3 DEF InGame
    <3>2. Len(e.order) <= n + 1
      <4>1. Len(e.order) \in Nat /\ Len(e.order) <= l
        BY <2>1, OrderIsSeq DEF Follows, Sound
      <4> QED BY <1>2, <4>1
    <3>3. Follows(e, f) /\ g = f
      BY <2>1, <3>1, <3>2, RemovedFacts
    <3>4. Follows(d, f)
      BY <2>1, <3>3, FollowsOn
    <3> QED BY <3>3, <3>4 DEF Follows, Sound
  <2> QED BY <2>2, <2>3
<1>5. Len(S) = l /\ Len(T) = l
  BY <1>2
<1> HIDE DEF S, T, X, l
<1>6. Applied(S, d) \in X /\ Applied(T, d) = Applied(S, d)
  BY <1>2, <1>3, <1>4, <1>5, AppliedKeeps
<1> QED BY <1>1, <1>6 DEF X

(* One turn of the loop in advanceTurn: it ends with the turn armed or the    *)
(* game over, or goes on with a running game.                                 *)
LEMMA AttemptFacts ==
    ASSUME NEW A, NEW B, NEW n \in Nat, AdvancesWell(A, n), AdvanceAlike(A, B, n),
           NEW d, Sound(d), d.on, Len(d.order) <= n + 1
    PROVE  /\ Attempt(A, d) \in Table \X BOOLEAN
           /\ Sound(Attempt(A, d)[1]) /\ Len(Attempt(A, d)[1].order) <= Len(d.order)
           /\ IF Attempt(A, d)[2] THEN Attempt(A, d)[1].on ELSE Armed(Attempt(A, d)[1])
           /\ Attempt(B, d) = Attempt(A, d)
<1> DEFINE e == Moved(d)
           p == e.order[e.cur]
           f == RemovedBy(A, e, p)
           g == RemovedBy(B, e, p)
           t == Attempt(A, d)
           u == Attempt(B, d)
<1>1. t = IF Len(d.order) <= 1 THEN <<Over(d), FALSE>>
          ELSE IF e.round > TotalRounds THEN <<Over(e), FALSE>>
          ELSE IF p \in present THEN <<Begun(e), FALSE>>
          ELSE <<f, f.on>>
  BY DEF Attempt
<1>0. u = IF Len(d.order) <= 1 THEN <<Over(d), FALSE>>
          ELSE IF e.round > TotalRounds THEN <<Over(e), FALSE>>
          ELSE IF p \in present THEN <<Begun(e), FALSE>>
          ELSE <<g, g.on>>
  BY DEF Attempt
<1>2. Over(e) = Over(d) /\ e.order = d.order /\ e.on /\ (e.round <= TotalRounds => Sound(e))
  BY MovedFacts
<1>3. Len(d.order) \in Nat
  BY OrderIsSeq DEF Sound
<1>4. /\ Sound(Over(d)) /\ Len(Over(d).order) = 0 /\ Armed(Over(d))
  BY OverFacts DEF Sound
<1>5. ASSUME e.round <= TotalRounds, p \in present
      PROVE  Sound(Begun(e)) /\ Armed(Begun(e)) /\ Begun(e).order = d.order
  BY <1>2, <1>5, BegunFacts
<1>6. ASSUME e.round <= TotalRounds
      PROVE  /\ Sound(f) /\ Len(f.order) <= Len(d.order) /\ f.on \in BOOLEAN
             /\ ~f.on => Armed(f)
             /\ g = f
  <2>1. Sound(e) /\ Len(e.order) <= n + 1
    BY <1>2, <1>6
  <2>2. p \in Range(e.order)
    <3>1. e.cur \in 1..Len(e.order) /\ DOMAIN e.order = 1..Len(e.order)
      BY <1>2, <2>1, OrderIsSeq DEF Sound, Table
    <3> QED BY <3>1 DEF Range
  <2>3. Follows(e, f) /\ g = f
    BY <2>1, <2>2, RemovedFacts
  <2> HIDE DEF e, f, g
  <2> QED BY <1>2, <2>3 DEF Follows, Sound, Table, Armed
<1>7. e.round > TotalRounds \/ e.round <= TotalRounds
  <2>1. d.round \in 1..TotalRounds /\ TotalRounds \in Nat
    BY BoundsAssumption DEF Sound, Table
  <2>2. e.round \in Nat
    BY <2>1 DEF Moved, Sound, Table
  <2> HIDE DEF e
  <2> QED BY <2>1, <2>2
<1> HIDE DEF e, p, f, g, t, u
<1>9. u = t
  BY <1>0, <1>1, <1>6, <1>7
<1>8. /\ t \in Table \X BOOLEAN
      /\ Sound(t[1]) /\ Len(t[1].order) <= Len(d.order)
      /\ IF t[2] THEN t[1].on ELSE Armed(t[1])
  <2>1. CASE Len(d.order) <= 1 \/ e.round > TotalRounds
    <3>1. t = <<Over(d), FALSE>>
      BY <1>1, <1>2, <2>1
    <3>2. t[1] = Over(d) /\ t[2] = FALSE /\ Over(d) \in Table
      BY <1>4, <3>1 DEF Sound
    <3>3. Len(Over(d).order) <= Len(d.order)
      BY <1>3, <1>4
    <3> QED BY <1>4, <3>1, <3>2, <3>3
  <2>2. CASE ~(Len(d.order) <= 1) /\ ~(e.round > TotalRounds) /\ p \in present
    <3>1. t = <<Begun(e), FALSE>>
      BY <1>1, <2>2
    <3>2. Sound(Begun(e)) /\ Armed(Begun(e)) /\ Begun(e).order = d.order
      BY <1>5, <1>7, <2>2
    <3>3. t[1] = Begun(e) /\ t[2] = FALSE /\ Begun(e) \in Table
      BY <3>1, <3>2 DEF Sound
    <3>4. Len(Begun(e).order) <= Len(d.order)
      BY <1>3, <3>2
    <3> QED BY <3>1, <3>2, <3>3, <3>4
  <2>3. CASE ~(Len(d.order) <= 1) /\ ~(e.round > TotalRounds) /\ p \notin present
    <3>1. t = <<f, f.on>>
      BY <1>1, <2>3
    <3> QED BY <1>6, <1>7, <2>3, <3>1 DEF Sound
  <2> QED BY <2>1, <2>2, <2>3
<1> QED BY <1>8, <1>9 DEF t, u

(* The loop in advanceTurn ends with the turn armed or the game over.         *)
LEMMA NextTurnFacts ==
    ASSUME NEW A, NEW B, NEW n \in Nat, AdvancesWell(A, n), AdvanceAlike(A, B, n),
           NEW d, Sound(d), Len(d.order) <= n + 1
    PROVE  /\ Sound(NextTurnBy(A, d)) /\ Len(NextTurnBy(A, d).order) <= Len(d.order)
           /\ Armed(NextTurnBy(A, d))
           /\ NextTurnBy(B, d) = NextTurnBy(A, d)
<1> DEFINE Try == [t \in Table \X BOOLEAN |-> IF t[2] THEN Attempt(A, t[1]) ELSE t]
           Other == [t \in Table \X BOOLEAN |-> IF t[2] THEN Attempt(B, t[1]) ELSE t]
           l == Len(d.order)
           S == [k \in 1..(l + 1) |-> Try]
           T == [k \in 1..(l + 1) |-> Other]
           X == {t \in Table \X BOOLEAN :
                    /\ Sound(t[1]) /\ Len(t[1].order) <= l
                    /\ IF t[2] THEN t[1].on ELSE Armed(t[1])}
           t == Applied(S, <<d, d.on>>)
           u == Applied(T, <<d, d.on>>)
           R == NextTurnBy(A, d)
           Q == NextTurnBy(B, d)
<1>1. R = (IF t[2] THEN Over(t[1]) ELSE t[1]) /\ Q = (IF u[2] THEN Over(u[1]) ELSE u[1])
  BY DEF NextTurnBy
<1>2. l \in Nat
  BY OrderIsSeq DEF Sound
<1>3. <<d, d.on>> \in X
  BY <1>2 DEF Sound, Table, Armed
<1>4. ASSUME NEW x \in X PROVE Try[x] \in X /\ Other[x] = Try[x]
  <2>1. x \in Table \X BOOLEAN /\ Sound(x[1]) /\ Len(x[1].order) <= l /\ Len(x[1].order) \in Nat
    BY OrderIsSeq DEF Sound
  <2>2. /\ Try[x] = (IF x[2] THEN Attempt(A, x[1]) ELSE x)
        /\ Other[x] = (IF x[2] THEN Attempt(B, x[1]) ELSE x)
    BY <2>1
  <2>3. ASSUME x[2] PROVE Attempt(A, x[1]) \in X /\ Attempt(B, x[1]) = Attempt(A, x[1])
    <3> DEFINE a == Attempt(A, x[1])
               b == Attempt(B, x[1])
    <3>1. x[1].on /\ Len(x[1].order) <= n + 1
      BY <1>2, <2>1, <2>3
    <3>2. /\ a \in Table \X BOOLEAN /\ Sound(a[1]) /\ Len(a[1].order) <= Len(x[1].order)
          /\ IF a[2] THEN a[1].on ELSE Armed(a[1])
          /\ b = a
      BY <2>1, <3>1, AttemptFacts
    <3>3. Len(a[1].order) \in Nat
      BY <3>2, OrderIsSeq DEF Sound
    <3> HIDE DEF a, b
    <3>4. Len(a[1].order) <= l
      BY <1>2, <2>1, <3>2, <3>3
    <3>5. a \in X
      BY <3>2, <3>4
    <3> QED BY <3>2, <3>5 DEF a, b
  <2> QED BY <2>2, <2>3
<1>5. /\ Len(S) = l + 1 /\ \A k \in 1..(l + 1) : S[k] = Try
      /\ Len(T) = l + 1 /\ \A k \in 1..(l + 1) : T[k] = Other
  BY <1>2
<1> HIDE DEF S, T, Try, Other, X
<1>6. t \in X /\ u = t
  <2> PICK x : x = <<d, d.on>>
    OBVIOUS
  <2>1. x \in X /\ Len(S) \in Nat /\ Len(T) = Len(S)
    BY <1>2, <1>3, <1>5
  <2>2. \A k \in 1..Len(S) : \A y \in X : S[k][y] \in X /\ T[k][y] = S[k][y]
    BY <1>4, <1>5
  <2>3. Applied(S, x) \in X /\ Applied(T, x) = Applied(S, x)
    BY <2>1, <2>2, AppliedKeeps
  <2> QED BY <2>3
<1> HIDE DEF t, u, R, Q
<1>7. /\ t[1] \in Table /\ Sound(t[1]) /\ Len(t[1].order) <= l
      /\ IF t[2] THEN t[1].on ELSE Armed(t[1])
  BY <1>6 DEF X
<1>8. Sound(Over(t[1])) /\ Len(Over(t[1]).order) = 0 /\ Armed(Over(t[1]))
  BY <1>7, OverFacts DEF Sound
<1>9. Sound(R) /\ Len(R.order) <= l /\ Armed(R) /\ Q = R
  BY <1>1, <1>2, <1>6, <1>7, <1>8
<1> QED BY <1>9 DEF R, Q

(* advanceTurn keeps its contract, by a least number of players for which it  *)
(* did not.                                                                   *)
LEMMA AdvanceKeeps ==
    ASSUME NEW k \in 0..Len(Roster)
    PROVE  AdvancesWell(AdvancedAmong[k], k)
<1> DEFINE Bad == {j \in 0..Len(Roster) : ~AdvancesWell(AdvancedAmong[j], j)}
<1>1. SUFFICES ASSUME k \in Bad PROVE FALSE
  OBVIOUS
<1>2. Len(Roster) \in Nat
  BY RosterAssumption, LenProperties
<1>3. PICK m \in Bad : \A j \in Bad : m <= j
  <2>1. Bad \subseteq Nat
    BY <1>2
  <2> HIDE DEF Bad
  <2> QED BY <1>1, <2>1, Least
<1>4. m \in 0..Len(Roster) /\ m \in Nat /\ ~AdvancesWell(AdvancedAmong[m], m)
  BY <1>2
<1>5. CASE m = 0
  <2> SUFFICES ASSUME NEW d, Sound(d), Len(d.order) <= 0
               PROVE  AdvancedAmong[0][d] = d /\ Armed(d)
    <3>1. ASSUME NEW d, Sound(d), Len(d.order) <= 0
          PROVE  AdvancedAmong[0][d] = d /\ Armed(d) /\ Len(d.order) <= Len(d.order)
      <4>1. Len(d.order) \in Nat
        BY <3>1, OrderIsSeq DEF Sound
      <4> QED BY <3>1, <4>1
    <3> QED BY <1>4, <1>5, <3>1 DEF AdvancesWell
  <2>1. Len(d.order) \in Nat
    BY OrderIsSeq DEF Sound
  <2>2. ~d.on
    BY <2>1 DEF Sound
  <2> QED BY <2>2, AdvanceIs DEF Sound, Armed
<1>6. CASE m # 0
  <2> DEFINE A == AdvancedAmong[m - 1]
             n == m - 1
  <2>1. n \in Nat /\ n \in 0..Len(Roster) /\ ~(m <= n) /\ m \in 1..Len(Roster) /\ n + 1 = m
    BY <1>2, <1>4, <1>6
  <2>2. AdvancesWell(A, n) /\ AdvanceAlike(A, A, n)
    BY <1>3, <2>1 DEF AdvanceAlike
  <2>3. AdvancedAmong[m] = AdvancedBy(A)
    BY <2>1, AdvanceIs
  <2> HIDE DEF A, n
  <2>4. ASSUME NEW d, Sound(d), Len(d.order) <= m
        PROVE  LET r == AdvancedAmong[m][d]
               IN  Sound(r) /\ Len(r.order) <= Len(d.order) /\ Armed(r)
    <3> DEFINE e == PrunedBy(A, d)
               r == NextTurnBy(A, e)
    <3>1. AdvancedAmong[m][d] = r
      BY <2>3, <2>4 DEF AdvancedBy, Sound
    <3>2. Sound(e) /\ Len(e.order) <= Len(d.order)
      BY <2>1, <2>2, <2>4, PrunedFacts DEF Follows
    <3>3. Len(d.order) \in Nat /\ Len(e.order) \in Nat
      BY <2>4, <3>2, OrderIsSeq DEF Sound
    <3> HIDE DEF e
    <3>4. Len(e.order) <= n + 1
      BY <2>1, <2>4, <3>2, <3>3
    <3>5. Sound(r) /\ Len(r.order) <= Len(e.order) /\ Armed(r)
      BY <2>1, <2>2, <3>2, <3>4, NextTurnFacts
    <3>6. Len(r.order) \in Nat
      BY <3>5, OrderIsSeq DEF Sound
    <3> HIDE DEF r
    <3> QED BY <3>1, <3>2, <3>3, <3>5, <3>6
  <2> QED BY <1>4, <2>4 DEF AdvancesWell
<1> QED BY <1>5, <1>6

(* The three as the commands and timers use them.                             *)
LEMMA TurnFacts ==
    ASSUME NEW d, Sound(d)
    PROVE  /\ Follows(d, Pruned(d))
           /\ Sound(Advanced(d)) /\ Armed(Advanced(d))
           /\ \A m \in Range(d.order) :
                  Follows(d, Removed(d, m)) /\ (HasTurn(d, m) => Armed(Removed(d, m)))
<1> PICK n, A : n = Len(Roster) /\ A = AdvancedAmong[Len(Roster)]
  OBVIOUS
<1>1. n \in Nat /\ Len(d.order) \in 0..n /\ Len(d.order) <= n /\ Len(d.order) <= n + 1
  BY OrderIsSeq DEF Sound
<1>2. AdvancesWell(A, n) /\ AdvanceAlike(A, A, n)
  BY <1>1, AdvanceKeeps DEF AdvanceAlike
<1>3. /\ Pruned(d) = PrunedBy(A, d) /\ Advanced(d) = A[d]
      /\ \A m : Removed(d, m) = RemovedBy(A, d, m)
  BY DEF Pruned, Advanced, Removed
<1>4. Follows(d, PrunedBy(A, d))
  BY <1>1, <1>2, PrunedFacts
<1>5. Sound(A[d]) /\ Armed(A[d])
  BY <1>1, <1>2 DEF AdvancesWell
<1>6. \A m \in Range(d.order) :
          Follows(d, RemovedBy(A, d, m)) /\ (HasTurn(d, m) => Armed(RemovedBy(A, d, m)))
  BY <1>1, <1>2, RemovedFacts
<1> QED BY <1>3, <1>4, <1>5, <1>6

(* Among no players, advanceTurn has nothing to do.                           *)
LEMMA NobodyAdvances ==
    ASSUME NEW A, NEW d, Sound(d), Len(d.order) <= 0
    PROVE  AdvancedBy(A)[d] = d
<1>1. d \in Table /\ Len(d.order) = 0 /\ ~d.on /\ d.on \in BOOLEAN
  <2>1. Len(d.order) \in Nat
    BY OrderIsSeq DEF Sound
  <2> QED BY <2>1 DEF Sound, Table
<1>2. PrunedBy(A, d) = d
  <2> DEFINE Gone(e, m) == m \notin present \cup d.grace /\ InGame(e, m)
             S == [k \in 1..Len(d.order) |-> [e \in Table |->
                      IF Gone(e, d.order[k]) THEN RemovedBy(A, e, d.order[k]) ELSE e]]
  <2>1. PrunedBy(A, d) = Applied(S, d)
    BY DEF PrunedBy
  <2>2. Len(S) = 0
    BY <1>1
  <2> HIDE DEF S
  <2> PICK X : X = {d}
    OBVIOUS
  <2>3. Applied(S, d) \in X
    <3>1. \A k \in 1..Len(S) : \A y \in X : S[k][y] \in X /\ S[k][y] = S[k][y]
      BY <2>2
    <3>2. d \in X /\ Len(S) \in Nat
      BY <2>2
    <3> QED BY <3>1, <3>2, AppliedKeeps
  <2> QED BY <2>1, <2>3
<1>3. NextTurnBy(A, d) = d
  <2> DEFINE Try == [t \in Table \X BOOLEAN |-> IF t[2] THEN Attempt(A, t[1]) ELSE t]
             S == [k \in 1..(Len(d.order) + 1) |-> Try]
             t == Applied(S, <<d, d.on>>)
  <2>1. NextTurnBy(A, d) = IF t[2] THEN Over(t[1]) ELSE t[1]
    BY DEF NextTurnBy
  <2>2. Len(S) = 1 /\ \A k \in 1..1 : S[k] = Try
    BY <1>1
  <2>3. Try[<<d, d.on>>] = <<d, d.on>>
    BY <1>1
  <2> HIDE DEF S, Try
  <2> PICK x, X : x = <<d, d.on>> /\ X = {x}
    OBVIOUS
  <2>4. t \in {<<d, d.on>>}
    <3>1. \A k \in 1..Len(S) : \A y \in X : S[k][y] \in X /\ S[k][y] = S[k][y]
      BY <2>2, <2>3
    <3>2. x \in X /\ Len(S) \in Nat
      BY <2>2
    <3>3. Applied(S, x) \in X
      BY <3>1, <3>2, AppliedKeeps
    <3> QED BY <3>3
  <2> HIDE DEF t
  <2> QED BY <1>1, <2>1, <2>4
<1> QED BY <1>1, <1>2, <1>3 DEF AdvancedBy

(* Once more is the same: a call among k players makes calls among fewer, for *)
(* which a recursion of depth k - 1 is as good as any other.                  *)
LEMMA DepthSuffices ==
    ASSUME NEW k \in 0..Len(Roster)
    PROVE  AdvanceAlike(AdvancedAmong[k], AdvancedBy(AdvancedAmong[k]), k)
<1> DEFINE Ok(j) == AdvanceAlike(AdvancedAmong[j], AdvancedBy(AdvancedAmong[j]), j)
           Bad == {j \in 0..Len(Roster) : ~Ok(j)}
<1>1. SUFFICES ASSUME k \in Bad PROVE FALSE
  OBVIOUS
<1>2. Len(Roster) \in Nat
  BY RosterAssumption, LenProperties
<1>3. PICK m \in Bad : \A j \in Bad : m <= j
  <2>1. Bad \subseteq Nat
    BY <1>2
  <2> HIDE DEF Bad
  <2> QED BY <1>1, <2>1, Least
<1>4. m \in 0..Len(Roster) /\ m \in Nat /\ ~Ok(m)
  BY <1>2
<1>5. CASE m = 0
  <2>1. ASSUME NEW d, Sound(d), Len(d.order) <= 0
        PROVE  AdvancedBy(AdvancedAmong[0])[d] = AdvancedAmong[0][d]
    BY <2>1, NobodyAdvances, AdvanceIs DEF Sound
  <2> QED BY <1>4, <1>5, <2>1 DEF AdvanceAlike
<1>6. CASE m # 0
  <2>1. /\ m - 1 \in Nat /\ m - 1 \in 0..Len(Roster) /\ ~(m <= m - 1)
        /\ m \in 1..Len(Roster) /\ (m - 1) + 1 = m
    BY <1>2, <1>4, <1>6
  <2> PICK A, B, n : A = AdvancedAmong[m - 1] /\ B = AdvancedAmong[m] /\ n = m - 1
    OBVIOUS
  <2>2. B = AdvancedBy(A)
    BY <2>1, AdvanceIs
  <2>3. AdvancesWell(A, n) /\ AdvanceAlike(A, B, n)
    <3>1. Ok(m - 1)
      BY <1>3, <2>1
    <3> QED BY <2>1, <2>2, <3>1, AdvanceKeeps
  <2>4. ASSUME NEW d, Sound(d), Len(d.order) <= m
        PROVE  AdvancedBy(B)[d] = B[d]
    <3> DEFINE e == PrunedBy(A, d)
    <3>1. Follows(d, e) /\ PrunedBy(B, d) = e
      BY <2>1, <2>3, <2>4, PrunedFacts
    <3>2. Sound(e) /\ Len(e.order) <= n + 1
      <4>1. Len(d.order) \in Nat /\ Len(e.order) \in Nat
        BY <2>4, <3>1, OrderIsSeq DEF Follows, Sound
      <4> HIDE DEF e
      <4> QED BY <2>1, <2>4, <3>1, <4>1 DEF Follows
    <3>3. NextTurnBy(B, e) = NextTurnBy(A, e)
      BY <2>1, <2>3, <3>2, NextTurnFacts
    <3> QED BY <2>2, <2>4, <3>1, <3>3 DEF AdvancedBy, Sound
  <2> QED BY <1>4, <2>1, <2>4 DEF AdvanceAlike
<1> QED BY <1>5, <1>6

(* The depth to which the model lets removePlayerFromGame and advanceTurn     *)
(* call each other is no bound: advanceTurn, removals and prunings satisfy    *)
(* the equations of the code, in which the inner call is advanceTurn itself.  *)
THEOREM AdvanceCallsItself ==
    LET A == [e \in Table |-> Advanced(e)]
    IN  \A d : Sound(d) =>
            /\ Advanced(d) = NextTurnBy(A, PrunedBy(A, d))
            /\ Pruned(d) = PrunedBy(A, d)
            /\ \A m : Removed(d, m) = RemovedBy(A, d, m)
<1> PICK n, F : n = Len(Roster) /\ F = AdvancedAmong[Len(Roster)]
  OBVIOUS
<1>1. n \in Nat /\ n \in 1..n
  BY RosterAssumption, LenProperties
<1>2. F = AdvancedBy(AdvancedAmong[n - 1])
  BY <1>1, AdvanceIs
<1>3. F = [e \in Table |-> F[e]]
  BY <1>2 DEF AdvancedBy
<1>4. \A e : Advanced(e) = F[e]
  BY DEF Advanced
<1>5. F = [e \in Table |-> Advanced(e)]
  BY <1>3, <1>4
<1>6. AdvanceAlike(F, AdvancedBy(F), n)
  BY <1>1, DepthSuffices
<1>7. ASSUME NEW d, Sound(d)
      PROVE  /\ Advanced(d) = NextTurnBy(F, PrunedBy(F, d))
             /\ Pruned(d) = PrunedBy(F, d)
             /\ \A m : Removed(d, m) = RemovedBy(F, d, m)
  <2>1. d \in Table /\ Len(d.order) <= n
    BY <1>7, OrderIsSeq DEF Sound
  <2>2. AdvancedBy(F)[d] = F[d]
    BY <1>6, <1>7, <2>1 DEF AdvanceAlike
  <2>3. AdvancedBy(F)[d] = NextTurnBy(F, PrunedBy(F, d))
    BY <2>1 DEF AdvancedBy
  <2> QED BY <1>4, <2>2, <2>3 DEF Pruned, Removed
<1> QED BY <1>5, <1>7

--------------------------------------------------------------------------------
(* The inductive invariant                                                    *)

(* The inductive invariant. A snapshot is a well-formed table, too: a         *)
(* restart resumes it.                                                        *)
IInv == TypeOK /\ Sound(dare) /\ Sound(saved) /\ TurnIsWatched

(* The turn of the player whose turn it is at table d is watched.             *)
Watched(d, s, e) == d.on => s \/ Current(d) \in d.autoPass \/ e[Current(d)] > 0

(* The parts of the invariant, of the table as a value.                       *)
LEMMA InvParts ==
    IInv <=> /\ Sound(dare) /\ Sound(saved) /\ Watched(dare, starting, ending)
             /\ starting \in BOOLEAN /\ present \subseteq Players
             /\ drawing \subseteq Players /\ ending \in [Players -> 0..MaxEnding]
             /\ restarts \in 0..MaxRestarts
BY DEF IInv, TypeOK, Sound, TurnIsWatched, Watched, Current

(* A table that follows a watched one is watched.                             *)
LEMMA WatchedOn ==
    ASSUME NEW d, NEW e, NEW s, NEW h, Watched(d, s, h), Follows(d, e)
    PROVE  Watched(e, s, h)
BY DEF Watched, Follows, Armed, SameTurn

(* A turn with its timer armed is watched.                                    *)
LEMMA ArmedWatched ==
    ASSUME NEW d, NEW s, NEW h, Armed(d)
    PROVE  Watched(d, s, h)
BY DEF Watched, Armed

(* A snapshot of a well-formed table is well formed: the decisions it keeps   *)
(* have their dares.                                                          *)
LEMMA SaveSound ==
    ASSUME Sound(saved), Sound(dare'), Save \/ UNCHANGED saved
    PROVE  Sound(saved')
<1>1. CASE UNCHANGED saved
  BY <1>1
<1>2. CASE saved' = Snapshot(dare')
  <2> PICK d, e : d = dare' /\ e = Snapshot(d)
    OBVIOUS
  <2>1. Sound(d)
    OBVIOUS
  <2>2. /\ e \in Table /\ e.on = d.on /\ e.order = d.order /\ e.cur = d.cur
        /\ e.bondage = d.bondage \cap d.pending /\ e.pending = d.pending
    BY <2>1 DEF Snapshot, Sound, Table
  <2>3. Sound(e)
    BY <2>1, <2>2 DEF Sound
  <2> QED BY <1>2, <2>3
<1> QED BY <1>1, <1>2 DEF Save

(* A new game is well formed, and the start command will begin its first      *)
(* turn.                                                                      *)
LEMMA InitOK == Init => IInv
<1> SUFFICES ASSUME Init PROVE IInv
  OBVIOUS
<1>1. /\ Len(Roster) \in Nat /\ Len(Roster) >= 2 /\ Roster \in Seq(Players)
      /\ Roster \in BoundedSeq(Players, Len(Roster)) /\ IsInjective(Roster)
  <2>1. Len(Roster) \in Nat /\ Len(Roster) <= Len(Roster)
    BY RosterAssumption, LenProperties
  <2> QED BY <2>1, RosterAssumption, SeqIsOrder
<1>2. 1 \in 1..Len(Roster) /\ 1 \in 1..TotalRounds /\ 0 \in 0..MaxEnding /\ 0 \in 0..MaxRestarts
  BY <1>1, BoundsAssumption
<1>3. <<>> \in BoundedSeq(Players, Len(Roster))
  <2>1. <<>> \in Seq(Players) /\ Len(<<>>) = 0
    BY EmptySeq
  <2>2. Len(<<>>) <= Len(Roster)
    BY <1>1, <2>1
  <2> QED BY <2>1, <2>2, SeqIsOrder
<1>4. Sound(NoGame)
  <2>1. NoGame \in Table
    BY <1>2, <1>3 DEF NoGame, Table
  <2>2. IsInjective(<<>>)
    BY DEF IsInjective
  <2> QED BY <2>1, <2>2 DEF NoGame, Sound
<1>5. Sound(dare)
  <2> PICK d : d = dare
    OBVIOUS
  <2>1. d = [NoGame EXCEPT !.on = TRUE, !.order = Roster]
    BY DEF Init
  <2>2. d \in Table
    BY <1>1, <1>2, <2>1 DEF NoGame, Table
  <2>3. d.on /\ d.order = Roster /\ d.cur = 1 /\ d.bondage = {} /\ d.pending = {}
    BY <2>1 DEF NoGame
  <2>4. Sound(d)
    BY <1>1, <2>2, <2>3 DEF Sound
  <2> QED BY <2>4
<1>6. Watched(dare, starting, ending)
  BY DEF Init, Watched
<1> QED BY <1>2, <1>4, <1>5, <1>6, InvParts DEF Init

(* What is left to show of a step.                                            *)
LEMMA NextParts ==
    ASSUME IInv, Sound(dare'), Watched(dare', starting', ending'), Save \/ UNCHANGED saved,
           starting' \in BOOLEAN, present' \subseteq Players, drawing' \subseteq Players,
           ending' \in [Players -> 0..MaxEnding], restarts' \in 0..MaxRestarts
    PROVE  IInv'
<1>1. Sound(saved')
  BY SaveSound DEF IInv
<1> QED BY <1>1 DEF IInv, TypeOK, Sound, TurnIsWatched, Watched, Current

(* Table e has the turns of table d.                                          *)
Alike(d, e) ==
    /\ e \in Table /\ e.on = d.on /\ e.order = d.order /\ e.cur = d.cur
    /\ e.bondage \subseteq e.pending

(* A table with the turns of a well-formed one is well formed and has its     *)
(* current player.                                                            *)
LEMMA Edited ==
    ASSUME NEW d, NEW e, Sound(d), Alike(d, e)
    PROVE  Sound(e) /\ Current(e) = Current(d) /\ e.on = d.on
BY DEF Sound, Current, Alike

(* Whoever has the turn is in the game.                                       *)
LEMMA CurrentPlays ==
    ASSUME NEW d, Sound(d), d.on
    PROVE  Current(d) \in Range(d.order) /\ Current(d) \in Players
<1>1. d.cur \in 1..Len(d.order) /\ DOMAIN d.order = 1..Len(d.order) /\ d.order \in Seq(Players)
  BY OrderIsSeq DEF Sound, Table
<1>2. d.order[d.cur] \in Players
  BY <1>1, ElementOfSeq
<1> QED BY <1>1, <1>2 DEF Current, Range

(* The turn is watched unless it is p's.                                      *)
WatchedBut(d, p, s, h) ==
    d.on /\ Current(d) # p => s \/ Current(d) \in d.autoPass \/ h[Current(d)] > 0

(* finishTurn for p: if p was the only one whose turn may have been           *)
(* unwatched, it is watched afterwards.                                       *)
LEMMA FinishedFacts ==
    ASSUME NEW d, NEW p, NEW s, NEW h, Sound(d), WatchedBut(d, p, s, h)
    PROVE  Sound(Finished(d, p)) /\ Watched(Finished(d, p), s, h)
<1>1. CASE InGame(d, p)
  <2>1. Finished(d, p) = Advanced(d)
    BY <1>1 DEF Finished
  <2>2. Sound(Advanced(d)) /\ Armed(Advanced(d))
    BY TurnFacts
  <2> QED BY <2>1, <2>2, ArmedWatched
<1>2. CASE ~InGame(d, p)
  <2>1. Finished(d, p) = d
    BY <1>2 DEF Finished
  <2>2. d.on => Current(d) # p
    BY <1>2, CurrentPlays DEF InGame
  <2> QED BY <2>1, <2>2 DEF WatchedBut, Watched
<1> QED BY <1>1, <1>2

(* clearForPlayer leaves no turn unwatched but p's.                           *)
LEMMA ResolvedFacts ==
    ASSUME NEW d, Sound(d), NEW p
    PROVE  /\ Sound(Resolved(d, p))
           /\ \A s, h : Watched(d, s, h) => WatchedBut(Resolved(d, p), p, s, h)
<1> PICK e : e = Resolved(d, p)
  OBVIOUS
<1>1. Alike(d, e) /\ e.autoPass = d.autoPass \ {p}
  BY DEF Resolved, Sound, Table, Alike
<1>2. Sound(e) /\ Current(e) = Current(d) /\ e.on = d.on
  BY <1>1, Edited
<1>3. ASSUME NEW s, NEW h, Watched(d, s, h) PROVE WatchedBut(e, p, s, h)
  BY <1>1, <1>2, <1>3 DEF Watched, WatchedBut
<1> QED BY <1>2, <1>3

(* A handler of p that awaits watches p's turn, and every other handler goes  *)
(* on.                                                                        *)
LEMMA AwaitFacts ==
    ASSUME NEW p \in Players, Await(p), ending \in [Players -> 0..MaxEnding]
    PROVE  /\ ending' \in [Players -> 0..MaxEnding] /\ ending'[p] > 0
           /\ \A q \in Players : ending[q] > 0 => ending'[q] > 0
<1>1. MaxEnding \in Nat /\ ending[p] \in Nat /\ ending[p] + 1 \in 0..MaxEnding
  BY BoundsAssumption DEF Await
<1> QED BY <1>1 DEF Await

(* applyPassConsequence for p ends p's turn, or awaits and will end it.       *)
LEMMA ConsequenceFacts ==
    ASSUME NEW d, NEW p \in Players, Sound(d), ending \in [Players -> 0..MaxEnding],
           WatchedBut(d, p, starting, ending), Consequence(d, p)
    PROVE  /\ Sound(dare') /\ Watched(dare', starting, ending')
           /\ drawing' = drawing /\ ending' \in [Players -> 0..MaxEnding]
<1>1. CASE p \in d.passed
  <2>1. Await(p) /\ dare' = d /\ drawing' = drawing
    BY <1>1 DEF Consequence
  <2>2. d.on => Current(d) \in Players
    BY CurrentPlays
  <2>3. /\ ending' \in [Players -> 0..MaxEnding] /\ ending'[p] > 0
        /\ \A q \in Players : ending[q] > 0 => ending'[q] > 0
    BY <2>1, AwaitFacts
  <2>4. Watched(d, starting, ending')
    BY <2>2, <2>3 DEF Watched, WatchedBut
  <2> QED BY <2>1, <2>3, <2>4
<1>2. CASE p \notin d.passed
  <2> PICK e, s, h : e = [d EXCEPT !.passed = @ \cup {p}] /\ s = starting /\ h = ending
    OBVIOUS
  <2>1. dare' = Finished(e, p) /\ UNCHANGED <<ending, drawing>>
    BY <1>2 DEF Consequence
  <2>2. Alike(d, e) /\ e.autoPass = d.autoPass
    BY DEF Sound, Table, Alike
  <2>3. Sound(e) /\ Current(e) = Current(d) /\ e.on = d.on
    BY <2>2, Edited
  <2>4. WatchedBut(e, p, s, h)
    BY <2>2, <2>3 DEF WatchedBut
  <2>5. Sound(Finished(e, p)) /\ Watched(Finished(e, p), s, h)
    BY <2>3, <2>4, FinishedFacts
  <2> QED BY <2>1, <2>5
<1> QED BY <1>1, <1>2

--------------------------------------------------------------------------------
(* The steps                                                                  *)

(* The start command begins the first turn, of whatever is left of the game.  *)
LEMMA BeginOK == ASSUME IInv, Begin PROVE IInv'
<1>1. Sound(dare) /\ UNCHANGED <<present, drawing, ending, restarts>> /\ starting' = FALSE
  BY DEF IInv, Begin, handlers
<1>2. Sound(dare') /\ Armed(dare')
  BY <1>1, BegunFacts DEF Begin, Armed
<1>3. Watched(dare', starting', ending')
  BY <1>2, ArmedWatched
<1> QED BY <1>1, <1>2, <1>3, NextParts DEF Begin, SaveIf, IInv, TypeOK

(* A command, once it has pruned the participants.                            *)
LEMMA PrunedOK ==
    ASSUME IInv
    PROVE  Sound(Pruned(dare)) /\ Watched(Pruned(dare), starting, ending)
<1>1. Sound(dare) /\ Watched(dare, starting, ending)
  BY InvParts
<1>2. Follows(dare, Pruned(dare))
  BY <1>1, TurnFacts
<1> QED BY <1>1, <1>2, WatchedOn DEF Follows

(* A command that only prunes.                                                *)
LEMMA CommandOK == ASSUME IInv, Command PROVE IInv'
<1>1. UNCHANGED <<starting, present, drawing, ending, restarts>> /\ dare' = Pruned(dare)
  BY DEF Command, handlers, Others
<1> QED BY <1>1, PrunedOK, NextParts DEF Command, IInv, TypeOK

(* !dare draw, up to its two seconds.                                         *)
LEMMA DrawOK == ASSUME IInv, NEW p \in Players, Draw(p) PROVE IInv'
<1>1. UNCHANGED <<starting, present, ending, restarts>> /\ dare' = Pruned(dare)
  BY DEF Draw, Others
<1>2. drawing' \subseteq Players
  BY DEF Draw, IInv, TypeOK
<1> QED BY <1>1, <1>2, PrunedOK, NextParts DEF Draw, SaveIf, IInv, TypeOK

(* A dare was drawn.                                                          *)
Drawn(d, p, b) == [d EXCEPT !.pending = @ \cup {p}, !.bondage = @ \cup b]

(* A drawn dare is pending, and touches no turn; its decision has it.         *)
LEMMA DrawnFacts ==
    ASSUME NEW d, Sound(d), NEW p \in Players, NEW b \in {{}, {p}}
    PROVE  Alike(d, Drawn(d, p, b)) /\ Drawn(d, p, b).autoPass = d.autoPass
<1> PICK e : e = Drawn(d, p, b)
  OBVIOUS
<1>1. /\ e.on = d.on /\ e.order = d.order /\ e.cur = d.cur /\ e.autoPass = d.autoPass
      /\ e.pending = d.pending \cup {p} /\ e.bondage = d.bondage \cup b
  BY DEF Sound, Table, Drawn
<1>2. e \in Table
  BY DEF Sound, Table, Drawn
<1> QED BY <1>1, <1>2 DEF Alike, Sound

(* !dare draw, after its two seconds.                                         *)
LEMMA DrawsOK == ASSUME IInv, NEW p \in Players, Draws(p) PROVE IInv'
<1>1. drawing' \subseteq Players /\ UNCHANGED <<starting, present, restarts>>
  BY DEF Draws, DrawNothing, DrawBondage, DrawEffect, IInv, TypeOK, Others
<1>2. CASE DrawNothing(p)
  <2>1. UNCHANGED <<dare, ending, saved>>
    BY <1>2 DEF DrawNothing
  <2> QED BY <1>1, <2>1, InvParts, NextParts
<1>3. CASE DrawBondage(p) \/ DrawEffect(p)
  <2> PICK d, e, s, h : d = dare /\ e = dare' /\ s = starting /\ h = ending
    OBVIOUS
  <2>0. Sound(d) /\ Watched(d, s, h)
    BY InvParts
  <2>1. Alike(d, e) /\ e.autoPass = d.autoPass
    <3>1. \E b \in {{}, {p}} : e = Drawn(d, p, b)
      <4>1. d \in Table
        BY <2>0 DEF Sound
      <4>2. CASE DrawBondage(p)
        BY <4>2 DEF DrawBondage, Drawn
      <4>3. CASE DrawEffect(p)
        BY <4>1, <4>3 DEF DrawEffect, Table, Drawn
      <4> QED BY <1>3, <4>2, <4>3
    <3> QED BY <2>0, <3>1, DrawnFacts
  <2>2. Sound(e) /\ Current(e) = Current(d) /\ e.on = d.on
    BY <2>0, <2>1, Edited
  <2>3. /\ ending' \in [Players -> 0..MaxEnding]
        /\ \A q \in Players : ending[q] > 0 => ending'[q] > 0
    BY <1>3, AwaitFacts DEF DrawBondage, DrawEffect, IInv, TypeOK
  <2>4. d.on => Current(d) \in Players
    BY <2>0, CurrentPlays
  <2>5. Watched(e, s, ending')
    BY <2>0, <2>1, <2>2, <2>3, <2>4 DEF Watched
  <2>6. Save \/ UNCHANGED saved
    BY <1>3 DEF DrawBondage, DrawEffect
  <2> QED BY <1>1, <2>2, <2>3, <2>5, <2>6, InvParts, NextParts
<1> QED BY <1>2, <1>3 DEF Draws

(* !dare pass ends the turn of whoever passes, or awaits and will end it.     *)
LEMMA PassOK == ASSUME IInv, NEW p \in Players, Pass(p) PROVE IInv'
<1> PICK d, e, s, h : /\ d = Pruned(dare) /\ s = starting /\ h = ending
                      /\ e = IF p \in d.bondage THEN Resolved(d, p)
                                                ELSE [d EXCEPT !.pending = @ \ {p}]
  OBVIOUS
<1>1. Consequence(e, p) /\ Save /\ UNCHANGED <<starting, present, restarts>>
  BY DEF Pass, Others
<1>2. Sound(d) /\ Watched(d, s, h)
  BY PrunedOK
<1>3. Sound(e) /\ WatchedBut(e, p, s, h)
  <2>1. CASE p \in d.bondage
    BY <1>2, <2>1, ResolvedFacts
  <2>2. CASE p \notin d.bondage
    <3>1. Alike(d, e) /\ e.autoPass = d.autoPass
      BY <1>2, <2>2 DEF Sound, Table, Alike
    <3>2. Sound(e) /\ Current(e) = Current(d) /\ e.on = d.on
      BY <1>2, <3>1, Edited
    <3> QED BY <1>2, <3>1, <3>2 DEF Watched, WatchedBut
  <2> QED BY <2>1, <2>2
<1>4. /\ Sound(dare') /\ Watched(dare', starting, ending')
      /\ drawing' = drawing /\ ending' \in [Players -> 0..MaxEnding]
  BY <1>1, <1>3, ConsequenceFacts DEF IInv, TypeOK
<1> QED BY <1>1, <1>4, InvParts, NextParts

(* !dare forfeit ends the turn of whoever forfeits.                           *)
LEMMA ForfeitOK == ASSUME IInv, NEW p \in Players, Forfeit(p) PROVE IInv'
<1> PICK d, e, s, h : d = Pruned(dare) /\ e = Resolved(d, p) /\ s = starting /\ h = ending
  OBVIOUS
<1>1. dare' = Finished(e, p) /\ Save /\ UNCHANGED <<starting, present, drawing, ending, restarts>>
  BY DEF Forfeit, Others, handlers
<1>2. Sound(e) /\ WatchedBut(e, p, s, h)
  BY PrunedOK, ResolvedFacts
<1>3. Sound(Finished(e, p)) /\ Watched(Finished(e, p), s, h)
  BY <1>2, FinishedFacts
<1> QED BY <1>1, <1>3, InvParts, NextParts

(* !dare leave removes whoever leaves.                                        *)
LEMMA LeaveOK == ASSUME IInv, NEW p \in Players, Leave(p) PROVE IInv'
<1> PICK d, e, s, h : d = Pruned(dare) /\ e = Removed(d, p) /\ s = starting /\ h = ending
  OBVIOUS
<1>1. /\ InGame(d, p) /\ dare' = e /\ Save
      /\ UNCHANGED <<starting, present, drawing, ending, restarts>>
  BY DEF Leave, Others, handlers
<1>2. Sound(d) /\ Watched(d, s, h)
  BY PrunedOK
<1>3. Follows(d, e)
  BY <1>1, <1>2, TurnFacts DEF InGame
<1>4. Sound(e) /\ Watched(e, s, h)
  BY <1>2, <1>3, WatchedOn DEF Follows
<1> QED BY <1>1, <1>4, InvParts, NextParts

(* !dare stop leaves no game.                                                 *)
LEMMA StopOK == ASSUME IInv, Stop PROVE IInv'
<1> PICK d : d = Pruned(dare)
  OBVIOUS
<1>1. dare' = Over(d) /\ Save /\ UNCHANGED <<starting, present, drawing, ending, restarts>>
  BY DEF Stop, Others, handlers
<1>2. Sound(Over(d)) /\ Armed(Over(d))
  BY PrunedOK, OverFacts DEF Sound
<1>3. Watched(Over(d), starting, ending)
  BY <1>2, ArmedWatched
<1> QED BY <1>1, <1>2, <1>3, InvParts, NextParts

(* A handler of p that has awaited ends the turn, whoever has it by then.     *)
LEMMA FinishOK == ASSUME IInv, NEW p \in Players, Finish(p) PROVE IInv'
<1> PICK d, s, h : d = dare /\ s = starting /\ h = ending'
  OBVIOUS
<1>1. dare' = Finished(d, p) /\ Save /\ UNCHANGED <<starting, present, drawing, restarts>>
  BY DEF Finish, Others
<1>2. Sound(d) /\ Watched(d, s, ending) /\ ending \in [Players -> 0..MaxEnding]
  BY InvParts
<1>3. /\ ending' \in [Players -> 0..MaxEnding]
      /\ \A q \in Players \ {p} : ending'[q] = ending[q]
  BY <1>2, BoundsAssumption DEF Finish
<1>4. d.on => Current(d) \in Players
  BY <1>2, CurrentPlays
<1>5. WatchedBut(d, p, s, h)
  BY <1>2, <1>3, <1>4 DEF Watched, WatchedBut
<1>6. Sound(Finished(d, p)) /\ Watched(Finished(d, p), s, h)
  BY <1>2, <1>5, FinishedFacts
<1> QED BY <1>1, <1>3, <1>6, InvParts, NextParts

(* A timer of p has fired.                                                    *)
LEMMA Disarmed ==
    ASSUME NEW d, NEW p, NEW s, NEW h, Sound(d), Watched(d, s, h)
    PROVE  LET e == [d EXCEPT !.autoPass = @ \ {p}]
           IN  Sound(e) /\ WatchedBut(e, p, s, h)
<1> PICK e : e = [d EXCEPT !.autoPass = @ \ {p}]
  OBVIOUS
<1>1. Alike(d, e) /\ e.autoPass = d.autoPass \ {p}
  BY DEF Sound, Table, Alike
<1>2. Sound(e) /\ Current(e) = Current(d) /\ e.on = d.on
  BY <1>1, Edited
<1> QED BY <1>1, <1>2 DEF Watched, WatchedBut

(* The auto-pass timer of p removes p, or passes for p, or is late.           *)
LEMMA AutoPassOK == ASSUME IInv, NEW p \in Players, AutoPass(p) PROVE IInv'
<1> PICK d, s, h : d = [dare EXCEPT !.autoPass = @ \ {p}] /\ s = starting /\ h = ending
  OBVIOUS
<1>1. Sound(d) /\ WatchedBut(d, p, s, h)
  BY InvParts, Disarmed
<1>2. UNCHANGED <<starting, present, restarts>>
  BY DEF AutoPass, Others
<1>3. ASSUME ~HasTurn(d, p), dare' = d, UNCHANGED <<handlers, saved>>
      PROVE  IInv'
  <2>1. Watched(d, s, h)
    BY <1>1, <1>3 DEF HasTurn, Watched, WatchedBut, Current
  <2> QED BY <1>1, <1>2, <1>3, <2>1, InvParts, NextParts DEF handlers
<1>4. ASSUME HasTurn(d, p), dare' = Removed(d, p), Save, UNCHANGED handlers
      PROVE  IInv'
  <2>1. p \in Range(d.order)
    BY <1>1, <1>4, CurrentPlays DEF HasTurn, Current
  <2>2. Sound(Removed(d, p)) /\ Armed(Removed(d, p))
    BY <1>1, <1>4, <2>1, TurnFacts DEF Follows
  <2>3. Watched(Removed(d, p), s, h)
    BY <2>2, ArmedWatched
  <2> QED BY <1>2, <1>4, <2>2, <2>3, InvParts, NextParts DEF handlers
<1>5. ASSUME Consequence(d, p), Save
      PROVE  IInv'
  <2>1. /\ Sound(dare') /\ Watched(dare', starting, ending')
        /\ drawing' = drawing /\ ending' \in [Players -> 0..MaxEnding]
    BY <1>1, <1>5, ConsequenceFacts DEF IInv, TypeOK
  <2> QED BY <1>2, <1>5, <2>1, InvParts, NextParts
<1> QED BY <1>3, <1>4, <1>5 DEF AutoPass

(* The decision timer of p applies the dare and ends p's turn, or awaits and  *)
(* will.                                                                      *)
LEMMA DecisionDueOK == ASSUME IInv, NEW p \in Players, DecisionDue(p) PROVE IInv'
<1> PICK d, s, h : d = Resolved(dare, p) /\ s = starting /\ h = ending
  OBVIOUS
<1>1. Sound(d) /\ WatchedBut(d, p, s, h)
  BY InvParts, ResolvedFacts
<1>2. UNCHANGED <<starting, present, restarts>>
  BY DEF DecisionDue, Others
<1>3. ASSUME dare' = Finished(d, p), Save, UNCHANGED handlers
      PROVE  IInv'
  <2>1. Sound(Finished(d, p)) /\ Watched(Finished(d, p), s, h)
    BY <1>1, FinishedFacts
  <2> QED BY <1>2, <1>3, <2>1, InvParts, NextParts DEF handlers
<1>4. ASSUME Await(p), dare' = d, UNCHANGED <<drawing, saved>>
      PROVE  IInv'
  <2>1. /\ ending' \in [Players -> 0..MaxEnding] /\ ending'[p] > 0
        /\ \A q \in Players : ending[q] > 0 => ending'[q] > 0
    BY <1>4, AwaitFacts DEF IInv, TypeOK
  <2>2. d.on => Current(d) \in Players
    BY <1>1, CurrentPlays
  <2>3. Watched(d, s, ending')
    BY <1>1, <2>1, <2>2 DEF Watched, WatchedBut
  <2> QED BY <1>1, <1>2, <1>4, <2>1, <2>3, InvParts, NextParts
<1> QED BY <1>3, <1>4 DEF DecisionDue

(* Grace timers come and go without the turn.                                 *)
LEMMA GraceFacts ==
    ASSUME NEW d, NEW e, NEW s, NEW h, Sound(d), Watched(d, s, h),
           NEW g \in SUBSET Players, NEW a \in SUBSET Players,
           e = [d EXCEPT !.grace = g, !.away = a]
    PROVE  Sound(e) /\ Watched(e, s, h)
<1>1. Alike(d, e) /\ e.autoPass = d.autoPass
  BY DEF Sound, Table, Alike
<1>2. Sound(e) /\ Current(e) = Current(d) /\ e.on = d.on
  BY <1>1, Edited
<1> QED BY <1>1, <1>2 DEF Watched

(* The grace timer of p removes p.                                            *)
LEMMA PurgeOK == ASSUME IInv, NEW p \in Players, Purge(p) PROVE IInv'
<1> PICK d, s, h : /\ d = [dare EXCEPT !.grace = @ \ {p}, !.away = @ \ {p}]
                   /\ s = starting /\ h = ending
  OBVIOUS
<1>1. /\ dare' = IF InGame(d, p) THEN Removed(d, p) ELSE d
      /\ Save /\ UNCHANGED <<starting, present, drawing, ending, restarts>>
  BY DEF Purge, Others, handlers
<1>2. dare.grace \ {p} \in SUBSET Players /\ dare.away \ {p} \in SUBSET Players
  BY DEF IInv, Sound, Table
<1>3. Sound(d) /\ Watched(d, s, h)
  BY <1>2, InvParts, GraceFacts
<1>4. ASSUME InGame(d, p) PROVE Sound(Removed(d, p)) /\ Watched(Removed(d, p), s, h)
  <2>1. Follows(d, Removed(d, p))
    BY <1>3, <1>4, TurnFacts DEF InGame
  <2> QED BY <1>3, <2>1, WatchedOn DEF Follows
<1> QED BY <1>1, <1>3, <1>4, InvParts, NextParts

(* A player leaves the room.                                                  *)
LEMMA CharacterLeftOK == ASSUME IInv, NEW p \in Players, CharacterLeft(p) PROVE IInv'
<1> PICK e, s, h : /\ e = [dare EXCEPT !.grace = @ \cup {p}, !.away = @ \cup {p}]
                   /\ s = starting /\ h = ending
  OBVIOUS
<1>1. /\ dare' = e /\ Save /\ UNCHANGED <<starting, drawing, ending, restarts>>
      /\ present' \subseteq Players
  BY DEF CharacterLeft, handlers, IInv, TypeOK
<1>2. dare.grace \cup {p} \in SUBSET Players /\ dare.away \cup {p} \in SUBSET Players
  BY DEF IInv, Sound, Table
<1>3. Sound(e) /\ Watched(e, s, h)
  BY <1>2, InvParts, GraceFacts
<1> QED BY <1>1, <1>3, InvParts, NextParts

(* A player comes back.                                                       *)
LEMMA CharacterEnteredOK == ASSUME IInv, NEW p \in Players, CharacterEntered(p) PROVE IInv'
<1> PICK e, s, h : /\ e = [dare EXCEPT !.grace = @ \ {p}, !.away = @ \ {p}]
                   /\ s = starting /\ h = ending
  OBVIOUS
<1>1. /\ dare' = e /\ (Save \/ UNCHANGED saved)
      /\ UNCHANGED <<starting, drawing, ending, restarts>> /\ present' \subseteq Players
  BY DEF CharacterEntered, SaveIf, handlers, IInv, TypeOK
<1>2. dare.grace \ {p} \in SUBSET Players /\ dare.away \ {p} \in SUBSET Players
  BY DEF IInv, Sound, Table
<1>3. Sound(e) /\ Watched(e, s, h)
  BY <1>2, InvParts, GraceFacts
<1> QED BY <1>1, <1>3, InvParts, NextParts

(* A resumed game has its timer.                                              *)
LEMMA RestartOK == ASSUME IInv, Restart PROVE IInv'
<1> PICK d, e : /\ d = saved
                /\ e = [d EXCEPT !.autoPass = Rearmed(d), !.grace = d.away, !.away = {}]
  OBVIOUS
<1>1. /\ dare' = e /\ starting' = FALSE /\ drawing' = {} /\ present' \subseteq Players
      /\ ending' \in [Players -> 0..MaxEnding] /\ restarts' \in 0..MaxRestarts /\ UNCHANGED saved
  BY BoundsAssumption DEF Restart, IInv, TypeOK
<1>2. Sound(d)
  BY DEF IInv
<1>3. Rearmed(d) \subseteq Players /\ (d.on => Current(d) \in Rearmed(d))
  BY <1>2, CurrentPlays DEF Rearmed, Current
<1>4. Alike(d, e) /\ e.autoPass = Rearmed(d)
  BY <1>2, <1>3 DEF Sound, Table, Alike
<1>5. Sound(e) /\ Current(e) = Current(d) /\ e.on = d.on
  BY <1>2, <1>4, Edited
<1>6. Watched(e, starting', ending')
  BY <1>3, <1>4, <1>5 DEF Watched
<1> QED BY <1>1, <1>5, <1>6, NextParts

(* Every step keeps the invariant.                                            *)
LEMMA NextOK == IInv /\ [Next]_vars => IInv'
<1> SUFFICES ASSUME IInv, [Next]_vars PROVE IInv'
  OBVIOUS
<1>1. CASE UNCHANGED vars
  BY <1>1, InvParts, NextParts DEF vars, handlers
<1> QED
  BY <1>1, BeginOK, CommandOK, StopOK, RestartOK, DrawOK, DrawsOK, PassOK, ForfeitOK, LeaveOK,
     FinishOK, AutoPassOK, DecisionDueOK, PurgeOK, CharacterLeftOK, CharacterEnteredOK DEF Next

(* The invariant holds in every reachable state, after any commands, timers,  *)
(* departures and restarts.                                                   *)
THEOREM Invariance == Spec => []IInv
BY InitOK, NextOK, PTL DEF Spec

(* A running game has two players at least, each once, and an index and a     *)
(* round in range, however removals and advances of the turn (dare.ts         *)
(* removePlayerFromGame, advanceTurn) call each other.                        *)
THEOREM TypeCorrect == Spec => []TypeOK
<1>1. IInv => TypeOK
  BY DEF IInv
<1> QED BY <1>1, Invariance, PTL

(* A running game is never left to itself: the timer of the player whose      *)
(* turn it is is armed, or a handler that will end that turn is under way     *)
(* (startTurnTimers, finishTurn), also after a restart from any snapshot;     *)
(* and a decision whose timer runs has its pending dare.  Awaited calls that  *)
(* reject are left out.                                                       *)
THEOREM GameIsWatchedThm == Spec => []GameIsWatched
<1>1. IInv => GameIsWatched
  BY DEF IInv, GameIsWatched, DecisionHasDare, Sound
<1> QED BY <1>1, Invariance, PTL

=================================================================================
