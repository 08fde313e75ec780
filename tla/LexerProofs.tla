---------------------------- MODULE LexerProofs ----------------------------
(***************************************************************************)
(* Proofs about the two halves of the lexer: LexIndex, which finds where   *)
(* tokens start, and Cursor, which hands them to the parser.               *)
(*                                                                         *)
(* LexIndex.  That the index is right for every text and every width of a  *)
(* block goes up in layers: what the masks compute, bit by bit (escapes    *)
(* through the borrow of a subtraction, strings and comments through the   *)
(* parity of the quotes before a bit); what they are in terms of the text  *)
(* and of what its characters are part of; which bits of a block are       *)
(* tokens; and what holds between two blocks, or between two tokens of the *)
(* fallback.  The inductive invariant is IndexInv.                         *)
(***************************************************************************)
EXTENDS Cursor, LexIndex, SequenceTheorems, FiniteSetTheorems, WellFoundedInduction, TLAPS

----------------------------------------------------------------------------
(* Numbers, functions and sequences *)

\* A set of natural numbers that has one has a least one.
LEMMA Least ==
    ASSUME NEW S, S \subseteq Nat, S # {}
    PROVE  \E m \in S : \A k \in S : m <= k
<1>1. PICK R : IsWellFoundedOn(R, Nat) /\ \A k, m \in Nat : k < m => <<k, m>> \in R
  BY NatLessThanWellFounded DEF OpToRel
<1>2. IsWellFoundedOn(R, Nat)
  BY <1>1
<1>3. \E m \in S : \A k \in S : ~ (<<k, m>> \in R)
  BY <1>2, WFMin, Zenon
<1>4. PICK m \in S : \A k \in S : ~ (<<k, m>> \in R)
  BY <1>3
<1>5. \A k \in S : k \in Nat /\ m \in Nat /\ ~(k < m)
  BY <1>1, <1>4
<1>6. \A k \in S : m <= k
  BY <1>5
<1>7. QED
  BY <1>6

\* The least number of a set, as the modules of the library define it.
LEMMA MinIs ==
    ASSUME NEW S, S \subseteq Nat, S # {}
    PROVE  Min(S) \in S /\ \A k \in S : Min(S) <= k
BY Least DEF Min

\* It is the only one.
LEMMA MinEquals ==
    ASSUME NEW S, S \subseteq Nat, NEW m \in S, \A k \in S : m <= k
    PROVE  Min(S) = m
<1>1. Min(S) \in S /\ \A k \in S : Min(S) <= k
  BY MinIs
<1>2. Min(S) <= m /\ m <= Min(S) /\ m \in Nat /\ Min(S) \in Nat
  BY <1>1
<1>3. QED
  BY <1>2

\* A function on the numbers up to n can be defined from each number to the next.
IsRule(G, n, S) == \A i \in 1 .. n : \A x \in S : G[i][x] \in S
Follows(f, s, G, n, S) ==
    f \in [0 .. n -> S] /\ f[0] = s /\ \A i \in 1 .. n : f[i] = G[i][f[i - 1]]

LEMMA Recursion ==
    ASSUME NEW S, NEW s, NEW n, NEW G, s \in S, n \in Nat, IsRule(G, n, S)
    PROVE  \E f : Follows(f, s, G, n, S)
<1> DEFINE Has(k) == \E f \in [0 .. k -> S] :
                        f[0] = s /\ \A i \in 1 .. k : f[i] = G[i][f[i - 1]]
           bad == {k \in 0 .. n : ~Has(k)}
<1> USE DEF IsRule
<1>1. Has(0)
  <2> DEFINE f == [i \in 0 .. 0 |-> s]
  <2>1. f \in [0 .. 0 -> S] /\ f[0] = s /\ \A i \in 1 .. 0 : f[i] = G[i][f[i - 1]]
    OBVIOUS
  <2>2. QED
    BY <2>1
<1>2. ASSUME NEW k \in 1 .. n, Has(k - 1)
      PROVE  Has(k)
  <2>1. PICK f \in [0 .. k - 1 -> S] :
            f[0] = s /\ \A i \in 1 .. k - 1 : f[i] = G[i][f[i - 1]]
    BY <1>2
  <2> DEFINE g == [i \in 0 .. k |-> IF i = k THEN G[k][f[k - 1]] ELSE f[i]]
  <2>2. f[k - 1] \in S /\ G[k][f[k - 1]] \in S
    BY <2>1
  <2>3. g \in [0 .. k -> S]
    BY <2>1, <2>2
  <2>4. g[0] = s
    BY <2>1
  <2>5. ASSUME NEW i \in 1 .. k
        PROVE  g[i] = G[i][g[i - 1]]
    <3>1. g[i - 1] = f[i - 1]
      OBVIOUS
    <3>2. CASE i = k
      BY <3>1, <3>2
    <3>3. CASE i # k
      <4>1. i \in 1 .. k - 1
        BY <3>3
      <4>2. g[i] = f[i]
        BY <3>3
      <4>3. QED
        BY <2>1, <3>1, <4>1, <4>2
    <3>4. QED
      BY <3>2, <3>3
  <2> HIDE DEF g
  <2>6. QED
    BY <2>3, <2>4, <2>5
<1> HIDE DEF Has
<1>3. bad = {}
  <2> SUFFICES ASSUME bad # {} PROVE FALSE
    OBVIOUS
  <2>1. PICK k \in bad : \A j \in bad : k <= j
    <3>1. bad \subseteq Nat
      OBVIOUS
    <3> HIDE DEF bad
    <3>2. QED
      BY <3>1, Least
  <2>2. k \in 1 .. n
    BY <1>1, <2>1
  <2>3. Has(k - 1)
    BY <2>1, <2>2
  <2>4. QED
    BY <1>2, <2>1, <2>2, <2>3
<1>4. Has(n)
  BY <1>3
<1>5. QED
  BY <1>4 DEF Has, Follows

----------------------------------------------------------------------------
(* The members of a set in order *)

\* A sequence that runs through the members of a set upward.
Ascends(s, S) ==
    /\ s \in Seq(Int)
    /\ \A m, n \in DOMAIN s : m < n => s[m] < s[n]
    /\ \A x : x \in S <=> \E n \in DOMAIN s : s[n] = x

\* Two of them agree as far as one of them goes.
LEMMA AscendsAgree ==
    ASSUME NEW S, NEW s, NEW t, Ascends(s, S), Ascends(t, S),
           NEW k \in DOMAIN s, \A n \in 1 .. k - 1 : n \in DOMAIN t /\ s[n] = t[n]
    PROVE  k \in DOMAIN t /\ t[k] <= s[k]
<1>1. /\ DOMAIN s = 1 .. Len(s) /\ Len(s) \in Nat /\ \A n \in 1 .. Len(s) : s[n] \in Int
      /\ DOMAIN t = 1 .. Len(t) /\ Len(t) \in Nat /\ \A n \in 1 .. Len(t) : t[n] \in Int
  BY DEF Ascends
<1>2. PICK n \in DOMAIN t : t[n] = s[k]
  BY DEF Ascends
<1>3. k <= n
  <2> SUFFICES ASSUME n < k PROVE FALSE
    BY <1>1
  <2>1. n \in 1 .. k - 1 /\ n \in DOMAIN s
    BY <1>1
  <2>2. s[n] = s[k] /\ s[n] < s[k]
    BY <1>2, <2>1 DEF Ascends
  <2>3. QED
    BY <1>1, <2>1, <2>2
<1>4. k \in DOMAIN t
  BY <1>1, <1>3
<1>5. k = n \/ k < n
  BY <1>1, <1>3
<1>6. t[k] = t[n] \/ t[k] < t[n]
  BY <1>4, <1>5 DEF Ascends
<1>7. QED
  BY <1>1, <1>2, <1>4, <1>6

\* There is one such sequence.
LEMMA AscendsUnique ==
    ASSUME NEW S, NEW s, NEW t, Ascends(s, S), Ascends(t, S)
    PROVE  s = t
<1> DEFINE ok(k) == k \in DOMAIN s /\ k \in DOMAIN t /\ s[k] = t[k]
           bad == {k \in Nat : (k \in DOMAIN s \/ k \in DOMAIN t) /\ ~ok(k)}
<1>1. /\ DOMAIN s = 1 .. Len(s) /\ Len(s) \in Nat /\ \A n \in 1 .. Len(s) : s[n] \in Int
      /\ DOMAIN t = 1 .. Len(t) /\ Len(t) \in Nat /\ \A n \in 1 .. Len(t) : t[n] \in Int
      /\ s = [n \in 1 .. Len(s) |-> s[n]] /\ t = [n \in 1 .. Len(t) |-> t[n]]
  BY DEF Ascends
<1>2. bad = {}
  <2> SUFFICES ASSUME bad # {} PROVE FALSE
    OBVIOUS
  <2>1. PICK k \in bad : \A j \in bad : k <= j
    BY Least
  <2>2. k \in Nat /\ (k \in DOMAIN s \/ k \in DOMAIN t) /\ ~ok(k)
    BY <2>1
  <2>3. \A n \in 1 .. k - 1 : n \in DOMAIN s \/ n \in DOMAIN t
    BY <1>1, <2>2
  <2>4. \A n \in 1 .. k - 1 : n \in DOMAIN s /\ n \in DOMAIN t /\ s[n] = t[n]
    BY <2>1, <2>2, <2>3
  <2>5. CASE k \in DOMAIN s
    <3>1. k \in DOMAIN t /\ t[k] <= s[k]
      BY <2>4, <2>5, AscendsAgree
    <3>2. s[k] <= t[k]
      BY <2>4, <3>1, AscendsAgree
    <3>3. QED
      BY <1>1, <2>2, <2>5, <3>1, <3>2
  <2>6. CASE k \in DOMAIN t
    <3>1. k \in DOMAIN s
      BY <2>4, <2>6, AscendsAgree
    <3>2. QED
      BY <2>5, <3>1
  <2>7. QED
    BY <2>2, <2>5, <2>6
<1>3. \A k \in Nat : k \in DOMAIN s \/ k \in DOMAIN t => ok(k)
  BY <1>2
<1>4. Len(s) = Len(t)
  <2>1. \A k \in 1 .. Len(s) : k <= Len(t)
    BY <1>1, <1>3
  <2>2. \A k \in 1 .. Len(t) : k <= Len(s)
    BY <1>1, <1>3
  <2>3. Len(s) <= Len(t)
    BY <1>1, <2>1
  <2>4. Len(t) <= Len(s)
    BY <1>1, <2>2
  <2>5. Len(s) \in Nat /\ Len(t) \in Nat
    BY <1>1
  <2> HIDE DEF bad, ok
  <2>6. QED
    BY <2>3, <2>4, <2>5
<1>5. \A n \in 1 .. Len(s) : s[n] = t[n]
  BY <1>1, <1>3
<1>6. QED
  BY <1>1, <1>4, <1>5

\* Counting the members up to one of them, one gets past the next with each.
LEMMA RankGrows ==
    ASSUME NEW S, S \subseteq Int, IsFiniteSet(S), NEW x \in S, NEW y \in S, x < y
    PROVE  Cardinality({z \in S : z <= x}) < Cardinality({z \in S : z <= y})
<1> DEFINE X == {z \in S : z <= x}
           Y == {z \in S : z <= y}
<1>1. IsFiniteSet(X) /\ IsFiniteSet(Y) /\ X \subseteq Y /\ y \in Y /\ y \notin X
  <2>1. X \in SUBSET S /\ Y \in SUBSET S
    OBVIOUS
  <2>2. IsFiniteSet(X) /\ IsFiniteSet(Y)
    BY <2>1, FS_Subset
  <2>3. \A z \in S : z \in Int
    OBVIOUS
  <2>4. ASSUME NEW z \in X PROVE z \in Y
    <3>1. z \in S /\ z <= x /\ z \in Int /\ x \in Int /\ y \in Int
      BY <2>3
    <3>2. z <= y
      BY <3>1
    <3>3. QED
      BY <3>1, <3>2
  <2>5. y \in Y /\ y \notin X
    BY <2>3
  <2>6. QED
    BY <2>2, <2>4, <2>5
<1> HIDE DEF X, Y
<1>2. Cardinality(X) \in Nat /\ Cardinality(Y) \in Nat
  BY <1>1, FS_CardinalityType
<1>3. Cardinality(X) <= Cardinality(Y) /\ Cardinality(X) # Cardinality(Y)
  BY <1>1, FS_Subset
<1>4. Cardinality(X) < Cardinality(Y)
  BY <1>2, <1>3
<1>5. QED
  BY <1>4 DEF X, Y

\* Ascending lists the members of a set upward.
LEMMA AscendingAscends ==
    ASSUME NEW S, S \subseteq Int, IsFiniteSet(S)
    PROVE  Ascends(Ascending(S), S) /\ Len(Ascending(S)) = Cardinality(S)
<1> DEFINE c == Cardinality(S)
           rank(x) == Cardinality({y \in S : y <= x})
           ranks == [x \in S |-> rank(x)]
<1>1. c \in Nat
  BY FS_CardinalityType
<1>2. ASSUME NEW x \in S
      PROVE  rank(x) \in 1 .. c
  <2> DEFINE X == {y \in S : y <= x}
  <2>1. X \in SUBSET S /\ x \in X
    OBVIOUS
  <2>2. IsFiniteSet(X) /\ Cardinality(X) <= c
    BY <2>1, FS_Subset
  <2>3. Cardinality(X) \in Nat /\ Cardinality(X) # 0
    BY <2>1, <2>2, FS_CardinalityType, FS_EmptySet
  <2> HIDE DEF X, c
  <2>4. Cardinality(X) \in 1 .. c
    BY <1>1, <2>2, <2>3
  <2>5. QED
    BY <2>4 DEF X
<1>3. ASSUME NEW x \in S, NEW y \in S, x < y
      PROVE  rank(x) < rank(y)
  BY <1>3, RankGrows
<1> HIDE DEF rank, c
<1>4. ranks \in [S -> 1 .. c]
  BY <1>2
<1>5. ASSUME NEW x \in S, NEW y \in S, ranks[x] = ranks[y]
      PROVE  x = y
  <2>1. x \in Int /\ y \in Int
    OBVIOUS
  <2>2. rank(x) = rank(y) /\ rank(x) \in Int
    BY <1>1, <1>2, <1>5
  <2>3. ~(x < y) /\ ~(y < x)
    BY <1>3, <2>2
  <2>4. QED
    BY <2>1, <2>3
<1>6. ranks \in Injection(S, 1 .. c)
  BY <1>4, <1>5 DEF Injection, IsInjective
<1>7. ranks \in Surjection(S, 1 .. c)
  <2>1. IsFiniteSet(1 .. c) /\ Cardinality(1 .. c) = c
    BY <1>1, FS_Interval
  <2> HIDE DEF ranks
  <2>2. Cardinality(S) = Cardinality(1 .. c)
    BY <2>1 DEF c
  <2>3. QED
    BY <1>6, <2>1, <2>2, FS_Injection
<1>8. \A n \in 1 .. c : \E x \in S : rank(x) = n
  BY <1>7 DEF Surjection
<1> DEFINE a == Ascending(S)
<1>9. a = [n \in 1 .. c |-> CHOOSE x \in S : rank(x) = n]
  BY DEF Ascending, rank, c
<1>10. \A n \in 1 .. c : a[n] \in S /\ rank(a[n]) = n
  <2> SUFFICES ASSUME NEW n \in 1 .. c PROVE a[n] \in S /\ rank(a[n]) = n
    OBVIOUS
  <2>1. a[n] = CHOOSE x \in S : rank(x) = n
    BY <1>9
  <2>2. QED
    BY <1>8, <2>1
<1> HIDE DEF a
<1>11. /\ a \in Seq(Int) /\ Len(a) = c /\ DOMAIN a = 1 .. c
  <2>1. DOMAIN a = 1 .. c /\ a = [n \in 1 .. c |-> a[n]]
    BY <1>9
  <2>2. \A n \in 1 .. c : a[n] \in Int
    BY <1>10
  <2>3. a \in [1 .. c -> Int]
    BY <2>1, <2>2
  <2> HIDE DEF ranks
  <2>4. QED
    BY <1>1, <2>1, <2>3
<1>12. ASSUME NEW m \in 1 .. c, NEW n \in 1 .. c, m < n
       PROVE  a[m] < a[n]
  <2>1. a[m] \in S /\ a[n] \in S /\ a[m] \in Int /\ a[n] \in Int
    BY <1>10
  <2>2. rank(a[m]) = m /\ rank(a[n]) = n
    BY <1>10
  <2>3. ~(a[n] < a[m]) /\ a[n] # a[m]
    <3>1. ~(n < m)
      BY <1>1, <1>12
    <3>2. ~(rank(a[n]) < rank(a[m]))
      BY <2>2, <3>1
    <3>3. a[n] # a[m]
      BY <1>12, <2>2
    <3>4. QED
      BY <1>3, <2>1, <3>2, <3>3
  <2>4. QED
    BY <2>1, <2>3
<1>13. ASSUME NEW x
       PROVE  x \in S <=> \E n \in 1 .. c : a[n] = x
  <2>1. ASSUME x \in S PROVE \E n \in 1 .. c : a[n] = x
    <3>1. rank(x) \in 1 .. c
      BY <1>2, <2>1
    <3>2. a[rank(x)] \in S /\ rank(a[rank(x)]) = rank(x)
      BY <1>10, <3>1
    <3>3. ranks[a[rank(x)]] = ranks[x]
      BY <2>1, <3>2
    <3>4. a[rank(x)] = x
      BY <1>5, <2>1, <3>2, <3>3
    <3>5. QED
      BY <3>1, <3>4
  <2>2. QED
    BY <1>10, <2>1
<1>14. Ascends(a, S)
  BY <1>11, <1>12, <1>13 DEF Ascends
<1>15. QED
  BY <1>11, <1>14 DEF a, c

\* What comes first and last.
LEMMA AscendsLast ==
    ASSUME NEW S, NEW s, Ascends(s, S), Len(s) > 0
    PROVE  s[Len(s)] \in S /\ \A x \in S : x <= s[Len(s)]
<1>1. DOMAIN s = 1 .. Len(s) /\ Len(s) \in Nat /\ \A n \in 1 .. Len(s) : s[n] \in Int
  BY DEF Ascends
<1>2. Len(s) \in DOMAIN s
  BY <1>1
<1>3. s[Len(s)] \in S
  BY <1>2 DEF Ascends
<1>4. ASSUME NEW x \in S
      PROVE  x <= s[Len(s)]
  <2>1. PICK n \in DOMAIN s : s[n] = x
    BY DEF Ascends
  <2>2. n = Len(s) \/ n < Len(s)
    BY <1>1
  <2>3. s[n] = s[Len(s)] \/ s[n] < s[Len(s)]
    BY <1>2, <2>2 DEF Ascends
  <2>4. s[n] \in Int /\ s[Len(s)] \in Int
    BY <1>1, <1>2
  <2>5. QED
    BY <2>1, <2>3, <2>4
<1>5. QED
  BY <1>3, <1>4

\* Members behind the last one go at the end.
LEMMA AscendsConcat ==
    ASSUME NEW S, NEW s, Ascends(s, S), NEW T, NEW t, Ascends(t, T),
           \A x \in S : \A y \in T : x < y
    PROVE  Ascends(s \o t, S \cup T)
<1> DEFINE k == Len(s)
           l == Len(t)
           u == s \o t
<1>1. /\ DOMAIN s = 1 .. k /\ k \in Nat /\ \A n \in 1 .. k : s[n] \in Int
      /\ DOMAIN t = 1 .. l /\ l \in Nat /\ \A n \in 1 .. l : t[n] \in Int
      /\ s \in Seq(Int) /\ t \in Seq(Int)
  BY DEF Ascends
<1>2. /\ u \in Seq(Int) /\ DOMAIN u = 1 .. k + l
      /\ \A n \in 1 .. k : u[n] = s[n]
      /\ \A n \in k + 1 .. k + l : u[n] = t[n - k]
  BY <1>1
<1> HIDE DEF k, l, u
<1>3. ASSUME NEW m \in 1 .. k + l, NEW n \in 1 .. k + l, m < n
      PROVE  u[m] < u[n]
  <2>1. CASE n <= k
    <3>1. m \in 1 .. k /\ n \in 1 .. k
      BY <1>1, <1>3, <2>1
    <3>2. s[m] < s[n]
      BY <1>1, <1>3, <3>1 DEF Ascends
    <3>3. QED
      BY <1>2, <3>1, <3>2
  <2>2. CASE m > k
    <3>1. /\ m - k \in 1 .. l /\ n - k \in 1 .. l /\ m - k < n - k
          /\ m \in k + 1 .. k + l /\ n \in k + 1 .. k + l
      BY <1>1, <1>3, <2>2
    <3>2. t[m - k] < t[n - k]
      BY <1>1, <3>1 DEF Ascends
    <3>3. QED
      BY <1>2, <3>1, <3>2
  <2>3. CASE m <= k /\ n > k
    <3>1. m \in 1 .. k /\ n - k \in 1 .. l /\ n \in k + 1 .. k + l
      BY <1>1, <1>3, <2>3
    <3>2. s[m] \in S /\ t[n - k] \in T
      BY <1>1, <3>1 DEF Ascends
    <3>3. QED
      BY <1>2, <3>1, <3>2
  <2>4. QED
    BY <1>1, <2>1, <2>2, <2>3
<1>4. ASSUME NEW x
      PROVE  x \in S \cup T <=> \E n \in 1 .. k + l : u[n] = x
  <2>1. ASSUME x \in S PROVE \E n \in 1 .. k + l : u[n] = x
    <3>1. PICK n \in 1 .. k : s[n] = x
      BY <1>1, <2>1 DEF Ascends
    <3>2. n \in 1 .. k + l /\ u[n] = x
      BY <1>1, <1>2, <3>1
    <3>3. QED
      BY <3>2
  <2>2. ASSUME x \in T PROVE \E n \in 1 .. k + l : u[n] = x
    <3>1. PICK n \in 1 .. l : t[n] = x
      BY <1>1, <2>2 DEF Ascends
    <3>2. k + n \in k + 1 .. k + l /\ k + n \in 1 .. k + l /\ (k + n) - k = n
      BY <1>1, <3>1
    <3>3. u[k + n] = x
      BY <1>2, <3>1, <3>2
    <3>4. QED
      BY <3>2, <3>3
  <2>3. ASSUME NEW n \in 1 .. k + l PROVE u[n] \in S \cup T
    <3>1. CASE n <= k
      <4>1. n \in 1 .. k
        BY <1>1, <3>1
      <4>2. QED
        BY <1>1, <1>2, <4>1 DEF Ascends
    <3>2. CASE n > k
      <4>1. n \in k + 1 .. k + l /\ n - k \in 1 .. l
        BY <1>1, <3>2
      <4>2. t[n - k] \in T
        BY <1>1, <4>1 DEF Ascends
      <4>3. QED
        BY <1>2, <4>1, <4>2
    <3>3. QED
      BY <1>1, <3>1, <3>2
  <2>4. QED
    BY <2>1, <2>2, <2>3
<1>5. Ascends(u, S \cup T)
  BY <1>2, <1>3, <1>4 DEF Ascends
<1>6. QED
  BY <1>5 DEF u

\* One more, behind the others.
LEMMA AscendsAppend ==
    ASSUME NEW S, NEW s, Ascends(s, S), NEW y \in Int, \A x \in S : x < y
    PROVE  Ascends(Append(s, y), S \cup {y})
<1>1. s \in Seq(Int) /\ Append(s, y) = s \o <<y>>
  BY DEF Ascends
<1>2. Ascends(<<y>>, {y})
  BY DEF Ascends
<1>3. QED
  BY <1>1, <1>2, AscendsConcat

\* Moved by as much, the members stay in order.
LEMMA AscendsShift ==
    ASSUME NEW S, NEW s, Ascends(s, S), NEW d \in Int, NEW k \in 0 .. Len(s)
    PROVE  Ascends([n \in 1 .. k |-> d + s[n]],
                   {d + s[n] : n \in 1 .. k})
<1> DEFINE u == [n \in 1 .. k |-> d + s[n]]
<1>1. DOMAIN s = 1 .. Len(s) /\ Len(s) \in Nat /\ \A n \in 1 .. Len(s) : s[n] \in Int
  BY DEF Ascends
<1>2. k \in Nat /\ \A n \in 1 .. k : n \in DOMAIN s /\ s[n] \in Int
  BY <1>1
<1>3. u \in Seq(Int) /\ DOMAIN u = 1 .. k
  BY <1>2
<1>4. ASSUME NEW m \in 1 .. k, NEW n \in 1 .. k, m < n
      PROVE  u[m] < u[n]
  <2>1. s[m] < s[n]
    BY <1>2, <1>4 DEF Ascends
  <2>2. QED
    BY <1>2, <2>1
<1>5. \A x : x \in {d + s[n] : n \in 1 .. k} <=> \E n \in 1 .. k : u[n] = x
  OBVIOUS
<1> HIDE DEF u
<1>6. Ascends(u, {d + s[n] : n \in 1 .. k})
  BY <1>3, <1>4, <1>5 DEF Ascends
<1>7. QED
  BY <1>6 DEF u

\* Cut off behind a member, what is left are the members up to it.
LEMMA AscendsCut ==
    ASSUME NEW S, NEW s, Ascends(s, S), NEW k \in DOMAIN s
    PROVE  Ascends(SubSeq(s, 1, k), {x \in S : x <= s[k]})
<1> DEFINE u == SubSeq(s, 1, k)
<1>1. /\ DOMAIN s = 1 .. Len(s) /\ Len(s) \in Nat /\ \A n \in 1 .. Len(s) : s[n] \in Int
      /\ s \in Seq(Int)
  BY DEF Ascends
<1>2. k \in Nat /\ \A n \in 1 .. k : n \in DOMAIN s /\ s[n] \in Int
  BY <1>1
<1>3. u \in Seq(Int) /\ DOMAIN u = 1 .. k /\ \A n \in 1 .. k : u[n] = s[n]
  BY <1>1, <1>2
<1> HIDE DEF u
<1>4. ASSUME NEW x
      PROVE  x \in {y \in S : y <= s[k]} <=> \E n \in 1 .. k : u[n] = x
  <2>1. ASSUME x \in S, x <= s[k]
        PROVE  \E n \in 1 .. k : u[n] = x
    <3>1. PICK n \in DOMAIN s : s[n] = x
      BY <2>1 DEF Ascends
    <3>2. n <= k
      <4> SUFFICES ASSUME k < n PROVE FALSE
        BY <1>1, <1>2
      <4>1. s[k] < s[n]
        BY DEF Ascends
      <4>2. s[k] \in Int /\ s[n] \in Int
        BY <1>1
      <4>3. QED
        BY <2>1, <3>1, <4>1, <4>2
    <3>3. n \in 1 .. k
      BY <1>1, <1>2, <3>2
    <3>4. QED
      BY <1>3, <3>1, <3>3
  <2>2. ASSUME NEW n \in 1 .. k
        PROVE  u[n] \in S /\ u[n] <= s[k]
    <3>1. n \in DOMAIN s /\ u[n] = s[n] /\ s[n] \in Int /\ s[k] \in Int
      BY <1>1, <1>2, <1>3
    <3>2. n = k \/ n < k
      BY <1>2
    <3>3. s[n] = s[k] \/ s[n] < s[k]
      BY <3>1, <3>2 DEF Ascends
    <3>4. s[n] \in S
      BY <3>1 DEF Ascends
    <3>5. QED
      BY <3>1, <3>3, <3>4
  <2>3. QED
    BY <2>1, <2>2
<1>5. ASSUME NEW m \in 1 .. k, NEW n \in 1 .. k, m < n
      PROVE  u[m] < u[n]
  BY <1>2, <1>3, <1>5 DEF Ascends
<1>6. Ascends(u, {x \in S : x <= s[k]})
  BY <1>3, <1>4, <1>5 DEF Ascends
<1>7. QED
  BY <1>6 DEF u

----------------------------------------------------------------------------
(* Masks of a block *)

BitOf(m, b) == IF b \in m THEN 1 ELSE 0

IsBorrow(f, mask, other) ==
    f = [b \in 0 .. width |->
            IF b = 0 THEN 0
            ELSE IF BitOf(mask, b - 1) < BitOf(other, b - 1) + f[b - 1] THEN 1 ELSE 0]

\* The borrow of a subtraction, bit by bit.
LEMMA BorrowExists ==
    ASSUME width \in Nat, NEW mask, NEW other
    PROVE  \E f : IsBorrow(f, mask, other)
<1> DEFINE G == [b \in 1 .. width |-> [r \in {0, 1} |->
                    IF BitOf(mask, b - 1) < BitOf(other, b - 1) + r THEN 1 ELSE 0]]
<1>1. \A b \in 1 .. width : \A r \in {0, 1} : G[b][r] \in {0, 1}
  OBVIOUS
<1>2. PICK f \in [0 .. width -> {0, 1}] :
          f[0] = 0 /\ \A b \in 1 .. width : f[b] = G[b][f[b - 1]]
  <2> HIDE DEF G
  <2>1. 0 \in {0, 1} /\ IsRule(G, width, {0, 1})
    BY <1>1 DEF IsRule
  <2>2. \E f : Follows(f, 0, G, width, {0, 1})
    BY <2>1, Recursion
  <2>3. QED
    BY <2>2 DEF Follows
<1>3. \A b \in 1 .. width :
          f[b] = IF BitOf(mask, b - 1) < BitOf(other, b - 1) + f[b - 1] THEN 1 ELSE 0
  <2> SUFFICES ASSUME NEW b \in 1 .. width
               PROVE  f[b] = G[b][f[b - 1]] /\ f[b - 1] \in {0, 1}
    OBVIOUS
  <2>1. b - 1 \in 0 .. width
    OBVIOUS
  <2> HIDE DEF G
  <2>2. QED
    BY <1>2, <2>1
<1> HIDE DEF G
<1>4. f = [b \in 0 .. width |->
              IF b = 0 THEN 0
              ELSE IF BitOf(mask, b - 1) < BitOf(other, b - 1) + f[b - 1] THEN 1 ELSE 0]
  <2>1. f = [b \in 0 .. width |-> f[b]]
    BY <1>2
  <2>2. \A b \in 0 .. width :
            f[b] = IF b = 0 THEN 0
                   ELSE IF BitOf(mask, b - 1) < BitOf(other, b - 1) + f[b - 1] THEN 1 ELSE 0
    BY <1>2, <1>3
  <2>3. QED
    BY <2>1, <2>2
<1>5. QED
  BY <1>4 DEF IsBorrow

\* The difference of two masks, in terms of its borrow.
LEMMA MinusIs ==
    ASSUME width \in Nat, NEW mask, NEW other
    PROVE  \E f : /\ f[0] = 0
                  /\ \A b \in 0 .. width - 1 :
                        f[b + 1] = IF BitOf(mask, b) < BitOf(other, b) + f[b] THEN 1 ELSE 0
                  /\ \A b \in Bits : b \in Minus(mask, other)
                        <=> (BitOf(mask, b) + BitOf(other, b) + f[b]) % 2 = 1
<1> DEFINE f == CHOOSE g : IsBorrow(g, mask, other)
<1>1. IsBorrow(f, mask, other)
  BY BorrowExists, Zenon
<1>2. Minus(mask, other) =
        {b \in Bits : (BitOf(mask, b) + BitOf(other, b) + f[b]) % 2 = 1}
  BY DEF Minus, IsBorrow, BitOf
<1> HIDE DEF f
<1>3. \A b \in 0 .. width :
          f[b] = IF b = 0 THEN 0
                 ELSE IF BitOf(mask, b - 1) < BitOf(other, b - 1) + f[b - 1] THEN 1 ELSE 0
  BY <1>1 DEF IsBorrow
<1>4. f[0] = 0
  BY <1>3
<1>5. ASSUME NEW b \in 0 .. width - 1
      PROVE  f[b + 1] = IF BitOf(mask, b) < BitOf(other, b) + f[b] THEN 1 ELSE 0
  <2>1. b + 1 \in 0 .. width /\ b + 1 # 0 /\ (b + 1) - 1 = b
    OBVIOUS
  <2>2. QED
    BY <1>3, <2>1
<1>6. QED
  BY <1>2, <1>4, <1>5

\* What a run of escaping characters escapes: the next one, when it is not escaped itself.
IsEscape(e, mask, n) ==
    /\ e \in [0 .. n -> {0, 1}]
    /\ \A b \in 0 .. n - 1 : e[b + 1] = IF b \in mask THEN 1 - e[b] ELSE 0

\* The bits of next_escape_and_terminal_code are those that start or end an escape.
LEMMA NextEscapeIs ==
    ASSUME width \in Nat, NEW mask, mask \subseteq Bits,
           NEW e, IsEscape(e, mask, width), e[0] = 0
    PROVE  \A b \in Bits : b \in NextEscape(mask) <=> e[b] # BitOf(mask, b)
<1> DEFINE odd == {b \in Bits : b % 2 = 1}
           full == Shifted(mask) \cup odd
<1>1. PICK f : /\ f[0] = 0
               /\ \A b \in 0 .. width - 1 :
                     f[b + 1] = IF BitOf(full, b) < BitOf(mask, b) + f[b] THEN 1 ELSE 0
               /\ \A b \in Bits : b \in Minus(full, mask)
                     <=> (BitOf(full, b) + BitOf(mask, b) + f[b]) % 2 = 1
  <2> HIDE DEF full
  <2>1. QED
    BY MinusIs
<1> DEFINE ran(b) == b > 0 /\ b - 1 \in mask
           good(b) == f[b] = IF ran(b) /\ (e[b] = 1 <=> b % 2 = 1) THEN 1 ELSE 0
           bad == {b \in 0 .. width : ~good(b)}
<1>2. \A b \in Bits : BitOf(full, b) = IF ran(b) \/ b % 2 = 1 THEN 1 ELSE 0
  BY DEF BitOf, Shifted, Bits
<1>3. \A b \in 0 .. width : e[b] \in {0, 1} /\ (~ran(b) => e[b] = 0)
  <2> SUFFICES ASSUME NEW b \in 0 .. width PROVE e[b] \in {0, 1} /\ (~ran(b) => e[b] = 0)
    OBVIOUS
  <2>1. e[b] \in {0, 1}
    BY DEF IsEscape
  <2>2. ASSUME b > 0, b - 1 \notin mask PROVE e[b] = 0
    <3>1. b - 1 \in 0 .. width - 1 /\ (b - 1) + 1 = b
      BY <2>2
    <3>2. QED
      BY <2>2, <3>1 DEF IsEscape
  <2>3. QED
    BY <2>1, <2>2
<1>4. ASSUME NEW b \in 0 .. width - 1, good(b)
      PROVE  good(b + 1)
  <2>1. b \in Bits /\ e[b] \in {0, 1} /\ (~ran(b) => e[b] = 0) /\ b % 2 \in {0, 1}
    BY <1>3 DEF Bits
  <2>2. e[b + 1] = IF b \in mask THEN 1 - e[b] ELSE 0
    BY DEF IsEscape
  <2>3. (b + 1) % 2 = 1 - (b % 2) /\ (ran(b + 1) <=> b \in mask)
    OBVIOUS
  <2>4. f[b + 1] = IF BitOf(full, b) < BitOf(mask, b) + f[b] THEN 1 ELSE 0
    BY <1>1
  <2>5. BitOf(full, b) = IF ran(b) \/ b % 2 = 1 THEN 1 ELSE 0
    BY <1>2, <2>1
  <2>6. f[b] = IF ran(b) /\ (e[b] = 1 <=> b % 2 = 1) THEN 1 ELSE 0
    BY <1>4
  <2> HIDE DEF ran, full
  <2>7. f[b + 1] = IF b \in mask /\ (e[b + 1] = 1 <=> (b + 1) % 2 = 1) THEN 1 ELSE 0
    BY <2>1, <2>2, <2>3, <2>4, <2>5, <2>6 DEF BitOf
  <2>8. QED
    BY <2>3, <2>7
<1>5. good(0)
  BY <1>1
<1>6. bad = {}
  <2> SUFFICES ASSUME bad # {} PROVE FALSE
    OBVIOUS
  <2>1. PICK b \in bad : \A j \in bad : b <= j
    <3>1. bad \subseteq Nat
      OBVIOUS
    <3> HIDE DEF bad
    <3>2. QED
      BY <3>1, Least
  <2> HIDE DEF good
  <2>2. b # 0 /\ b \in 0 .. width /\ ~good(b)
    BY <1>5
  <2>3. b - 1 \in 0 .. width - 1 /\ b - 1 \in 0 .. width /\ (b - 1) + 1 = b /\ ~(b <= b - 1)
    BY <2>2
  <2>4. good(b - 1)
    BY <2>1, <2>3
  <2>5. QED
    BY <1>4, <2>2, <2>3, <2>4
<1>7. ASSUME NEW b \in Bits
      PROVE  b \in NextEscape(mask) <=> e[b] # BitOf(mask, b)
  <2>1. b \in 0 .. width /\ b % 2 \in {0, 1}
    BY DEF Bits
  <2>2. f[b] = IF ran(b) /\ (e[b] = 1 <=> b % 2 = 1) THEN 1 ELSE 0
    BY <1>6, <2>1
  <2>3. e[b] \in {0, 1} /\ (~ran(b) => e[b] = 0)
    BY <1>3, <2>1
  <2>4. BitOf(full, b) = IF ran(b) \/ b % 2 = 1 THEN 1 ELSE 0
    BY <1>2
  <2>5. b \in Minus(full, mask) <=> (BitOf(full, b) + BitOf(mask, b) + f[b]) % 2 = 1
    BY <1>1
  <2>6. b \in NextEscape(mask) <=> ~(b \in Minus(full, mask) <=> b % 2 = 1)
    BY DEF NextEscape, FlipIn
  <2> HIDE DEF ran, full, good, bad
  <2>7. BitOf(mask, b) \in {0, 1}
    BY DEF BitOf
  <2>8. QED
    BY <2>1, <2>2, <2>3, <2>4, <2>5, <2>6, <2>7
<1>8. QED
  BY <1>7

\* escapes_next_block finds what a block escapes, and whether it escapes the next character.
LEMMA EscapesAre ==
    ASSUME width \in Nat, width >= 2, NEW mask, mask \subseteq Bits,
           NEW e, IsEscape(e, mask, width)
    PROVE  Escapes(mask, e[0] = 1) = [bits |-> {b \in Bits : e[b] = 1}, first |-> e[width] = 1]
<1> DEFINE carried == IF e[0] = 1 THEN {0} ELSE {}
           rest == mask \ carried
           d == [b \in 0 .. width |-> IF b = 0 THEN 0 ELSE e[b]]
           code == NextEscape(rest)
<1>1. /\ e \in [0 .. width -> {0, 1}] /\ rest \subseteq Bits /\ Bits = 0 .. width - 1
      /\ \A b \in 0 .. width - 1 : e[b + 1] = IF b \in mask THEN 1 - e[b] ELSE 0
  BY DEF IsEscape, Bits
<1>2. IsEscape(d, rest, width) /\ d[0] = 0
  <2>1. d \in [0 .. width -> {0, 1}]
    BY <1>1
  <2>2. ASSUME NEW b \in 0 .. width - 1
        PROVE  d[b + 1] = IF b \in rest THEN 1 - d[b] ELSE 0
    <3>1. d[b + 1] = e[b + 1] /\ d[b] = IF b = 0 THEN 0 ELSE e[b]
      OBVIOUS
    <3>2. e[0] \in {0, 1} /\ e[b] \in {0, 1}
      BY <1>1
    <3>3. QED
      BY <1>1, <3>1, <3>2
  <2>3. d[0] = 0
    OBVIOUS
  <2> HIDE DEF d, rest
  <2>4. QED
    BY <2>1, <2>2, <2>3 DEF IsEscape
<1>3. \A b \in Bits : b \in code <=> d[b] # BitOf(rest, b)
  <2> HIDE DEF d, rest
  <2>1. QED
    BY <1>1, <1>2, NextEscapeIs
<1> HIDE DEF code
<1>4. code \subseteq Bits
  BY DEF code, NextEscape, FlipIn, Minus
<1>5. CASE mask = {}
  <2>1. Escapes(mask, e[0] = 1) = [bits |-> carried, first |-> FALSE]
    BY <1>5 DEF Escapes
  <2>2. ASSUME NEW b \in 0 .. width - 1 PROVE e[b + 1] = 0
    BY <1>1, <1>5
  <2>3. e[width] = 0
    <3>1. width - 1 \in 0 .. width - 1 /\ (width - 1) + 1 = width
      OBVIOUS
    <3>2. QED
      BY <2>2, <3>1
  <2>4. \A b \in 1 .. width - 1 : e[b] = 0
    <3> SUFFICES ASSUME NEW b \in 1 .. width - 1 PROVE e[b] = 0
      OBVIOUS
    <3>1. b - 1 \in 0 .. width - 1 /\ (b - 1) + 1 = b
      OBVIOUS
    <3>2. QED
      BY <2>2, <3>1
  <2>5. {b \in Bits : e[b] = 1} = carried
    <3>1. \A b \in Bits : b = 0 \/ b \in 1 .. width - 1
      BY <1>1
    <3>2. 0 \in Bits
      BY <1>1
    <3>3. QED
      BY <2>4, <3>1, <3>2
  <2>6. (e[width] = 1) = FALSE
    BY <2>3
  <2>7. QED
    BY <2>1, <2>5, <2>6, Zenon
<1>6. CASE mask # {}
  <2>1. Escapes(mask, e[0] = 1) =
          [bits |-> FlipIn(code, mask \cup carried), first |-> width - 1 \in code \cap mask]
    BY <1>6 DEF Escapes, code
  <2>2. ASSUME NEW b \in Bits
        PROVE  b \in FlipIn(code, mask \cup carried) <=> e[b] = 1
    <3>1. b \in code <=> d[b] # BitOf(rest, b)
      BY <1>3
    <3>2. b = 0 \/ (b \in 0 .. width - 1 /\ b # 0)
      BY <1>1
    <3>3. e[b] \in {0, 1} /\ e[0] \in {0, 1}
      BY <1>1
    <3>4. CASE b = 0
      <4>1. d[b] = 0
        BY <3>4
      <4>2. QED
        BY <3>1, <3>3, <3>4, <4>1 DEF FlipIn, BitOf
    <3>5. CASE b # 0
      <4>1. d[b] = e[b] /\ b \notin carried
        BY <1>1, <3>5
      <4>2. QED
        BY <3>1, <3>3, <4>1 DEF FlipIn, BitOf
    <3>6. QED
      BY <3>4, <3>5
  <2>3. FlipIn(code, mask \cup carried) \subseteq Bits
    <3>1. carried \subseteq Bits
      BY <1>1
    <3>2. QED
      BY <1>4, <3>1 DEF FlipIn
  <2>4. FlipIn(code, mask \cup carried) = {b \in Bits : e[b] = 1}
    BY <2>2, <2>3
  <2>5. (width - 1 \in code \cap mask) = (e[width] = 1)
    <3> DEFINE l == width - 1
    <3>1. l \in Bits /\ l \in 0 .. width - 1 /\ l # 0 /\ l + 1 = width
      BY <1>1
    <3>2. d[l] = e[l] /\ e[l] \in {0, 1} /\ l \notin carried
      BY <1>1, <3>1
    <3>3. l \in code <=> d[l] # BitOf(rest, l)
      BY <1>3, <3>1
    <3>4. e[width] = IF l \in mask THEN 1 - e[l] ELSE 0
      BY <1>1, <3>1
    <3> HIDE DEF l, d
    <3>5. (l \in code \cap mask) <=> (e[width] = 1)
      BY <3>2, <3>3, <3>4 DEF BitOf
    <3>6. QED
      BY <3>5 DEF l
  <2>6. QED
    BY <2>1, <2>4, <2>5
<1>7. QED
  BY <1>5, <1>6

\* A state that every bit of a mask flips, starting from the one before the block.
LEMMA FlippedIs ==
    ASSUME width \in Nat, NEW mask, mask \subseteq Bits, NEW st,
           \A b \in 0 .. width : st[b] \in BOOLEAN,
           \A b \in Bits : st[b + 1] <=> ~(st[b] <=> b \in mask)
    PROVE  \A b \in Bits : b \in FlippedBy(st[0], PrefixXor(mask)) <=> st[b + 1]
<1> DEFINE upto(b) == {c \in mask : c <= b}
           good(b) == b \in FlippedBy(st[0], PrefixXor(mask)) <=> st[b + 1]
           odd(b) == Cardinality(upto(b)) % 2 = 1
           bad == {b \in Bits : ~good(b)}
<1>1. Bits = 0 .. width - 1
  BY DEF Bits
<1>2. \A b \in Bits : good(b) <=> (st[0] <=> (odd(b) <=> ~st[b + 1]))
  <2> SUFFICES ASSUME NEW b \in Bits PROVE good(b) <=> (st[0] <=> (odd(b) <=> ~st[b + 1]))
    OBVIOUS
  <2>1. st[0] \in BOOLEAN /\ st[b + 1] \in BOOLEAN
    BY <1>1
  <2>2. b \in PrefixXor(mask) <=> odd(b)
    BY DEF PrefixXor
  <2> HIDE DEF odd, upto
  <2>3. b \in FlippedBy(st[0], PrefixXor(mask)) <=> IF st[0] THEN ~odd(b) ELSE odd(b)
    BY <2>2 DEF FlippedBy
  <2>4. QED
    BY <2>1, <2>3
<1>3. \A b \in Int : IsFiniteSet(upto(b)) /\ Cardinality(upto(b)) \in Nat
  <2> SUFFICES ASSUME NEW b \in Int
               PROVE  IsFiniteSet(upto(b)) /\ Cardinality(upto(b)) \in Nat
    OBVIOUS
  <2>1. IsFiniteSet(0 .. width - 1)
    BY FS_Interval
  <2>2. upto(b) \in SUBSET (0 .. width - 1)
    BY <1>1
  <2>3. IsFiniteSet(upto(b))
    BY <2>1, <2>2, FS_Subset
  <2>4. QED
    BY <2>3, FS_CardinalityType
<1>4. ASSUME NEW b \in Bits
      PROVE  Cardinality(upto(b)) =
               IF b \in mask THEN Cardinality(upto(b - 1)) + 1 ELSE Cardinality(upto(b - 1))
  <2>1. b \in Int /\ b - 1 \in Int /\ \A c \in mask : c \in Int
    BY <1>1
  <2>2. b \notin upto(b - 1)
    BY <2>1
  <2>3. CASE b \in mask
    <3>1. upto(b) = upto(b - 1) \cup {b}
      <4>1. \A c \in mask : c <= b <=> c <= b - 1 \/ c = b
        BY <2>1
      <4>2. QED
        BY <2>3, <4>1
    <3>2. IsFiniteSet(upto(b - 1))
      BY <1>3, <2>1
    <3> HIDE DEF upto
    <3>3. Cardinality(upto(b - 1) \cup {b}) = Cardinality(upto(b - 1)) + 1
      BY <2>2, <3>2, FS_AddElement
    <3>4. QED
      BY <2>3, <3>1, <3>3
  <2>4. CASE b \notin mask
    <3>1. upto(b) = upto(b - 1)
      <4>1. \A c \in mask : c <= b <=> c <= b - 1
        <5>1. \A c \in mask : c # b
          BY <2>4
        <5>2. QED
          BY <2>1, <5>1
      <4>2. QED
        BY <4>1
    <3>2. QED
      BY <2>4, <3>1
  <2>5. QED
    BY <2>3, <2>4
<1>5. ASSUME NEW b \in Bits
      PROVE  odd(b) <=> ~(odd(b - 1) <=> b \in mask)
  <2>1. Cardinality(upto(b - 1)) \in Nat
    <3>1. b - 1 \in Int
      BY <1>1
    <3> HIDE DEF upto
    <3>2. QED
      BY <1>3, <3>1
  <2>2. (Cardinality(upto(b - 1)) + 1) % 2 = 1 - (Cardinality(upto(b - 1)) % 2)
        /\ Cardinality(upto(b - 1)) % 2 \in {0, 1}
    BY <2>1
  <2>3. Cardinality(upto(b)) =
          IF b \in mask THEN Cardinality(upto(b - 1)) + 1 ELSE Cardinality(upto(b - 1))
    BY <1>4
  <2> DEFINE k == Cardinality(upto(b - 1))
             l == Cardinality(upto(b))
  <2>4. k \in Nat /\ l = IF b \in mask THEN k + 1 ELSE k
    BY <2>1, <2>3
  <2> HIDE DEF k, l
  <2>5. (l % 2 = 1) <=> ~((k % 2 = 1) <=> b \in mask)
    <3>1. k % 2 \in {0, 1} /\ (k + 1) % 2 = 1 - (k % 2)
      BY <2>4
    <3>2. QED
      BY <2>4, <3>1
  <2>6. QED
    BY <2>5 DEF k, l
<1>6. ~odd(-1)
  <2>1. upto(-1) = {}
    <3>1. \A c \in mask : ~(c <= -1)
      BY <1>1
    <3>2. QED
      BY <3>1
  <2>2. Cardinality(upto(-1)) = 0
    BY <2>1, FS_EmptySet
  <2>3. QED
    BY <2>2
<1> HIDE DEF odd, good
<1>7. bad = {}
  <2> SUFFICES ASSUME bad # {} PROVE FALSE
    OBVIOUS
  <2>1. PICK b \in bad : \A j \in bad : b <= j
    <3>1. bad \subseteq Nat
      BY <1>1
    <3> HIDE DEF bad
    <3>2. QED
      BY <3>1, Least
  <2>2. b \in Bits /\ ~good(b) /\ b \in 0 .. width - 1
    BY <1>1
  <2>3. ~(st[0] <=> (odd(b) <=> ~st[b + 1]))
    BY <1>2, <2>2
  <2>4. /\ st[b + 1] <=> ~(st[b] <=> b \in mask)
        /\ odd(b) <=> ~(odd(b - 1) <=> b \in mask)
        /\ st[b] \in BOOLEAN /\ st[b + 1] \in BOOLEAN /\ st[0] \in BOOLEAN
    BY <1>5, <2>2
  <2>5. CASE b = 0
    <3>1. b - 1 = -1
      BY <2>5
    <3>2. ~odd(b - 1)
      BY <1>6, <3>1
    <3>3. QED
      BY <2>3, <2>4, <2>5, <3>2
  <2>6. CASE b # 0
    <3>1. b - 1 \in 0 .. width - 1 /\ (b - 1) + 1 = b /\ ~(b <= b - 1)
      BY <2>2, <2>6
    <3>2. good(b - 1)
      BY <1>1, <2>1, <3>1
    <3>3. st[0] <=> (odd(b - 1) <=> ~st[b])
      BY <1>1, <1>2, <3>1, <3>2
    <3>4. QED
      BY <2>3, <2>4, <3>3
  <2>7. QED
    BY <2>5, <2>6
<1>8. QED
  BY <1>7 DEF good

----------------------------------------------------------------------------
(* Strings and comments of a block *)

\* A state that nothing changes stays.
LEMMA Stays ==
    ASSUME NEW p \in Nat, NEW q \in Nat, NEW st,
           \A b \in p .. q - 1 : st[b] = st[p] => st[b + 1] = st[p]
    PROVE  \A b \in p .. q : st[b] = st[p]
<1> DEFINE bad == {b \in p .. q : st[b] # st[p]}
<1> SUFFICES ASSUME bad # {} PROVE FALSE
  OBVIOUS
<1>1. PICK b \in bad : \A j \in bad : b <= j
  <2>1. bad \subseteq Nat
    OBVIOUS
  <2> HIDE DEF bad
  <2>2. QED
    BY <2>1, Least
<1>2. b \in p .. q /\ st[b] # st[p] /\ b # p
  OBVIOUS
<1>3. b - 1 \in p .. q - 1 /\ b - 1 \in p .. q /\ (b - 1) + 1 = b /\ ~(b <= b - 1)
  BY <1>2
<1>4. st[b - 1] = st[p]
  BY <1>1, <1>3
<1>5. QED
  BY <1>2, <1>3, <1>4

Closing(state, quotes, newlines) == IF state = "comment" THEN newlines ELSE quotes

\* What a character leaves open, from what was open before it: st[b] before character b.
Opens(st, quotes, hashes, newlines) ==
    /\ \A b \in 0 .. width : st[b] \in {"code", "string", "comment"}
    /\ \A b \in 0 .. width - 1 :
          IF st[b] = "code"
          THEN st[b + 1] = IF b \in quotes THEN "string"
                           ELSE IF b \in hashes THEN "comment" ELSE "code"
          ELSE st[b + 1] = IF b \in Closing(st[b], quotes, newlines) THEN "code" ELSE st[b]

\* What is open stays so up to the first character that closes it.
LEMMA StaysOpen ==
    ASSUME width \in Nat, NEW quotes, NEW hashes, NEW newlines, NEW st,
           Opens(st, quotes, hashes, newlines), NEW p \in 0 .. width, st[p] # "code",
           NEW q \in p .. width,
           \A b \in p .. q - 1 : b \notin Closing(st[p], quotes, newlines)
    PROVE  \A b \in p .. q : st[b] = st[p]
<1>1. ASSUME NEW b \in p .. q - 1, st[b] = st[p]
      PROVE  st[b + 1] = st[p]
  <2>1. b \in 0 .. width - 1
    OBVIOUS
  <2>2. QED
    BY <1>1, <2>1 DEF Opens
<1>2. p \in Nat /\ q \in Nat
  OBVIOUS
<1>3. QED
  BY <1>1, <1>2, Stays

\* Code stays so up to the first character that opens something.
LEMMA StaysCode ==
    ASSUME width \in Nat, NEW quotes, NEW hashes, NEW newlines, NEW st,
           Opens(st, quotes, hashes, newlines), NEW p \in 0 .. width, st[p] = "code",
           NEW q \in p .. width,
           \A b \in p .. q - 1 : b \notin quotes \cup hashes
    PROVE  \A b \in p .. q : st[b] = "code"
<1>1. ASSUME NEW b \in p .. q - 1, st[b] = st[p]
      PROVE  st[b + 1] = st[p]
  <2>1. b \in 0 .. width - 1 /\ b \notin quotes /\ b \notin hashes
    OBVIOUS
  <2>2. QED
    BY <1>1, <2>1 DEF Opens
<1>2. p \in Nat /\ q \in Nat
  OBVIOUS
<1>3. QED
  BY <1>1, <1>2, Stays

\* The lowest bit of a mask.
LEMMA LowestIs ==
    ASSUME width \in Nat, NEW mask, mask \subseteq Bits
    PROVE  /\ mask = {} => Lowest(mask) = {}
           /\ mask # {} => /\ Lowest(mask) = {Min(mask)}
                           /\ Min(mask) \in mask /\ Min(mask) \in 0 .. width - 1
                           /\ \A b \in mask : Min(mask) <= b
<1>1. mask \subseteq Nat /\ \A b \in mask : b \in 0 .. width - 1
  BY DEF Bits
<1>2. mask # {} => Min(mask) \in mask /\ \A b \in mask : Min(mask) <= b
  BY <1>1, MinIs
<1>3. mask # {} => Min(mask) \in 0 .. width - 1
  BY <1>1, <1>2
<1>4. QED
  BY <1>2, <1>3 DEF Lowest

\* The bits behind one.
LEMMA AfterIs ==
    ASSUME width \in Nat
    PROVE  /\ After({}) = {}
           /\ \A e \in Bits : After({e}) = {b \in Bits : b > e}
BY DEF After

----------------------------------------------------------------------------

EndOf(s, quotes, hashes, newlines) ==
    Lowest(After({Min(s)}) \cap (IF {Min(s)} \subseteq hashes THEN newlines ELSE quotes))

IsFrom(f, quotes, hashes, newlines) ==
    f = [s \in SUBSET Bits |->
            IF s = {} THEN {}
            ELSE {Min(s)} \cup EndOf(s, quotes, hashes, newlines)
                 \cup f[s \cap After(EndOf(s, quotes, hashes, newlines))]]

\* What the loop of find_delimiters has left to do lies behind what it has done.
LEMMA RestIsBehind ==
    ASSUME width \in Nat, NEW quotes, NEW hashes, NEW newlines, NEW s \in SUBSET Bits, s # {},
           quotes \subseteq Bits, newlines \subseteq Bits
    PROVE  /\ Min(s) \in s /\ Min(s) \in Nat
           /\ s \cap After(EndOf(s, quotes, hashes, newlines)) \in SUBSET Bits
           /\ \A x \in s \cap After(EndOf(s, quotes, hashes, newlines)) :
                 x \in Nat /\ Min(s) < x
<1> DEFINE E == After({Min(s)}) \cap (IF {Min(s)} \subseteq hashes THEN newlines ELSE quotes)
           e == EndOf(s, quotes, hashes, newlines)
<1>1. Min(s) \in s /\ Min(s) \in Bits /\ Min(s) \in Nat
  <2>1. s \subseteq Bits
    OBVIOUS
  <2>2. Min(s) \in s
    BY <2>1, LowestIs
  <2>3. \A b \in Bits : b \in Nat
    BY DEF Bits
  <2>4. QED
    BY <2>1, <2>2, <2>3
<1>2. E \subseteq Bits /\ \A b \in E : b > Min(s)
  BY <1>1, AfterIs
<1>3. e = Lowest(E)
  BY DEF EndOf
<1> HIDE DEF E, e
<1>4. e = {} \/ \E b \in E : e = {b}
  BY <1>2, <1>3, LowestIs
<1>5. CASE e = {}
  BY <1>1, <1>5, AfterIs DEF e
<1>6. ASSUME NEW b \in E, e = {b}
      PROVE  s \cap After(e) \in SUBSET Bits /\ \A x \in s \cap After(e) : x \in Nat /\ Min(s) < x
  <2>1. After(e) = {x \in Bits : x > b} /\ b > Min(s) /\ b \in Nat
    BY <1>2, <1>6, AfterIs DEF Bits
  <2>2. ASSUME NEW x \in s \cap After(e) PROVE x \in Nat /\ Min(s) < x
    <3>1. x \in Nat /\ x > b
      BY <2>1 DEF Bits
    <3>2. QED
      BY <1>1, <2>1, <3>1
  <2>3. QED
    BY <2>2
<1>7. QED
  BY <1>1, <1>4, <1>5, <1>6 DEF e

\* That loop comes to an end.
LEMMA FromExists ==
    ASSUME width \in Nat, NEW quotes, NEW hashes, NEW newlines,
           quotes \subseteq Bits, newlines \subseteq Bits
    PROVE  \E f : IsFrom(f, quotes, hashes, newlines)
<1> DEFINE rest(s) == s \cap After(EndOf(s, quotes, hashes, newlines))
           done(s) == {Min(s)} \cup EndOf(s, quotes, hashes, newlines)
           above(s, l) == \A x \in s : x >= l
           From(f, l) == \A s \in SUBSET Bits : above(s, l) =>
                            f[s] = IF s = {} THEN {} ELSE done(s) \cup f[rest(s)]
           S == {l \in Nat : \E f : f = [s \in SUBSET Bits |-> f[s]] /\ From(f, l)}
<1>1. ASSUME NEW s \in SUBSET Bits, s # {}
      PROVE  /\ Min(s) \in s /\ Min(s) \in Nat
             /\ rest(s) \in SUBSET Bits /\ \A x \in rest(s) : x \in Nat /\ Min(s) < x
  BY <1>1, RestIsBehind
<1>2. \A s \in SUBSET Bits : \A x \in s : x \in Nat /\ x < width
  BY DEF Bits
<1> HIDE DEF rest, done
<1>3. width \in S
  <2> DEFINE f == [s \in SUBSET Bits |-> {}]
  <2>1. f = [s \in SUBSET Bits |-> f[s]]
    OBVIOUS
  <2>2. \A s \in SUBSET Bits : above(s, width) => s = {}
    BY <1>2
  <2>3. From(f, width)
    BY <2>2
  <2> HIDE DEF f
  <2>4. QED
    BY <2>1, <2>3
<1>4. PICK l \in S : \A k \in S : l <= k
  <2>1. S \subseteq Nat
    OBVIOUS
  <2> HIDE DEF S
  <2>2. QED
    BY <1>3, <2>1, Least
<1>5. PICK f : f = [s \in SUBSET Bits |-> f[s]] /\ From(f, l)
  OBVIOUS
<1>6. l = 0
  <2> SUFFICES ASSUME l # 0 PROVE FALSE
    OBVIOUS
  <2> DEFINE p == l - 1
             g == [s \in SUBSET Bits |->
                      IF above(s, l) THEN f[s]
                      ELSE IF s = {} THEN {} ELSE done(s) \cup f[rest(s)]]
  <2>1. l \in Nat /\ p \in Nat /\ p < l /\ l = p + 1
    OBVIOUS
  <2>2. g = [s \in SUBSET Bits |-> g[s]]
    OBVIOUS
  <2>3. ASSUME NEW s \in SUBSET Bits, above(s, p), s # {}
        PROVE  above(rest(s), l) /\ rest(s) \in SUBSET Bits
    <3>1. Min(s) >= p
      BY <1>1, <2>3
    <3>2. ASSUME NEW x \in rest(s) PROVE x >= l
      <4>1. x \in Nat /\ Min(s) < x /\ Min(s) \in Nat
        BY <1>1, <2>3
      <4>2. QED
        BY <2>1, <3>1, <4>1
    <3>3. QED
      BY <1>1, <2>3, <3>2
  <2>4. \A s \in SUBSET Bits : above(s, l) => g[s] = f[s]
    OBVIOUS
  <2>5. \A s \in SUBSET Bits : ~above(s, l) => g[s] = IF s = {} THEN {} ELSE done(s) \cup f[rest(s)]
    OBVIOUS
  <2> HIDE DEF g
  <2>6. ASSUME NEW s \in SUBSET Bits, above(s, p)
        PROVE  g[s] = IF s = {} THEN {} ELSE done(s) \cup g[rest(s)]
    <3>1. g[s] = IF s = {} THEN {} ELSE done(s) \cup f[rest(s)]
      <4>1. CASE above(s, l)
        <5>1. f[s] = IF s = {} THEN {} ELSE done(s) \cup f[rest(s)]
          BY <1>5, <4>1
        <5>2. QED
          BY <2>4, <4>1, <5>1
      <4>2. CASE ~above(s, l)
        BY <2>5, <4>2
      <4>3. QED
        BY <4>1, <4>2
    <3>2. CASE s = {}
      BY <3>1, <3>2
    <3>3. CASE s # {}
      <4>1. above(rest(s), l) /\ rest(s) \in SUBSET Bits
        BY <2>3, <2>6, <3>3
      <4> HIDE DEF above
      <4>2. g[rest(s)] = f[rest(s)]
        BY <2>4, <4>1
      <4>3. QED
        BY <3>1, <3>3, <4>2
    <3>4. QED
      BY <3>2, <3>3
  <2> HIDE DEF above
  <2>7. p \in S
    BY <2>1, <2>2, <2>6
  <2> HIDE DEF S
  <2>8. QED
    BY <1>4, <2>1, <2>7
<1>7. \A s \in SUBSET Bits : above(s, 0)
  BY <1>2
<1> HIDE DEF above
<1>8. \A s \in SUBSET Bits : f[s] = IF s = {} THEN {} ELSE done(s) \cup f[rest(s)]
  BY <1>5, <1>6, <1>7
<1>9. IsFrom(f, quotes, hashes, newlines)
  BY <1>5, <1>8, Zenon DEF IsFrom, done, rest
<1>10. QED
  BY <1>9

\* The changes of what is open.
Changes(st, p) == {b \in Bits : b >= p /\ st[b + 1] # st[b]}

\* The characters from a place on that close what is open there.
IsToClose(E, st, p, quotes, newlines) ==
    E = {b \in Closing(st[p], quotes, newlines) \cap Bits : b >= p}

\* What changes when something is open.
LEMMA ChangesOpen ==
    ASSUME width \in Nat, NEW quotes, NEW hashes, NEW newlines, NEW st,
           Opens(st, quotes, hashes, newlines), NEW p \in 0 .. width, st[p] # "code",
           NEW E, IsToClose(E, st, p, quotes, newlines)
    PROVE  /\ E = {} => Lowest(E) = {} /\ Changes(st, p) = {}
           /\ E # {} => \E e \in p .. width - 1 :
                           /\ Lowest(E) = {e} /\ st[e + 1] = "code"
                           /\ Changes(st, p) = {e} \cup Changes(st, e + 1)
<1> DEFINE close == Closing(st[p], quotes, newlines)
<1> USE DEF IsToClose
<1>1. Bits = 0 .. width - 1 /\ E \subseteq Bits
  BY DEF Bits
<1>2. ASSUME E = {}
      PROVE  Lowest(E) = {} /\ Changes(st, p) = {}
  <2>1. \A b \in p .. width - 1 : b \notin close
    BY <1>1, <1>2
  <2> HIDE DEF close
  <2>2. width \in p .. width
    OBVIOUS
  <2>3. \A b \in p .. width : st[b] = st[p]
    BY <2>1, <2>2, StaysOpen DEF close
  <2>4. \A b \in Bits : b >= p => b \in p .. width /\ b + 1 \in p .. width
    BY <1>1
  <2>5. Changes(st, p) = {}
    BY <2>3, <2>4 DEF Changes
  <2>6. QED
    BY <1>1, <1>2, <2>5, LowestIs
<1>3. ASSUME E # {}
      PROVE  \E e \in p .. width - 1 :
                 /\ Lowest(E) = {e} /\ st[e + 1] = "code"
                 /\ Changes(st, p) = {e} \cup Changes(st, e + 1)
  <2> DEFINE e == Min(E)
  <2>1. Lowest(E) = {e} /\ e \in E /\ \A b \in E : e <= b
    BY <1>1, <1>3, LowestIs
  <2>2. e \in close /\ e \in Bits /\ e >= p
    BY <2>1
  <2>3. e \in p .. width - 1 /\ e \in p .. width /\ e \in Nat
    BY <1>1, <2>2
  <2>4. \A b \in p .. e - 1 : b \notin close
    <3> SUFFICES ASSUME NEW b \in p .. e - 1, b \in close PROVE FALSE
      OBVIOUS
    <3>1. b \in Bits /\ b >= p /\ ~(e <= b)
      BY <1>1, <2>3
    <3>2. QED
      BY <2>1, <3>1
  <2> HIDE DEF e, close
  <2>5. \A b \in p .. e : st[b] = st[p]
    BY <2>3, <2>4, StaysOpen DEF close
  <2>6. st[e] = st[p] /\ e \in 0 .. width - 1
    BY <2>3, <2>5
  <2>7. st[e + 1] = "code"
    BY <2>2, <2>6 DEF Opens, close
  <2>8. \A b \in Bits : b >= p => b \in p .. e - 1 \/ b = e \/ b >= e + 1
    BY <1>1, <2>3
  <2>9. \A b \in p .. e - 1 : st[b + 1] = st[b]
    <3> SUFFICES ASSUME NEW b \in p .. e - 1 PROVE st[b + 1] = st[b]
      OBVIOUS
    <3>1. b \in p .. e /\ b + 1 \in p .. e
      BY <2>3
    <3>2. QED
      BY <2>5, <3>1
  <2>10. \A b \in Bits : b >= e + 1 => b >= p
    BY <1>1, <2>3
  <2>11. st[e + 1] # st[e]
    BY <2>6, <2>7
  <2>12. \A b : b \in Changes(st, p) <=> b \in {e} \cup Changes(st, e + 1)
    BY <2>2, <2>8, <2>9, <2>10, <2>11 DEF Changes
  <2>13. Changes(st, p) = {e} \cup Changes(st, e + 1)
    BY <2>12
  <2>14. QED
    BY <2>1, <2>3, <2>7, <2>13
<1>4. QED
  BY <1>2, <1>3

\* The loop of find_delimiters finds what opens and closes from a place in the code on.
LEMMA FromIs ==
    ASSUME width \in Nat, NEW quotes, NEW hashes, NEW newlines, NEW st, NEW f,
           quotes \subseteq Bits, hashes \subseteq Bits, newlines \subseteq Bits,
           quotes \cap hashes = {}, Opens(st, quotes, hashes, newlines),
           IsFrom(f, quotes, hashes, newlines)
    PROVE  /\ f[{}] = {}
           /\ \A p \in 0 .. width : st[p] = "code" =>
                 f[{b \in quotes \cup hashes : b >= p}] = Changes(st, p)
<1> DEFINE from(p) == {b \in quotes \cup hashes : b >= p}
           good(p) == st[p] = "code" => f[from(p)] = Changes(st, p)
           bad == {d \in Nat : \E p \in 0 .. width : d = width - p /\ ~good(p)}
<1>1. \A s \in SUBSET Bits :
          f[s] = IF s = {} THEN {}
                 ELSE {Min(s)} \cup EndOf(s, quotes, hashes, newlines)
                      \cup f[s \cap After(EndOf(s, quotes, hashes, newlines))]
  BY Zenon DEF IsFrom
<1>2. f[{}] = {}
  BY <1>1
<1>3. Bits = 0 .. width - 1
  BY DEF Bits
<1>4. ASSUME NEW p \in 0 .. width, \A q \in p + 1 .. width : good(q), st[p] = "code"
      PROVE  f[from(p)] = Changes(st, p)
  <2> DEFINE s == from(p)
  <2>1. s \in SUBSET Bits /\ s \subseteq Bits
    OBVIOUS
  <2>2. CASE s = {}
    <3>1. \A b \in p .. width - 1 : b \notin quotes \cup hashes
      BY <2>2
    <3>2. width \in p .. width
      OBVIOUS
    <3>3. \A b \in p .. width : st[b] = "code"
      BY <1>4, <3>1, <3>2, StaysCode
    <3>4. \A b \in Bits : b >= p => b \in p .. width /\ b + 1 \in p .. width
      BY <1>3
    <3>5. Changes(st, p) = {}
      BY <3>3, <3>4 DEF Changes
    <3>6. QED
      BY <1>2, <2>2, <3>5
  <2>3. CASE s # {}
    <3> DEFINE m == Min(s)
    <3>1. m \in s /\ \A b \in s : m <= b
      <4> HIDE DEF s
      <4>1. QED
        BY <2>1, <2>3, LowestIs
    <3>2. m \in quotes \cup hashes /\ m \in Bits /\ m >= p
      BY <2>1, <3>1
    <3> HIDE DEF m
    <3>3. m \in p .. width - 1 /\ m \in p .. width /\ m \in 0 .. width - 1
          /\ m + 1 \in 0 .. width /\ m + 1 \in p + 1 .. width
      BY <1>3, <3>2
    <3>4. \A b \in p .. m - 1 : b \notin quotes \cup hashes
      <4> SUFFICES ASSUME NEW b \in p .. m - 1, b \in quotes \cup hashes PROVE FALSE
        OBVIOUS
      <4>1. b \in s /\ ~(m <= b)
        BY <3>3
      <4>2. QED
        BY <3>1, <4>1
    <3>5. \A b \in p .. m : st[b] = "code"
      BY <1>4, <3>3, <3>4, StaysCode
    <3>6. st[m] = "code"
      BY <3>3, <3>5
    <3>7. st[m + 1] = (IF m \in quotes THEN "string" ELSE "comment") /\ st[m + 1] # "code"
      BY <3>2, <3>3, <3>6 DEF Opens
    <3> DEFINE X == After({m}) \cap (IF {m} \subseteq hashes THEN newlines ELSE quotes)
               e == EndOf(s, quotes, hashes, newlines)
    <3>8. e = Lowest(X)
      BY DEF EndOf, m
    <3>9. IsToClose(X, st, m + 1, quotes, newlines)
      <4>1. After({m}) = {b \in Bits : b > m}
        BY <3>2, AfterIs
      <4>2. \A b \in Bits : b > m <=> b >= m + 1
        BY <1>3, <3>3
      <4>3. (IF {m} \subseteq hashes THEN newlines ELSE quotes)
              = Closing(st[m + 1], quotes, newlines)
        BY <3>2, <3>7 DEF Closing
      <4>4. QED
        BY <4>1, <4>2, <4>3 DEF IsToClose
    <3>10. Changes(st, p) = {m} \cup Changes(st, m + 1)
      <4>1. \A b \in p .. m - 1 : st[b + 1] = st[b]
        <5> SUFFICES ASSUME NEW b \in p .. m - 1 PROVE st[b + 1] = st[b]
          OBVIOUS
        <5>1. b \in p .. m /\ b + 1 \in p .. m
          BY <3>3
        <5>2. QED
          BY <3>5, <5>1
      <4>2. \A b \in Bits : b >= p => b \in p .. m - 1 \/ b = m \/ b >= m + 1
        BY <1>3, <3>3
      <4>3. \A b \in Bits : b >= m + 1 => b >= p
        BY <1>3, <3>3
      <4>4. \A b : b \in Changes(st, p) <=> b \in {m} \cup Changes(st, m + 1)
        BY <3>2, <3>6, <3>7, <4>1, <4>2, <4>3 DEF Changes
      <4>5. QED
        BY <4>4
    <3>11. f[s] = {m} \cup e \cup f[s \cap After(e)]
      BY <1>1, <2>1, <2>3 DEF m
    <3> HIDE DEF X, e, s
    <3>12. /\ X = {} => Lowest(X) = {} /\ Changes(st, m + 1) = {}
           /\ X # {} => \E k \in m + 1 .. width - 1 :
                           /\ Lowest(X) = {k} /\ st[k + 1] = "code"
                           /\ Changes(st, m + 1) = {k} \cup Changes(st, k + 1)
      <4> DEFINE l == m + 1
      <4>1. l \in 0 .. width /\ st[l] # "code" /\ IsToClose(X, st, l, quotes, newlines)
        BY <3>3, <3>7, <3>9
      <4> HIDE DEF l
      <4>2. /\ X = {} => Lowest(X) = {} /\ Changes(st, l) = {}
            /\ X # {} => \E k \in l .. width - 1 :
                           /\ Lowest(X) = {k} /\ st[k + 1] = "code"
                           /\ Changes(st, l) = {k} \cup Changes(st, k + 1)
        BY <4>1, ChangesOpen
      <4>3. QED
        BY <4>2 DEF l
    <3>13. CASE X = {}
      <4>1. Lowest(X) = {} /\ Changes(st, m + 1) = {}
        BY <3>13, <3>12
      <4>2. s \cap After(e) = {}
        BY <3>8, <4>1, AfterIs
      <4>3. QED
        BY <1>2, <3>8, <3>10, <3>11, <4>1, <4>2 DEF s
    <3>14. CASE X # {}
      <4>1. PICK k \in m + 1 .. width - 1 :
                 /\ Lowest(X) = {k} /\ st[k + 1] = "code"
                 /\ Changes(st, m + 1) = {k} \cup Changes(st, k + 1)
        BY <3>14, <3>12
      <4>2. k \in Bits /\ k + 1 \in p + 1 .. width /\ k >= p /\ k \in Nat
        BY <1>3, <3>3
      <4>3. s \cap After(e) = from(k + 1)
        <5>1. After(e) = {b \in Bits : b > k}
          BY <3>8, <4>1, <4>2, AfterIs
        <5>2. \A b \in Bits : b > k <=> b >= k + 1
          BY <1>3, <4>2
        <5>3. \A b \in Bits : b >= k + 1 => b >= p
          BY <1>3, <4>2
        <5>4. QED
          BY <5>1, <5>2, <5>3 DEF s
      <4>4. f[from(k + 1)] = Changes(st, k + 1)
        BY <1>4, <4>1, <4>2
      <4> HIDE DEF from
      <4>5. QED
        BY <3>8, <3>10, <3>11, <4>1, <4>3, <4>4 DEF s
    <3>15. QED
      BY <3>13, <3>14
  <2>4. QED
    BY <2>2, <2>3
<1> HIDE DEF good
<1>5. bad = {}
  <2> SUFFICES ASSUME bad # {} PROVE FALSE
    OBVIOUS
  <2>1. PICK d \in bad : \A j \in bad : d <= j
    <3>1. bad \subseteq Nat
      OBVIOUS
    <3> HIDE DEF bad
    <3>2. QED
      BY <3>1, Least
  <2>2. PICK p \in 0 .. width : d = width - p /\ ~good(p)
    OBVIOUS
  <2>3. ASSUME NEW q \in p + 1 .. width PROVE good(q)
    <3>1. width - q \in Nat /\ q \in 0 .. width /\ ~(d <= width - q)
      BY <2>2
    <3>2. QED
      BY <2>1, <3>1
  <2>4. good(p)
    BY <1>4, <2>3 DEF good
  <2>5. QED
    BY <2>2, <2>4
<1>6. \A p \in 0 .. width : good(p)
  <2> SUFFICES ASSUME NEW p \in 0 .. width, ~good(p) PROVE FALSE
    OBVIOUS
  <2>1. width - p \in Nat
    OBVIOUS
  <2>2. width - p \in bad
    BY <2>1
  <2>3. QED
    BY <1>5, <2>2
<1>7. QED
  BY <1>2, <1>6 DEF good

\* The masks and the state that find_delimiters gets.
AreDelimited(quotes, hashes, newlines, inQuoted, inComment, st) ==
    /\ quotes \subseteq Bits /\ hashes \subseteq Bits /\ newlines \subseteq Bits
    /\ quotes \cap hashes = {} /\ Opens(st, quotes, hashes, newlines)
    /\ inQuoted = (st[0] = "string") /\ inComment = (st[0] = "comment")

\* find_delimiters finds what opens and closes strings and comments in a block.
LEMMA DelimitersAre ==
    ASSUME width \in Nat, NEW quotes, NEW hashes, NEW newlines, NEW st,
           NEW inQuoted, NEW inComment,
           AreDelimited(quotes, hashes, newlines, inQuoted, inComment, st)
    PROVE  Delimiters(quotes, hashes, newlines, inQuoted, inComment) = Changes(st, 0)
<1> USE DEF AreDelimited
<1> DEFINE f == CHOOSE g : IsFrom(g, quotes, hashes, newlines)
           first == Lowest((IF inComment THEN newlines ELSE {})
                           \cup (IF inQuoted THEN quotes ELSE {}))
           starts == quotes \cup hashes
<1>1. IsFrom(f, quotes, hashes, newlines)
  BY FromExists, Zenon
<1>2. Delimiters(quotes, hashes, newlines, inQuoted, inComment)
        = first \cup f[IF inQuoted \/ inComment THEN starts \cap After(first) ELSE starts]
  BY DEF Delimiters, IsFrom, EndOf
<1> HIDE DEF f
<1>3. /\ f[{}] = {}
      /\ \A p \in 0 .. width : st[p] = "code" => f[{b \in starts : b >= p}] = Changes(st, p)
  BY <1>1, FromIs
<1>4. Bits = 0 .. width - 1 /\ 0 \in 0 .. width /\ st[0] \in {"code", "string", "comment"}
  BY DEF Bits, Opens
<1>5. CASE st[0] = "code"
  <2>1. first = {}
    BY <1>5 DEF Lowest
  <2>2. {b \in starts : b >= 0} = starts
    <3>1. \A b \in starts : b >= 0
      BY <1>4
    <3>2. QED
      BY <3>1
  <2>3. f[starts] = Changes(st, 0)
    BY <1>3, <1>4, <1>5, <2>2
  <2> HIDE DEF first, starts
  <2>4. QED
    BY <1>2, <1>5, <2>1, <2>3
<1>6. CASE st[0] # "code"
  <2> DEFINE E == {b \in Closing(st[0], quotes, newlines) \cap Bits : b >= 0}
  <2>1. IsToClose(E, st, 0, quotes, newlines)
    BY DEF IsToClose
  <2>2. /\ E = {} => Lowest(E) = {} /\ Changes(st, 0) = {}
        /\ E # {} => \E e \in 0 .. width - 1 :
                        /\ Lowest(E) = {e} /\ st[e + 1] = "code"
                        /\ Changes(st, 0) = {e} \cup Changes(st, e + 1)
    <3> HIDE DEF E
    <3>1. QED
      BY <1>4, <1>6, <2>1, ChangesOpen
  <2>3. first = Lowest(E)
    <3>1. (IF inComment THEN newlines ELSE {}) \cup (IF inQuoted THEN quotes ELSE {})
            = Closing(st[0], quotes, newlines)
      BY <1>4, <1>6 DEF Closing
    <3>2. Closing(st[0], quotes, newlines) = E
      <4>1. Closing(st[0], quotes, newlines) \subseteq Bits
        BY DEF Closing
      <4>2. \A b \in Bits : b >= 0
        BY <1>4
      <4>3. QED
        BY <4>1, <4>2
    <3>3. QED
      BY <3>1, <3>2
  <2>4. Delimiters(quotes, hashes, newlines, inQuoted, inComment)
          = first \cup f[starts \cap After(first)]
    BY <1>2, <1>4, <1>6
  <2>5. CASE E = {}
    <3>1. Lowest(E) = {} /\ Changes(st, 0) = {}
      BY <2>5, <2>2
    <3>2. starts \cap After(first) = {}
      BY <2>3, <3>1, AfterIs
    <3> HIDE DEF first, starts, E
    <3>3. first \cup f[starts \cap After(first)] = Changes(st, 0)
      BY <1>3, <2>3, <3>1, <3>2
    <3>4. QED
      BY <2>4, <3>3
  <2>6. CASE E # {}
    <3>1. PICK e \in 0 .. width - 1 :
               /\ Lowest(E) = {e} /\ st[e + 1] = "code"
               /\ Changes(st, 0) = {e} \cup Changes(st, e + 1)
      BY <2>6, <2>2
    <3>2. e \in Bits /\ e + 1 \in 0 .. width
      BY <1>4
    <3>3. starts \cap After(first) = {b \in starts : b >= e + 1}
      <4>1. After(first) = {b \in Bits : b > e}
        BY <2>3, <3>1, <3>2, AfterIs
      <4>2. \A b \in Bits : b > e <=> b >= e + 1
        BY <1>4, <3>2
      <4>3. starts \subseteq Bits
        OBVIOUS
      <4>4. QED
        BY <4>1, <4>2, <4>3
    <3>4. f[{b \in starts : b >= e + 1}] = Changes(st, e + 1)
      BY <1>3, <3>1, <3>2
    <3> HIDE DEF first, starts, E
    <3>5. first \cup f[starts \cap After(first)] = Changes(st, 0)
      BY <2>3, <3>1, <3>3, <3>4
    <3>6. QED
      BY <2>4, <3>5
  <2>7. QED
    BY <2>5, <2>6
<1>7. QED
  BY <1>5, <1>6

----------------------------------------------------------------------------
(* A text and what its characters are part of *)

End == Min({i \in DOMAIN text : text[i] = "nul"})

TextOK ==
    /\ width \in Nat /\ width >= 2
    /\ Size \in Nat /\ Size % width = 0
    /\ text \in [0 .. Size - 1 -> Chars]
    /\ End \in Nat /\ End + width <= Size
    /\ \A i \in 0 .. Size - 1 : text[i] = "nul" <=> i >= End

Parts == {"code", "string", "escape", "comment"}

\* What the character after c in a part is part of.
Moved(p, c) ==
    CASE p = "code" /\ c = "quote" -> "string"
      [] p = "code" /\ c = "hash" -> "comment"
      [] p = "string" /\ c = "quote" -> "code"
      [] p = "string" /\ c = "backslash" -> "escape"
      [] p = "escape" -> "string"
      [] p = "comment" /\ c = "newline" -> "code"
      [] OTHER -> p

IsPart(f) == f = [i \in 0 .. Size |-> IF i = 0 THEN "code" ELSE Moved(f[i - 1], text[i - 1])]

LEMMA PartExists ==
    ASSUME Size \in Nat
    PROVE  \E f : IsPart(f) /\ f \in [0 .. Size -> Parts]
<1> DEFINE G == [i \in 1 .. Size |-> [p \in Parts |-> Moved(p, text[i - 1])]]
<1>1. "code" \in Parts /\ IsRule(G, Size, Parts)
  BY DEF IsRule, Parts, Moved
<1> HIDE DEF G
<1>2. PICK f : Follows(f, "code", G, Size, Parts)
  BY <1>1, Recursion
<1>3. f \in [0 .. Size -> Parts] /\ f[0] = "code"
  BY <1>2 DEF Follows
<1>4. \A i \in 1 .. Size : f[i] = Moved(f[i - 1], text[i - 1])
  <2> SUFFICES ASSUME NEW i \in 1 .. Size PROVE f[i] = Moved(f[i - 1], text[i - 1])
    OBVIOUS
  <2>1. f[i] = G[i][f[i - 1]]
    BY <1>2 DEF Follows
  <2>2. f[i - 1] \in Parts
    BY <1>3
  <2>3. QED
    BY <2>1, <2>2 DEF G
<1>5. f = [i \in 0 .. Size |-> IF i = 0 THEN "code" ELSE Moved(f[i - 1], text[i - 1])]
  <2>1. f = [i \in 0 .. Size |-> f[i]]
    BY <1>3
  <2>2. \A i \in 0 .. Size : f[i] = IF i = 0 THEN "code" ELSE Moved(f[i - 1], text[i - 1])
    BY <1>3, <1>4
  <2>3. QED
    BY <2>1, <2>2
<1>6. QED
  BY <1>3, <1>5 DEF IsPart

\* What a character is part of follows from the one before it.
LEMMA PartIs ==
    ASSUME TextOK
    PROVE  /\ Part \in [0 .. Size -> Parts] /\ Part[0] = "code"
           /\ \A i \in 0 .. Size - 1 : Part[i + 1] = Moved(Part[i], text[i])
<1> DEFINE f == CHOOSE g : IsPart(g)
<1>1. Size \in Nat
  BY DEF TextOK
<1>2. IsPart(f)
  BY <1>1, PartExists, Zenon
<1>3. Part = f
  BY DEF Part, IsPart, Moved
<1> HIDE DEF f
<1>4. \A i \in 0 .. Size : f[i] = IF i = 0 THEN "code" ELSE Moved(f[i - 1], text[i - 1])
  BY <1>2 DEF IsPart
<1>5. PICK g : IsPart(g) /\ g \in [0 .. Size -> Parts]
  BY <1>1, PartExists
<1>6. \A i \in 0 .. Size : g[i] = IF i = 0 THEN "code" ELSE Moved(g[i - 1], text[i - 1])
  BY <1>5 DEF IsPart
<1> DEFINE bad == {i \in 0 .. Size : f[i] # g[i]}
<1>7. bad = {}
  <2> SUFFICES ASSUME bad # {} PROVE FALSE
    OBVIOUS
  <2>1. PICK i \in bad : \A j \in bad : i <= j
    <3>1. bad \subseteq Nat
      OBVIOUS
    <3> HIDE DEF bad
    <3>2. QED
      BY <3>1, Least
  <2>2. i \in 0 .. Size /\ f[i] # g[i] /\ i # 0
    BY <1>4, <1>6
  <2>3. i - 1 \in 0 .. Size /\ ~(i <= i - 1)
    BY <1>1, <2>2
  <2>4. f[i - 1] = g[i - 1]
    BY <2>1, <2>3
  <2>5. QED
    BY <1>4, <1>6, <2>2, <2>4
<1>8. f \in [0 .. Size -> Parts]
  <2>1. f = [i \in 0 .. Size |-> f[i]]
    BY <1>2 DEF IsPart
  <2>2. \A i \in 0 .. Size : f[i] \in Parts
    BY <1>5, <1>7
  <2>3. QED
    BY <2>1, <2>2
<1>9. ASSUME NEW i \in 0 .. Size - 1
      PROVE  f[i + 1] = Moved(f[i], text[i])
  <2>1. i + 1 \in 0 .. Size /\ i + 1 # 0 /\ (i + 1) - 1 = i
    BY <1>1
  <2>2. QED
    BY <1>4, <2>1
<1>10. f[0] = "code"
  BY <1>1, <1>4
<1>11. QED
  BY <1>3, <1>8, <1>9, <1>10

----------------------------------------------------------------------------
(* The second characters of tokens of two *)

InCode(i) == Part[i] = "code" \/ (Part[i] = "comment" /\ text[i] = "newline")
Plain(i) == i \in DOMAIN text /\ Part[i] = "code"
Pairing(i) == Plain(i) /\ Plain(i - 1) /\ <<text[i - 1], text[i]>> \in Pairs

IsSecond(f) == f = [i \in DOMAIN text |-> /\ Plain(i) /\ Plain(i - 1)
                                          /\ <<text[i - 1], text[i]>> \in Pairs
                                          /\ ~f[i - 1]]
Second == CHOOSE f : IsSecond(f)

LEMMA SecondExists ==
    ASSUME TextOK
    PROVE  \E f : IsSecond(f)
<1> DEFINE n == Size - 1
           Truths == BOOLEAN
           no == FALSE
           G == [i \in 1 .. n |-> [x \in Truths |-> Pairing(i) /\ ~x]]
<1>1. n \in Nat /\ DOMAIN text = 0 .. n
  <2>1. Size \in Nat /\ Size >= 2 /\ DOMAIN text = 0 .. Size - 1
    BY DEF TextOK
  <2>2. QED
    BY <2>1
<1>2. no \in Truths /\ IsRule(G, n, Truths)
  BY DEF IsRule
<1> HIDE DEF G, n, no, Truths
<1>3. PICK f : Follows(f, no, G, n, Truths)
  BY <1>1, <1>2, Recursion
<1>4. f \in [0 .. n -> BOOLEAN] /\ f[0] = FALSE
  BY <1>3 DEF Follows, Truths, no
<1>5. ASSUME NEW i \in 1 .. n
      PROVE  f[i] = (Pairing(i) /\ ~f[i - 1])
  <2>1. f[i] = G[i][f[i - 1]]
    BY <1>3 DEF Follows
  <2>2. f[i - 1] \in BOOLEAN
    <3>1. i - 1 \in 0 .. n
      BY <1>1
    <3>2. QED
      BY <1>4, <3>1
  <2>3. G[i] = [x \in BOOLEAN |-> Pairing(i) /\ ~x]
    BY DEF G, Truths
  <2>4. QED
    BY <2>1, <2>2, <2>3
<1>6. ASSUME NEW i \in 0 .. n
      PROVE  f[i] = (/\ Plain(i) /\ Plain(i - 1)
                     /\ <<text[i - 1], text[i]>> \in Pairs /\ ~f[i - 1])
  <2>1. CASE i = 0
    <3>1. ~Plain(i - 1)
      BY <1>1, <2>1 DEF Plain
    <3>2. f[i] = FALSE
      BY <1>4, <2>1
    <3>3. QED
      BY <3>1, <3>2
  <2>2. CASE i # 0
    <3>1. i \in 1 .. n
      BY <1>1, <2>2
    <3>2. QED
      BY <1>5, <3>1 DEF Pairing
  <2>3. QED
    BY <2>1, <2>2
<1>7. f = [i \in 0 .. n |-> f[i]]
  BY <1>4
<1>8. f = [i \in 0 .. n |-> /\ Plain(i) /\ Plain(i - 1)
                            /\ <<text[i - 1], text[i]>> \in Pairs /\ ~f[i - 1]]
  BY <1>6, <1>7
<1>9. QED
  BY <1>1, <1>8, Zenon DEF IsSecond

\* A second character is one after one that is not.
LEMMA SecondIs ==
    ASSUME TextOK
    PROVE  \A i \in 0 .. Size - 1 : Second[i] <=> Pairing(i) /\ ~Second[i - 1]
<1>1. IsSecond(Second)
  BY SecondExists, Zenon DEF Second
<1>2. DOMAIN text = 0 .. Size - 1
  BY DEF TextOK
<1>3. ASSUME NEW i \in 0 .. Size - 1
      PROVE  Second[i] = (/\ Plain(i) /\ Plain(i - 1)
                          /\ <<text[i - 1], text[i]>> \in Pairs /\ ~Second[i - 1])
  BY <1>1, <1>2 DEF IsSecond
<1>4. QED
  BY <1>3 DEF Pairing

\* Where tokens start.
LEMMA StartsAre ==
    Starts = {i \in DOMAIN text :
                /\ InCode(i) /\ text[i] \notin {"space", "hash"}
                /\ ~Second[i]
                /\ ~(text[i] = "ident" /\ Plain(i - 1) /\ text[i - 1] = "ident")}
BY DEF Starts, InCode, Plain, Second, IsSecond

----------------------------------------------------------------------------
(* Escapes in the whole text *)

EscapeRule(c) ==
    [i \in 1 .. Size |-> [x \in {0, 1} |-> IF text[i - 1] = c THEN 1 - x ELSE 0]]
Escaped(c) == CHOOSE f : Follows(f, 0, EscapeRule(c), Size, {0, 1})

\* A character is escaped when the one before it escapes and is not escaped.
LEMMA EscapedIs ==
    ASSUME TextOK, NEW c
    PROVE  /\ Escaped(c) \in [0 .. Size -> {0, 1}] /\ Escaped(c)[0] = 0
           /\ \A i \in 0 .. Size - 1 :
                 Escaped(c)[i + 1] = IF text[i] = c THEN 1 - Escaped(c)[i] ELSE 0
<1>1. Size \in Nat
  BY DEF TextOK
<1>2. 0 \in {0, 1} /\ IsRule(EscapeRule(c), Size, {0, 1})
  BY DEF IsRule, EscapeRule
<1>3. \E f : Follows(f, 0, EscapeRule(c), Size, {0, 1})
  BY <1>1, <1>2, Recursion
<1>4. Follows(Escaped(c), 0, EscapeRule(c), Size, {0, 1})
  BY <1>3, Zenon DEF Escaped
<1> DEFINE e == Escaped(c)
<1> HIDE DEF e
<1>5. e \in [0 .. Size -> {0, 1}] /\ e[0] = 0
  BY <1>4 DEF Follows, e
<1>6. ASSUME NEW i \in 0 .. Size - 1
      PROVE  e[i + 1] = IF text[i] = c THEN 1 - e[i] ELSE 0
  <2>1. i + 1 \in 1 .. Size /\ (i + 1) - 1 = i /\ e[i] \in {0, 1}
    BY <1>1, <1>5
  <2>2. e[i + 1] = EscapeRule(c)[i + 1][e[i]]
    BY <1>4, <2>1 DEF Follows, e
  <2>3. EscapeRule(c)[i + 1] = [x \in {0, 1} |-> IF text[i] = c THEN 1 - x ELSE 0]
    BY <2>1 DEF EscapeRule
  <2>4. QED
    BY <2>1, <2>2, <2>3
<1>7. QED
  BY <1>5, <1>6 DEF e

----------------------------------------------------------------------------
(* Texts with closed strings and comments *)

\* What holds at the start and is kept from each number to the next holds of all.
LEMMA Induct ==
    ASSUME NEW S, NEW n \in Nat, 0 \in S, \A i \in 0 .. n - 1 : i \in S => i + 1 \in S
    PROVE  \A i \in 0 .. n : i \in S
<1> DEFINE bad == {i \in 0 .. n : i \notin S}
<1>1. bad = {}
  <2> SUFFICES ASSUME bad # {} PROVE FALSE
    OBVIOUS
  <2>1. PICK i \in bad : \A j \in bad : i <= j
    <3>1. bad \subseteq Nat
      OBVIOUS
    <3> HIDE DEF bad
    <3>2. QED
      BY <3>1, Least
  <2>2. i \in 0 .. n /\ i \notin S /\ i # 0
    BY <2>1
  <2>3. i - 1 \in 0 .. n - 1 /\ ~(i <= i - 1) /\ (i - 1) + 1 = i /\ i - 1 \in 0 .. n
    BY <2>2
  <2>4. i - 1 \in S
    BY <2>1, <2>3
  <2> DEFINE j == i - 1
  <2> HIDE DEF j
  <2>5. j \in 0 .. n - 1 /\ j \in S /\ j + 1 = i
    BY <2>3, <2>4 DEF j
  <2>6. QED
    BY <2>2, <2>5
<1>2. QED
  BY <1>1

Proper == TextOK /\ Lexical

\* In code there are no backslashes, and a ! only before =.
LEMMA LexicalIs ==
    ASSUME Proper
    PROVE  /\ Part[Size] = "code"
           /\ \A i \in 0 .. Size - 1 : Part[i] = "code" => text[i] # "backslash"
           /\ \A i \in 0 .. Size - 1 : Part[i] = "code" /\ text[i] = "bang" =>
                 i + 1 \in 0 .. Size - 1 /\ Part[i + 1] = "code" /\ text[i + 1] = "eq"
<1>1. DOMAIN text = 0 .. Size - 1
  BY DEF Proper, TextOK
<1>2. QED
  BY <1>1 DEF Proper, Lexical

\* A character of a string is escaped where the lexer's state says so, one of code never.
LEMMA EscapesInText ==
    ASSUME Proper
    PROVE  \A i \in 0 .. Size :
              /\ Part[i] = "code" => Escaped("backslash")[i] = 0
              /\ Part[i] \in {"string", "escape"}
                    => (Escaped("backslash")[i] = 1 <=> Part[i] = "escape")
<1> DEFINE e == Escaped("backslash")
           part == Part
           S == {i \in 0 .. Size : /\ part[i] = "code" => e[i] = 0
                                   /\ part[i] \in {"string", "escape"}
                                        => (e[i] = 1 <=> part[i] = "escape")}
<1>1. TextOK /\ Size \in Nat
  BY DEF Proper, TextOK
<1>2. /\ e \in [0 .. Size -> {0, 1}] /\ e[0] = 0
      /\ \A i \in 0 .. Size - 1 : e[i + 1] = IF text[i] = "backslash" THEN 1 - e[i] ELSE 0
  BY <1>1, EscapedIs
<1>3. /\ part \in [0 .. Size -> Parts] /\ part[0] = "code"
      /\ \A i \in 0 .. Size - 1 : part[i + 1] = Moved(part[i], text[i])
  BY <1>1, PartIs
<1>4. \A i \in 0 .. Size - 1 : part[i] = "code" => text[i] # "backslash"
  BY LexicalIs
<1> HIDE DEF e, part
<1>5. 0 \in S
  BY <1>1, <1>2, <1>3
<1>6. ASSUME NEW i \in 0 .. Size - 1, i \in S
      PROVE  i + 1 \in S
  <2>1. i \in 0 .. Size /\ i + 1 \in 0 .. Size /\ e[i] \in {0, 1} /\ part[i] \in Parts
    BY <1>1, <1>2, <1>3
  <2>2. part[i + 1] = Moved(part[i], text[i])
    BY <1>3
  <2>3. e[i + 1] = IF text[i] = "backslash" THEN 1 - e[i] ELSE 0
    BY <1>2
  <2>4. CASE part[i] = "code"
    <3>1. text[i] # "backslash"
      BY <1>4, <2>4
    <3>2. e[i + 1] = 0 /\ part[i + 1] \in {"code", "string", "comment"}
      BY <2>2, <2>3, <2>4, <3>1 DEF Moved
    <3>3. QED
      BY <2>1, <3>2
  <2>5. CASE part[i] = "comment"
    <3>1. part[i + 1] \in {"code", "comment"}
      BY <2>2, <2>5 DEF Moved
    <3>2. part[i + 1] = "code" => text[i] = "newline"
      BY <2>2, <2>5 DEF Moved
    <3>3. QED
      BY <2>1, <2>3, <3>1, <3>2
  <2>6. CASE part[i] = "string"
    <3>1. e[i] = 0
      BY <2>1, <2>6, <1>6
    <3>2. CASE text[i] = "backslash"
      BY <2>1, <2>2, <2>3, <2>6, <3>1, <3>2 DEF Moved
    <3>3. CASE text[i] # "backslash"
      <4>1. e[i + 1] = 0 /\ part[i + 1] \in {"code", "string"}
        BY <2>2, <2>3, <2>6, <3>3 DEF Moved
      <4>2. QED
        BY <2>1, <4>1
    <3>4. QED
      BY <3>2, <3>3
  <2>7. CASE part[i] = "escape"
    <3>1. e[i] = 1
      BY <2>1, <2>7, <1>6
    <3>2. e[i + 1] = 0 /\ part[i + 1] = "string"
      BY <2>2, <2>3, <2>7, <3>1 DEF Moved
    <3>3. QED
      BY <2>1, <3>2
  <2>8. QED
    BY <2>1, <2>4, <2>5, <2>6, <2>7 DEF Parts
<1>7. \A i \in 0 .. Size : i \in S
  <2> HIDE DEF S
  <2>1. QED
    BY <1>1, <1>5, <1>6, Induct
<1>8. QED
  BY <1>7 DEF e, part

\* A character of a pair follows code.
LEMMA CodeBefore ==
    ASSUME TextOK, NEW i \in 1 .. Size, Part[i] = "code",
           text[i - 1] \notin {"quote", "newline"}
    PROVE  Part[i - 1] = "code"
<1> DEFINE j == i - 1
<1>1. j \in 0 .. Size - 1 /\ j + 1 = i /\ j \in 0 .. Size
  BY DEF TextOK
<1> HIDE DEF j
<1>2. Part[i] = Moved(Part[j], text[j]) /\ Part[j] \in Parts
  BY <1>1, PartIs
<1>3. Part[j] = "code"
  BY <1>2 DEF Moved, Parts, j
<1>4. QED
  BY <1>3 DEF j

\* SimdExcepted, from the place at which such a token starts.
LEMMA ExceptedIs ==
    ASSUME TextOK, NEW i \in 0 .. Size - 1, i \in Starts, text[i] \in {"lt", "gt", "bang"},
           text[i + 1] = "eq", text[i + 2] = "eq"
    PROVE  SimdExcepted
BY DEF SimdExcepted

\* The first character of a pair is a second one just when a run of it escapes it.
LEMMA PairsInText ==
    ASSUME Proper, ~SimdExcepted
    PROVE  \A i \in 0 .. Size - 2 :
              Part[i] = "code" /\ <<text[i], text[i + 1]>> \in Pairs =>
                  (Escaped(text[i])[i] = 1 <=> Second[i])
<1> DEFINE ok(i) == Part[i] = "code" /\ <<text[i], text[i + 1]>> \in Pairs =>
                       (Escaped(text[i])[i] = 1 <=> Second[i])
           n == Size - 2
           S == {i \in 0 .. n : ok(i)}
<1>1. TextOK /\ n \in Nat /\ Size \in Nat /\ DOMAIN text = 0 .. Size - 1
  <2>1. TextOK /\ Size \in Nat /\ width \in Nat /\ width >= 2 /\ End \in Nat
        /\ End + width <= Size /\ DOMAIN text = 0 .. Size - 1
    BY DEF Proper, TextOK
  <2>2. QED
    BY <2>1
<1>2. ASSUME NEW i \in 0 .. n
      PROVE  ~Second[0] /\ (Second[i] <=> Pairing(i) /\ ~Second[i - 1])
  <2>1. i \in 0 .. Size - 1 /\ 0 \in 0 .. Size - 1 /\ ~Plain(0 - 1)
    BY <1>1 DEF Plain
  <2>2. QED
    BY <1>1, <2>1, SecondIs DEF Pairing
<1>3. 0 \in S
  <2>1. ~Second[0]
    BY <1>1, <1>2
  <2>2. \A c : Escaped(c)[0] = 0
    BY <1>1, EscapedIs
  <2>3. QED
    BY <1>1, <2>1, <2>2
<1>4. ASSUME NEW k \in 0 .. n - 1, k \in S
      PROVE  k + 1 \in S
  <2> DEFINE i == k + 1
             c == text[i]
             d == text[k]
             e == Escaped(c)
  <2> SUFFICES ASSUME Part[i] = "code", <<text[i], text[i + 1]>> \in Pairs
               PROVE  e[i] = 1 <=> Second[i]
    BY <1>1
  <2>1. i \in 0 .. n /\ k \in 0 .. n /\ i \in 0 .. Size - 1 /\ k \in 0 .. Size - 1 /\ i - 1 = k
        /\ i \in 1 .. Size /\ k + 1 = i /\ i + 1 = k + 2 /\ k \in 0 .. Size
    BY <1>1
  <2>2. ok(k)
    BY <1>4
  <2>3. e[i] = (IF d = c THEN 1 - e[k] ELSE 0) /\ e[k] \in {0, 1}
    BY <1>1, <2>1, EscapedIs
  <2>4. Second[i] <=> Pairing(i) /\ ~Second[k]
    BY <1>2, <2>1
  <2>5. Pairing(i) <=> Plain(k) /\ <<d, c>> \in Pairs
    BY <1>1, <2>1 DEF Pairing, Plain
  <2>6. c \in {"lt", "gt", "eq", "bang"}
    BY DEF Pairs
  <2>7. d = c => Plain(k)
    <3>1. d = c => Part[k] = "code"
      BY <1>1, <2>1, <2>6, CodeBefore
    <3>2. QED
      BY <1>1, <2>1, <3>1 DEF Plain
  <2>8. ASSUME d = c
        PROVE  c # "bang"
    <3>1. Part[k] = "code"
      BY <2>7, <2>8 DEF Plain
    <3>2. d = "bang" => text[k + 1] = "eq"
      BY <2>1, <3>1, LexicalIs
    <3>3. QED
      BY <2>8, <3>2
  <2>9. ASSUME d = c
        PROVE  <<d, c>> \in Pairs /\ (e[k] = 1 <=> Second[k])
    <3>1. <<d, c>> \in Pairs
      BY <2>6, <2>8, <2>9 DEF Pairs
    <3>2. Part[k] = "code" /\ text[k + 1] = c
      BY <2>7, <2>9 DEF Plain
    <3>3. Escaped(text[k]) = e
      BY <2>9
    <3>4. QED
      BY <2>2, <2>9, <3>1, <3>2, <3>3
  <2> HIDE DEF e
  <2>10. CASE d = c
    BY <2>3, <2>4, <2>5, <2>7, <2>9, <2>10
  <2>11. CASE d # c
    <3>1. e[i] # 1
      BY <2>3, <2>11
    <3>2. ASSUME Second[i] PROVE FALSE
      <4>1. Plain(k) /\ <<d, c>> \in Pairs /\ ~Second[k]
        BY <2>4, <2>5, <3>2
      <4>2. c = "eq" /\ d \in {"lt", "gt", "bang"}
        BY <2>11, <4>1 DEF Pairs
      <4>3. text[i + 1] = "eq"
        BY <4>2 DEF Pairs
      <4>4. k \in Starts
        <5>1. k \in DOMAIN text /\ InCode(k) /\ d \notin {"space", "hash", "ident"}
          BY <1>1, <2>1, <4>1, <4>2 DEF InCode, Plain
        <5>2. QED
          BY <4>1, <5>1, StartsAre
      <4>5. SimdExcepted
        BY <1>1, <2>1, <4>2, <4>3, <4>4, ExceptedIs
      <4>6. QED
        BY <4>5
    <3>3. QED
      BY <3>1, <3>2
  <2>12. QED
    BY <2>10, <2>11
<1>5. \A i \in 0 .. n : i \in S
  <2> HIDE DEF S, n
  <2>1. QED
    BY <1>1, <1>3, <1>4, Induct
<1>6. QED
  BY <1>5

\* double_mask has the second characters of the code.
IsDouble(i) == \E p \in Pairs : text[i] = p[2] /\ Escaped(p[1])[i] = 1

LEMMA DoublesInText ==
    ASSUME Proper, ~SimdExcepted, NEW i \in 0 .. Size - 1, Part[i] = "code"
    PROVE  IsDouble(i) <=> Second[i]
<1>1. TextOK /\ Size \in Nat /\ DOMAIN text = 0 .. Size - 1
  BY DEF Proper, TextOK
<1>2. Second[i] <=> Pairing(i) /\ ~Second[i - 1]
  BY <1>1, SecondIs
<1>3. CASE i = 0
  <2>1. \A c : Escaped(c)[0] = 0
    BY <1>1, EscapedIs
  <2>2. ~Plain(0 - 1)
    BY <1>1 DEF Plain
  <2>3. QED
    BY <1>2, <1>3, <2>1, <2>2 DEF IsDouble, Pairing
<1>4. CASE i # 0
  <2> DEFINE k == i - 1
             d == text[k]
  <2>1. k \in 0 .. Size - 2 /\ k \in 0 .. Size - 1 /\ k + 1 = i /\ i \in 1 .. Size
        /\ k \in 0 .. Size
    BY <1>1, <1>4
  <2> HIDE DEF k
  <2>2. ASSUME NEW c
        PROVE  /\ Escaped(c)[i] = IF d = c THEN 1 - Escaped(c)[k] ELSE 0
               /\ Escaped(c)[k] \in {0, 1}
    BY <1>1, <2>1, EscapedIs
  <2>3. d \in {"lt", "gt", "eq", "bang"} => Part[k] = "code"
    BY <1>1, <2>1, CodeBefore DEF k
  <2>4. \A p \in Pairs : p[1] \in {"lt", "gt", "eq", "bang"} /\ p = <<p[1], p[2]>>
    BY DEF Pairs
  <2>5. Part[k] = "code" /\ <<d, text[i]>> \in Pairs => (Escaped(d)[k] = 1 <=> Second[k])
    BY <2>1, PairsInText
  <2>6. Pairing(i) <=> Part[k] = "code" /\ <<d, text[i]>> \in Pairs
    BY <1>1, <2>1 DEF Pairing, Plain, k
  <2>7. Second[i] <=> Pairing(i) /\ ~Second[k]
    BY <1>2 DEF k
  <2>8. ASSUME IsDouble(i)
        PROVE  Second[i]
    <3>1. PICK p \in Pairs : text[i] = p[2] /\ Escaped(p[1])[i] = 1
      BY <2>8 DEF IsDouble
    <3> DEFINE c == p[1]
    <3>2. Escaped(c)[i] = IF d = c THEN 1 - Escaped(c)[k] ELSE 0
      BY <2>2
    <3>3. Escaped(c)[k] \in {0, 1}
      BY <2>2
    <3>4. d = c /\ Escaped(c)[k] = 0
      <4> DEFINE x == Escaped(c)[i]
                 y == Escaped(c)[k]
      <4>1. x = 1 /\ x = (IF d = c THEN 1 - y ELSE 0) /\ y \in {0, 1}
        BY <3>1, <3>2, <3>3
      <4> HIDE DEF x, y, c
      <4>2. d = c /\ y = 0
        BY <4>1
      <4>3. QED
        BY <4>2 DEF y
    <3>5. <<d, text[i]>> \in Pairs /\ d \in {"lt", "gt", "eq", "bang"}
      BY <2>4, <3>1, <3>4
    <3>6. QED
      BY <2>3, <2>5, <2>6, <2>7, <3>4, <3>5
  <2>9. ASSUME Second[i]
        PROVE  IsDouble(i)
    <3>1. <<d, text[i]>> \in Pairs /\ Escaped(d)[k] # 1
      BY <2>5, <2>6, <2>7, <2>9
    <3>2. Escaped(d)[i] = 1 - Escaped(d)[k] /\ Escaped(d)[k] \in {0, 1}
      BY <2>2
    <3>3. Escaped(d)[i] = 1
      BY <3>1, <3>2
    <3>4. <<d, text[i]>>[1] = d /\ <<d, text[i]>>[2] = text[i]
      OBVIOUS
    <3>5. QED
      BY <3>1, <3>3, <3>4 DEF IsDouble
  <2>10. QED
    BY <2>8, <2>9
<1>5. QED
  BY <1>3, <1>4

----------------------------------------------------------------------------
(* A block of the text *)

InBlock == at \in Nat /\ at + width <= Size

\* What is open before the characters of the block, and how its characters are escaped.
Open == [b \in 0 .. width |-> IF Part[at + b] = "escape" THEN "string" ELSE Part[at + b]]
EscapedHere(c) == {b \in Bits : Escaped(c)[at + b] = 1}

\* What a block is entered with.
Carried ==
    /\ carry.quoted = (Open[0] = "string")
    /\ carry.comment = (Open[0] = "comment")
    /\ \A c \in Escaping : carry.escape[c] = (Escaped(c)[at] = 1)

\* The places of a block are places of the text.
LEMMA Places ==
    ASSUME TextOK, InBlock
    PROVE  /\ width \in Nat /\ Size \in Nat /\ at \in Nat
           /\ \A b \in Bits : /\ b \in 0 .. width - 1 /\ b \in 0 .. width /\ b + 1 \in 0 .. width
                              /\ at + b \in 0 .. Size - 1 /\ at + b \in 0 .. Size
                              /\ at + (b + 1) = (at + b) + 1 /\ at + b + 1 \in 0 .. Size
           /\ \A b \in 0 .. width : at + b \in 0 .. Size
           /\ at + 0 = at /\ at \in 0 .. Size
BY DEF TextOK, InBlock, Bits

\* escapes_next_block finds the escaped characters.
LEMMA EscapesHere ==
    ASSUME TextOK, InBlock, Carried, NEW c \in Escaping
    PROVE  Escapes(At(c), carry.escape[c])
             = [bits |-> EscapedHere(c), first |-> Escaped(c)[at + width] = 1]
<1> DEFINE g == Escaped(c)
           e == [b \in 0 .. width |-> g[at + b]]
<1>1. /\ g \in [0 .. Size -> {0, 1}]
      /\ \A i \in 0 .. Size - 1 : g[i + 1] = IF text[i] = c THEN 1 - g[i] ELSE 0
  BY EscapedIs
<1>2. carry.escape[c] = (e[0] = 1)
  <2>1. e[0] = g[at]
    BY Places
  <2>2. QED
    BY <2>1 DEF Carried
<1>3. At(c) \subseteq Bits /\ width \in Nat /\ width >= 2
  BY DEF At, TextOK
<1> HIDE DEF g
<1>4. IsEscape(e, At(c), width)
  <2>1. e \in [0 .. width -> {0, 1}]
    BY <1>1, Places
  <2>2. ASSUME NEW b \in 0 .. width - 1
        PROVE  e[b + 1] = IF b \in At(c) THEN 1 - e[b] ELSE 0
    <3>1. b \in Bits
      BY DEF Bits
    <3>2. e[b] = g[at + b] /\ e[b + 1] = g[(at + b) + 1] /\ at + b \in 0 .. Size - 1
      BY <3>1, Places
    <3>3. b \in At(c) <=> text[at + b] = c
      BY <3>1 DEF At
    <3>4. QED
      BY <1>1, <3>2, <3>3
  <2>3. QED
    BY <2>1, <2>2 DEF IsEscape
<1>5. \A b \in Bits : e[b] = g[at + b]
  BY Places
<1>6. e[width] = g[at + width]
  BY Places
<1> HIDE DEF e
<1>7. Escapes(At(c), e[0] = 1) = [bits |-> {b \in Bits : e[b] = 1}, first |-> e[width] = 1]
  BY <1>3, <1>4, EscapesAre
<1>8. {b \in Bits : e[b] = 1} = {b \in Bits : g[at + b] = 1}
  BY <1>5
<1>9. Escapes(At(c), carry.escape[c])
        = [bits |-> {b \in Bits : g[at + b] = 1}, first |-> g[at + width] = 1]
  BY <1>2, <1>6, <1>7, <1>8
<1>10. QED
  BY <1>9 DEF g, EscapedHere

FoundQuotes == At("quote") \ EscapedHere("backslash")
FoundHashes == At("hash") \ EscapedHere("backslash")

\* The quotes, hashes and newlines that are not escaped open and close what is open.
LEMMA BlockOpens ==
    ASSUME Proper, InBlock
    PROVE  /\ Opens(Open, FoundQuotes, FoundHashes, At("newline"))
           /\ FoundQuotes \cap FoundHashes = {} /\ FoundQuotes \cap At("newline") = {}
           /\ FoundQuotes \subseteq Bits /\ FoundHashes \subseteq Bits
           /\ At("newline") \subseteq Bits
<1>1. TextOK
  BY DEF Proper
<1>2. /\ FoundQuotes \cap FoundHashes = {} /\ FoundQuotes \cap At("newline") = {}
      /\ FoundQuotes \subseteq Bits /\ FoundHashes \subseteq Bits
      /\ At("newline") \subseteq Bits
  BY DEF FoundQuotes, FoundHashes, At
<1>3. \A b \in 0 .. width : Open[b] \in {"code", "string", "comment"}
  <2> SUFFICES ASSUME NEW b \in 0 .. width PROVE Open[b] \in {"code", "string", "comment"}
    OBVIOUS
  <2>1. Part[at + b] \in Parts
    BY <1>1, Places, PartIs
  <2>2. QED
    BY <2>1 DEF Open, Parts
<1>4. ASSUME NEW b \in 0 .. width - 1
      PROVE  IF Open[b] = "code"
             THEN Open[b + 1] = IF b \in FoundQuotes THEN "string"
                                ELSE IF b \in FoundHashes THEN "comment" ELSE "code"
             ELSE Open[b + 1] = IF b \in Closing(Open[b], FoundQuotes, At("newline"))
                                THEN "code" ELSE Open[b]
  <2> DEFINE i == at + b
             p == Part[i]
             q == Part[i + 1]
             x == text[i]
             e == Escaped("backslash")[i]
  <2>1. b \in Bits
    BY DEF Bits
  <2>2. i \in 0 .. Size - 1 /\ i \in 0 .. Size /\ at + (b + 1) = i + 1
    BY <1>1, <2>1, Places
  <2>3. q = Moved(p, x) /\ p \in Parts
    BY <1>1, <2>2, PartIs
  <2>4. (p = "code" => e = 0) /\ (p \in {"string", "escape"} => (e = 1 <=> p = "escape"))
    BY <2>2, EscapesInText
  <2>5. /\ Open[b] = IF p = "escape" THEN "string" ELSE p
        /\ Open[b + 1] = IF q = "escape" THEN "string" ELSE q
    BY <1>1, <2>1, <2>2, Places DEF Open
  <2>6. /\ b \in FoundQuotes <=> x = "quote" /\ e # 1
        /\ b \in FoundHashes <=> x = "hash" /\ e # 1
        /\ b \in At("newline") <=> x = "newline"
    BY <2>1 DEF FoundQuotes, FoundHashes, At, EscapedHere
  <2> HIDE DEF i, p, q, x, e
  <2>7. CASE p = "code"
    BY <2>3, <2>4, <2>5, <2>6, <2>7 DEF Moved
  <2>8. CASE p = "string"
    <3>1. Open[b] = "string" /\ e # 1
      BY <2>4, <2>5, <2>8
    <3>2. Closing("string", FoundQuotes, At("newline")) = FoundQuotes
      BY DEF Closing
    <3>3. QED
      BY <2>3, <2>5, <2>6, <2>8, <3>1, <3>2 DEF Moved
  <2>9. CASE p = "escape"
    <3>1. Open[b] = "string" /\ e = 1 /\ q = "string"
      BY <2>3, <2>4, <2>5, <2>9 DEF Moved
    <3>2. Closing("string", FoundQuotes, At("newline")) = FoundQuotes
      BY DEF Closing
    <3>3. QED
      BY <2>5, <2>6, <3>1, <3>2
  <2>10. CASE p = "comment"
    <3>1. Open[b] = "comment"
      BY <2>5, <2>10
    <3>2. Closing("comment", FoundQuotes, At("newline")) = At("newline")
      BY DEF Closing
    <3>3. QED
      BY <2>3, <2>5, <2>6, <2>10, <3>1, <3>2 DEF Moved
  <2>11. QED
    BY <2>3, <2>7, <2>8, <2>9, <2>10 DEF Parts
<1> HIDE DEF Open
<1>5. QED
  BY <1>2, <1>3, <1>4 DEF Opens

\* Regions finds the quotes that delimit strings, what is in strings and what in comments.
LEMMA RegionsAre ==
    ASSUME Proper, InBlock, Carried
    PROVE  Regions(EscapedHere("backslash"))
             = [quotes |-> {b \in FoundQuotes : Open[b + 1] # Open[b]},
                strings |-> {b \in Bits : Open[b + 1] = "string"},
                comments |-> {b \in Bits : Open[b + 1] = "comment"}]
<1> DEFINE st == Open
           found == FoundQuotes
           hashes == FoundHashes
           newlines == At("newline")
           delimiters == Delimiters(found, hashes, newlines, carry.quoted, carry.comment)
           both == carry.comment \/ hashes # {}
           quotes == IF both THEN delimiters \cap found ELSE found
           opened == {b \in found : st[b + 1] # st[b]}
           strings == {b \in Bits : st[b + 1] = "string"}
           comments == {b \in Bits : st[b + 1] = "comment"}
<1>1. /\ Opens(st, found, hashes, newlines)
      /\ found \cap hashes = {} /\ found \cap newlines = {}
      /\ found \subseteq Bits /\ hashes \subseteq Bits /\ newlines \subseteq Bits
  BY BlockOpens
<1>2. width \in Nat /\ Bits = 0 .. width - 1
  BY DEF Proper, TextOK, Bits
<1>3. carry.quoted = (st[0] = "string") /\ carry.comment = (st[0] = "comment")
  BY DEF Carried
<1>4. Regions(EscapedHere("backslash")) =
        [quotes |-> quotes,
         strings |-> FlippedBy(carry.quoted, PrefixXor(quotes)),
         comments |-> IF both THEN FlippedBy(carry.comment, PrefixXor(delimiters \ quotes))
                      ELSE {}]
  BY DEF Regions, FoundQuotes, FoundHashes
<1> HIDE DEF st, found, hashes, newlines
<1>5. delimiters = Changes(st, 0)
  <2>1. Delimiters(found, hashes, newlines, carry.quoted, carry.comment) = Changes(st, 0)
    <3> HIDE DEF delimiters, both, quotes, opened, strings, comments
    <3>1. width \in Nat
      BY <1>2
    <3>2. AreDelimited(found, hashes, newlines, carry.quoted, carry.comment, st)
      BY <1>1, <1>3 DEF AreDelimited
    <3>3. QED
      BY <3>1, <3>2, DelimitersAre, SMT
  <2>2. QED
    BY <2>1
<1>6. \A b \in Bits : b \in delimiters <=> st[b + 1] # st[b]
  BY <1>2, <1>5 DEF Changes
<1> HIDE DEF delimiters
<1>7. \A b \in Bits : b \in 0 .. width - 1 /\ b \in 0 .. width /\ b + 1 \in 0 .. width
  BY <1>2
<1>8. ASSUME NEW b \in Bits
      PROVE  /\ st[b] \in {"code", "string", "comment"}
             /\ st[b + 1] \in {"code", "string", "comment"}
             /\ st[b] = "code" => st[b + 1] = IF b \in found THEN "string"
                                              ELSE IF b \in hashes THEN "comment" ELSE "code"
             /\ st[b] = "string" => st[b + 1] = IF b \in found THEN "code" ELSE "string"
             /\ st[b] = "comment" => st[b + 1] = IF b \in newlines THEN "code" ELSE "comment"
  <2>1. Closing("string", found, newlines) = found
    BY DEF Closing
  <2>2. Closing("comment", found, newlines) = newlines
    BY DEF Closing
  <2>3. IF st[b] = "code"
        THEN st[b + 1] = IF b \in found THEN "string"
                         ELSE IF b \in hashes THEN "comment" ELSE "code"
        ELSE st[b + 1] = IF b \in Closing(st[b], found, newlines) THEN "code" ELSE st[b]
    BY <1>1, <1>7 DEF Opens
  <2>4. \A d \in 0 .. width : st[d] \in {"code", "string", "comment"}
    BY <1>1 DEF Opens
  <2>5. QED
    BY <1>7, <2>1, <2>2, <2>3, <2>4
<1>9. ~both => \A b \in 0 .. width : st[b] # "comment"
  <2> SUFFICES ASSUME ~both PROVE \A b \in 0 .. width : st[b] # "comment"
    OBVIOUS
  <2> DEFINE S == {b \in 0 .. width : st[b] # "comment"}
  <2>1. 0 \in S
    <3>1. st[0] # "comment"
      BY <1>3
    <3>2. QED
      BY <1>2, <3>1
  <2>2. \A b \in 0 .. width - 1 : b \in S => b + 1 \in S
    <3> SUFFICES ASSUME NEW b \in 0 .. width - 1, b \in S PROVE b + 1 \in S
      OBVIOUS
    <3>1. b \in Bits /\ b + 1 \in 0 .. width /\ st[b] # "comment"
      BY <1>2
    <3>2. b \notin hashes
      OBVIOUS
    <3>3. st[b + 1] # "comment"
      BY <1>8, <3>1, <3>2
    <3>4. QED
      BY <3>1, <3>3
  <2>3. \A b \in 0 .. width : b \in S
    <3> HIDE DEF S
    <3>1. QED
      BY <1>2, <2>1, <2>2, Induct
  <2>4. QED
    BY <2>3
<1>10. quotes = opened
  <2>1. CASE both
    BY <1>1, <1>6, <2>1
  <2>2. CASE ~both
    <3>1. \A b \in found : b \in Bits /\ st[b] # "comment"
      BY <1>1, <1>7, <1>9, <2>2
    <3>2. \A b \in found : st[b + 1] # st[b]
      BY <1>8, <3>1
    <3>3. QED
      BY <2>2, <3>2
  <2>3. QED
    BY <2>1, <2>2
<1>11. FlippedBy(carry.quoted, PrefixXor(quotes)) = strings
  <2> DEFINE sb == [b \in 0 .. width |-> st[b] = "string"]
  <2>1. \A b \in 0 .. width : sb[b] \in BOOLEAN
    OBVIOUS
  <2>2. ASSUME NEW b \in Bits
        PROVE  sb[b + 1] <=> ~(sb[b] <=> b \in opened)
    <3>1. sb[b + 1] = (st[b + 1] = "string") /\ sb[b] = (st[b] = "string")
      BY <1>7
    <3>2. b \in opened <=> b \in found /\ st[b + 1] # st[b]
      OBVIOUS
    <3>3. b \in found => b \notin newlines
      BY <1>1
    <3>4. (st[b + 1] = "string") <=> ~((st[b] = "string") <=> b \in opened)
      BY <1>8, <3>2, <3>3
    <3>5. QED
      BY <3>1, <3>4
  <2>3. opened \subseteq Bits
    BY <1>1
  <2>4. carry.quoted = sb[0]
    BY <1>2, <1>3
  <2>5. \A b \in Bits : sb[b + 1] <=> st[b + 1] = "string"
    BY <1>7
  <2> HIDE DEF sb, opened
  <2>6. \A b \in Bits : b \in FlippedBy(sb[0], PrefixXor(opened)) <=> sb[b + 1]
    BY <1>2, <2>1, <2>2, <2>3, FlippedIs
  <2>7. FlippedBy(sb[0], PrefixXor(opened)) \subseteq Bits
    BY DEF FlippedBy, PrefixXor
  <2>8. FlippedBy(sb[0], PrefixXor(opened)) = strings
    BY <2>5, <2>6, <2>7
  <2> HIDE DEF quotes, strings
  <2>9. QED
    BY <1>10, <2>4, <2>8, Zenon
<1>12. CASE both
  <2> DEFINE sb == [b \in 0 .. width |-> st[b] = "comment"]
             mask == delimiters \ quotes
  <2>1. \A b \in 0 .. width : sb[b] \in BOOLEAN
    OBVIOUS
  <2>2. mask \cap Bits = {b \in Bits : st[b + 1] # st[b] /\ b \notin found}
    <3>1. \A b \in Bits : b \in mask <=> st[b + 1] # st[b] /\ b \notin opened
      BY <1>6, <1>10
    <3>2. QED
      BY <3>1
  <2>3. mask \subseteq Bits
    BY <1>5 DEF Changes, delimiters
  <2>4. ASSUME NEW b \in Bits
        PROVE  sb[b + 1] <=> ~(sb[b] <=> b \in mask)
    <3>1. sb[b + 1] = (st[b + 1] = "comment") /\ sb[b] = (st[b] = "comment")
      BY <1>7
    <3>2. b \in mask <=> st[b + 1] # st[b] /\ b \notin found
      BY <2>2
    <3>3. b \in found => b \notin newlines
      BY <1>1
    <3>4. (st[b + 1] = "comment") <=> ~((st[b] = "comment") <=> b \in mask)
      BY <1>8, <3>2, <3>3
    <3>5. QED
      BY <3>1, <3>4
  <2>5. carry.comment = sb[0]
    BY <1>2, <1>3
  <2>6. \A b \in Bits : sb[b + 1] <=> st[b + 1] = "comment"
    BY <1>7
  <2> HIDE DEF sb, mask
  <2>7. \A b \in Bits : b \in FlippedBy(sb[0], PrefixXor(mask)) <=> sb[b + 1]
    BY <1>2, <2>1, <2>3, <2>4, FlippedIs
  <2>8. FlippedBy(sb[0], PrefixXor(mask)) \subseteq Bits
    BY DEF FlippedBy, PrefixXor
  <2>9. FlippedBy(sb[0], PrefixXor(mask)) = comments
    BY <2>6, <2>7, <2>8
  <2> HIDE DEF quotes, strings, comments
  <2>10. FlippedBy(carry.comment, PrefixXor(delimiters \ quotes)) = comments
    BY <2>5, <2>9 DEF mask
  <2>11. QED
    BY <1>4, <1>10, <1>11, <1>12, <2>10 DEF comments, strings, st, found
<1>13. CASE ~both
  <2>1. comments = {}
    BY <1>7, <1>9, <1>13
  <2> HIDE DEF quotes, strings, comments
  <2>2. QED
    BY <1>4, <1>10, <1>11, <1>13, <2>1 DEF comments, strings, st, found
<1>14. QED
  BY <1>12, <1>13

----------------------------------------------------------------------------
(* The tokens of a block *)

\* The characters that separate tokens, and those after which one may start.
Separates(i) ==
    \/ text[i] \notin {"ident", "space"} /\ Part[i + 1] = "code"
    \/ text[i] = "quote" /\ Part[i] \in {"code", "string"}
Breaks(i) == text[i] = "space" \/ Separates(i)

\* lex_indexer_simd's choice of a character, in terms of the text.
Indexes(i) ==
    /\ \/ Separates(i)
       \/ /\ i = 0 \/ Breaks(i - 1)
          /\ text[i] # "space" /\ Part[i + 1] = "code"
    /\ ~(text[i] = "quote" /\ Part[i] = "string")
    /\ ~IsDouble(i)

\* A double is one of code, or it is no punctuation of a pair.
LEMMA NoDouble ==
    ASSUME NEW i, text[i] \notin {"lt", "gt", "eq"}
    PROVE  ~IsDouble(i)
BY DEF IsDouble, Pairs

LEMMA NoSecond ==
    ASSUME TextOK, NEW i \in 0 .. Size - 1, Part[i] # "code" \/ text[i] \notin {"lt", "gt", "eq"}
    PROVE  ~Second[i]
<1>1. Second[i] => Plain(i) /\ <<text[i - 1], text[i]>> \in Pairs
  BY SecondIs DEF Pairing
<1>2. <<text[i - 1], text[i]>> \in Pairs => text[i] \in {"lt", "gt", "eq"}
  BY DEF Pairs
<1>3. QED
  BY <1>1, <1>2 DEF Plain

\* It chooses the characters at which tokens start.
LEMMA IndexesAreStarts ==
    ASSUME Proper, ~SimdExcepted, NEW i \in 0 .. Size - 1
    PROVE  Indexes(i) <=> i \in Starts
<1> DEFINE p == Part[i]
           q == Part[i + 1]
           c == text[i]
<1>1. TextOK /\ Size \in Nat /\ DOMAIN text = 0 .. Size - 1 /\ i \in 0 .. Size
      /\ c \in Chars
  BY DEF Proper, TextOK
<1>2. q = Moved(p, c) /\ p \in Parts
  BY <1>1, PartIs
<1>3. i \in Starts <=> /\ p = "code" \/ (p = "comment" /\ c = "newline")
                       /\ c \notin {"space", "hash"} /\ ~Second[i]
                       /\ ~(c = "ident" /\ Plain(i - 1) /\ text[i - 1] = "ident")
  BY <1>1, StartsAre DEF InCode
<1>4. CASE p = "code"
  <2>1. CASE c = "quote"
    <3>1. ~IsDouble(i) /\ ~Second[i]
      BY <1>1, <2>1, NoDouble, NoSecond
    <3>2. QED
      BY <1>3, <1>4, <2>1, <3>1 DEF Indexes, Separates
  <2>2. CASE c = "hash"
    <3>1. q = "comment"
      BY <1>2, <1>4, <2>2 DEF Moved
    <3>2. QED
      BY <1>3, <1>4, <2>2, <3>1 DEF Indexes, Separates
  <2>3. CASE c = "space"
    BY <1>3, <1>4, <2>3 DEF Indexes, Separates
  <2>4. CASE c = "ident"
    <3>1. ~IsDouble(i) /\ ~Second[i] /\ q = "code"
      BY <1>1, <1>2, <1>4, <2>4, NoDouble, NoSecond DEF Moved
    <3>2. Indexes(i) <=> i = 0 \/ Breaks(i - 1)
      BY <1>4, <2>4, <3>1 DEF Indexes, Separates
    <3>3. CASE i = 0
      <4>1. ~Plain(i - 1)
        BY <1>1, <3>3 DEF Plain
      <4>2. QED
        BY <1>3, <1>4, <2>4, <3>1, <3>2, <3>3, <4>1
    <3>4. CASE i # 0
      <4> DEFINE k == i - 1
      <4>1. k \in 0 .. Size - 1 /\ k + 1 = i /\ i \in 1 .. Size
        BY <1>1, <3>4
      <4> HIDE DEF k
      <4>2. text[k] = "ident" => Plain(k)
        BY <1>1, <1>4, <4>1, CodeBefore DEF Plain, k
      <4>3. Breaks(k) <=> text[k] # "ident"
        BY <1>4, <4>1 DEF Breaks, Separates
      <4>4. QED
        BY <1>3, <1>4, <2>4, <3>1, <3>2, <3>4, <4>2, <4>3 DEF k
    <3>5. QED
      BY <3>3, <3>4
  <2>5. CASE c \notin {"quote", "hash", "space", "ident"}
    <3>1. q = "code"
      BY <1>2, <1>4, <2>5 DEF Moved
    <3>2. IsDouble(i) <=> Second[i]
      BY <1>4, DoublesInText
    <3>3. QED
      BY <1>3, <1>4, <2>5, <3>1, <3>2 DEF Indexes, Separates
  <2>6. QED
    BY <2>1, <2>2, <2>3, <2>4, <2>5
<1>5. CASE p = "comment"
  <2>1. CASE c = "newline"
    <3>1. ~IsDouble(i) /\ ~Second[i] /\ q = "code"
      BY <1>1, <1>2, <1>5, <2>1, NoDouble, NoSecond DEF Moved
    <3>2. QED
      BY <1>3, <1>5, <2>1, <3>1 DEF Indexes, Separates
  <2>2. CASE c # "newline"
    <3>1. q = "comment"
      BY <1>2, <1>5, <2>2 DEF Moved
    <3>2. QED
      BY <1>3, <1>5, <2>2, <3>1 DEF Indexes, Separates
  <2>3. QED
    BY <2>1, <2>2
<1>6. CASE p = "string"
  <2>1. CASE c = "quote"
    BY <1>3, <1>6, <2>1 DEF Indexes
  <2>2. CASE c # "quote"
    <3>1. q # "code"
      BY <1>2, <1>6, <2>2 DEF Moved
    <3>2. QED
      BY <1>3, <1>6, <2>2, <3>1 DEF Indexes, Separates
  <2>3. QED
    BY <2>1, <2>2
<1>7. CASE p = "escape"
  <2>1. q # "code"
    BY <1>2, <1>7 DEF Moved
  <2>2. QED
    BY <1>3, <1>7, <2>1 DEF Indexes, Separates
<1>8. QED
  BY <1>2, <1>4, <1>5, <1>6, <1>7 DEF Parts

\* What is at the start of a block, whatever the last one left.
Entered == Carried /\ carry.structural = (at = 0 \/ Breaks(at - 1))

BlockStarts == {b \in Bits : at + b \in Starts}
Held ==
    IF carry.start # 0 THEN {carry.start} \cup BlockStarts
    ELSE IF BlockStarts = {} THEN {width} ELSE BlockStarts

Written(offsets) == out \o [n \in 1 .. Len(offsets) - 1 |-> at + offsets[n]]
Left(offsets) ==
    [quoted |-> Open[width] = "string", comment |-> Open[width] = "comment",
     structural |-> Breaks(at + width - 1), start |-> offsets[Len(offsets)] - width,
     escape |-> [c \in Escaping |-> Escaped(c)[at + width] = 1]]

\* A block writes the tokens that start in it.
LEMMA BlockIs ==
    ASSUME Proper, InBlock, Entered, ~SimdExcepted, SimdBlock
    PROVE  out' = Written(Ascending(Held)) /\ carry' = Left(Ascending(Held))
<1> DEFINE escapes == [c \in Escaping |-> Escapes(At(c), carry.escape[c])]
           regions == Regions(escapes["backslash"].bits)
           code == Bits \ (regions.strings \cup regions.comments)
           punct == Bits \ (At("ident") \cup At("space"))
           separators == (punct \cap code) \cup regions.quotes
           breaks == separators \cup At("space")
           follow == Shifted(breaks) \cup (IF carry.structural THEN {0} ELSE {})
           starts == separators \cup ((follow \ At("space")) \cap code)
           closing == regions.quotes \ regions.strings
           indexes == (starts \ closing) \ Doubles(escapes)
           offsets == Ascending(
               IF carry.start # 0 THEN {carry.start} \cup indexes
               ELSE IF indexes = {} THEN {width} ELSE indexes)
<1>1. /\ out' = out \o [n \in 1 .. Len(offsets) - 1 |-> at + offsets[n]]
      /\ carry' = [quoted |-> width - 1 \in regions.strings,
                   comment |-> width - 1 \in regions.comments,
                   structural |-> width - 1 \in breaks,
                   start |-> offsets[Len(offsets)] - width,
                   escape |-> [c \in Escaping |-> escapes[c].first]]
  BY DEF SimdBlock
<1>2. TextOK /\ width \in Nat /\ width >= 2 /\ Bits = 0 .. width - 1 /\ Size \in Nat
      /\ at \in Nat /\ at + width <= Size /\ text \in [0 .. Size - 1 -> Chars]
  BY DEF Proper, TextOK, Bits, InBlock
<1>3. Carried /\ carry.structural = (at = 0 \/ Breaks(at - 1))
  BY DEF Entered
<1>4. ASSUME NEW c \in Escaping
      PROVE  escapes[c] = [bits |-> EscapedHere(c), first |-> Escaped(c)[at + width] = 1]
  BY <1>2, <1>3, EscapesHere
<1>5. "backslash" \in Escaping /\ \A p \in Pairs : p[1] \in Escaping
  BY DEF Escaping, Pairs
<1> DEFINE quotesHere == {b \in FoundQuotes : Open[b + 1] # Open[b]}
           stringsHere == {b \in Bits : Open[b + 1] = "string"}
           commentsHere == {b \in Bits : Open[b + 1] = "comment"}
<1>6. regions.quotes = quotesHere /\ regions.strings = stringsHere
      /\ regions.comments = commentsHere
  <2>1. escapes["backslash"].bits = EscapedHere("backslash")
    <3> HIDE DEF escapes
    <3>1. escapes["backslash"] = [bits |-> EscapedHere("backslash"),
                                  first |-> Escaped("backslash")[at + width] = 1]
      BY <1>4, <1>5
    <3>2. QED
      BY <3>1
  <2> HIDE DEF quotesHere, stringsHere, commentsHere
  <2>2. Regions(EscapedHere("backslash"))
          = [quotes |-> quotesHere, strings |-> stringsHere, comments |-> commentsHere]
    BY <1>3, RegionsAre DEF quotesHere, stringsHere, commentsHere
  <2> HIDE DEF escapes
  <2>3. QED
    BY <2>1, <2>2
<1> HIDE DEF regions
<1>7. ASSUME NEW b \in Bits
      PROVE  /\ b \in regions.quotes <=> text[at + b] = "quote" /\ Part[at + b] \in {"code", "string"}
             /\ b \in regions.strings <=> Part[at + b + 1] \in {"string", "escape"}
             /\ b \in regions.comments <=> Part[at + b + 1] = "comment"
             /\ b \in code <=> Part[at + b + 1] = "code"
             /\ b \in separators <=> Separates(at + b)
             /\ b \in breaks <=> Breaks(at + b)
  <2> DEFINE i == at + b
             p == Part[i]
             q == Part[i + 1]
             e == Escaped("backslash")[i]
  <2>1. i \in 0 .. Size - 1 /\ i \in 0 .. Size /\ i + 1 \in 0 .. Size /\ at + (b + 1) = i + 1
        /\ b \in 0 .. width /\ b + 1 \in 0 .. width
    BY <1>2, Places
  <2>2. q = Moved(p, text[i]) /\ p \in Parts /\ q \in Parts
    BY <1>2, <2>1, PartIs
  <2>3. Open[b] = (IF p = "escape" THEN "string" ELSE p)
        /\ Open[b + 1] = (IF q = "escape" THEN "string" ELSE q)
    BY <2>1 DEF Open
  <2>4. /\ p = "code" => e = 0
        /\ p \in {"string", "escape"} => (e = 1 <=> p = "escape")
    BY <2>1, EscapesInText
  <2>5. b \in FoundQuotes <=> text[i] = "quote" /\ e # 1
    BY DEF FoundQuotes, At, EscapedHere
  <2> HIDE DEF e, p, q, i
  <2>6. b \in regions.quotes <=> text[i] = "quote" /\ p \in {"code", "string"}
    <3>1. b \in regions.quotes <=> b \in FoundQuotes /\ Open[b + 1] # Open[b]
      BY <1>6
    <3>2. QED
      BY <2>2, <2>3, <2>4, <2>5, <3>1 DEF Moved, Parts
  <2>7. b \in regions.strings <=> q \in {"string", "escape"}
    BY <1>6, <2>2, <2>3 DEF Parts
  <2>8. b \in regions.comments <=> q = "comment"
    BY <1>6, <2>2, <2>3 DEF Parts
  <2>9. b \in code <=> q = "code"
    BY <2>2, <2>7, <2>8 DEF Parts
  <2>10. b \in punct <=> text[i] \notin {"ident", "space"}
    BY DEF At, i
  <2>11. b \in separators <=> Separates(i)
    BY <2>6, <2>9, <2>10 DEF Separates, p, q
  <2>12. b \in breaks <=> Breaks(i)
    BY <2>11 DEF Breaks, At, i
  <2>13. QED
    BY <2>6, <2>7, <2>8, <2>9, <2>11, <2>12 DEF p, q, i
<1>8. ASSUME NEW b \in Bits
      PROVE  b \in indexes <=> Indexes(at + b)
  <2> DEFINE i == at + b
  <2>1. i \in 0 .. Size - 1 /\ i \in Nat /\ (i = 0 <=> at = 0 /\ b = 0)
    BY <1>2
  <2>2. b \in Doubles(escapes) <=> IsDouble(i)
    <3>1. \A p \in Pairs : b \in escapes[p[1]].bits \cap At(p[2])
                              <=> text[i] = p[2] /\ Escaped(p[1])[i] = 1
      <4> SUFFICES ASSUME NEW p \in Pairs
                   PROVE  b \in escapes[p[1]].bits \cap At(p[2])
                              <=> text[i] = p[2] /\ Escaped(p[1])[i] = 1
        OBVIOUS
      <4> DEFINE c == p[1]
      <4> HIDE DEF escapes
      <4>1. c \in Escaping
        BY <1>5
      <4> HIDE DEF c
      <4>2. escapes[c] = [bits |-> EscapedHere(c), first |-> Escaped(c)[at + width] = 1]
        BY <1>4, <4>1
      <4>3. escapes[c].bits = EscapedHere(c)
        BY <4>2
      <4>4. b \in EscapedHere(c) <=> Escaped(c)[i] = 1
        BY DEF EscapedHere
      <4>5. b \in At(p[2]) <=> text[i] = p[2]
        BY DEF At
      <4>6. QED
        BY <4>3, <4>4, <4>5 DEF c
    <3> HIDE DEF escapes
    <3>2. QED
      BY <3>1 DEF Doubles, IsDouble
  <2>3. b \in follow <=> i = 0 \/ Breaks(i - 1)
    <3>1. breaks \subseteq Bits
      <4>1. regions.quotes \subseteq Bits
        BY <1>6 DEF FoundQuotes, At
      <4>2. QED
        BY <4>1 DEF breaks, At
    <3> HIDE DEF breaks
    <3>2. CASE b = 0
      <4>1. b \notin Shifted(breaks)
        <5>1. \A d \in breaks : d + 1 # 0
          BY <1>2, <3>1
        <5>2. QED
          BY <3>2, <5>1 DEF Shifted
      <4>2. at = i /\ at - 1 = i - 1
        BY <1>2, <3>2
      <4>3. carry.structural <=> (i = 0 \/ Breaks(i - 1))
        BY <1>3, <4>2
      <4>4. QED
        BY <3>2, <4>1, <4>3
    <3>3. CASE b # 0
      <4>1. b - 1 \in Bits /\ at + (b - 1) = i - 1 /\ i # 0
        BY <1>2, <3>3
      <4>2. b \in Shifted(breaks) <=> b - 1 \in breaks
        <5>1. \A d \in breaks : d \in Int /\ (d + 1 = b <=> d = b - 1)
          BY <1>2, <3>1
        <5>2. QED
          BY <5>1, <4>1 DEF Shifted
      <4> DEFINE d == b - 1
      <4> HIDE DEF d
      <4>3. d \in Bits /\ at + d = i - 1 /\ (b \in Shifted(breaks) <=> d \in breaks)
        BY <4>1, <4>2 DEF d
      <4>4. d \in breaks <=> Breaks(at + d)
        BY <1>7, <4>3 DEF breaks
      <4>5. QED
        BY <3>3, <4>1, <4>3, <4>4
    <3>4. QED
      BY <3>2, <3>3
  <2>4. b \in At("space") <=> text[i] = "space"
    BY DEF At
  <2>5. /\ b \in separators <=> Separates(i)
        /\ b \in code <=> Part[i + 1] = "code"
        /\ b \in regions.quotes <=> text[i] = "quote" /\ Part[i] \in {"code", "string"}
        /\ b \in regions.strings <=> Part[i + 1] \in {"string", "escape"}
    BY <1>7
  <2>6. b \in closing <=> text[i] = "quote" /\ Part[i] = "string"
    <3>1. Part[i + 1] = Moved(Part[i], text[i])
      BY <1>2, <2>1, PartIs
    <3>2. QED
      BY <2>5, <3>1 DEF Moved
  <2> HIDE DEF separators, follow, code, closing, i, escapes
  <2>7. b \in starts <=> Separates(i) \/ ((i = 0 \/ Breaks(i - 1))
                                         /\ text[i] # "space" /\ Part[i + 1] = "code")
    BY <2>3, <2>4, <2>5
  <2>8. b \in indexes <=> Indexes(i)
    BY <2>2, <2>6, <2>7 DEF Indexes
  <2>9. QED
    BY <2>8 DEF i
<1>9. indexes = BlockStarts
  <2>1. indexes \subseteq Bits
    <3>1. regions.quotes \subseteq Bits
      BY <1>6 DEF FoundQuotes, At
    <3>2. QED
      BY <3>1
  <2>2. \A b \in Bits : b \in indexes <=> at + b \in Starts
    <3> SUFFICES ASSUME NEW b \in Bits PROVE b \in indexes <=> at + b \in Starts
      OBVIOUS
    <3>1. at + b \in 0 .. Size - 1
      BY <1>2
    <3> HIDE DEF indexes
    <3>2. QED
      BY <1>8, <3>1, IndexesAreStarts
  <2> HIDE DEF indexes
  <2>3. QED
    BY <2>1, <2>2 DEF BlockStarts
<1>10. offsets = Ascending(Held)
  <2> HIDE DEF indexes
  <2>1. QED
    BY <1>9 DEF Held
<1>11. [c \in Escaping |-> escapes[c].first] = [c \in Escaping |-> Escaped(c)[at + width] = 1]
  <2>1. \A c \in Escaping : escapes[c].first = (Escaped(c)[at + width] = 1)
    <3> SUFFICES ASSUME NEW c \in Escaping
                 PROVE  escapes[c].first = (Escaped(c)[at + width] = 1)
      OBVIOUS
    <3> HIDE DEF escapes
    <3>1. escapes[c] = [bits |-> EscapedHere(c), first |-> Escaped(c)[at + width] = 1]
      BY <1>4
    <3>2. QED
      BY <3>1
  <2> HIDE DEF escapes
  <2>2. QED
    BY <2>1, Zenon
<1>12. width - 1 \in Bits /\ at + (width - 1) = at + width - 1
       /\ (width - 1) + 1 = width /\ (at + width - 1) + 1 = at + width
  BY <1>2
<1>13. /\ (width - 1 \in regions.strings) = (Open[width] = "string")
       /\ (width - 1 \in regions.comments) = (Open[width] = "comment")
  BY <1>6, <1>12
<1>14. (width - 1 \in breaks) = Breaks(at + width - 1)
  <2> DEFINE b == width - 1
  <2> HIDE DEF b
  <2>1. b \in Bits /\ at + b = at + width - 1
    BY <1>12 DEF b
  <2>2. b \in breaks <=> Breaks(at + b)
    BY <1>7, <2>1
  <2>3. (b \in breaks) = Breaks(at + b)
    BY <2>2 DEF Breaks
  <2> HIDE DEF breaks
  <2>4. QED
    BY <2>1, <2>3 DEF b
<1> HIDE DEF offsets, breaks, escapes
<1>15. carry' = Left(offsets)
  BY <1>1, <1>11, <1>13, <1>14, Zenon DEF Left
<1>16. QED
  BY <1>1, <1>10, <1>15 DEF Written

LEMMA SameText ==
    ASSUME text' = text, width' = width
    PROVE  /\ Size' = Size /\ Part' = Part /\ Starts' = Starts /\ Second' = Second
           /\ \A c : Escaped(c)' = Escaped(c)
           /\ TextOK' = TextOK /\ Lexical' = Lexical /\ SimdExcepted' = SimdExcepted
           /\ FallbackExcepted' = FallbackExcepted
<1>1. Size' = Size
  BY DEF Size
<1>2. Part' = Part
  BY <1>1 DEF Part
<1>3. Starts' = Starts
  BY <1>1, <1>2 DEF Starts
<1>4. Second' = Second
  BY <1>1, <1>2 DEF Second, IsSecond, Plain
<1>5. ASSUME NEW c PROVE Escaped(c)' = Escaped(c)
  BY <1>1, <1>2 DEF Escaped, EscapeRule
<1>6. TextOK' = TextOK
  BY <1>1 DEF TextOK, End
<1>7. Lexical' = Lexical 
  BY <1>1, <1>2 DEF Lexical
<1>8. SimdExcepted' = SimdExcepted 
  BY <1>1, <1>2, <1>3 DEF SimdExcepted
<1>9. FallbackExcepted' = FallbackExcepted 
  BY <1>1, <1>2 DEF FallbackExcepted
<1>10. QED
  BY <1>1, <1>2, <1>3, <1>4, <1>5, <1>6, <1>7, <1>8, <1>9

----------------------------------------------------------------------------
(* From block to block *)

\* What the block indexer knows between blocks: what is open, and which token is not written.
SimdInv ==
    /\ at \in Nat /\ at % width = 0 /\ at <= Size
    /\ Entered
    /\ carry.start \in Int /\ carry.start <= 0
    /\ carry.start # 0 => at + carry.start \in Starts
    /\ \A i \in Starts : i < at => carry.start # 0 /\ i <= at + carry.start
    /\ Ascends(out, {i \in Starts : i < at + carry.start})

\* A multiple leaves no remainder.
LEMMA Multiple ==
    ASSUME NEW w \in Nat, w > 0, NEW k \in Nat
    PROVE  (w * k) % w = 0
<1> DEFINE q == (w * k) \div w
           r == (w * k) % w
<1>1. w * k \in Nat
  OBVIOUS
<1>2. w * k = w * q + r /\ q \in Int /\ r \in 0 .. w - 1
  BY <1>1
<1> HIDE DEF q, r
<1>3. w * (k - q) = r
  BY <1>2
<1> DEFINE d == k - q
<1>4. d \in Int /\ w * d = r
  BY <1>2, <1>3
<1> HIDE DEF d
<1>5. ~(d >= 1)
  <2> SUFFICES ASSUME d >= 1 PROVE FALSE
    OBVIOUS
  <2>1. w * d >= w
    BY <1>4
  <2>2. QED
    BY <1>2, <1>4, <2>1
<1>6. ~(d <= -1)
  <2> SUFFICES ASSUME d <= -1 PROVE FALSE
    OBVIOUS
  <2>1. w * d <= 0 - w
    BY <1>4
  <2>2. QED
    BY <1>2, <1>4, <2>1
<1>7. d = 0
  BY <1>4, <1>5, <1>6
<1>8. r = 0
  BY <1>4, <1>7
<1>9. QED
  BY <1>8 DEF r

\* Blocks do not stand across the end of the text.
LEMMA WholeBlocks ==
    ASSUME NEW w \in Nat, w > 0, NEW a \in Nat, NEW s \in Nat,
           a % w = 0, s % w = 0, a < s
    PROVE  a + w <= s /\ (a + w) % w = 0
<1>1. a = w * (a \div w) /\ s = w * (s \div w) /\ a \div w \in Nat /\ s \div w \in Nat
  OBVIOUS
<1> DEFINE k == a \div w
           m == s \div w
<1> HIDE DEF k, m
<1>2. a = w * k /\ s = w * m /\ k \in Nat /\ m \in Nat
  BY <1>1 DEF k, m
<1>3. k < m
  <2> SUFFICES ASSUME m <= k PROVE FALSE
    BY <1>2
  <2>1. w * m <= w * k
    BY <1>2
  <2>2. QED
    BY <1>2, <2>1
<1>4. w * (k + 1) <= w * m /\ w * (k + 1) = w * k + w
  BY <1>2, <1>3
<1>5. (a + w) % w = 0
  <2>1. (w * (k + 1)) % w = 0
    <3> DEFINE n == k + 1
    <3>1. n \in Nat
      BY <1>2
    <3> HIDE DEF n
    <3>2. (w * n) % w = 0
      BY <3>1, Multiple
    <3>3. QED
      BY <3>2 DEF n
  <2>2. a + w = w * (k + 1)
    BY <1>2, <1>4
  <2>3. QED
    BY <2>1, <2>2
<1>6. QED
  BY <1>2, <1>4, <1>5

\* The last of what a block holds stays behind.
LEMMA AscendsButLast ==
    ASSUME NEW S, NEW s, Ascends(s, S), Len(s) > 0
    PROVE  {s[n] : n \in 1 .. Len(s) - 1} = {x \in S : x < s[Len(s)]}
<1>1. DOMAIN s = 1 .. Len(s) /\ Len(s) \in Nat /\ \A n \in 1 .. Len(s) : s[n] \in Int
  BY DEF Ascends
<1>2. \A n \in 1 .. Len(s) - 1 : s[n] \in S /\ s[n] < s[Len(s)]
  BY <1>1 DEF Ascends
<1>3. ASSUME NEW x \in S, x < s[Len(s)]
      PROVE  \E n \in 1 .. Len(s) - 1 : x = s[n]
  <2>1. PICK n \in DOMAIN s : s[n] = x
    BY DEF Ascends
  <2>2. n # Len(s)
    BY <1>1, <1>3, <2>1
  <2>3. QED
    BY <1>1, <2>1, <2>2
<1>4. QED
  BY <1>2, <1>3

LEMMA WrittenIs ==
    ASSUME NEW A, Ascends(out, A), NEW H, NEW s, Ascends(s, H), Len(s) > 0, at \in Int,
           \A x \in A : \A y \in H : x < at + y
    PROVE  Ascends(Written(s), A \cup {at + x : x \in {y \in H : y < s[Len(s)]}})
<1> DEFINE k == Len(s) - 1
           t == [n \in 1 .. k |-> at + s[n]]
           T == {at + s[n] : n \in 1 .. k}
<1>1. k \in 0 .. Len(s) /\ DOMAIN s = 1 .. Len(s) /\ Len(s) \in Nat
      /\ \A n \in 1 .. Len(s) : s[n] \in Int /\ s[n] \in H
  BY DEF Ascends
<1>2. Ascends(t, T)
  <2> HIDE DEF k
  <2>1. QED
    BY <1>1, AscendsShift
<1>3. \A x \in A : \A y \in T : x < y
  BY <1>1
<1>4. Ascends(out \o t, A \cup T)
  <2> HIDE DEF t, T
  <2>1. QED
    BY <1>2, <1>3, AscendsConcat
<1>5. T = {at + x : x \in {y \in H : y < s[Len(s)]}}
  <2>1. {s[n] : n \in 1 .. k} = {y \in H : y < s[Len(s)]}
    BY AscendsButLast
  <2>2. T = {at + x : x \in {s[n] : n \in 1 .. k}}
    <3> HIDE DEF k
    <3>1. QED
      OBVIOUS
  <2>3. QED
    BY <2>1, <2>2
<1>6. QED
  BY <1>4, <1>5 DEF Written

\* What is held back is in order, with the last token of the blocks before.
LEMMA HeldIs ==
    ASSUME Proper, InBlock, SimdInv
    PROVE  /\ Held \subseteq Int /\ IsFiniteSet(Held) /\ Held # {}
           /\ BlockStarts \subseteq 0 .. width - 1
<1>1. width \in Nat /\ width >= 2 /\ Bits = 0 .. width - 1
  BY DEF Proper, TextOK, Bits
<1>2. BlockStarts \subseteq 0 .. width - 1
  BY <1>1 DEF BlockStarts
<1>3. IsFiniteSet(BlockStarts)
  <2> DEFINE last == width - 1
  <2>1. last \in Int /\ 0 \in Int
    BY <1>1
  <2> HIDE DEF last
  <2>2. IsFiniteSet(0 .. last)
    BY <2>1, FS_Interval
  <2>3. BlockStarts \subseteq 0 .. last
    BY <1>2 DEF last
  <2>4. QED
    BY <2>2, <2>3, FS_Subset
<1>4. IsFiniteSet({carry.start} \cup BlockStarts)
  <2>1. IsFiniteSet({carry.start})
    BY FS_Singleton
  <2>2. QED
    BY <1>3, <2>1, FS_Union
<1>5. IsFiniteSet({width})
  BY FS_Singleton
<1>6. carry.start \in Int
  BY DEF SimdInv
<1>7. \/ Held = {carry.start} \cup BlockStarts
      \/ Held = {width}
      \/ Held = BlockStarts /\ BlockStarts # {}
  BY DEF Held
<1>8. IsFiniteSet(Held)
  BY <1>3, <1>4, <1>5, <1>7
<1>9. Held \subseteq Int /\ Held # {}
  <2>1. BlockStarts \subseteq Int
    BY <1>1, <1>2
  <2>2. {carry.start} \subseteq Int /\ {width} \subseteq Int
    BY <1>1, <1>6
  <2>3. QED
    BY <1>7, <2>1, <2>2, Zenon
<1>10. QED
  BY <1>2, <1>8, <1>9

\* What the last of the held is: the last token so far, or nothing yet.
LEMMA HeldLast ==
    ASSUME Proper, InBlock, SimdInv, NEW last \in Held, \A x \in Held : x <= last
    PROVE  /\ last - width \in Int /\ last - width <= 0
           /\ last - width # 0 => at + last \in Starts
           /\ \A i \in Starts : i < at + width => last - width # 0 /\ i <= at + last
           /\ {i \in Starts : i < at + carry.start}
                \cup {at + x : x \in {y \in Held : y < last}}
                = {i \in Starts : i < at + last}
           /\ \A x \in {i \in Starts : i < at + carry.start} : \A y \in Held : x < at + y
<1> DEFINE start == carry.start
           B == BlockStarts
<1>1. /\ width \in Nat /\ width >= 2 /\ at \in Nat /\ Size \in Nat
      /\ Starts \subseteq 0 .. Size - 1
  <2>1. Starts \subseteq DOMAIN text
    BY StartsAre
  <2>2. QED
    BY <2>1 DEF Proper, TextOK, SimdInv
<1>2. /\ start \in Int /\ start <= 0 /\ (start # 0 => at + start \in Starts)
      /\ \A i \in Starts : i < at => start # 0 /\ i <= at + start
  BY DEF SimdInv
<1>3. B \subseteq 0 .. width - 1
  BY <1>1 DEF BlockStarts, Bits
<1>4. \A b \in B : at + b \in Starts
  BY DEF BlockStarts
<1>5. \A i \in Starts : i >= at /\ i < at + width => i - at \in B /\ at + (i - at) = i
  BY <1>1 DEF BlockStarts, Bits
<1>6. /\ \A b \in B : b \in Int /\ 0 <= b /\ b < width
      /\ \A i \in Starts : i \in Int /\ 0 <= i
  BY <1>1, <1>3
<1>7. Held = IF start # 0 THEN {start} \cup B ELSE IF B = {} THEN {width} ELSE B
  BY DEF Held
<1> SUFFICES /\ last - width \in Int /\ last - width <= 0
             /\ last - width # 0 => at + last \in Starts
             /\ \A i \in Starts : i < at + width => last - width # 0 /\ i <= at + last
             /\ {i \in Starts : i < at + start}
                  \cup {at + x : x \in {y \in Held : y < last}}
                  = {i \in Starts : i < at + last}
             /\ \A x \in {i \in Starts : i < at + start} : \A y \in Held : x < at + y
  OBVIOUS
<1> HIDE DEF start, B
<1>8. CASE start # 0
  <2>1. Held = {start} \cup B
    BY <1>8, <1>7
  <2>2. last \in Int /\ last < width /\ (last = start \/ last \in B) /\ start <= last
    BY <1>1, <1>2, <1>8, <1>6, <2>1
  <2>3. at + last \in Starts
    BY <1>2, <1>4, <1>8, <2>2
  <2>4. ASSUME NEW i \in Starts, i < at + width PROVE i <= at + last
    <3>1. CASE i < at
      BY <1>1, <1>2, <2>2, <3>1
    <3>2. CASE i >= at
      <4>1. i - at \in Held
        BY <1>5, <2>1, <2>4, <3>2
      <4>2. i - at <= last /\ i \in Int
        BY <1>1, <4>1
      <4>3. QED
        BY <1>1, <2>2, <4>2
    <3>3. QED
      BY <1>1, <3>1, <3>2
  <2>5. ASSUME NEW i
        PROVE  (i \in Starts /\ i < at + start) \/ (\E y \in Held : y < last /\ i = at + y)
                 <=> i \in Starts /\ i < at + last
    <3>1. ASSUME i \in Starts, i < at + start PROVE i < at + last
      BY <1>1, <1>2, <2>2, <3>1
    <3>2. ASSUME NEW y \in Held, y < last, i = at + y
          PROVE  i \in Starts /\ i < at + last
      <4>1. y \in Int /\ at + y \in Starts
        BY <1>2, <1>4, <1>8, <1>6, <2>1
      <4>2. QED
        BY <1>1, <2>2, <3>2, <4>1
    <3>3. ASSUME i \in Starts, i < at + last, ~(i < at + start)
          PROVE  \E y \in Held : y < last /\ i = at + y
      <4>1. i \in Int
        BY <1>1, <3>3
      <4>2. CASE i < at
        <5>1. i = at + start
          BY <1>1, <1>2, <3>3, <4>1, <4>2
        <5>2. start < last
          BY <1>1, <1>2, <2>2, <3>3, <5>1
        <5>3. QED
          BY <2>1, <5>1, <5>2
      <4>3. CASE i >= at
        <5>1. i < at + width
          BY <1>1, <2>2, <3>3, <4>1
        <5>2. i - at \in Held /\ at + (i - at) = i /\ i - at < last
          BY <1>1, <1>5, <2>1, <2>2, <3>3, <4>1, <4>3, <5>1
        <5>3. QED
          BY <5>2
      <4>4. QED
        BY <1>1, <4>1, <4>2, <4>3
    <3>4. QED
      BY <3>1, <3>2, <3>3
  <2>6. {i \in Starts : i < at + start} \cup {at + x : x \in {y \in Held : y < last}}
          = {i \in Starts : i < at + last}
    <3> HIDE DEF start
    <3>1. QED
      BY <2>5
  <2>7. \A x \in {i \in Starts : i < at + start} : \A y \in Held : x < at + y
    <3> SUFFICES ASSUME NEW x \in Starts, x < at + start, NEW y \in Held PROVE x < at + y
      OBVIOUS
    <3>1. x \in Int /\ y \in Int /\ start <= y
      BY <1>2, <1>6, <2>1
    <3>2. QED
      BY <1>1, <1>2, <3>1
  <2>8. QED
    BY <1>1, <2>2, <2>3, <2>4, <2>6, <2>7
<1>9. CASE start = 0
  <2>1. {i \in Starts : i < at + start} = {}
    <3>1. \A i \in Starts : ~(i < at + start)
      BY <1>1, <1>2, <1>9, <1>6
    <3>2. QED
      BY <3>1
  <2>2. CASE B = {}
    <3>1. Held = {width} /\ last = width
      BY <1>9, <1>7, <2>2
    <3>2. \A i \in Starts : ~(i < at + width)
      BY <1>1, <1>2, <1>5, <1>9, <1>6, <2>2
    <3>3. {at + x : x \in {y \in Held : y < last}} = {}
      BY <1>1, <3>1
    <3>4. {i \in Starts : i < at + last} = {}
      BY <3>1, <3>2
    <3>5. last - width = 0
      BY <1>1, <3>1
    <3>6. QED
      BY <2>1, <3>2, <3>3, <3>4, <3>5
  <2>3. CASE B # {}
    <3>1. Held = B /\ last \in B
      BY <1>9, <1>7, <2>3
    <3>2. last \in 0 .. width - 1 /\ at + last \in Starts
      BY <1>3, <1>4, <3>1
    <3>3. \A i \in Starts : i >= at
      BY <1>1, <1>2, <1>9
    <3>4. ASSUME NEW i \in Starts, i < at + width PROVE i <= at + last
      <4>1. i - at \in Held /\ i \in Int
        BY <1>1, <1>5, <3>1, <3>3, <3>4
      <4>2. i - at <= last
        BY <4>1
      <4>3. QED
        BY <1>1, <3>2, <4>1, <4>2
    <3>5. ASSUME NEW i
          PROVE  (\E y \in Held : y < last /\ i = at + y) <=> i \in Starts /\ i < at + last
      <4>1. ASSUME NEW y \in Held, y < last, i = at + y
            PROVE  i \in Starts /\ i < at + last
        BY <1>1, <1>3, <1>4, <3>1, <3>2, <4>1
      <4>2. ASSUME i \in Starts, i < at + last
            PROVE  \E y \in Held : y < last /\ i = at + y
        <5>1. i \in Int /\ i >= at /\ i < at + width
          BY <1>1, <3>2, <3>3, <4>2
        <5>2. i - at \in Held /\ at + (i - at) = i /\ i - at < last
          BY <1>1, <1>5, <3>1, <3>2, <4>2, <5>1
        <5>3. QED
          BY <5>2
      <4>3. QED
        BY <4>1, <4>2
    <3>6. {at + x : x \in {y \in Held : y < last}} = {i \in Starts : i < at + last}
      BY <3>5
    <3>7. last - width # 0 /\ last - width <= 0 /\ last - width \in Int
      BY <1>1, <3>2
    <3>8. QED
      BY <2>1, <3>2, <3>4, <3>6, <3>7
  <2>4. QED
    BY <2>2, <2>3
<1>10. QED
  BY <1>8, <1>9

\* Each block keeps what the block indexer knows.
LEMMA BlockStep ==
    ASSUME Proper, SimdInv, ~SimdExcepted, SimdBlock
    PROVE  SimdInv'
<1>1. /\ text' = text /\ width' = width /\ at' = at + width /\ at < Size
  BY DEF SimdBlock
<1>2. TextOK /\ width \in Nat /\ width >= 2 /\ Size \in Nat /\ Size % width = 0 /\ at \in Nat
  BY DEF Proper, TextOK, SimdInv
<1>3. at + width <= Size /\ (at + width) % width = 0
  BY <1>1, <1>2, WholeBlocks DEF SimdInv
<1>4. InBlock /\ Entered
  BY <1>2, <1>3 DEF InBlock, SimdInv
<1> DEFINE s == Ascending(Held)
           last == s[Len(s)]
<1>5. out' = Written(s) /\ carry' = Left(s)
  BY <1>4, BlockIs
<1>6. Ascends(s, Held) /\ Len(s) > 0
  <2>1. Held \subseteq Int /\ IsFiniteSet(Held) /\ Held # {}
    BY <1>4, HeldIs
  <2>2. Cardinality(Held) # 0 /\ Cardinality(Held) \in Nat
    BY <2>1, FS_EmptySet, FS_CardinalityType
  <2>3. Ascends(s, Held) /\ Len(s) = Cardinality(Held)
    BY <2>1, AscendingAscends
  <2>4. QED
    BY <2>2, <2>3
<1> HIDE DEF s
<1>7. last \in Held /\ \A x \in Held : x <= last
  BY <1>6, AscendsLast
<1> HIDE DEF last
<1>8. /\ last - width \in Int /\ last - width <= 0
      /\ last - width # 0 => at + last \in Starts
      /\ \A i \in Starts : i < at + width => last - width # 0 /\ i <= at + last
      /\ {i \in Starts : i < at + carry.start}
           \cup {at + x : x \in {y \in Held : y < last}}
           = {i \in Starts : i < at + last}
      /\ \A x \in {i \in Starts : i < at + carry.start} : \A y \in Held : x < at + y
  BY <1>4, <1>7, HeldLast
<1>9. last \in Int /\ at + last = at' + (last - width)
  <2>1. last \in Int
    BY <1>4, <1>7, HeldIs
  <2>2. QED
    BY <1>1, <1>2, <2>1
<1>10. Ascends(Written(s), {i \in Starts : i < at + last})
  <2> DEFINE A == {i \in Starts : i < at + carry.start}
  <2>1. Ascends(out, A)
    BY DEF SimdInv
  <2>2. \A x \in A : \A y \in Held : x < at + y
    BY <1>8
  <2>3. at \in Int
    BY <1>2
  <2> HIDE DEF A
  <2>4. Ascends(Written(s), A \cup {at + x : x \in {y \in Held : y < s[Len(s)]}})
    BY <1>6, <2>1, <2>2, <2>3, WrittenIs
  <2>5. QED
    BY <1>8, <2>4 DEF A, last
<1>11. Size' = Size /\ Part' = Part /\ Starts' = Starts
       /\ \A c \in Escaping : Escaped(c)' = Escaped(c)
  BY <1>1, SameText
<1>12. carry'.start = last - width
  BY <1>5 DEF Left, last
<1>13. Entered'
  <2>1. Open'[0] = Open[width]
    <3>1. Open[width] = IF Part[at + width] = "escape" THEN "string" ELSE Part[at + width]
      BY <1>2 DEF Open
    <3>2. at' + 0 = at + width /\ 0 \in 0 .. width'
      BY <1>1, <1>2
    <3>3. Open'[0] = IF Part'[at' + 0] = "escape" THEN "string" ELSE Part'[at' + 0]
      BY <3>2 DEF Open
    <3>4. QED
      BY <1>11, <3>1, <3>2, <3>3
  <2>2. carry'.quoted = (Open[width] = "string") /\ carry'.comment = (Open[width] = "comment")
    BY <1>5 DEF Left
  <2>3. ASSUME NEW c \in Escaping
        PROVE  carry'.escape[c] = (Escaped(c)'[at'] = 1)
    <3>1. carry'.escape = [d \in Escaping |-> Escaped(d)[at + width] = 1]
      BY <1>5 DEF Left
    <3>2. carry'.escape[c] = (Escaped(c)[at + width] = 1)
      BY <3>1
    <3>3. Escaped(c)' = Escaped(c)
      BY <1>11
    <3>4. QED
      BY <1>1, <3>2, <3>3
  <2>4. carry'.structural = Breaks(at + width - 1)
    BY <1>5 DEF Left
  <2>5. Breaks(at - 1)' = Breaks(at + width - 1)
    <3>1. at' - 1 = at + width - 1
      BY <1>1, <1>2
    <3> DEFINE i == at' - 1
               j == at + width - 1
    <3> HIDE DEF i, j
    <3>2. i = j
      BY <3>1 DEF i, j
    <3>3. Breaks(at - 1)' <=> \/ text'[i] = "space"
                              \/ text'[i] \notin {"ident", "space"} /\ Part'[i + 1] = "code"
                              \/ text'[i] = "quote" /\ Part'[i] \in {"code", "string"}
      BY DEF Breaks, Separates, i
    <3>4. Breaks(j) <=> \/ text[j] = "space"
                        \/ text[j] \notin {"ident", "space"} /\ Part[j + 1] = "code"
                        \/ text[j] = "quote" /\ Part[j] \in {"code", "string"}
      BY DEF Breaks, Separates
    <3>5. Breaks(at - 1)' <=> Breaks(j)
      BY <1>1, <1>11, <3>2, <3>3, <3>4
    <3>6. QED
      BY <3>5, Zenon DEF Breaks, j
  <2>6. at' # 0
    BY <1>1, <1>2
  <2>7. Carried'
    <3> HIDE DEF Open
    <3>1. QED
      BY <2>1, <2>2, <2>3 DEF Carried
  <2>8. carry'.structural = (at' = 0 \/ Breaks(at - 1)')
    <3>1. (at' = 0 \/ Breaks(at - 1)') = Breaks(at + width - 1)
      BY <2>5, <2>6 DEF Breaks
    <3>2. QED
      BY <2>4, <3>1
  <2>9. QED
    BY <2>7, <2>8 DEF Entered
<1>14. at' \in Nat /\ at' % width' = 0 /\ at' <= Size'
  BY <1>1, <1>2, <1>3, <1>11
<1>15. Ascends(out', {i \in Starts : i < at' + carry'.start})
  BY <1>5, <1>9, <1>10, <1>12
<1>16. /\ carry'.start \in Int /\ carry'.start <= 0
       /\ carry'.start # 0 => at' + carry'.start \in Starts
       /\ \A i \in Starts : i < at' => carry'.start # 0 /\ i <= at' + carry'.start
  BY <1>1, <1>8, <1>9, <1>12
<1>17. Ascends(out, {i \in Starts : i < at + carry.start})'
  BY <1>11, <1>15 DEF Ascends
<1>18. QED
  BY <1>11, <1>13, <1>14, <1>16, <1>17 DEF SimdInv

----------------------------------------------------------------------------
(* The strings and comments that lex_indexer_fallback passes *)

IsClosing(f) ==
    f = [j \in Nat |->
            IF j >= Size THEN Size
            ELSE IF text[j] = "backslash" /\ j + 1 < Size /\ text[j + 1] = "quote" THEN f[j + 3]
            ELSE IF text[j] = "quote" THEN j
            ELSE f[j + 1]]

\* The loop over a string comes to an end.
LEMMA ClosingExists ==
    ASSUME Size \in Nat
    PROVE  \E f : IsClosing(f)
<1> DEFINE Skips(j) == text[j] = "backslash" /\ j + 1 < Size /\ text[j + 1] = "quote"
           Steps(j, x) == <<IF Skips(j) THEN x[3] ELSE IF text[j] = "quote" THEN j ELSE x[1],
                            x[1], x[2]>>
           Ahead == Nat \X Nat \X Nat
           G == [i \in 1 .. Size |-> [x \in Ahead |-> Steps(Size - i, x)]]
           s == <<Size, Size, Size>>
<1>1. s \in Ahead
  OBVIOUS
<1>2. IsRule(G, Size, Ahead)
  <2> SUFFICES ASSUME NEW i \in 1 .. Size, NEW x \in Ahead PROVE Steps(Size - i, x) \in Ahead
    BY DEF IsRule
  <2> HIDE DEF Skips
  <2>1. x[1] \in Nat /\ x[2] \in Nat /\ x[3] \in Nat /\ Size - i \in Nat
    OBVIOUS
  <2>2. QED
    BY <2>1
<1> HIDE DEF G, s, Ahead
<1>3. PICK f : Follows(f, s, G, Size, Ahead)
  BY <1>1, <1>2, Recursion
<1>4. f[0] = <<Size, Size, Size>> /\ \A i \in 0 .. Size : f[i] \in Ahead
  BY <1>3 DEF Follows, s
<1>5. \A i \in 1 .. Size : f[i] = Steps(Size - i, f[i - 1])
  <2> SUFFICES ASSUME NEW i \in 1 .. Size PROVE f[i] = Steps(Size - i, f[i - 1])
    OBVIOUS
  <2>1. f[i] = G[i][f[i - 1]]
    BY <1>3 DEF Follows
  <2>2. f[i - 1] \in Ahead
    BY <1>4
  <2> HIDE DEF Steps
  <2>3. QED
    BY <2>1, <2>2 DEF G
<1> HIDE DEF Skips
<1> DEFINE from(j) == IF j >= Size THEN Size ELSE f[Size - j][1]
           g == [j \in Nat |-> from(j)]
<1>6. \A i \in 1 .. Size : f[i][2] = f[i - 1][1] /\ f[i][3] = f[i - 1][2]
  BY <1>5
<1>7. \A i \in 0 .. Size : f[i][1] = from(Size - i)
  <2> SUFFICES ASSUME NEW i \in 0 .. Size PROVE f[i][1] = from(Size - i)
    OBVIOUS
  <2>1. CASE i = 0
    BY <1>4, <2>1
  <2>2. CASE i # 0
    <3>1. ~(Size - i >= Size) /\ Size - (Size - i) = i
      BY <2>2
    <3>2. QED
      BY <3>1
  <2>3. QED
    BY <2>1, <2>2
<1>8. \A i \in 0 .. Size : f[i][2] = from(Size - i + 1)
  <2> SUFFICES ASSUME NEW i \in 0 .. Size PROVE f[i][2] = from(Size - i + 1)
    OBVIOUS
  <2>1. CASE i = 0
    BY <1>4, <2>1
  <2>2. CASE i # 0
    <3>1. i - 1 \in 0 .. Size /\ i \in 1 .. Size /\ Size - (i - 1) = Size - i + 1
      BY <2>2
    <3>2. f[i][2] = f[i - 1][1]
      BY <1>6, <3>1
    <3>3. f[i - 1][1] = from(Size - (i - 1))
      BY <1>7, <3>1
    <3> HIDE DEF from
    <3>4. QED
      BY <3>1, <3>2, <3>3
  <2>3. QED
    BY <2>1, <2>2
<1>9. \A i \in 0 .. Size : f[i][3] = from(Size - i + 2)
  <2> SUFFICES ASSUME NEW i \in 0 .. Size PROVE f[i][3] = from(Size - i + 2)
    OBVIOUS
  <2>1. CASE i = 0
    BY <1>4, <2>1
  <2>2. CASE i # 0
    <3>1. i - 1 \in 0 .. Size /\ i \in 1 .. Size /\ Size - (i - 1) + 1 = Size - i + 2
      BY <2>2
    <3>2. f[i][3] = f[i - 1][2]
      BY <1>6, <3>1
    <3>3. f[i - 1][2] = from(Size - (i - 1) + 1)
      BY <1>8, <3>1
    <3> HIDE DEF from
    <3>4. QED
      BY <3>1, <3>2, <3>3
  <2>3. QED
    BY <2>1, <2>2
<1>10. ASSUME NEW j \in Nat, j < Size
       PROVE  from(j) = IF Skips(j) THEN from(j + 3)
                        ELSE IF text[j] = "quote" THEN j ELSE from(j + 1)
  <2> DEFINE i == Size - j
             k == i - 1
  <2>1. i \in 1 .. Size /\ k \in 0 .. Size /\ Size - i = j /\ Size - k = j + 1
        /\ Size - k + 2 = j + 3 /\ ~(j >= Size)
    BY <1>10
  <2>2. from(j) = f[i][1]
    BY <2>1
  <2>3. f[i] = Steps(j, f[k])
    BY <1>5, <2>1
  <2>4. f[k][1] = from(j + 1) /\ f[k][3] = from(j + 3)
    <3>1. f[k][1] = from(Size - k) /\ f[k][3] = from(Size - k + 2)
      BY <1>7, <1>9, <2>1
    <3> HIDE DEF from, k
    <3>2. QED
      BY <2>1, <3>1
  <2> HIDE DEF from, i, k
  <2>5. f[i][1] = IF Skips(j) THEN f[k][3] ELSE IF text[j] = "quote" THEN j ELSE f[k][1]
    BY <2>3
  <2>6. QED
    BY <2>2, <2>4, <2>5
<1>11. \A j \in Nat : j >= Size => from(j) = Size
  OBVIOUS
<1> HIDE DEF from
<1>12. ASSUME NEW j \in Nat
       PROVE  g[j] = IF j >= Size THEN Size
                     ELSE IF Skips(j) THEN g[j + 3]
                     ELSE IF text[j] = "quote" THEN j ELSE g[j + 1]
  <2>1. g[j] = from(j) /\ g[j + 1] = from(j + 1) /\ g[j + 3] = from(j + 3)
    OBVIOUS
  <2>2. CASE j >= Size
    BY <1>11, <2>1, <2>2
  <2>3. CASE ~(j >= Size)
    <3>1. j < Size
      BY <2>3
    <3> HIDE DEF g
    <3>2. QED
      BY <1>10, <2>1, <2>3, <3>1
  <2>4. QED
    BY <2>2, <2>3
<1>13. g = [j \in Nat |-> g[j]]
  OBVIOUS
<1> HIDE DEF g
<1>14. IsClosing(g)
  BY <1>12, <1>13 DEF IsClosing, Skips
<1>15. QED
  BY <1>14

\* Its rounds.
LEMMA ClosingIs ==
    ASSUME Size \in Nat
    PROVE  \E f : /\ \A i \in Nat : ClosingQuote(i) = f[i]
                  /\ \A j \in 0 .. Size - 1 :
                        f[j] = IF text[j] = "backslash" /\ j + 1 < Size /\ text[j + 1] = "quote"
                               THEN f[j + 3]
                               ELSE IF text[j] = "quote" THEN j ELSE f[j + 1]
<1> DEFINE f == CHOOSE g : IsClosing(g)
<1>1. IsClosing(f)
  BY ClosingExists, Zenon
<1>2. \A i \in Nat : ClosingQuote(i) = f[i]
  BY DEF ClosingQuote, IsClosing
<1> HIDE DEF f
<1>3. \A j \in Nat : f[j] = IF j >= Size THEN Size
            ELSE IF text[j] = "backslash" /\ j + 1 < Size /\ text[j + 1] = "quote" THEN f[j + 3]
            ELSE IF text[j] = "quote" THEN j
            ELSE f[j + 1]
  BY <1>1 DEF IsClosing
<1>4. \A j \in 0 .. Size - 1 : j \in Nat /\ ~(j >= Size)
  OBVIOUS
<1>5. QED
  BY <1>2, <1>3, <1>4

\* An open string has a quote that closes it.
LEMMA StringEnds ==
    ASSUME Proper, NEW i \in 0 .. Size, Part[i] = "string"
    PROVE  \E q \in i .. Size - 1 :
              /\ Part[q] = "string" /\ text[q] = "quote" /\ Part[q + 1] = "code"
              /\ \A k \in i .. q : Part[k] \in {"string", "escape"}
              /\ \A k \in i .. q - 1 : ~(Part[k] = "string" /\ text[k] = "quote")
<1> DEFINE closes == {q \in i .. Size - 1 : Part[q] = "string" /\ text[q] = "quote"}
<1>1. TextOK /\ Size \in Nat /\ Part[Size] = "code"
  BY LexicalIs DEF Proper, TextOK
<1>2. \A k \in 0 .. Size - 1 : Part[k + 1] = Moved(Part[k], text[k])
  BY <1>1, PartIs
<1>3. ASSUME NEW q \in i .. Size, \A k \in i .. q - 1 : k \notin closes
      PROVE  \A k \in i .. q : Part[k] \in {"string", "escape"}
  <2> DEFINE n == q - i
             S == {d \in 0 .. n : Part[i + d] \in {"string", "escape"}}
  <2>1. n \in Nat /\ 0 \in S
    BY <1>1
  <2>2. \A d \in 0 .. n - 1 : d \in S => d + 1 \in S
    <3> SUFFICES ASSUME NEW d \in 0 .. n - 1, d \in S PROVE d + 1 \in S
      OBVIOUS
    <3> DEFINE k == i + d
    <3>1. k \in 0 .. Size - 1 /\ k \in i .. q - 1 /\ k \in i .. Size - 1
          /\ i + (d + 1) = k + 1 /\ d + 1 \in 0 .. n
      BY <1>1
    <3>2. Part[k] \in {"string", "escape"}
      OBVIOUS
    <3> HIDE DEF k
    <3>3. ~(Part[k] = "string" /\ text[k] = "quote")
      BY <1>3, <3>1
    <3>4. Part[k + 1] \in {"string", "escape"}
      BY <1>2, <3>1, <3>2, <3>3 DEF Moved
    <3>5. QED
      BY <3>1, <3>4
  <2>3. \A d \in 0 .. n : d \in S
    <3> HIDE DEF S, n
    <3>1. QED
      BY <2>1, <2>2, Induct
  <2>4. \A k \in i .. q : k - i \in 0 .. n /\ i + (k - i) = k
    BY <1>1
  <2>5. QED
    BY <2>3, <2>4
<1>4. closes # {}
  <2> SUFFICES ASSUME closes = {} PROVE FALSE
    OBVIOUS
  <2>1. Size \in i .. Size
    BY <1>1
  <2>2. Part[Size] \in {"string", "escape"}
    <3> HIDE DEF closes
    <3>1. \A k \in i .. Size - 1 : k \notin closes
      OBVIOUS
    <3>2. QED
      BY <1>3, <2>1, <3>1
  <2>3. QED
    BY <1>1, <2>2
<1>5. PICK q \in closes : \A k \in closes : q <= k
  <2>1. closes \subseteq Nat
    BY <1>1
  <2> HIDE DEF closes
  <2>2. QED
    BY <1>4, <2>1, Least
<1>6. q \in i .. Size - 1 /\ q \in 0 .. Size - 1 /\ q \in i .. Size
      /\ Part[q] = "string" /\ text[q] = "quote"
  BY <1>1, <1>5
<1>7. Part[q + 1] = "code"
  BY <1>2, <1>6 DEF Moved
<1>8. \A k \in i .. q - 1 : k \notin closes /\ k \in i .. Size - 1
  <2> SUFFICES ASSUME NEW k \in i .. q - 1 PROVE k \notin closes /\ k \in i .. Size - 1
    OBVIOUS
  <2>1. ~(q <= k) /\ k \in i .. Size - 1
    BY <1>1, <1>6
  <2> HIDE DEF closes
  <2>2. QED
    BY <1>5, <2>1
<1>9. \A k \in i .. q : Part[k] \in {"string", "escape"}
  <2> HIDE DEF closes
  <2>1. QED
    BY <1>3, <1>6, <1>8
<1>10. QED
  BY <1>6, <1>7, <1>8, <1>9

\* Where no quote is escaped the loop stops at that quote.
LEMMA ClosingQuoteIs ==
    ASSUME Proper, ~FallbackExcepted, NEW i \in 0 .. Size, Part[i] = "string"
    PROVE  \E q \in i .. Size - 1 :
              /\ ClosingQuote(i) = q /\ text[q] = "quote" /\ Part[q] = "string"
              /\ Part[q + 1] = "code"
              /\ \A k \in i .. q : Part[k] \in {"string", "escape"}
<1>1. TextOK /\ Size \in Nat /\ DOMAIN text = 0 .. Size - 1
  BY DEF Proper, TextOK
<1>2. PICK q \in i .. Size - 1 :
              /\ Part[q] = "string" /\ text[q] = "quote" /\ Part[q + 1] = "code"
              /\ \A k \in i .. q : Part[k] \in {"string", "escape"}
              /\ \A k \in i .. q - 1 : ~(Part[k] = "string" /\ text[k] = "quote")
  BY StringEnds
<1>3. PICK f : /\ \A j \in Nat : ClosingQuote(j) = f[j]
               /\ \A j \in 0 .. Size - 1 :
                     f[j] = IF text[j] = "backslash" /\ j + 1 < Size /\ text[j + 1] = "quote"
                            THEN f[j + 3]
                            ELSE IF text[j] = "quote" THEN j ELSE f[j + 1]
  BY <1>1, ClosingIs
<1>4. \A j \in i .. q : ~(text[j] = "backslash" /\ text[j + 1] = "quote")
  <2> SUFFICES ASSUME NEW j \in i .. q, text[j] = "backslash", text[j + 1] = "quote" PROVE FALSE
    OBVIOUS
  <2>1. j \in DOMAIN text /\ Part[j] \in {"string", "escape"}
    BY <1>1, <1>2
  <2>2. FallbackExcepted
    BY <2>1 DEF FallbackExcepted
  <2>3. QED
    BY <2>2
<1>5. \A j \in i .. q - 1 : text[j] # "quote"
  <2> SUFFICES ASSUME NEW j \in i .. q - 1, text[j] = "quote" PROVE FALSE
    OBVIOUS
  <2>1. j \in i .. q /\ Part[j] = "escape"
    BY <1>1, <1>2
  <2>2. j # i
    BY <2>1
  <2> DEFINE k == j - 1
  <2>3. k \in 0 .. Size - 1 /\ k + 1 = j /\ k \in i .. q
    BY <1>1, <2>1, <2>2
  <2> HIDE DEF k
  <2>4. Part[j] = Moved(Part[k], text[k])
    BY <1>1, <2>3, PartIs
  <2>5. Part[k] \in {"string", "escape"}
    BY <1>2, <2>3
  <2>6. text[k] = "backslash"
    BY <2>1, <2>4, <2>5 DEF Moved
  <2>7. QED
    BY <1>4, <2>3, <2>6
<1> DEFINE n == q - i
           S == {d \in 0 .. n : f[q - d] = q}
<1>6. n \in Nat /\ 0 \in S
  <2>1. q \in 0 .. Size - 1 /\ q \in i .. q /\ q - 0 = q /\ n \in Nat
    BY <1>1
  <2>2. f[q] = q
    BY <1>2, <1>3, <2>1
  <2>3. QED
    BY <2>1, <2>2
<1>7. \A d \in 0 .. n - 1 : d \in S => d + 1 \in S
  <2> SUFFICES ASSUME NEW d \in 0 .. n - 1, d \in S PROVE d + 1 \in S
    OBVIOUS
  <2> DEFINE j == q - (d + 1)
  <2>1. j \in 0 .. Size - 1 /\ j \in i .. q - 1 /\ j \in i .. q /\ j + 1 = q - d
        /\ d + 1 \in 0 .. n
    BY <1>1
  <2>2. f[q - d] = q
    OBVIOUS
  <2> HIDE DEF j
  <2>3. f[j] = f[j + 1]
    BY <1>3, <1>4, <1>5, <2>1
  <2>4. QED
    BY <2>1, <2>2, <2>3 DEF j
<1>8. \A d \in 0 .. n : d \in S
  <2> HIDE DEF S, n
  <2>1. QED
    BY <1>6, <1>7, Induct
<1>9. f[i] = q
  <2>1. q - i \in 0 .. n /\ q - (q - i) = i
    BY <1>1
  <2>2. QED
    BY <1>8, <2>1
<1>10. ClosingQuote(i) = q
  BY <1>3, <1>9
<1>11. QED
  BY <1>2, <1>10

\* An open comment has a newline that ends it, and it is the next one.
LEMMA CommentEnds ==
    ASSUME Proper, NEW i \in 0 .. Size - 1, Part[i] = "code", text[i] = "hash"
    PROVE  \E q \in i + 1 .. Size - 1 :
              /\ NextOf("newline", i) = q /\ text[q] = "newline" /\ Part[q] = "comment"
              /\ Part[q + 1] = "code"
              /\ \A k \in i + 1 .. q - 1 : Part[k] = "comment" /\ text[k] # "newline"
<1> DEFINE found == {j \in i .. Size - 1 : text[j] = "newline"}
<1>1. TextOK /\ Size \in Nat /\ Part[Size] = "code"
  BY LexicalIs DEF Proper, TextOK
<1>2. \A k \in 0 .. Size - 1 : Part[k + 1] = Moved(Part[k], text[k])
  BY <1>1, PartIs
<1>3. ASSUME NEW q \in i + 1 .. Size, \A k \in i .. q - 1 : text[k] # "newline"
      PROVE  \A k \in i + 1 .. q : Part[k] = "comment"
  <2> DEFINE n == q - (i + 1)
             S == {d \in 0 .. n : Part[(i + 1) + d] = "comment"}
  <2>1. n \in Nat /\ 0 \in S
    <3>1. Part[i + 1] = "comment"
      BY <1>2 DEF Moved
    <3>2. (i + 1) + 0 = i + 1 /\ n \in Nat
      BY <1>1
    <3>3. QED
      BY <3>1, <3>2
  <2>2. \A d \in 0 .. n - 1 : d \in S => d + 1 \in S
    <3> SUFFICES ASSUME NEW d \in 0 .. n - 1, d \in S PROVE d + 1 \in S
      OBVIOUS
    <3> DEFINE k == (i + 1) + d
    <3>1. k \in 0 .. Size - 1 /\ k \in i .. q - 1 /\ (i + 1) + (d + 1) = k + 1 /\ d + 1 \in 0 .. n
      BY <1>1
    <3>2. Part[k] = "comment"
      OBVIOUS
    <3> HIDE DEF k
    <3>3. Part[k + 1] = "comment"
      BY <1>2, <1>3, <3>1, <3>2 DEF Moved
    <3>4. QED
      BY <3>1, <3>3
  <2>3. \A d \in 0 .. n : d \in S
    <3> HIDE DEF S, n
    <3>1. QED
      BY <2>1, <2>2, Induct
  <2>4. \A k \in i + 1 .. q : k - (i + 1) \in 0 .. n /\ (i + 1) + (k - (i + 1)) = k
    BY <1>1
  <2>5. QED
    BY <2>3, <2>4
<1>4. found # {}
  <2> SUFFICES ASSUME found = {} PROVE FALSE
    OBVIOUS
  <2>1. Size \in i + 1 .. Size
    BY <1>1
  <2>2. \A k \in i .. Size - 1 : text[k] # "newline"
    OBVIOUS
  <2>3. Part[Size] = "comment"
    BY <1>3, <2>1, <2>2
  <2>4. QED
    BY <1>1, <2>3
<1>5. PICK q \in found : \A k \in found : q <= k
  <2>1. found \subseteq Nat
    BY <1>1
  <2> HIDE DEF found
  <2>2. QED
    BY <1>4, <2>1, Least
<1>6. q \in i + 1 .. Size - 1 /\ text[q] = "newline"
  <2>1. q # i
    BY <1>5
  <2>2. QED
    BY <1>1, <1>5, <2>1
<1>7. \A k \in i .. q - 1 : text[k] # "newline"
  <2> SUFFICES ASSUME NEW k \in i .. q - 1, text[k] = "newline" PROVE FALSE
    OBVIOUS
  <2>1. ~(q <= k) /\ k \in found
    BY <1>1, <1>6
  <2> HIDE DEF found
  <2>2. QED
    BY <1>5, <2>1
<1>8. q \in i + 1 .. Size /\ q \in i + 1 .. q /\ q \in 0 .. Size - 1
  BY <1>1, <1>6
<1>9. \A k \in i + 1 .. q : Part[k] = "comment"
  BY <1>3, <1>7, <1>8
<1>10. Part[q] = "comment" /\ Part[q + 1] = "code"
  BY <1>2, <1>6, <1>8, <1>9 DEF Moved
<1>11. NextOf("newline", i) = q
  <2> DEFINE T == found \cup {Size}
  <2>1. T \subseteq Nat /\ q \in T /\ \A k \in T : q <= k
    BY <1>1, <1>5, <1>6
  <2>2. NextOf("newline", i) = Min(T)
    BY DEF NextOf
  <2> HIDE DEF T
  <2>3. QED
    BY <2>1, <2>2, MinEquals
<1>12. \A k \in i + 1 .. q - 1 : k \in i + 1 .. q /\ k \in i .. q - 1
  BY <1>1
<1>13. QED
  BY <1>6, <1>7, <1>9, <1>10, <1>11, <1>12

----------------------------------------------------------------------------
(* From token to token *)

\* Where the fallback goes on: in code, in no token.
Between(i) ==
    /\ Part[i] = "code" /\ ~Second[i] /\ i <= End
    /\ ~(text[i] = "ident" /\ Plain(i - 1) /\ text[i - 1] = "ident")

\* What it knows between tokens.
FallbackInv ==
    /\ at \in Nat /\ at <= Size
    /\ at < Size => Between(at) /\ Ascends(out, {i \in Starts : i < at})
    /\ at = Size => Ascends(out, {i \in Starts : i <= End})

\* It gets from one such place to the next.
Passes(i, next) ==
    /\ next \in Nat /\ i < next /\ next < Size /\ Between(next)
    /\ \A k \in Starts : ~(i <= k /\ k < next)
PassesOne(i, token, next) ==
    /\ next \in Nat /\ i < next /\ next < Size /\ Between(next)
    /\ token \in Starts /\ i <= token /\ token < next
    /\ \A k \in Starts : i <= k /\ k < next => k = token

LEMMA StartIs ==
    ASSUME TextOK, NEW k \in 0 .. Size - 1
    PROVE  k \in Starts <=> /\ Part[k] = "code" \/ (Part[k] = "comment" /\ text[k] = "newline")
                            /\ text[k] \notin {"space", "hash"} /\ ~Second[k]
                            /\ ~(text[k] = "ident" /\ Plain(k - 1) /\ text[k - 1] = "ident")
<1>1. k \in DOMAIN text
  BY DEF TextOK
<1>2. QED
  BY <1>1, StartsAre DEF InCode

\* Behind a character that is no part of a longer token.
LEMMA BetweenAfter ==
    ASSUME TextOK, NEW k \in 0 .. End - 1, Part[k + 1] = "code", text[k] # "ident",
           ~Plain(k) \/ <<text[k], text[k + 1]>> \notin Pairs \/ Second[k]
    PROVE  Between(k + 1)
<1> DEFINE m == k + 1
<1>1. k \in 0 .. Size - 1 /\ m \in 0 .. Size - 1 /\ m - 1 = k /\ m <= End
  BY DEF TextOK
<1> HIDE DEF m
<1>2. Second[m] <=> Pairing(m) /\ ~Second[m - 1]
  BY <1>1, SecondIs
<1>3. ~Second[m]
  BY <1>1, <1>2 DEF Pairing, m
<1>4. QED
  BY <1>1, <1>3 DEF Between, m

LEMMA FallbackSpace ==
    ASSUME Proper, NEW i \in 0 .. End - 1, Between(i), text[i] = "space"
    PROVE  Passes(i, i + 1)
<1>1. TextOK /\ i \in 0 .. Size - 1 /\ i + 1 < Size /\ i + 1 \in Nat /\ End \in Nat
  BY DEF Proper, TextOK
<1>2. Part[i + 1] = "code"
  <2>1. Part[i + 1] = Moved(Part[i], text[i])
    BY <1>1, PartIs
  <2>2. QED
    BY <2>1 DEF Moved, Between
<1>3. <<text[i], text[i + 1]>> \notin Pairs
  BY DEF Pairs
<1>4. Between(i + 1)
  BY <1>1, <1>2, <1>3, BetweenAfter
<1>5. i \notin Starts
  BY <1>1, StartIs
<1>6. \A k \in Starts : ~(i <= k /\ k < i + 1)
  <2>1. Starts \subseteq Int
    <3>1. Starts \subseteq DOMAIN text
      BY StartsAre
    <3>2. QED
      BY <1>1, <3>1 DEF TextOK
  <2>2. QED
    BY <1>1, <1>5, <2>1
<1>7. QED
  BY <1>1, <1>4, <1>6 DEF Passes

LEMMA FallbackComment ==
    ASSUME Proper, NEW i \in 0 .. End - 1, Between(i), text[i] = "hash"
    PROVE  \E q \in 0 .. Size - 1 :
              NextOf("newline", i) = q /\ text[q] = "newline" /\ PassesOne(i, q, q + 1)
<1>1. TextOK /\ i \in 0 .. Size - 1 /\ End \in Nat /\ Size \in Nat /\ End < Size
      /\ Starts \subseteq 0 .. Size - 1
  <2>1. Starts \subseteq DOMAIN text
    BY StartsAre
  <2>2. QED
    BY <2>1 DEF Proper, TextOK
<1>2. PICK q \in i + 1 .. Size - 1 :
              /\ NextOf("newline", i) = q /\ text[q] = "newline" /\ Part[q] = "comment"
              /\ Part[q + 1] = "code"
              /\ \A k \in i + 1 .. q - 1 : Part[k] = "comment" /\ text[k] # "newline"
  BY <1>1, CommentEnds DEF Between
<1>3. q \in 0 .. Size - 1 /\ q \in 0 .. End - 1
  <2>1. q \in 0 .. Size - 1
    BY <1>1
  <2>2. ~(q >= End)
    BY <1>1, <1>2, <2>1 DEF TextOK
  <2>3. QED
    BY <1>1, <2>1, <2>2
<1>4. Between(q + 1)
  BY <1>1, <1>2, <1>3, BetweenAfter DEF Plain
<1>5. q \in Starts
  <2>1. ~Second[q]
    BY <1>1, <1>2, <1>3, NoSecond
  <2>2. QED
    BY <1>1, <1>2, <1>3, <2>1, StartIs
<1>6. ASSUME NEW k \in Starts, i <= k, k < q + 1
      PROVE  k = q
  <2>1. k \in 0 .. Size - 1
    BY <1>1
  <2>2. k # i
    BY <1>1, StartIs
  <2>3. k \notin i + 1 .. q - 1
    BY <1>1, <1>2, <2>1, StartIs
  <2>4. QED
    BY <1>1, <1>6, <2>1, <2>2, <2>3
<1>7. q + 1 \in Nat /\ i < q + 1 /\ q + 1 < Size /\ i <= q /\ q < q + 1
  BY <1>1, <1>3
<1>8. QED
  BY <1>2, <1>3, <1>4, <1>5, <1>6, <1>7 DEF PassesOne

\* A token starts at a place between tokens that is no space and no comment.
LEMMA TokenStarts ==
    ASSUME TextOK, NEW i \in 0 .. Size - 1, Between(i), text[i] \notin {"space", "hash"}
    PROVE  i \in Starts
BY StartIs DEF Between

LEMMA FallbackString ==
    ASSUME Proper, ~FallbackExcepted, NEW i \in 0 .. End - 1, Between(i), text[i] = "quote"
    PROVE  PassesOne(i, i, AfterToken(i))
<1>1. TextOK /\ i \in 0 .. Size - 1 /\ End \in Nat /\ Size \in Nat /\ End < Size
      /\ i + 1 \in 0 .. Size /\ Starts \subseteq 0 .. Size - 1
  <2>1. Starts \subseteq DOMAIN text
    BY StartsAre
  <2>2. QED
    BY <2>1 DEF Proper, TextOK
<1>2. Part[i + 1] = "string"
  <2>1. Part[i + 1] = Moved(Part[i], text[i])
    BY <1>1, PartIs
  <2>2. QED
    BY <2>1 DEF Moved, Between
<1>3. PICK q \in i + 1 .. Size - 1 :
              /\ ClosingQuote(i + 1) = q /\ text[q] = "quote" /\ Part[q] = "string"
              /\ Part[q + 1] = "code"
              /\ \A k \in i + 1 .. q : Part[k] \in {"string", "escape"}
  BY <1>1, <1>2, ClosingQuoteIs
<1>4. AfterToken(i) = q + 1
  <2>1. <<text[i], text[i + 1]>> \notin Pairs
    BY DEF Pairs
  <2>2. AfterToken(i) = ClosingQuote(i + 1) + 1
    BY <2>1 DEF AfterToken
  <2>3. QED
    BY <1>3, <2>2
<1>5. q \in 0 .. Size - 1 /\ q \in 0 .. End - 1
  <2>1. q \in 0 .. Size - 1
    BY <1>1
  <2>2. ~(q >= End)
    BY <1>1, <1>3, <2>1 DEF TextOK
  <2>3. QED
    BY <1>1, <2>1, <2>2
<1>6. Between(q + 1)
  BY <1>1, <1>3, <1>5, BetweenAfter DEF Plain
<1>7. i \in Starts
  BY <1>1, TokenStarts
<1>8. ASSUME NEW k \in Starts, i <= k, k < q + 1
      PROVE  k = i
  <2>1. k \in 0 .. Size - 1
    BY <1>1
  <2>2. k \notin i + 1 .. q
    <3>1. Part[k] \in {"code", "comment"}
      BY <1>1, <2>1, StartIs
    <3>2. QED
      BY <1>3, <3>1
  <2>3. QED
    BY <1>1, <1>8, <2>1, <2>2
<1>9. q + 1 \in Nat /\ i < q + 1 /\ q + 1 < Size /\ i <= i
  BY <1>1, <1>5
<1>10. QED
  BY <1>4, <1>6, <1>7, <1>8, <1>9 DEF PassesOne

LEMMA FallbackName ==
    ASSUME Proper, NEW i \in 0 .. End - 1, Between(i), text[i] = "ident"
    PROVE  PassesOne(i, i, AfterToken(i))
<1>1. TextOK /\ i \in 0 .. Size - 1 /\ End \in Nat /\ Size \in Nat /\ End < Size
      /\ Starts \subseteq 0 .. Size - 1 /\ DOMAIN text = 0 .. Size - 1
      /\ text[End] = "nul"
  <2>1. Starts \subseteq DOMAIN text
    BY StartsAre
  <2>2. QED
    BY <2>1 DEF Proper, TextOK
<1> DEFINE others == {j \in i .. Size - 1 : text[j] # "ident"}
<1>2. others \subseteq Nat /\ End \in others
  BY <1>1
<1>3. AfterToken(i) = Min(others)
  <2>1. <<text[i], text[i + 1]>> \notin Pairs
    BY DEF Pairs
  <2> HIDE DEF others
  <2>2. AfterToken(i) = Min({j \in i .. Size - 1 : text[j] # "ident"})
    BY <2>1 DEF AfterToken
  <2>3. QED
    BY <2>2 DEF others
<1> DEFINE m == Min(others)
<1>4. m \in others /\ \A k \in others : m <= k
  <2> HIDE DEF others
  <2>1. QED
    BY <1>2, MinIs
<1> HIDE DEF m
<1>5. m \in i .. Size - 1 /\ text[m] # "ident" /\ m <= End /\ m # i /\ m \in Nat
  BY <1>1, <1>2, <1>4
<1>6. \A k \in i .. m - 1 : text[k] = "ident"
  <2> SUFFICES ASSUME NEW k \in i .. m - 1, text[k] # "ident" PROVE FALSE
    OBVIOUS
  <2>1. k \in others /\ ~(m <= k)
    BY <1>1, <1>5
  <2> HIDE DEF others
  <2>2. QED
    BY <1>4, <2>1
<1>7. \A k \in i .. m : Part[k] = "code"
  <2> DEFINE n == m - i
             S == {d \in 0 .. n : Part[i + d] = "code"}
  <2>1. n \in Nat /\ 0 \in S
    <3>1. n \in Nat /\ i + 0 = i
      BY <1>1, <1>5
    <3>2. QED
      BY <3>1 DEF Between
  <2>2. \A d \in 0 .. n - 1 : d \in S => d + 1 \in S
    <3> SUFFICES ASSUME NEW d \in 0 .. n - 1, d \in S PROVE d + 1 \in S
      OBVIOUS
    <3> DEFINE k == i + d
    <3>1. k \in 0 .. Size - 1 /\ k \in i .. m - 1 /\ i + (d + 1) = k + 1 /\ d + 1 \in 0 .. n
      BY <1>1, <1>5
    <3>2. Part[k] = "code"
      OBVIOUS
    <3> HIDE DEF k
    <3>3. Part[k + 1] = Moved(Part[k], text[k])
      BY <1>1, <3>1, PartIs
    <3>4. Part[k + 1] = "code"
      BY <1>6, <3>1, <3>2, <3>3 DEF Moved
    <3>5. QED
      BY <3>1, <3>4
  <2>3. \A d \in 0 .. n : d \in S
    <3> HIDE DEF S, n
    <3>1. QED
      BY <2>1, <2>2, Induct
  <2>4. \A k \in i .. m : k - i \in 0 .. n /\ i + (k - i) = k
    BY <1>1, <1>5
  <2>5. QED
    BY <2>3, <2>4
<1>8. Between(m)
  <2>1. m \in 0 .. Size - 1 /\ m - 1 \in i .. m - 1 /\ m \in i .. m
    BY <1>1, <1>5
  <2>2. text[m - 1] = "ident"
    BY <1>6, <2>1
  <2>3. ~Second[m]
    <3>1. Second[m] => <<text[m - 1], text[m]>> \in Pairs
      BY <1>1, <2>1, SecondIs DEF Pairing
    <3>2. QED
      BY <2>2, <3>1 DEF Pairs
  <2>4. QED
    BY <1>5, <1>7, <2>1, <2>3 DEF Between
<1>9. i \in Starts
  BY <1>1, TokenStarts
<1>10. ASSUME NEW k \in Starts, i <= k, k < m
       PROVE  k = i
  <2> SUFFICES ASSUME k # i PROVE FALSE
    OBVIOUS
  <2>1. k \in 0 .. Size - 1 /\ k \in i .. m - 1 /\ k - 1 \in i .. m - 1 /\ k - 1 \in i .. m
        /\ k - 1 \in 0 .. Size - 1
    BY <1>1, <1>5, <1>10
  <2>2. text[k] = "ident" /\ text[k - 1] = "ident" /\ Plain(k - 1)
    BY <1>1, <1>6, <1>7, <2>1 DEF Plain
  <2>3. QED
    BY <1>1, <2>1, <2>2, StartIs
<1>11. i < m /\ m < Size /\ i <= i
  BY <1>1, <1>5
<1>12. QED
  BY <1>3, <1>5, <1>8, <1>9, <1>10, <1>11 DEF PassesOne, m

LEMMA FallbackPair ==
    ASSUME Proper, NEW i \in 0 .. End - 1, Between(i), <<text[i], text[i + 1]>> \in Pairs
    PROVE  PassesOne(i, i, AfterToken(i))
<1>1. TextOK /\ i \in 0 .. Size - 1 /\ End \in Nat /\ Size \in Nat /\ End < Size
      /\ i + 1 \in 0 .. Size - 1
      /\ Starts \subseteq 0 .. Size - 1 /\ DOMAIN text = 0 .. Size - 1
  <2>1. Starts \subseteq DOMAIN text
    BY StartsAre
  <2>2. QED
    BY <2>1 DEF Proper, TextOK
<1>2. text[i] \in {"lt", "gt", "eq", "bang"} /\ text[i + 1] \in {"lt", "gt", "eq"}
  BY DEF Pairs
<1>3. AfterToken(i) = i + 2
  BY <1>2 DEF AfterToken
<1> DEFINE m == i + 1
<1>4. m \in 0 .. Size - 1 /\ m - 1 = i /\ m + 1 = i + 2 /\ i + 1 = m
  BY <1>1
<1> HIDE DEF m
<1>5. Part[m] = "code" /\ Part[m + 1] = "code"
  <2>1. Part[i + 1] = Moved(Part[i], text[i]) /\ Part[m + 1] = Moved(Part[m], text[m])
    BY <1>1, <1>4, PartIs
  <2>2. Part[m] = "code"
    BY <1>2, <1>4, <2>1 DEF Moved, Between
  <2>3. QED
    BY <1>2, <1>4, <2>1, <2>2 DEF Moved
<1>6. Second[m]
  <2>1. Second[m] <=> Pairing(m) /\ ~Second[m - 1]
    BY <1>1, <1>4, SecondIs
  <2>2. QED
    BY <1>1, <1>4, <1>5, <2>1 DEF Pairing, Plain, Between
<1>7. m \in 0 .. End - 1
  <2>1. ~(m >= End)
    BY <1>1, <1>2, <1>4 DEF TextOK
  <2>2. QED
    BY <1>1, <1>4, <2>1
<1>8. Between(m + 1)
  BY <1>1, <1>2, <1>4, <1>5, <1>6, <1>7, BetweenAfter
<1>9. i \in Starts
  BY <1>1, <1>2, TokenStarts
<1>10. m \notin Starts
  BY <1>1, <1>4, <1>6, StartIs
<1>11. ASSUME NEW k \in Starts, i <= k, k < m + 1
       PROVE  k = i
  <2>1. k # m /\ k \in 0 .. Size - 1
    BY <1>1, <1>10
  <2>2. QED
    BY <1>1, <1>4, <1>11, <2>1
<1>12. m + 1 \in Nat /\ i < m + 1 /\ m + 1 < Size /\ i <= i
  BY <1>1, <1>4, <1>7
<1>13. QED
  BY <1>3, <1>4, <1>8, <1>9, <1>11, <1>12 DEF PassesOne

LEMMA FallbackSingle ==
    ASSUME Proper, NEW i \in 0 .. End - 1, Between(i), <<text[i], text[i + 1]>> \notin Pairs,
           text[i] \notin {"space", "hash", "quote", "ident"}
    PROVE  PassesOne(i, i, AfterToken(i))
<1>1. TextOK /\ i \in 0 .. Size - 1 /\ End \in Nat /\ Size \in Nat /\ End < Size
      /\ i + 1 \in Nat /\ i + 1 < Size /\ i < i + 1
      /\ Starts \subseteq 0 .. Size - 1 /\ DOMAIN text = 0 .. Size - 1
  <2>1. Starts \subseteq DOMAIN text
    BY StartsAre
  <2>2. QED
    BY <2>1 DEF Proper, TextOK
<1>2. AfterToken(i) = i + 1
  BY DEF AfterToken
<1>3. Part[i + 1] = "code"
  <2>1. Part[i + 1] = Moved(Part[i], text[i])
    BY <1>1, PartIs
  <2>2. QED
    BY <2>1 DEF Moved, Between
<1>4. Between(i + 1)
  BY <1>1, <1>3, BetweenAfter
<1>5. i \in Starts
  BY <1>1, TokenStarts
<1>6. \A k \in Starts : i <= k /\ k < i + 1 => k = i
  BY <1>1
<1>7. QED
  BY <1>1, <1>2, <1>4, <1>5, <1>6 DEF PassesOne

\* Each round keeps what the fallback knows.
LEMMA FallbackStep ==
    ASSUME Proper, FallbackInv, ~FallbackExcepted, FallbackToken
    PROVE  FallbackInv'
<1>1. TextOK /\ Size \in Nat /\ End \in Nat /\ End < Size /\ at \in Nat /\ at < Size
      /\ Starts \subseteq 0 .. Size - 1 /\ text[at] # "nul" /\ at \in 0 .. Size - 1
  <2>1. Starts \subseteq DOMAIN text
    BY StartsAre
  <2>2. at \in Nat /\ at < Size /\ text[at] # "nul"
    BY DEF FallbackToken, FallbackInv
  <2>3. QED
    BY <2>1, <2>2 DEF Proper, TextOK
<1>2. Between(at) /\ Ascends(out, {i \in Starts : i < at})
  BY <1>1 DEF FallbackInv
<1>3. at \in 0 .. End - 1
  BY <1>1 DEF TextOK
<1>4. text' = text /\ width' = width
  BY DEF FallbackToken
<1>5. Size' = Size /\ Part' = Part /\ Starts' = Starts /\ Second' = Second
  BY <1>4, SameText
<1>6. ASSUME at' \in Nat, at' < Size, Between(at'), Ascends(out', {i \in Starts : i < at'})
      PROVE  FallbackInv'
  <2>1. Between(at)'
    BY <1>4, <1>5, <1>6 DEF Between, End, Plain
  <2>2. Ascends(out, {i \in Starts : i < at})'
    BY <1>5, <1>6 DEF Ascends
  <2>3. at' <= Size /\ at' # Size
    BY <1>1, <1>6
  <2>4. QED
    BY <1>5, <1>6, <2>1, <2>2, <2>3 DEF FallbackInv
<1>7. ASSUME Passes(at, at'), out' = out
      PROVE  FallbackInv'
  <2>1. {i \in Starts : i < at'} = {i \in Starts : i < at}
    <3>1. at' \in Nat /\ at < at' /\ \A k \in Starts : ~(at <= k /\ k < at')
      BY <1>7 DEF Passes
    <3>2. \A k \in Starts : k < at' <=> k < at
      BY <1>1, <3>1
    <3>3. QED
      BY <3>2
  <2>2. QED
    BY <1>2, <1>6, <1>7, <2>1 DEF Passes
<1>8. ASSUME NEW i, PassesOne(at, i, at'), out' = Append(out, i)
      PROVE  FallbackInv'
  <2>1. /\ at' \in Nat /\ at < at' /\ at' < Size /\ Between(at')
        /\ i \in Starts /\ at <= i /\ i < at'
        /\ \A k \in Starts : at <= k /\ k < at' => k = i
    BY <1>8 DEF PassesOne
  <2> DEFINE A == {k \in Starts : k < at}
  <2>2. \A k \in A : k < i
    BY <1>1, <2>1
  <2>3. {k \in Starts : k < at'} = A \cup {i}
    <3>1. \A k \in Starts : k < at' <=> k < at \/ k = i
      BY <1>1, <2>1
    <3>2. QED
      BY <2>1, <3>1
  <2>4. i \in Int
    BY <1>1, <2>1
  <2> HIDE DEF A
  <2>5. Ascends(Append(out, i), A \cup {i})
    BY <1>2, <2>2, <2>4, AscendsAppend DEF A
  <2>6. QED
    BY <1>6, <1>8, <2>1, <2>3, <2>5
<1>9. CASE text[at] = "space"
  <2>1. at' = at + 1 /\ out' = out
    BY <1>9 DEF FallbackToken
  <2>2. Passes(at, at + 1)
    BY <1>2, <1>3, <1>9, FallbackSpace
  <2>3. QED
    BY <1>7, <2>1, <2>2
<1>10. CASE text[at] = "hash"
  <2>1. PICK q \in 0 .. Size - 1 :
            NextOf("newline", at) = q /\ text[q] = "newline" /\ PassesOne(at, q, q + 1)
    BY <1>2, <1>3, <1>10, FallbackComment
  <2>2. q # Size
    BY <1>1
  <2>3. at' = AfterToken(q) /\ out' = Append(out, q)
    BY <1>10, <2>1, <2>2 DEF FallbackToken
  <2>4. AfterToken(q) = q + 1
    BY <2>1 DEF AfterToken, Pairs
  <2>5. QED
    BY <1>8, <2>1, <2>3, <2>4
<1>11. CASE text[at] \notin {"space", "hash"}
  <2>1. at # Size
    BY <1>1
  <2>2. at' = AfterToken(at) /\ out' = Append(out, at)
    BY <1>11, <2>1 DEF FallbackToken
  <2>3. PassesOne(at, at, AfterToken(at))
    <3>1. CASE text[at] = "quote"
      BY <1>2, <1>3, <3>1, FallbackString
    <3>2. CASE text[at] = "ident"
      BY <1>2, <1>3, <3>2, FallbackName
    <3>3. CASE <<text[at], text[at + 1]>> \in Pairs
      BY <1>2, <1>3, <3>3, FallbackPair
    <3>4. CASE /\ text[at] \notin {"quote", "ident"}
               /\ <<text[at], text[at + 1]>> \notin Pairs
      BY <1>2, <1>3, <1>11, <3>4, FallbackSingle
    <3>5. QED
      BY <3>1, <3>2, <3>3, <3>4
  <2>4. QED
    BY <1>8, <2>2, <2>3
<1>12. QED
  BY <1>9, <1>10, <1>11

\* The last round takes the end of the text.
LEMMA EndIsStart ==
    ASSUME Proper
    PROVE  \A k \in End .. Size - 1 : Part[k] = "code" /\ k \in Starts
<1>1. TextOK /\ Size \in Nat /\ End \in Nat /\ End < Size /\ Part[Size] = "code"
      /\ \A i \in 0 .. Size - 1 : text[i] = "nul" <=> i >= End
  BY LexicalIs DEF Proper, TextOK
<1> DEFINE n == Size - End
           S == {d \in 0 .. n : Part[Size - d] = "code"}
<1>2. n \in Nat /\ 0 \in S
  <2>1. n \in Nat /\ Size - 0 = Size
    BY <1>1
  <2>2. QED
    BY <1>1, <2>1
<1>3. \A d \in 0 .. n - 1 : d \in S => d + 1 \in S
  <2> SUFFICES ASSUME NEW d \in 0 .. n - 1, d \in S PROVE d + 1 \in S
    OBVIOUS
  <2> DEFINE k == Size - (d + 1)
  <2>1. k \in 0 .. Size - 1 /\ k >= End /\ k + 1 = Size - d /\ d + 1 \in 0 .. n
    BY <1>1
  <2>2. Part[Size - d] = "code"
    OBVIOUS
  <2> HIDE DEF k
  <2>3. Part[k + 1] = Moved(Part[k], text[k]) /\ text[k] = "nul"
    BY <1>1, <2>1, PartIs
  <2>4. Part[k] = "code"
    BY <2>1, <2>2, <2>3 DEF Moved
  <2>5. QED
    BY <2>1, <2>4 DEF k
<1>4. \A d \in 0 .. n : d \in S
  <2> HIDE DEF S, n
  <2>1. QED
    BY <1>2, <1>3, Induct
<1>5. \A k \in End .. Size - 1 : Part[k] = "code"
  <2>1. \A k \in End .. Size - 1 : Size - k \in 0 .. n /\ Size - (Size - k) = k
    BY <1>1
  <2>2. QED
    BY <1>4, <2>1
<1>6. \A k \in End .. Size - 1 : k \in Starts
  <2> SUFFICES ASSUME NEW k \in End .. Size - 1 PROVE k \in Starts
    OBVIOUS
  <2>1. k \in 0 .. Size - 1 /\ text[k] = "nul"
    BY <1>1
  <2>2. ~Second[k]
    BY <1>1, <2>1, NoSecond
  <2>3. QED
    BY <1>1, <1>5, <2>1, <2>2, StartIs
<1>7. QED
  BY <1>5, <1>6

LEMMA FallbackEndStep ==
    ASSUME Proper, FallbackInv, FallbackEnd
    PROVE  FallbackInv'
<1>1. TextOK /\ Size \in Nat /\ End \in Nat /\ End < Size /\ at \in Nat /\ at < Size
      /\ Starts \subseteq 0 .. Size - 1 /\ text[at] = "nul" /\ at \in 0 .. Size - 1
  <2>1. Starts \subseteq DOMAIN text
    BY StartsAre
  <2>2. at \in Nat /\ at < Size /\ text[at] = "nul"
    BY DEF FallbackEnd, FallbackInv
  <2>3. QED
    BY <2>1, <2>2 DEF Proper, TextOK
<1>2. Between(at) /\ Ascends(out, {i \in Starts : i < at})
  BY <1>1 DEF FallbackInv
<1>3. at = End
  <2>1. at >= End /\ at <= End
    BY <1>1, <1>2 DEF TextOK, Between
  <2>2. QED
    BY <1>1, <2>1
<1>4. text' = text /\ width' = width /\ out' = Append(out, at) /\ at' = Size
  BY DEF FallbackEnd
<1>5. Size' = Size /\ Starts' = Starts /\ End' = End
  BY <1>4, SameText DEF End
<1>6. at \in Starts
  BY <1>1, <1>3, EndIsStart
<1> DEFINE A == {i \in Starts : i < at}
<1>7. \A k \in A : k < at
  OBVIOUS
<1>8. {i \in Starts : i <= End} = A \cup {at}
  <2>1. \A k \in Starts : k <= End <=> k < at \/ k = at
    BY <1>1, <1>3
  <2>2. QED
    BY <1>6, <2>1
<1> HIDE DEF A
<1>9. Ascends(Append(out, at), A \cup {at})
  BY <1>1, <1>2, <1>7, AscendsAppend DEF A
<1>10. Ascends(out', {i \in Starts : i <= End})
  BY <1>4, <1>8, <1>9
<1>11. Ascends(out, {i \in Starts : i <= End})'
  BY <1>5, <1>10 DEF Ascends
<1>12. at' \in Nat /\ at' <= Size' /\ ~(at' < Size')
  BY <1>1, <1>4, <1>5
<1>13. QED
  BY <1>11, <1>12 DEF FallbackInv

----------------------------------------------------------------------------
(* The index up to the end of the file *)

\* Offsets in order that have the tokens up to the end are cut off right behind it.
LEMMA IndexedIs ==
    ASSUME Proper, NEW S, Ascends(out, S), S \subseteq Starts,
           \A i \in Starts : i <= End => i \in S
    PROVE  Indexed = Ascending(Starts \cap 0 .. End)
<1>1. TextOK /\ Size \in Nat /\ End \in Nat /\ End < Size /\ Starts \subseteq 0 .. Size - 1
      /\ \A i \in 0 .. Size - 1 : text[i] = "nul" <=> i >= End
  <2>1. Starts \subseteq DOMAIN text
    BY StartsAre
  <2>2. QED
    BY <2>1 DEF Proper, TextOK
<1>2. DOMAIN out = 1 .. Len(out) /\ Len(out) \in Nat
      /\ \A n \in 1 .. Len(out) : out[n] \in Int /\ out[n] \in S
  BY DEF Ascends
<1> DEFINE ends == {n \in DOMAIN out : text[out[n]] = "nul"}
           m == Min(ends)
<1>3. End \in Starts
  BY <1>1, EndIsStart
<1>4. PICK k \in DOMAIN out : out[k] = End
  <2>1. End \in S
    BY <1>1, <1>3
  <2>2. QED
    BY <2>1 DEF Ascends
<1>5. k \in ends /\ ends \subseteq Nat
  BY <1>1, <1>2, <1>4
<1>6. m \in ends /\ m <= k
  <2> HIDE DEF ends
  <2>1. QED
    BY <1>5, MinIs
<1>7. Indexed = SubSeq(out, 1, m)
  BY <1>5 DEF Indexed
<1> HIDE DEF m
<1>8. m \in DOMAIN out /\ text[out[m]] = "nul" /\ m \in Nat /\ k \in Nat
  BY <1>5, <1>6
<1>9. out[m] = End
  <2>1. out[m] \in 0 .. Size - 1
    BY <1>1, <1>2, <1>8
  <2>2. out[m] >= End
    BY <1>1, <1>8, <2>1
  <2>3. m = k \/ out[m] < out[k]
    BY <1>4, <1>6, <1>8 DEF Ascends
  <2>4. QED
    BY <1>1, <1>4, <2>1, <2>2, <2>3
<1>10. {x \in S : x <= out[m]} = Starts \cap 0 .. End
  <2>1. \A x \in S : x \in Starts /\ x \in Int /\ 0 <= x
    BY <1>1
  <2>2. \A x \in 0 .. End : x \in Starts => x \in S /\ x <= End
    BY <1>1
  <2>3. \A x \in S : x <= End => x \in 0 .. End
    BY <1>1, <2>1
  <2>4. \A x : x \in S /\ x <= End <=> x \in Starts /\ x \in 0 .. End
    BY <2>1, <2>2, <2>3
  <2>5. QED
    BY <1>9, <2>4
<1>11. Ascends(SubSeq(out, 1, m), Starts \cap 0 .. End)
  <2>1. Ascends(SubSeq(out, 1, m), {x \in S : x <= out[m]})
    BY <1>8, AscendsCut
  <2>2. QED
    BY <1>10, <2>1
<1>12. Ascends(Ascending(Starts \cap 0 .. End), Starts \cap 0 .. End)
  <2> DEFINE T == Starts \cap 0 .. End
  <2>1. T \subseteq Int /\ T \subseteq 0 .. End
    BY <1>1
  <2>2. IsFiniteSet(0 .. End)
    BY <1>1, FS_Interval
  <2>3. IsFiniteSet(T)
    BY <2>1, <2>2, FS_Subset
  <2> HIDE DEF T
  <2>4. Ascends(Ascending(T), T)
    BY <2>1, <2>3, AscendingAscends
  <2>5. QED
    BY <2>4 DEF T
<1>13. QED
  BY <1>7, <1>11, <1>12, AscendsUnique

\* The inductive invariant of the lexer.
IndexInv ==
    /\ TextOK /\ indexer \in {"simd", "fallback"}
    /\ indexer = "simd" /\ Lexical /\ ~SimdExcepted => SimdInv
    /\ indexer = "fallback" /\ Lexical /\ ~FallbackExcepted => FallbackInv

LEMMA IndexInvFinds ==
    ASSUME IndexInv
    PROVE  FindsTokens
<1> SUFFICES ASSUME at >= Size, Lexical, indexer = "simd" => ~SimdExcepted,
                    indexer = "fallback" => ~FallbackExcepted
             PROVE  Indexed = Ascending(Starts \cap 0 .. End)
  BY DEF FindsTokens, End
<1>1. Proper
  BY DEF Proper, IndexInv
<1>2. /\ Size \in Nat /\ End \in Nat /\ End + width <= Size /\ width \in Nat /\ width >= 2
      /\ Starts \subseteq 0 .. Size - 1
  <2>1. Starts \subseteq DOMAIN text
    BY StartsAre
  <2>2. QED
    BY <1>1, <2>1 DEF Proper, TextOK
<1>3. CASE indexer = "simd"
  <2>1. SimdInv
    BY <1>3 DEF IndexInv
  <2>2. at = Size
    BY <1>2, <2>1 DEF SimdInv
  <2>3. Size - 1 \in Starts /\ Size - 1 >= End
    <3>1. Size - 1 \in End .. Size - 1
      BY <1>2
    <3>2. QED
      BY <1>1, <1>2, <3>1, EndIsStart
  <2>4. carry.start # 0 /\ Size - 1 <= at + carry.start
    <3>1. Size - 1 < at
      BY <1>2, <2>2
    <3>2. QED
      BY <2>1, <2>3, <3>1 DEF SimdInv
  <2>5. carry.start \in Int /\ carry.start <= 0
    BY <2>1 DEF SimdInv
  <2>6. at + carry.start = Size - 1
    BY <1>2, <2>2, <2>4, <2>5
  <2> DEFINE S == {i \in Starts : i < at + carry.start}
  <2>7. Ascends(out, S)
    BY <2>1 DEF SimdInv
  <2>8. \A i \in Starts : i <= End => i \in S
    BY <1>2, <2>6
  <2>9. S \subseteq Starts
    OBVIOUS
  <2> HIDE DEF S
  <2>10. QED
    BY <1>1, <2>7, <2>8, <2>9, IndexedIs
<1>4. CASE indexer = "fallback"
  <2>1. FallbackInv
    BY <1>4 DEF IndexInv
  <2>2. at = Size
    BY <1>2, <2>1 DEF FallbackInv
  <2> DEFINE S == {i \in Starts : i <= End}
  <2>3. Ascends(out, S)
    BY <2>1, <2>2 DEF FallbackInv
  <2>4. S \subseteq Starts /\ \A i \in Starts : i <= End => i \in S
    OBVIOUS
  <2> HIDE DEF S
  <2>5. QED
    BY <1>1, <2>3, <2>4, IndexedIs
<1>5. QED
  BY <1>3, <1>4 DEF IndexInv

\* A padded text.
LEMMA PaddedIs ==
    ASSUME NEW w \in Nat, w >= 2, NEW n \in Nat, NEW a \in SUBSET (Chars \ {"nul"}),
           NEW t \in [1 .. n -> a], text = Padded(t, w), width = w
    PROVE  TextOK
<1> DEFINE q == (n + w + w - 1) \div w
           r == (n + w + w - 1) % w
           size == q * w
<1>1. n + w + w - 1 = w * q + r /\ q \in Int /\ r \in 0 .. w - 1
  <2>1. n + w + w - 1 \in Nat
    OBVIOUS
  <2>2. QED
    BY <2>1
<1>2. Len(t) = n
  OBVIOUS
<1>3. text = [i \in 0 .. size - 1 |-> IF i < n THEN t[i + 1] ELSE "nul"]
  BY <1>2 DEF Padded
<1> HIDE DEF q, r
<1>4. size = w * q /\ size >= n + w
  BY <1>1
<1>5. q \in Nat
  <2> SUFFICES ASSUME q < 0 PROVE FALSE
    BY <1>1
  <2>1. w * q <= 0
    BY <1>1
  <2>2. w * q >= n + w /\ w * q \in Int
    BY <1>1, <1>4
  <2> DEFINE x == w * q
  <2>3. x \in Int /\ x <= 0 /\ x >= n + w
    BY <2>1, <2>2
  <2> HIDE DEF x
  <2>4. QED
    BY <2>3
<1>6. size \in Nat /\ size % w = 0
  <2>1. (w * q) % w = 0
    BY <1>5, Multiple
  <2>2. QED
    BY <1>4, <1>5, <2>1
<1> HIDE DEF size
<1>7. Size = size
  <2>1. DOMAIN text = 0 .. size - 1
    BY <1>3
  <2> DEFINE last == size - 1
  <2>2. last \in Int /\ 0 \in Int /\ ~(0 > last) /\ last - 0 + 1 = size
    BY <1>4, <1>6
  <2> HIDE DEF last
  <2>3. Cardinality(0 .. last) = size
    BY <2>2, FS_Interval
  <2>4. QED
    BY <2>1, <2>3 DEF Size, last
<1>8. \A i \in 0 .. size - 1 : i < n => i + 1 \in 1 .. n /\ t[i + 1] \in a
  BY <1>6
<1>9. text \in [0 .. size - 1 -> Chars]
  <2>1. "nul" \in Chars /\ a \subseteq Chars
    BY DEF Chars
  <2>2. QED
    BY <1>3, <1>8, <2>1
<1>10. \A i \in 0 .. size - 1 : text[i] = "nul" <=> i >= n
  <2> SUFFICES ASSUME NEW i \in 0 .. size - 1 PROVE text[i] = "nul" <=> i >= n
    OBVIOUS
  <2>1. text[i] = IF i < n THEN t[i + 1] ELSE "nul"
    BY <1>3
  <2>2. i < n => t[i + 1] # "nul"
    BY <1>8
  <2>3. QED
    BY <1>6, <2>1, <2>2
<1>11. End = n
  <2> DEFINE E == {i \in DOMAIN text : text[i] = "nul"}
  <2>1. E \subseteq Nat /\ n \in E /\ \A k \in E : n <= k
    BY <1>4, <1>6, <1>9, <1>10
  <2>2. End = Min(E)
    BY DEF End
  <2> HIDE DEF E
  <2>3. QED
    BY <2>1, <2>2, MinEquals
<1>12. QED
  BY <1>4, <1>6, <1>7, <1>9, <1>10, <1>11 DEF TextOK

LEMMA IndexInvInit ==
    ASSUME LexInit
    PROVE  IndexInv
<1>1. width \in Nat /\ width >= 2
  <2>1. width \in Nat /\ width > 0 /\ width % 2 = 0
    BY LexIndexAssumption DEF LexInit
  <2>2. width # 1
    BY <2>1
  <2>3. QED
    BY <2>1, <2>2
<1>2. PICK alphabet \in Alphabets, n \in 0 .. MaxText :
          \E t \in [1 .. n -> alphabet] : text = Padded(t, width)
  BY DEF LexInit
<1>3. PICK t \in [1 .. n -> alphabet] : text = Padded(t, width)
  BY <1>2
<1>4. TextOK
  <2>1. n \in Nat /\ alphabet \in SUBSET (Chars \ {"nul"})
    BY LexIndexAssumption
  <2>2. QED
    BY <1>1, <1>3, <2>1, PaddedIs
<1>5. at = 0 /\ carry = NoCarry /\ out = << >> /\ indexer \in {"simd", "fallback"}
  BY DEF LexInit
<1>6. /\ Size \in Nat /\ Size > 0 /\ 0 % width = 0 /\ End \in Nat /\ 0 \in 0 .. Size - 1
      /\ Starts \subseteq 0 .. Size - 1 /\ DOMAIN text = 0 .. Size - 1
  <2>1. Starts \subseteq DOMAIN text
    BY StartsAre
  <2>2. 0 % width = 0
    <3>1. (width * 0) % width = 0
      <4> DEFINE z == 0
      <4>1. z \in Nat
        OBVIOUS
      <4> HIDE DEF z
      <4>2. (width * z) % width = 0
        BY <1>1, <4>1, Multiple
      <4>3. QED
        BY <4>2 DEF z
    <3>2. width * 0 = 0
      BY <1>1
    <3>3. QED
      BY <3>1, <3>2
  <2>3. QED
    BY <1>1, <1>4, <2>1, <2>2 DEF TextOK
<1>7. Part[0] = "code" /\ \A c : Escaped(c)[0] = 0
  BY <1>4, PartIs, EscapedIs
<1>8. \A S : (\A x \in S : FALSE) => Ascends(out, S)
  <2>1. out \in Seq(Int) /\ DOMAIN out = {}
    BY <1>5
  <2>2. QED
    BY <2>1 DEF Ascends
<1>9. \A i \in Starts : ~(i < 0)
  BY <1>6
<1>10. SimdInv
  <2>1. carry.start = 0 /\ carry.quoted = FALSE /\ carry.comment = FALSE
        /\ carry.structural = TRUE /\ \A c \in Escaping : carry.escape[c] = FALSE
    BY <1>5 DEF NoCarry
  <2>2. Open[0] = "code"
    <3>1. 0 \in 0 .. width /\ at + 0 = 0
      BY <1>1, <1>5
    <3>2. QED
      BY <1>7, <3>1 DEF Open
  <2>3. \A c \in Escaping : carry.escape[c] = (Escaped(c)[at] = 1)
    <3> SUFFICES ASSUME NEW c \in Escaping PROVE carry.escape[c] = (Escaped(c)[at] = 1)
      OBVIOUS
    <3>1. carry.escape[c] = FALSE
      BY <2>1
    <3>2. Escaped(c)[at] = 0
      BY <1>5, <1>7
    <3>3. (Escaped(c)[at] = 1) = FALSE
      BY <3>2
    <3>4. QED
      BY <3>1, <3>3, Zenon
  <2>4. Carried
    BY <2>1, <2>2, <2>3 DEF Carried
  <2>5. Entered
    BY <1>5, <2>1, <2>4 DEF Entered
  <2>6. \A i \in Starts : ~(i < at) /\ ~(i < at + carry.start)
    BY <1>5, <1>9, <2>1
  <2>7. Ascends(out, {i \in Starts : i < at + carry.start})
    BY <1>8, <2>6
  <2>8. QED
    BY <1>5, <1>6, <2>1, <2>5, <2>6, <2>7 DEF SimdInv
<1>11. FallbackInv
  <2>1. ~Plain(0 - 1)
    BY <1>6 DEF Plain
  <2>2. ~Second[0]
    BY <1>4, <1>6, <2>1, SecondIs DEF Pairing
  <2>3. Between(at)
    BY <1>5, <1>6, <1>7, <2>1, <2>2 DEF Between
  <2>4. Ascends(out, {i \in Starts : i < at})
    BY <1>5, <1>8, <1>9
  <2>5. QED
    BY <1>5, <1>6, <2>3, <2>4 DEF FallbackInv
<1>12. QED
  BY <1>4, <1>5, <1>10, <1>11 DEF IndexInv

\* Nothing of it depends on what a step that leaves the state alone changes.
LEMMA IndexInvStays ==
    ASSUME IndexInv, UNCHANGED lexVars
    PROVE  IndexInv'
<1>1. text' = text /\ width' = width /\ at' = at /\ carry' = carry /\ out' = out
      /\ indexer' = indexer
  BY DEF lexVars
<1>2. /\ Size' = Size /\ Part' = Part /\ Starts' = Starts /\ Second' = Second
      /\ \A c : Escaped(c)' = Escaped(c)
      /\ TextOK' = TextOK /\ Lexical' = Lexical /\ SimdExcepted' = SimdExcepted
      /\ FallbackExcepted' = FallbackExcepted
  BY <1>1, SameText
<1>3. Entered' = Entered
  BY <1>1, <1>2 DEF Entered, Carried, Open, Breaks, Separates
<1>4. SimdInv' = SimdInv
  BY <1>1, <1>2, <1>3 DEF SimdInv, Ascends
<1>5. FallbackInv' = FallbackInv
  BY <1>1, <1>2 DEF FallbackInv, Ascends, Between, End, Plain
<1>6. QED
  BY <1>1, <1>2, <1>4, <1>5 DEF IndexInv

LEMMA IndexInvStep ==
    ASSUME IndexInv, LexNext
    PROVE  IndexInv'
<1>1. text' = text /\ width' = width /\ indexer' = indexer
  BY DEF LexNext, SimdBlock, FallbackToken, FallbackEnd
<1>2. /\ TextOK' = TextOK /\ Lexical' = Lexical /\ SimdExcepted' = SimdExcepted
      /\ FallbackExcepted' = FallbackExcepted
  BY <1>1, SameText
<1>3. TextOK /\ indexer \in {"simd", "fallback"}
  BY DEF IndexInv
<1>4. ASSUME indexer = "simd", Lexical, ~SimdExcepted
      PROVE  SimdInv'
  <2>1. SimdInv /\ Proper
    BY <1>4 DEF IndexInv, Proper
  <2>2. SimdBlock
    BY <1>4 DEF LexNext, FallbackToken, FallbackEnd
  <2>3. QED
    BY <1>4, <2>1, <2>2, BlockStep
<1>5. ASSUME indexer = "fallback", Lexical, ~FallbackExcepted
      PROVE  FallbackInv'
  <2>1. FallbackInv /\ Proper
    BY <1>5 DEF IndexInv, Proper
  <2>2. CASE FallbackToken
    BY <1>5, <2>1, <2>2, FallbackStep
  <2>3. CASE FallbackEnd
    BY <2>1, <2>3, FallbackEndStep
  <2>4. QED
    BY <1>5, <2>2, <2>3 DEF LexNext, SimdBlock
<1>6. QED
  BY <1>1, <1>2, <1>3, <1>4, <1>5 DEF IndexInv

\* Between blocks and between tokens the indexers know what is open and have written what
\* they have passed (src/src/lex.c).
THEOREM LexInvariant == LexSpec => []IndexInv
<1>1. LexInit => IndexInv
  BY IndexInvInit
<1>2. IndexInv /\ [LexNext]_lexVars => IndexInv'
  BY IndexInvStep, IndexInvStays
<1>3. QED
  BY <1>1, <1>2, PTL DEF LexSpec

\* Both indexers of src/src/lex.c find the tokens of every text, whatever the width of a
\* block and whatever its blocks cut through.
THEOREM LexFindsTokens == LexSpec => []FindsTokens
<1>1. IndexInv => FindsTokens
  BY IndexInvFinds
<1>2. QED
  BY <1>1, LexInvariant, PTL

----------------------------------------------------------------------------
(***************************************************************************)
(* Cursor.  The inductive invariant adds to the properties what they do    *)
(* not say by themselves: the i-th level is at least i - 1, which is what  *)
(* bounds the stack by the deepest level; depth never exceeds that bound;  *)
(* what is buffered is the blocks owed, in their order, under the token    *)
(* peek has put on top; and, until a comprehension has been found, a       *)
(* bracket that is current, or about to be, is still counted.              *)
(***************************************************************************)

\* Levels are nested and the i-th of them is no shallower than its index.
Stack ==
    /\ LevelsNested
    /\ \A i \in DOMAIN indents : indents[i] >= i - 1

\* The blocks owed make up for what depth and the stack differ by.
Settled(blocks) ==
    \/ blocks = <<>> /\ depth = Len(indents) - 1
    \/ blocks = <<"indent">> /\ depth + 1 = Len(indents) - 1
    \/ blocks # <<>> /\ AllDedents(blocks) /\ depth - Len(blocks) = Len(indents) - 1

\* The buffer holds the blocks owed, with a line break on top of them or, where
\* none is owed, a token of the line.
Owing ==
    /\ depth <= MaxIndent
    /\ \E blocks \in Seq({"indent", "dedent"}) :
          /\ Settled(blocks)
          /\ \/ buffer = blocks
             \/ buffer = Append(blocks, "newline")
             \/ blocks = <<>> /\ \E kind \in RawKinds : buffer = <<kind>>

\* Until a comprehension has been found: a current bracket is still counted and
\* nothing is buffered behind it, so that no line break can be right there.
Counted ==
    ~reread => /\ paren >= 0 /\ comprs = <<>>
               /\ cur = "open" => paren > 0 /\ buffer = <<>>
               /\ buffer = <<"open">> => paren > 0
               /\ prev = "open" /\ buffer # <<>> => Top(buffer) \in RawKinds

IInv == TypeOK /\ Stack /\ Owing /\ Counted /\ ScanUnbuffered

----------------------------------------------------------------------------

\* The stack is never longer than the levels there are: indent_levels, which
\* holds one more, cannot overflow.
LEMMA StackBound == ASSUME TypeOK, Stack PROVE Len(indents) \in 1 .. MaxIndent + 1
<1>1. indents \in Seq(Levels) /\ indents # <<>>
  BY DEF TypeOK, Stack, LevelsNested
<1>2. Len(indents) \in DOMAIN indents /\ Len(indents) \in Nat /\ Len(indents) >= 1
  BY <1>1
<1>3. indents[Len(indents)] \in Levels /\ indents[Len(indents)] >= Len(indents) - 1
  BY <1>1, <1>2 DEF Stack
<1> QED
  BY <1>2, <1>3, CursorAssumption DEF Levels, CursorAssumption

\* A prefix of a sequence.
LEMMA Prefix == ASSUME NEW S, NEW s \in Seq(S), NEW n \in 0 .. Len(s)
                PROVE /\ SubSeq(s, 1, n) \in Seq(S)
                      /\ Len(SubSeq(s, 1, n)) = n
                      /\ \A i \in 1 .. n : SubSeq(s, 1, n)[i] = s[i]
<1>1. n \in Int /\ Len(s) \in Nat /\ \A i \in 1 .. n : s[i] \in S
  BY LenProperties
<1>2. /\ SubSeq(s, 1, n) \in Seq(S)
      /\ Len(SubSeq(s, 1, n)) = IF 1 <= n THEN n - 1 + 1 ELSE 0
      /\ \A i \in 1 .. n - 1 + 1 : SubSeq(s, 1, n)[i] = s[1 + i - 1]
  BY <1>1, SubSeqProperties
<1>3. n - 1 + 1 = n /\ \A i \in 1 .. n : 1 + i - 1 = i
  BY <1>1
<1> QED
  BY <1>1, <1>2, <1>3

\* Pushing a token and popping it again.
LEMMA PopAppend == ASSUME NEW S, NEW s \in Seq(S), NEW e \in S
                   PROVE /\ Append(s, e) \in Seq(S) /\ Append(s, e) # <<>>
                         /\ Len(Append(s, e)) = Len(s) + 1
                         /\ Top(Append(s, e)) = e
                         /\ Pop(Append(s, e)) = s
<1> DEFINE t == Append(s, e)
<1>1. /\ t \in Seq(S) /\ t # <<>> /\ Len(t) = Len(s) + 1
      /\ (\A i \in 1 .. Len(s) : t[i] = s[i]) /\ t[Len(s) + 1] = e
  BY AppendProperties
<1>2. Len(s) \in Nat
  BY LenProperties
<1>3. Len(s) \in 0 .. Len(t)
  BY <1>1, <1>2
<1>4. /\ SubSeq(t, 1, Len(s)) \in Seq(S) /\ Len(SubSeq(t, 1, Len(s))) = Len(s)
      /\ \A i \in 1 .. Len(s) : SubSeq(t, 1, Len(s))[i] = t[i]
  BY <1>1, <1>3, Prefix
<1>5. SubSeq(t, 1, Len(s)) = s
  BY <1>1, <1>4, SeqEqual
<1>6. Len(t) - 1 = Len(s)
  BY <1>1, <1>2
<1> QED
  BY <1>1, <1>5, <1>6 DEF Top, Pop

\* The stack operators on a sequence of one element.
LEMMA Singleton == \A e : /\ <<e>> # <<>> /\ Len(<<e>>) = 1
                          /\ Top(<<e>>) = e /\ Pop(<<e>>) = <<>>
<1> TAKE e
<1>1. <<e>> \in Seq({e}) /\ Len(<<e>>) = 1 /\ <<e>>[1] = e
  OBVIOUS
<1>2. Pop(<<e>>) = SubSeq(<<e>>, 1, 0)
  BY <1>1 DEF Pop
<1>3. SubSeq(<<e>>, 1, 0) \in Seq({e}) /\ Len(SubSeq(<<e>>, 1, 0)) = 0
  BY <1>1
<1> QED
  BY <1>1, <1>2, <1>3 DEF Top

\* Popping blocks that are all DEDENTs leaves such blocks, one fewer.
LEMMA PopDedents == ASSUME NEW blocks \in Seq({"indent", "dedent"}),
                           blocks # <<>>, AllDedents(blocks)
                    PROVE /\ Top(blocks) = "dedent"
                          /\ Pop(blocks) \in Seq({"indent", "dedent"})
                          /\ Len(Pop(blocks)) = Len(blocks) - 1
                          /\ AllDedents(Pop(blocks))
<1>1. Len(blocks) \in Nat /\ Len(blocks) >= 1 /\ DOMAIN blocks = 1 .. Len(blocks)
  OBVIOUS
<1>2. Top(blocks) = "dedent"
  BY <1>1 DEF Top, AllDedents
<1>3. /\ SubSeq(blocks, 1, Len(blocks) - 1) \in Seq({"indent", "dedent"})
      /\ Len(SubSeq(blocks, 1, Len(blocks) - 1)) = Len(blocks) - 1
      /\ \A i \in 1 .. Len(blocks) - 1 : SubSeq(blocks, 1, Len(blocks) - 1)[i] = blocks[i]
  <2>1. Len(blocks) - 1 \in 0 .. Len(blocks)
    BY <1>1
  <2> QED
    BY <2>1, Prefix
<1>4. DOMAIN SubSeq(blocks, 1, Len(blocks) - 1) = 1 .. Len(blocks) - 1
  BY <1>3
<1> QED
  BY <1>1, <1>2, <1>3, <1>4 DEF AllDedents, Pop

\* Blocks are tokens that can be buffered, and the last of them is a block.
LEMMA BlockKinds == ASSUME NEW blocks \in Seq({"indent", "dedent"})
                    PROVE /\ blocks \in Seq(BufferedKinds)
                          /\ blocks # <<>> => Top(blocks) \in {"indent", "dedent"}
<1>1. blocks \in Seq(BufferedKinds)
  BY SeqMonotonic DEF BufferedKinds
<1>2. blocks # <<>> => Len(blocks) \in 1 .. Len(blocks)
  OBVIOUS
<1> QED
  BY <1>1, <1>2 DEF Top

\* What is owed is what the buffer holds under the token that was peeked.
LEMMA OwingBalanced == TypeOK /\ Owing => BlocksBalanced
<1> SUFFICES ASSUME TypeOK, Owing PROVE BlocksBalanced
  OBVIOUS
<1>1. PICK blocks \in Seq({"indent", "dedent"}) :
         /\ Settled(blocks)
         /\ \/ buffer = blocks
            \/ buffer = Append(blocks, "newline")
            \/ blocks = <<>> /\ \E kind \in RawKinds : buffer = <<kind>>
  BY DEF Owing
<1>2. Owed = blocks
  <2>1. CASE buffer = blocks
    BY <2>1, BlockKinds DEF Owed
  <2>2. CASE buffer = Append(blocks, "newline")
    <3>1. blocks \in Seq(BufferedKinds) /\ "newline" \in BufferedKinds
      BY BlockKinds DEF BufferedKinds
    <3>2. buffer # <<>> /\ Top(buffer) = "newline" /\ Pop(buffer) = blocks
      BY <2>2, <3>1, PopAppend
    <3> QED
      BY <3>2 DEF Owed
  <2>3. CASE blocks = <<>> /\ \E kind \in RawKinds : buffer = <<kind>>
    <3>1. PICK kind \in RawKinds : buffer = <<kind>>
      BY <2>3
    <3>2. buffer # <<>> /\ Top(buffer) = kind /\ Pop(buffer) = <<>>
      BY <3>1, Singleton
    <3> QED
      BY <2>3, <3>2 DEF Owed, RawKinds
  <2> QED
    BY <1>1, <2>1, <2>2, <2>3
<1> QED
  BY <1>1, <1>2 DEF BlocksBalanced, Settled

\* The invariant holds initially.
LEMMA InitIInv == Init => IInv
<1> SUFFICES ASSUME Init PROVE IInv
  OBVIOUS
<1>1. buffer \in Seq(BufferedKinds) /\ buffer \in Seq({"indent", "dedent"}) /\ buffer = <<>>
  BY DEF Init
<1>2. indents \in Seq(Levels) /\ Len(indents) = 1 /\ indents[1] = 0 /\ indents # <<>>
  BY CursorAssumption, Singleton DEF Init, Levels, CursorAssumption
<1>3. TypeOK
  <2>1. comprs \in Seq(Comprs) /\ paren \in Int /\ depth \in Nat
    BY DEF Init
  <2> QED
    BY <1>1, <1>2, <2>1 DEF Init, TypeOK, Kinds
<1>4. Stack
  BY <1>2 DEF Stack, LevelsNested
<1>5. Owing
  <2>1. depth = 0 /\ depth <= MaxIndent /\ Settled(<<>>)
    BY <1>2, CursorAssumption DEF Init, Settled, CursorAssumption
  <2> QED
    BY <1>1, <2>1 DEF Owing
<1>6. Counted /\ ScanUnbuffered
  BY <1>1 DEF Init, Counted, ScanUnbuffered
<1> QED
  BY <1>3, <1>4, <1>5, <1>6 DEF IInv

\* With nothing buffered nothing is owed.
LEMMA NothingOwed == TypeOK /\ Owing /\ buffer = <<>> => depth = Len(indents) - 1
<1> SUFFICES ASSUME TypeOK, Owing, buffer = <<>> PROVE depth = Len(indents) - 1
  OBVIOUS
<1>1. Owed = <<>>
  BY DEF Owed
<1>2. BlocksBalanced
  BY OwingBalanced
<1>3. <<>> # <<"indent">>
  BY Singleton
<1> QED
  BY <1>1, <1>2, <1>3 DEF BlocksBalanced

\* Where depth and the stack stay and nothing is buffered, a step settles what
\* it leaves unbuffered, or buffers a token of the line.
LEMMA OwingStays ==
    ASSUME TypeOK, Owing, buffer = <<>>, UNCHANGED <<indents, depth>>,
           buffer' = <<>> \/ buffer' = <<"newline">> \/ \E kind \in RawKinds : buffer' = <<kind>>
    PROVE  Owing'
<1>1. depth = Len(indents) - 1 /\ depth <= MaxIndent
  BY NothingOwed DEF Owing
<1>2. <<>> \in Seq({"indent", "dedent"}) /\ Settled(<<>>)'
  BY <1>1 DEF Settled
<1>3. Append(<<>>, "newline") = <<"newline">>
  OBVIOUS
<1>4. \/ buffer' = <<>>
      \/ buffer' = Append(<<>>, "newline")
      \/ \E kind \in RawKinds : buffer' = <<kind>>
  BY <1>3
<1> QED
  BY <1>1, <1>2, <1>4 DEF Owing

\* Taking a buffered token pays one of the blocks that are owed, or uncovers
\* them.
LEMMA TakeBufferedOwing ==
    IInv /\ TakeBuffered => /\ cur' \in BufferedKinds /\ buffer' \in Seq(BufferedKinds)
                            /\ depth' \in Nat /\ Owing'
                            /\ buffer' # <<>> => Top(buffer') \in {"indent", "dedent"}
                            /\ cur' = "open" => buffer' = <<>> /\ buffer = <<"open">>
<1> SUFFICES ASSUME IInv, TakeBuffered
             PROVE  /\ cur' \in BufferedKinds /\ buffer' \in Seq(BufferedKinds)
                    /\ depth' \in Nat /\ Owing'
                    /\ buffer' # <<>> => Top(buffer') \in {"indent", "dedent"}
                    /\ cur' = "open" => buffer' = <<>> /\ buffer = <<"open">>
  OBVIOUS
<1>0. TypeOK /\ Stack /\ Owing
  BY DEF IInv
<1>1. /\ Len(indents) \in Nat /\ Len(indents) >= 1 /\ Len(indents) <= MaxIndent + 1
      /\ depth \in Nat /\ MaxIndent \in Nat /\ indents' = indents
  BY <1>0, StackBound, CursorAssumption DEF TypeOK, CursorAssumption, TakeBuffered
<1>2. PICK blocks \in Seq({"indent", "dedent"}) :
         /\ Settled(blocks)
         /\ \/ buffer = blocks
            \/ buffer = Append(blocks, "newline")
            \/ blocks = <<>> /\ \E kind \in RawKinds : buffer = <<kind>>
  BY <1>0 DEF Owing
<1>3. buffer # <<>> /\ cur' = Top(buffer) /\ buffer' = Pop(buffer) /\ depth' = depth + Nesting(cur')
  BY DEF TakeBuffered
<1>4. CASE blocks = <<>> /\ \E kind \in RawKinds : buffer = <<kind>>
  <2> PICK kind \in RawKinds : buffer = <<kind>>
    BY <1>4
  <2>1. cur' = kind /\ buffer' = <<>> /\ depth' = depth
    BY <1>1, <1>3, Singleton DEF Nesting, RawKinds
  <2>2. depth' = Len(indents') - 1 /\ depth' <= MaxIndent
    <3>1. <<>> # <<"indent">>
      BY Singleton
    <3> QED
      BY <1>0, <1>1, <1>2, <1>4, <2>1, <3>1 DEF Settled, Owing
  <2>3. Owing'
    <3>1. Settled(<<>>)' /\ <<>> \in Seq({"indent", "dedent"})
      BY <2>2 DEF Settled
    <3> QED
      BY <2>1, <2>2, <3>1 DEF Owing
  <2> QED
    BY <1>1, <2>1, <2>3 DEF BufferedKinds
<1>5. CASE buffer = Append(blocks, "newline")
  <2>1. blocks \in Seq(BufferedKinds) /\ "newline" \in BufferedKinds
    BY BlockKinds DEF BufferedKinds
  <2>2. cur' = "newline" /\ buffer' = blocks
    BY <1>3, <1>5, <2>1, PopAppend
  <2>3. depth' = depth
    BY <1>1, <1>3, <2>2 DEF Nesting
  <2>4. Settled(blocks)'
    BY <1>1, <1>2, <2>3 DEF Settled
  <2>5. Owing'
    BY <1>0, <2>2, <2>3, <2>4 DEF Owing
  <2> QED
    BY <1>1, <2>1, <2>2, <2>3, <2>5, BlockKinds
<1>6. CASE buffer = blocks
  <2>1. CASE blocks = <<"indent">> /\ depth + 1 = Len(indents) - 1
    <3>1. cur' = "indent" /\ buffer' = <<>> /\ depth' = depth + 1
      BY <1>3, <1>6, <2>1, Singleton DEF Nesting
    <3>2. depth' \in Nat /\ depth' = Len(indents') - 1 /\ depth' <= MaxIndent
      BY <1>1, <2>1, <3>1
    <3>3. Owing'
      <4>1. Settled(<<>>)' /\ <<>> \in Seq({"indent", "dedent"})
        BY <3>2 DEF Settled
      <4> QED
        BY <3>1, <3>2, <4>1 DEF Owing
    <3> QED
      BY <3>1, <3>2, <3>3 DEF BufferedKinds
  <2>2. CASE AllDedents(blocks) /\ depth - Len(blocks) = Len(indents) - 1
    <3>1. /\ cur' = "dedent" /\ depth' = depth + (-1)
          /\ buffer' \in Seq({"indent", "dedent"})
          /\ Len(buffer') = Len(buffer) - 1
          /\ AllDedents(buffer')
      BY <1>3, <1>6, <2>2, PopDedents DEF Nesting
    <3>2. Len(buffer) \in Nat /\ Len(buffer') \in Nat
      BY <1>2, <1>6, <3>1, LenProperties
    <3>3. /\ depth' \in Nat /\ depth' <= MaxIndent
          /\ depth' - Len(buffer') = Len(indents') - 1
      <4>1. depth <= MaxIndent
        BY <1>0 DEF Owing
      <4> QED
        BY <1>1, <1>6, <2>2, <3>1, <3>2, <4>1
    <3>4. Settled(buffer)'
      <4>1. CASE buffer' = <<>>
        <5>1. Len(buffer') = 0
          BY <4>1
        <5> QED
          BY <1>1, <3>3, <4>1, <5>1 DEF Settled
      <4>2. CASE buffer' # <<>>
        BY <3>1, <3>3, <4>2 DEF Settled, AllDedents
      <4> QED
        BY <4>1, <4>2
    <3>5. Owing'
      BY <3>1, <3>3, <3>4 DEF Owing
    <3>6. /\ buffer' \in Seq(BufferedKinds)
          /\ buffer' # <<>> => Top(buffer') \in {"indent", "dedent"}
      BY <3>1, BlockKinds
    <3> QED
      BY <3>1, <3>3, <3>5, <3>6 DEF BufferedKinds
  <2> QED
    BY <1>2, <1>3, <1>6, <2>1, <2>2 DEF Settled
<1> QED
  BY <1>2, <1>4, <1>5, <1>6

\* Taking a buffered token preserves the invariant.
LEMMA TakeBufferedIInv == IInv /\ TakeBuffered => IInv'
<1> SUFFICES ASSUME IInv, TakeBuffered PROVE IInv'
  OBVIOUS
<1>0. TypeOK /\ Stack /\ Owing /\ Counted /\ ScanUnbuffered
  BY DEF IInv
<1>1. /\ cur' \in BufferedKinds /\ buffer' \in Seq(BufferedKinds)
      /\ depth' \in Nat /\ Owing'
      /\ buffer' # <<>> => Top(buffer') \in {"indent", "dedent"}
      /\ cur' = "open" => buffer' = <<>> /\ buffer = <<"open">>
  BY TakeBufferedOwing
<1>2. /\ buffer # <<>> /\ prev' = cur
      /\ UNCHANGED <<indents, paren, comprs, reread, failed>>
  BY DEF TakeBuffered
<1>3. TypeOK'
  BY <1>0, <1>1, <1>2 DEF TypeOK, Kinds
<1>4. Stack' /\ ScanUnbuffered'
  BY <1>0, <1>2 DEF Stack, LevelsNested, ScanUnbuffered
<1>5. Counted'
  <2> SUFFICES ASSUME ~reread
               PROVE  /\ paren >= 0 /\ comprs = <<>>
                      /\ cur' = "open" => paren > 0 /\ buffer' = <<>>
                      /\ buffer' = <<"open">> => paren > 0
                      /\ prev' # "open"
    BY <1>2 DEF Counted
  <2>1. /\ paren >= 0 /\ comprs = <<>> /\ cur # "open"
        /\ buffer = <<"open">> => paren > 0
    BY <1>0, <1>2 DEF Counted
  <2>2. buffer' # <<"open">>
    BY <1>1, Singleton
  <2> QED
    BY <1>1, <1>2, <2>1, <2>2
<1> QED
  BY <1>1, <1>3, <1>4, <1>5 DEF IInv

\* The level after a token, before and after the first comprehension.
LEMMA LevelAfter ==
    ASSUME NEW kind \in RawKinds, TypeOK, Counted, CanFollow(kind)
    PROVE  /\ ParenAfter(kind) \in Int
           /\ ~reread => ParenAfter(kind) >= 0 /\ (kind = "open" => ParenAfter(kind) > 0)
<1>1. paren \in Int /\ (~reread => paren >= 0)
  BY DEF TypeOK, Counted
<1>2. ~reread /\ kind = "close" => paren > 0
  BY DEF CanFollow
<1> QED
  BY <1>1, <1>2 DEF ParenAfter, RawKinds

\* Reading a token of the line buffers nothing and opens no block.
LEMMA ReadTokenIInv ==
    ASSUME NEW skipped \in BOOLEAN, NEW kind \in RawKinds
    PROVE IInv /\ ReadToken(skipped, kind) => IInv'
<1> SUFFICES ASSUME IInv, ReadToken(skipped, kind) PROVE IInv'
  OBVIOUS
<1>0. TypeOK /\ Stack /\ Owing /\ Counted /\ ScanUnbuffered
  BY DEF IInv
<1>1. /\ buffer = <<>> /\ cur' = kind /\ prev' \in {cur, "nl"} /\ paren' = ParenAfter(kind)
      /\ UNCHANGED <<buffer, indents, comprs, depth, reread, failed>>
  BY DEF ReadToken, CanRead
<1>2. /\ paren' \in Int
      /\ ~reread => paren' >= 0 /\ (kind = "open" => paren' > 0)
  BY <1>0, <1>1, LevelAfter DEF ReadToken
<1>3. TypeOK'
  BY <1>0, <1>1, <1>2 DEF TypeOK, Kinds, BufferedKinds
<1>4. Stack' /\ ScanUnbuffered' /\ Owing'
  BY <1>0, <1>1, OwingStays DEF Stack, LevelsNested, ScanUnbuffered
<1>5. Counted'
  <2>1. ~reread => comprs = <<>>
    BY <1>0 DEF Counted
  <2> QED
    BY <1>1, <1>2, <2>1, Singleton DEF Counted
<1> QED
  BY <1>3, <1>4, <1>5 DEF IInv

\* Peeking at a token of the line buffers the one token it reads.
LEMMA PeekIInv == ASSUME NEW kind \in RawKinds PROVE IInv /\ Peek(kind) => IInv'
<1> SUFFICES ASSUME IInv, Peek(kind) PROVE IInv'
  OBVIOUS
<1>0. TypeOK /\ Stack /\ Owing /\ Counted /\ ScanUnbuffered
  BY DEF IInv
<1>1. /\ buffer = <<>> /\ buffer' = <<kind>> /\ cur = "word" /\ paren' = ParenAfter(kind)
      /\ UNCHANGED <<cur, prev, indents, comprs, depth, reread, failed>>
  BY DEF Peek, CanPeek, CanRead
<1>2. /\ paren' \in Int
      /\ ~reread => paren' >= 0 /\ (kind = "open" => paren' > 0)
  BY <1>0, <1>1, LevelAfter DEF Peek
<1>3. buffer' \in Seq(BufferedKinds)
  BY <1>1 DEF BufferedKinds
<1>4. TypeOK'
  BY <1>0, <1>1, <1>2, <1>3 DEF TypeOK
<1>5. Stack' /\ ScanUnbuffered' /\ Owing'
  BY <1>0, <1>1, OwingStays DEF Stack, LevelsNested, ScanUnbuffered
<1>6. Counted'
  <2>1. Top(buffer') = kind /\ (buffer' = <<"open">> => kind = "open")
    BY <1>1, Singleton
  <2>2. ~reread => comprs = <<>>
    BY <1>0 DEF Counted
  <2> QED
    BY <1>1, <1>2, <2>1, <2>2 DEF Counted
<1> QED
  BY <1>4, <1>5, <1>6 DEF IInv

\* A line break pushes one level and owes an INDENT, or drops levels and owes a
\* DEDENT for each; where peek meets it the line break is buffered on top.
LEMMA BreakLineOwing ==
    ASSUME NEW n \in Levels, NEW peeked \in BOOLEAN, TypeOK, Stack, Owing, buffer = <<>>,
           BreakLine(n, peeked), UNCHANGED depth
    PROVE  /\ indents' \in Seq(Levels) /\ Stack' /\ Owing'
           /\ buffer' \in Seq(BufferedKinds)
           /\ buffer' # <<>> => Top(buffer') \notin RawKinds
<1>1. /\ Len(indents) \in Nat /\ Len(indents) >= 1 /\ Len(indents) <= MaxIndent + 1
      /\ MaxIndent \in Nat \ {0} /\ depth \in Nat
  BY StackBound, CursorAssumption DEF CursorAssumption, TypeOK
<1>2. depth = Len(indents) - 1 /\ depth' = depth /\ depth <= MaxIndent
  BY NothingOwed DEF Owing
<1>3. ASSUME NEW blocks \in Seq({"indent", "dedent"}), buffer' = Buffered(blocks, peeked),
             Settled(blocks)'
      PROVE  /\ Owing'
             /\ buffer' \in Seq(BufferedKinds)
             /\ buffer' # <<>> => Top(buffer') \notin RawKinds
  <2>1. /\ blocks \in Seq(BufferedKinds) /\ "newline" \in BufferedKinds
        /\ blocks # <<>> => Top(blocks) \in {"indent", "dedent"}
    BY BlockKinds DEF BufferedKinds
  <2>2. CASE peeked
    <3>1. buffer' = Append(blocks, "newline")
      BY <1>3, <2>2 DEF Buffered
    <3>2. buffer' \in Seq(BufferedKinds) /\ Top(buffer') = "newline"
      BY <2>1, <3>1, PopAppend
    <3> QED
      BY <1>2, <1>3, <3>1, <3>2 DEF Owing, RawKinds
  <2>3. CASE ~peeked
    <3>1. buffer' = blocks
      BY <1>3, <2>3 DEF Buffered
    <3> QED
      BY <1>2, <1>3, <2>1, <3>1 DEF Owing, RawKinds
  <2> QED
    BY <2>2, <2>3
<1>4. CASE Deeper(n) /\ indents' = Append(indents, n) /\ buffer' = Buffered(<<"indent">>, peeked)
  <2>1. /\ indents' \in Seq(Levels) /\ indents' # <<>>
        /\ Len(indents') = Len(indents) + 1
        /\ indents'[Len(indents) + 1] = n
        /\ \A i \in 1 .. Len(indents) : indents'[i] = indents[i]
    BY <1>1, <1>4 DEF TypeOK
  <2>2. /\ indents[Len(indents)] < n /\ indents[Len(indents)] >= Len(indents) - 1
        /\ \A i \in 1 .. Len(indents) : indents[i] \in Int
    BY <1>1, <1>4 DEF Deeper, Top, Stack, TypeOK, Levels
  <2>3. LevelsNested'
    <3>1. Len(indents) \in Nat \ {0} /\ LevelsNested
      BY <1>1 DEF TypeOK, Stack
    <3>2. QED
      BY <2>1, <2>2, <3>1 DEF LevelsNested
  <2>4. \A i \in DOMAIN indents' : indents'[i] >= i - 1
    <3>1. n \in Int /\ n >= Len(indents)
      BY <1>1, <2>2 DEF Levels
    <3>2. /\ DOMAIN indents' = 1 .. Len(indents) + 1 /\ Len(indents) \in Nat
          /\ \A i \in 1 .. Len(indents) : indents[i] >= i - 1
      BY <1>1, <2>1 DEF Stack, TypeOK
    <3> QED
      BY <2>1, <3>1, <3>2
  <2>5. Settled(<<"indent">>)' /\ <<"indent">> \in Seq({"indent", "dedent"})
    BY <1>1, <1>2, <2>1 DEF Settled
  <2> QED
    BY <1>3, <1>4, <2>1, <2>3, <2>4, <2>5 DEF Stack
<1>5. CASE \E j \in Kept(n) : /\ n < Top(indents)
                              /\ indents' = SubSeq(indents, 1, j)
                              /\ buffer' = Buffered(Dedents(Len(indents) - j), peeked)
  <2> PICK j \in Kept(n) : /\ n < Top(indents)
                           /\ indents' = SubSeq(indents, 1, j)
                           /\ buffer' = Buffered(Dedents(Len(indents) - j), peeked)
    BY <1>5
  <2>1. j \in 1 .. Len(indents) /\ j # Len(indents)
    <3>1. j \in 1 .. Len(indents) /\ (j = 1 \/ indents[j] <= n)
      BY DEF Kept, TypeOK
    <3>2. indents[1] = 0 /\ n \in Nat /\ n < indents[Len(indents)]
      BY DEF Stack, LevelsNested, Top, Levels
    <3>3. indents[Len(indents)] \in Int
      BY <1>1 DEF TypeOK, Levels
    <3> QED
      BY <3>1, <3>2, <3>3
  <2>2. /\ indents' \in Seq(Levels) /\ Len(indents') = j /\ indents' # <<>>
        /\ \A i \in 1 .. j : indents'[i] = indents[i]
    <3>1. indents \in Seq(Levels) /\ j \in 0 .. Len(indents)
      BY <2>1 DEF TypeOK
    <3>2. /\ SubSeq(indents, 1, j) \in Seq(Levels) /\ Len(SubSeq(indents, 1, j)) = j
          /\ \A i \in 1 .. j : SubSeq(indents, 1, j)[i] = indents[i]
      BY <3>1, Prefix
    <3>3. indents' = SubSeq(indents, 1, j) /\ j \in Nat /\ j # 0
      BY <2>1
    <3>4. /\ indents' \in Seq(Levels) /\ Len(indents') = j
          /\ \A i \in 1 .. j : indents'[i] = indents[i]
      BY <3>2, <3>3
    <3>5. Len(<<>>) = 0
      OBVIOUS
    <3>6. Len(indents') # Len(<<>>)
      BY <3>3, <3>4, <3>5
    <3>7. indents' # <<>>
      BY <3>6, Zenon
    <3> QED
      BY <3>4, <3>7
  <2>3. LevelsNested'
    <3>1. \A i \in 1 .. j - 1 : /\ i \in 1 .. Len(indents) - 1
                                /\ i \in 1 .. j /\ i + 1 \in 1 .. j
      BY <1>1, <2>1
    <3>2. \A i \in 1 .. j - 1 : indents'[i] < indents'[i + 1]
      BY <2>2, <3>1 DEF LevelsNested, Stack
    <3>3. indents'[1] = 0
      BY <2>1, <2>2 DEF LevelsNested, Stack
    <3> QED
      BY <2>2, <3>2, <3>3 DEF LevelsNested
  <2>4. \A i \in DOMAIN indents' : indents'[i] >= i - 1
    BY <1>1, <2>1, <2>2 DEF Stack, TypeOK
  <2> DEFINE blocks == Dedents(Len(indents) - j)
  <2>5. /\ Len(indents) - j \in 1 .. MaxIndent
        /\ blocks \in Seq({"indent", "dedent"})
        /\ Len(blocks) = Len(indents) - j /\ blocks # <<>>
        /\ AllDedents(blocks)
    <3>1. Len(indents) - j \in 1 .. MaxIndent
      BY <1>1, <2>1
    <3>2. \A count \in 1 .. MaxIndent :
             /\ Dedents(count) \in Seq({"indent", "dedent"})
             /\ Len(Dedents(count)) = count /\ Dedents(count) # <<>>
             /\ AllDedents(Dedents(count))
      BY <1>1 DEF Dedents, AllDedents
    <3> QED
      BY <3>1, <3>2
  <2>6. depth' - Len(blocks) = Len(indents') - 1
    BY <1>1, <1>2, <2>1, <2>2, <2>5
  <2>7. PICK owed \in Seq({"indent", "dedent"}) :
           /\ buffer' = Buffered(owed, peeked)
           /\ owed # <<>> /\ AllDedents(owed) /\ depth' - Len(owed) = Len(indents') - 1
    BY <2>5, <2>6
  <2>8. Settled(owed)'
    BY <2>7 DEF Settled, AllDedents
  <2> QED
    BY <1>3, <2>2, <2>3, <2>4, <2>7, <2>8 DEF Stack
<1>6. CASE indents' = indents /\ buffer' = Buffered(<<>>, peeked)
  <2>1. Settled(<<>>)' /\ <<>> \in Seq({"indent", "dedent"})
    BY <1>2, <1>6 DEF Settled
  <2>2. indents' \in Seq(Levels) /\ Stack'
    BY <1>6 DEF TypeOK, Stack, LevelsNested
  <2> QED
    BY <1>3, <1>6, <2>1, <2>2
<1> QED
  BY <1>4, <1>5, <1>6 DEF BreakLine

\* A line break, read or peeked at.  Before the first comprehension no bracket
\* can be current at it, nor peek meet it.
LEMMA BreakIInv ==
    ASSUME NEW n \in Levels
    PROVE  IInv /\ (ReadLine(n) \/ PeekLine(n)) => IInv'
<1> SUFFICES ASSUME IInv, ReadLine(n) \/ PeekLine(n) PROVE IInv'
  OBVIOUS
<1>0. TypeOK /\ Stack /\ Owing /\ Counted /\ ScanUnbuffered
  BY DEF IInv
<1>1. /\ buffer = <<>> /\ paren = 0 /\ UNCHANGED <<paren, comprs, depth, reread, failed>>
      /\ \E peeked \in BOOLEAN : BreakLine(n, peeked)
  BY DEF ReadLine, PeekLine, CanPeek, CanRead
<1>2. /\ indents' \in Seq(Levels) /\ Stack' /\ Owing'
      /\ buffer' \in Seq(BufferedKinds)
      /\ buffer' # <<>> => Top(buffer') \notin RawKinds
  BY <1>0, <1>1, BreakLineOwing
<1>3. cur' \in {cur, "newline"} /\ prev' \in {cur, prev}
  BY DEF ReadLine, PeekLine
<1>4. TypeOK'
  BY <1>0, <1>1, <1>2, <1>3 DEF TypeOK, Kinds, BufferedKinds
<1>5. ScanUnbuffered'
  BY <1>0, <1>1 DEF ScanUnbuffered
<1>6. Counted'
  <2> SUFFICES ASSUME ~reread
               PROVE  /\ paren >= 0 /\ comprs = <<>> /\ cur' # "open" /\ prev' # "open"
                      /\ buffer' # <<"open">>
    BY <1>1 DEF Counted
  <2>1. cur # "open" /\ paren >= 0 /\ comprs = <<>>
    BY <1>0, <1>1 DEF Counted
  <2>2. ReadLine(n)
    <3>1. PeekLine(n) => paren > 0
      BY DEF PeekLine, CanPeek
    <3>2. ~(paren > 0)
      BY <1>1
    <3> QED
      BY <3>1, <3>2
  <2>3. buffer' # <<"open">>
    BY <1>2, Singleton DEF RawKinds
  <2> QED
    BY <2>1, <2>2, <2>3 DEF ReadLine
<1> QED
  BY <1>2, <1>4, <1>5, <1>6 DEF IInv

\* A line break before a blank line, read or peeked at.
LEMMA BlankIInv == IInv /\ (ReadBlank \/ PeekBlank) => IInv'
<1> SUFFICES ASSUME IInv, ReadBlank \/ PeekBlank PROVE IInv'
  OBVIOUS
<1>0. TypeOK /\ Stack /\ Owing /\ Counted /\ ScanUnbuffered
  BY DEF IInv
<1>1. /\ buffer = <<>> /\ UNCHANGED <<indents, paren, comprs, depth, reread, failed>>
      /\ buffer' = <<>> \/ buffer' = <<"newline">>
  BY DEF ReadBlank, PeekBlank, CanPeek, CanRead, Buffered
<1>2. cur' \in {cur, "newline"} /\ prev' \in {cur, prev}
  BY DEF ReadBlank, PeekBlank
<1>3. buffer' \in Seq(BufferedKinds)
  <2>1. <<>> \in Seq(BufferedKinds) /\ <<"newline">> \in Seq(BufferedKinds)
    BY DEF BufferedKinds
  <2> QED
    BY <1>1, <2>1
<1>4. TypeOK'
  BY <1>0, <1>1, <1>2, <1>3 DEF TypeOK, Kinds, BufferedKinds
<1>5. Stack' /\ Owing' /\ ScanUnbuffered'
  BY <1>0, <1>1, OwingStays DEF Stack, LevelsNested, ScanUnbuffered
<1>6. Counted'
  <2> SUFFICES ASSUME ~reread
               PROVE  /\ paren >= 0 /\ comprs = <<>>
                      /\ cur' # "open" /\ prev' # "open" /\ buffer' = <<>>
    BY <1>1, Singleton DEF Counted
  <2>1. ReadBlank /\ paren = 0
    <3>1. PeekBlank => paren > 0
      BY DEF PeekBlank, CanPeek
    <3>2. paren = 0
      BY DEF PeekBlank, ReadBlank
    <3>3. ~(paren > 0)
      BY <3>2
    <3> QED
      BY <3>1, <3>2, <3>3
  <2>2. cur # "open"
    BY <1>0, <2>1 DEF Counted
  <2> QED
    BY <1>0, <1>1, <2>1, <2>2 DEF ReadBlank, Counted
<1> QED
  BY <1>4, <1>5, <1>6 DEF IInv

\* A scan behind a bracket cannot fail before the first comprehension, and
\* running past the tokens moves nothing.
LEMMA FailureIInv == IInv /\ (ScanFails \/ ReadPastEnd) => IInv'
<1> SUFFICES ASSUME IInv, ScanFails \/ ReadPastEnd PROVE IInv'
  OBVIOUS
<1>0. TypeOK /\ Stack /\ Owing /\ Counted /\ ScanUnbuffered
  BY DEF IInv
<1>1. UNCHANGED <<cur, prev, buffer, indents, paren, comprs, depth, reread>>
  BY DEF ScanFails, ReadPastEnd
<1>2. (Stack /\ Owing /\ Counted)'
  BY <1>0, <1>1 DEF Stack, LevelsNested, Owing, Settled, Counted
<1>3. failed' \in {"index", "scan"} /\ (failed' = "scan" => reread)
  <2>1. ScanFails => buffer # <<>> /\ Top(buffer) \notin RawKinds /\ prev = "open"
    BY DEF ScanFails, Unpeeked, RawKinds
  <2>2. ScanFails => reread
    BY <1>0, <2>1 DEF Counted
  <2> QED
    BY <2>2 DEF ScanFails, ReadPastEnd
<1>4. TypeOK' /\ ScanUnbuffered'
  BY <1>0, <1>1, <1>3 DEF TypeOK, ScanUnbuffered
<1> QED
  BY <1>2, <1>4 DEF IInv

\* A comprehension moves the cursor and the level and leaves the blocks alone.
LEMMA ComprehensionIInv ==
    IInv /\ ((\E level \in -MaxParen .. MaxParen : BeginComprehension(level))
              \/ EndClauses \/ EndElement) => IInv'
<1> SUFFICES ASSUME IInv,
                    (\E level \in -MaxParen .. MaxParen : BeginComprehension(level))
                      \/ EndClauses \/ EndElement
             PROVE  IInv'
  OBVIOUS
<1>0. TypeOK /\ Stack /\ Owing /\ Counted /\ ScanUnbuffered
  BY DEF IInv
<1>1. UNCHANGED <<buffer, indents, depth, failed>>
  BY DEF BeginComprehension, EndClauses, EndElement
<1>2. comprs # <<>> => /\ Top(comprs) \in Comprs /\ Pop(comprs) \in Seq(Comprs)
  <2> SUFFICES ASSUME comprs # <<>> PROVE Top(comprs) \in Comprs /\ Pop(comprs) \in Seq(Comprs)
    OBVIOUS
  <2>1. comprs \in Seq(Comprs) /\ Len(comprs) \in 1 .. Len(comprs) /\ Len(comprs) - 1 \in 0 .. Len(comprs)
    BY <1>0 DEF TypeOK
  <2> QED
    BY <2>1, Prefix DEF Top, Pop
<1>3. ASSUME \E level \in -MaxParen .. MaxParen : BeginComprehension(level)
      PROVE  TypeOK' /\ Counted'
  <2> PICK level \in -MaxParen .. MaxParen : BeginComprehension(level)
    BY <1>3
  <2>1. /\ comprs' = Append(comprs, [first |-> cur, after |-> "none"])
        /\ cur' = "word" /\ prev' = "word" /\ paren' = level /\ reread' = TRUE
    BY DEF BeginComprehension
  <2>2. comprs' \in Seq(Comprs)
    <3>1. [first |-> cur, after |-> "none"] \in Comprs
      BY <1>0 DEF TypeOK, Comprs
    <3> QED
      BY <1>0, <2>1, <3>1 DEF TypeOK
  <2>3. level \in Int
    BY CursorAssumption DEF CursorAssumption
  <2>4. TypeOK' /\ Counted'
    BY <1>0, <1>1, <2>1, <2>2, <2>3 DEF TypeOK, Kinds, BufferedKinds, RawKinds, Counted
  <2> QED
    BY <2>4
<1>4. ASSUME EndClauses PROVE TypeOK' /\ Counted'
  <2>1. /\ comprs # <<>> /\ cur' = Top(comprs).first /\ prev' = "scanned"
        /\ comprs' = Append(Pop(comprs), [Top(comprs) EXCEPT !.after = cur])
        /\ UNCHANGED <<paren, reread>>
    BY <1>4 DEF EndClauses
  <2>2. cur' \in Kinds /\ [Top(comprs) EXCEPT !.after = cur] \in Comprs
    BY <1>0, <1>2, <2>1 DEF TypeOK, Comprs
  <2>3. comprs' \in Seq(Comprs)
    BY <1>2, <2>1, <2>2
  <2>4. reread
    BY <1>0, <2>1 DEF Counted
  <2>5. TypeOK' /\ Counted'
    BY <1>0, <1>1, <2>1, <2>2, <2>3, <2>4 DEF TypeOK, Kinds, Counted
  <2> QED
    BY <2>5
<1>5. ASSUME EndElement PROVE TypeOK' /\ Counted'
  <2>1. /\ comprs # <<>> /\ cur' = "close" /\ prev' = "word" /\ comprs' = Pop(comprs)
        /\ UNCHANGED <<paren, reread>>
    BY <1>5 DEF EndElement
  <2>2. reread
    BY <1>0, <2>1 DEF Counted
  <2>3. TypeOK' /\ Counted'
    BY <1>0, <1>1, <1>2, <2>1, <2>2 DEF TypeOK, Kinds, BufferedKinds, RawKinds, Counted
  <2> QED
    BY <2>3
<1>6. TypeOK' /\ Counted'
  BY <1>3, <1>4, <1>5
<1>7. Stack' /\ Owing' /\ ScanUnbuffered'
  <2>1. reread => reread'
    BY DEF BeginComprehension, EndClauses, EndElement
  <2> QED
    BY <1>0, <1>1, <2>1 DEF Stack, LevelsNested, Owing, Settled, ScanUnbuffered
<1> QED
  BY <1>6, <1>7 DEF IInv

\* IInv is an invariant of the cursor, for every depth of indentation, every
\* array size that CursorAssumption allows and every level a comprehension
\* leaves.
THEOREM CursorInvariant == Spec => []IInv
<1>1. IInv /\ [Next]_vars => IInv'
  <2> SUFFICES ASSUME IInv, [Next]_vars PROVE IInv'
    OBVIOUS
  <2>1. CASE UNCHANGED vars
    BY <2>1 DEF vars, IInv, TypeOK, Stack, LevelsNested, Owing, Settled, Counted, ScanUnbuffered
  <2>2. CASE Next
    BY <2>2, TakeBufferedIInv, ReadTokenIInv, BreakIInv, BlankIInv, PeekIInv, FailureIInv,
       ComprehensionIInv DEF Next
  <2> QED
    BY <2>1, <2>2
<1> QED
  BY InitIInv, <1>1, PTL DEF Spec

\* The cursor's state stays of the right type, comprehensions included: no more
\* blocks end than have begun.
THEOREM CursorTypeCorrect == Spec => []TypeOK
<1>1. IInv => TypeOK
  BY DEF IInv
<1> QED
  BY CursorInvariant, <1>1, PTL

\* indent_levels always holds the enclosing levels in order.
THEOREM CursorLevelsNested == Spec => []LevelsNested
<1>1. IInv => LevelsNested
  BY DEF IInv, Stack
<1> QED
  BY CursorInvariant, <1>1, PTL

\* The arrays of the Parser that advance, peek and enter_scope store to without
\* a test are never overrun.
THEOREM CursorSlotsSuffice == Spec => []SlotsSuffice
<1>1. IInv => SlotsSuffice
  <2> SUFFICES ASSUME IInv PROVE SlotsSuffice
    OBVIOUS
  <2>1. Len(indents) \in 1 .. MaxIndent + 1
    BY StackBound DEF IInv
  <2>2. depth \in Nat /\ depth <= MaxIndent /\ MaxIndent \in Nat
    BY CursorAssumption DEF IInv, TypeOK, Owing, CursorAssumption
  <2>3. Len(buffer) \in Nat /\ Len(buffer) <= MaxIndent + 1
    <3>1. PICK blocks \in Seq({"indent", "dedent"}) :
             /\ Settled(blocks)
             /\ \/ buffer = blocks
                \/ buffer = Append(blocks, "newline")
                \/ blocks = <<>> /\ \E kind \in RawKinds : buffer = <<kind>>
      BY DEF IInv, Owing
    <3>2. Len(blocks) \in Nat /\ Len(blocks) <= MaxIndent
      <4>1. Len(blocks) \in Nat /\ Len(<<>>) = 0 /\ Len(<<"indent">>) = 1
        BY LenProperties
      <4>2. Len(indents) \in Nat /\ Len(indents) >= 1
        BY <2>1, CursorAssumption DEF CursorAssumption
      <4>3. CASE blocks = <<>>
        BY <2>2, <4>1, <4>3
      <4>4. CASE blocks = <<"indent">>
        BY <4>1, <4>4, CursorAssumption DEF CursorAssumption
      <4>5. CASE depth - Len(blocks) = Len(indents) - 1
        BY <2>2, <4>1, <4>2, <4>5
      <4> QED
        BY <3>1, <4>3, <4>4, <4>5 DEF Settled
    <3>3. Len(Append(blocks, "newline")) = Len(blocks) + 1
      BY <3>1
    <3>4. CASE buffer = blocks
      BY <2>2, <3>2, <3>4
    <3>5. CASE buffer = Append(blocks, "newline")
      BY <2>2, <3>2, <3>3, <3>5
    <3>6. CASE \E kind \in RawKinds : buffer = <<kind>>
      <4>1. Len(buffer) = 1
        BY <3>6, Singleton
      <4> QED
        BY <2>2, <4>1
    <3> QED
      BY <3>1, <3>4, <3>5, <3>6
  <2> QED
    BY <2>1, <2>2, <2>3, CursorAssumption DEF SlotsSuffice, CursorAssumption
<1> QED
  BY CursorInvariant, <1>1, PTL

\* Every INDENT is matched by one DEDENT, buffered or delivered, also where peek
\* meets the line break and where a comprehension puts the cursor back.
THEOREM CursorBlocksBalanced == Spec => []BlocksBalanced
<1>1. IInv => BlocksBalanced
  BY OwingBalanced DEF IInv
<1> QED
  BY CursorInvariant, <1>1, PTL

\* The scan for a comprehension starts with nothing buffered for as long as no
\* comprehension has been found: its assertion fails in or after one at most.
THEOREM CursorScanUnbuffered == Spec => []ScanUnbuffered
<1>1. IInv => ScanUnbuffered
  BY DEF IInv
<1> QED
  BY CursorInvariant, <1>1, PTL
=============================================================================
