----------------------------- MODULE DictProofs -----------------------------
(* Proofs about Dict as it is compiled into luv60: groups of 8 or 16 bytes, a *)
(* load of seven eighths, and no erasures, for all hashes, seeds, capacities  *)
(* and numbers of keys.                                                       *)
EXTENDS Dict, FiniteSetTheorems, WellFoundedInduction, TLAPS

----------------------------------------------------------------------------
(* Numbers *)

\* A set of natural numbers that has one has a least one.
LEMMA Least ==
    ASSUME NEW S, S \subseteq Nat, S # {}
    PROVE  \E m \in S : \A k \in S : m <= k
<1>1. PICK R : IsWellFoundedOn(R, Nat) /\ \A k, m \in Nat : k < m => <<k, m>> \in R
  BY NatLessThanWellFounded DEF OpToRel
<1>2. IsWellFoundedOn(R, Nat)
  BY <1>1
<1>3. \E m \in S : \A k \in S : ~ (<<k, m>> \in R)
  BY <1>2, WFMin, Zenon
<1>4. PICK m \in S : \A k \in S : ~ (<<k, m>> \in R)
  BY <1>3
<1>5. \A k \in S : k \in Nat /\ m \in Nat /\ ~(k < m)
  BY <1>1, <1>4
<1>6. \A k \in S : m <= k
  BY <1>5
<1>7. QED
  BY <1>6

\* The least number of a set, as the modules of the library define it.
LEMMA MinIs ==
    ASSUME NEW S, S \subseteq Nat, S # {}
    PROVE  Min(S) \in S /\ \A k \in S : Min(S) <= k
BY Least DEF Min

\* Quotient and remainder.
LEMMA ModParts ==
    ASSUME NEW a \in Int, NEW m \in Nat \ {0}
    PROVE  a % m \in 0 .. m - 1 /\ a \div m \in Int /\ a = (a \div m) * m + (a % m)
OBVIOUS

\* There is one remainder.
LEMMA ModUnique ==
    ASSUME NEW a \in Int, NEW m \in Nat \ {0}, NEW k \in Int, NEW b \in 0 .. m - 1,
           a = k * m + b
    PROVE  a % m = b
<1> DEFINE c == a \div m
           r == a % m
<1>1. r \in 0 .. m - 1 /\ c \in Int /\ a = c * m + r
  BY ModParts
<1> HIDE DEF c, r
<1>2. (k - c) * m = r - b
  BY <1>1
<1> DEFINE d == k - c
<1>3. d \in Int /\ d * m = r - b
  BY <1>1, <1>2
<1> HIDE DEF d
<1>4. d * m < m /\ d * m > -m
  BY <1>1, <1>3
<1>5. d < 1
  <2> SUFFICES ASSUME d >= 1 PROVE FALSE
    BY <1>3
  <2>1. d * m >= m
    BY <1>3
  <2>2. QED
    BY <1>3, <1>4, <2>1
<1>6. d > -1
  <2> SUFFICES ASSUME d <= -1 PROVE FALSE
    BY <1>3
  <2>1. d * m <= -m
    BY <1>3
  <2>2. QED
    BY <1>3, <1>4, <2>1
<1>7. d = 0
  BY <1>3, <1>5, <1>6
<1>8. r = b
  BY <1>1, <1>3, <1>7
<1>9. QED
  BY <1>8 DEF r

\* The powers of two: the numbers that are in every set of numbers that has 1, and the
\* double of each of its own.
Pow2 == {k \in Nat : \A S \in SUBSET Nat :
            1 \in S /\ (\A x \in S : 2 * x \in S) => k \in S}

LEMMA Pow2Step == 1 \in Pow2 /\ \A k \in Pow2 : 2 * k \in Pow2 /\ k \in Nat \ {0}
<1>1. 1 \in Pow2
  BY DEF Pow2
<1>2. ASSUME NEW k \in Pow2 PROVE 2 * k \in Pow2
  <2>1. k \in Nat
    BY DEF Pow2
  <2>2. ASSUME NEW S \in SUBSET Nat, 1 \in S, \A x \in S : 2 * x \in S
        PROVE  2 * k \in S
    BY <2>2 DEF Pow2
  <2>3. QED
    BY <2>1, <2>2 DEF Pow2
<1>3. ASSUME NEW k \in Pow2 PROVE k \in Nat \ {0}
  <2> DEFINE S == Nat \ {0}
  <2>1. S \in SUBSET Nat /\ 1 \in S /\ \A x \in S : 2 * x \in S
    OBVIOUS
  <2> HIDE DEF S
  <2>2. k \in S
    BY <2>1 DEF Pow2
  <2>3. QED
    BY <2>2 DEF S
<1>4. QED
  BY <1>1, <1>2, <1>3

\* What holds of 1, and of the double of each power of two it holds of, holds of all.
LEMMA Pow2All ==
    ASSUME NEW S, 1 \in S, \A x \in S \cap Pow2 : 2 * x \in S
    PROVE  Pow2 \subseteq S
<1> DEFINE U == S \cap Pow2
<1>1. U \in SUBSET Nat /\ 1 \in U /\ \A x \in U : 2 * x \in U
  BY Pow2Step
<1> HIDE DEF U
<1>2. Pow2 \subseteq U
  BY <1>1 DEF Pow2
<1>3. QED
  BY <1>2 DEF U

\* Small powers of two, and multiples of 8 and 16.
LEMMA Pow2Eight ==
    ASSUME NEW x \in Pow2
    PROVE  x \in {1, 2, 4} \/ \E q \in Pow2 : x = 8 * q
<1> DEFINE S == {k \in Pow2 : k \in {1, 2, 4} \/ \E q \in Pow2 : k = 8 * q}
<1>1. 1 \in S
  BY Pow2Step
<1>2. ASSUME NEW k \in S \cap Pow2 PROVE 2 * k \in S
  <2>1. 2 * k \in Pow2 /\ k \in Nat
    BY Pow2Step
  <2>2. CASE k \in {1, 2}
    BY <2>1, <2>2
  <2>3. CASE k = 4
    <3>1. 2 * k = 8 * 1 /\ 1 \in Pow2
      BY <2>3, Pow2Step
    <3>2. QED
      BY <2>1, <3>1
  <2>4. CASE \E q \in Pow2 : k = 8 * q
    <3>1. PICK q \in Pow2 : k = 8 * q
      BY <2>4
    <3>2. 2 * q \in Pow2 /\ q \in Nat
      BY Pow2Step
    <3>3. 2 * k = 8 * (2 * q)
      BY <3>1, <3>2
    <3>4. QED
      BY <2>1, <3>2, <3>3
  <2>5. QED
    BY <2>2, <2>3, <2>4
<1> HIDE DEF S
<1>3. x \in S
  BY <1>1, <1>2, Pow2All
<1>4. QED
  BY <1>3 DEF S

LEMMA Pow2Sixteen ==
    ASSUME NEW x \in Pow2
    PROVE  x \in {1, 2, 4, 8} \/ \E q \in Pow2 : x = 16 * q
<1> DEFINE S == {k \in Pow2 : k \in {1, 2, 4, 8} \/ \E q \in Pow2 : k = 16 * q}
<1>1. 1 \in S
  BY Pow2Step
<1>2. ASSUME NEW k \in S \cap Pow2 PROVE 2 * k \in S
  <2>1. 2 * k \in Pow2 /\ k \in Nat
    BY Pow2Step
  <2>2. CASE k \in {1, 2, 4}
    BY <2>1, <2>2
  <2>3. CASE k = 8
    <3>1. 2 * k = 16 * 1 /\ 1 \in Pow2
      BY <2>3, Pow2Step
    <3>2. QED
      BY <2>1, <3>1
  <2>4. CASE \E q \in Pow2 : k = 16 * q
    <3>1. PICK q \in Pow2 : k = 16 * q
      BY <2>4
    <3>2. 2 * q \in Pow2 /\ q \in Nat
      BY Pow2Step
    <3>3. 2 * k = 16 * (2 * q)
      BY <3>1, <3>2
    <3>4. QED
      BY <2>1, <3>2, <3>3
  <2>5. QED
    BY <2>2, <2>3, <2>4
<1> HIDE DEF S
<1>3. x \in S
  BY <1>1, <1>2, Pow2All
<1>4. QED
  BY <1>3 DEF S

----------------------------------------------------------------------------
(* Triangular numbers reach every remainder by a power of two *)

Tri(n) == (n * (n + 1)) \div 2

LEMMA TriTwice ==
    ASSUME NEW n \in Nat
    PROVE  Tri(n) \in Nat /\ 2 * Tri(n) = n * (n + 1)
<1> DEFINE m == n \div 2
<1>1. m \in Nat /\ (n = 2 * m \/ n = 2 * m + 1)
  OBVIOUS
<1> HIDE DEF m
<1>2. PICK p \in Nat : n * (n + 1) = 2 * p
  <2>1. CASE n = 2 * m
    <3>1. n * (n + 1) = 2 * (m * (n + 1)) /\ m * (n + 1) \in Nat
      BY <1>1, <2>1
    <3>2. QED
      BY <3>1
  <2>2. CASE n = 2 * m + 1
    <3>1. n + 1 = 2 * (m + 1)
      BY <1>1, <2>2
    <3>2. n * (n + 1) = 2 * (n * (m + 1)) /\ n * (m + 1) \in Nat
      BY <1>1, <3>1
    <3>3. QED
      BY <3>2
  <2>3. QED
    BY <1>1, <2>1, <2>2
<1>3. (2 * p) \div 2 = p
  OBVIOUS
<1>4. QED
  BY <1>2, <1>3 DEF Tri

\* Counted from the other end of a round of 2q, they are q further.
LEMMA TriMirrored ==
    ASSUME NEW q \in Nat \ {0}, NEW n \in 0 .. q - 1, NEW k \in Nat, NEW i \in Nat,
           Tri(n) = k * q + i
    PROVE  /\ (2 * q - 1) - n \in 0 .. 2 * q - 1
           /\ (2 * q - 1) - 2 * n + k \in Nat
           /\ Tri((2 * q - 1) - n) = ((2 * q - 1) - 2 * n + k) * q + i
<1> DEFINE j == (2 * q - 1) - n
           l == (2 * q - 1) - 2 * n + k
<1>1. j \in 0 .. 2 * q - 1 /\ l \in Nat /\ j \in Nat /\ n \in Nat
  OBVIOUS
<1>2. 2 * Tri(j) = j * (j + 1) /\ 2 * Tri(n) = n * (n + 1) /\ Tri(j) \in Nat /\ Tri(n) \in Nat
  BY <1>1, TriTwice
<1>3. j * (j + 1) = 2 * (((2 * q - 1) - 2 * n) * q) + n * (n + 1)
  <2>1. j + 1 = 2 * q - n
    OBVIOUS
  <2>2. j * (j + 1) = ((2 * q - 1) - n) * (2 * q - n)
    BY <2>1
  <2>3. QED
    BY <2>2
<1>4. l * q = ((2 * q - 1) - 2 * n) * q + k * q
  OBVIOUS
<1> DEFINE a == ((2 * q - 1) - 2 * n) * q
           b == k * q
           nn == n * (n + 1)
           jj == j * (j + 1)
           lq == l * q
<1>5. a \in Int /\ b \in Int /\ nn \in Int /\ jj \in Int /\ lq \in Int
  BY <1>1
<1>6. 2 * Tri(j) = jj /\ 2 * Tri(n) = nn /\ jj = 2 * a + nn /\ lq = a + b /\ Tri(n) = b + i
  BY <1>2, <1>3, <1>4
<1> HIDE DEF a, b, nn, jj, lq, j, l
<1>7. Tri(j) = lq + i
  BY <1>2, <1>5, <1>6
<1>8. QED
  BY <1>1, <1>7 DEF lq, j, l

\* The remainders by q that triangular numbers below the qth have.
Reaching(q) ==
    \A i \in 0 .. q - 1 : \E n \in 0 .. q - 1 : \E k \in Nat : Tri(n) = k * q + i

LEMMA ReachingTwice ==
    ASSUME NEW q \in Nat \ {0}, Reaching(q)
    PROVE  Reaching(2 * q)
<1> SUFFICES ASSUME NEW i \in 0 .. 2 * q - 1
             PROVE  \E n \in 0 .. 2 * q - 1 : \E k \in Nat : Tri(n) = k * (2 * q) + i
  BY DEF Reaching
<1> DEFINE far == IF i < q THEN 0 ELSE 1
           low == IF i < q THEN i ELSE i - q
<1>1. far \in {0, 1} /\ low \in 0 .. q - 1 /\ i = far * q + low
  OBVIOUS
<1> HIDE DEF far, low
<1>2. PICK n \in 0 .. q - 1 : \E k \in Nat : Tri(n) = k * q + low
  BY <1>1 DEF Reaching
<1>3. PICK k \in Nat : Tri(n) = k * q + low
  BY <1>2
\* Whenever the quotient is as odd as it has to be, n is the number looked for.
<1>4. ASSUME NEW m \in 0 .. 2 * q - 1, NEW l \in Nat, Tri(m) = l * q + low,
             NEW h \in Nat, l = 2 * h + far
      PROVE  \E n1 \in 0 .. 2 * q - 1 : \E k1 \in Nat : Tri(n1) = k1 * (2 * q) + i
  <2>1. l * q = h * (2 * q) + far * q
    BY <1>1, <1>4
  <2> DEFINE a == h * (2 * q)
             b == far * q
             c == l * q
  <2>2. a \in Int /\ b \in Int /\ c \in Int
    BY <1>1
  <2>3. c = a + b /\ i = b + low /\ Tri(m) = c + low
    BY <1>1, <1>4, <2>1
  <2> HIDE DEF a, b, c
  <2>4. Tri(m) = a + i
    BY <1>1, <2>2, <2>3
  <2>5. QED
    BY <2>4 DEF a
<1>5. PICK h \in Nat : k = 2 * h \/ k = 2 * h + 1
  <2>1. k \div 2 \in Nat /\ (k = 2 * (k \div 2) \/ k = 2 * (k \div 2) + 1)
    OBVIOUS
  <2>2. QED
    BY <2>1
<1>6. CASE k = 2 * h + far
  <2>1. n \in 0 .. 2 * q - 1
    OBVIOUS
  <2>2. QED
    BY <1>3, <1>4, <1>6, <2>1
<1>7. CASE k # 2 * h + far
  <2> DEFINE m == (2 * q - 1) - n
             l == (2 * q - 1) - 2 * n + k
             g == IF far = 0 THEN (q - n) + h ELSE (q - 1 - n) + h
  <2>1. m \in 0 .. 2 * q - 1 /\ l \in Nat /\ Tri(m) = l * q + low
    <3>1. low \in Nat
      BY <1>1
    <3>2. /\ (2 * q - 1) - n \in 0 .. 2 * q - 1
          /\ (2 * q - 1) - 2 * n + k \in Nat
          /\ Tri((2 * q - 1) - n) = ((2 * q - 1) - 2 * n + k) * q + low
      BY <1>3, <3>1, TriMirrored
    <3>3. QED
      BY <3>2, Zenon
  <2>2. g \in Nat /\ l = 2 * g + far
    BY <1>1, <1>5, <1>7
  <2> HIDE DEF m, l, g
  <2>3. QED
    BY <1>4, <2>1, <2>2
<1>8. QED
  BY <1>6, <1>7

LEMMA TriReaches ==
    ASSUME NEW q \in Pow2
    PROVE  Reaching(q)
<1> DEFINE S == {p \in Pow2 : Reaching(p)}
<1>1. 1 \in S
  <2>1. 0 \in 0 .. 1 - 1 /\ 0 \in Nat /\ Tri(0) = 0 * 1 + 0 /\ \A i \in 0 .. 1 - 1 : i = 0
    BY DEF Tri
  <2>2. Reaching(1)
    BY <2>1 DEF Reaching
  <2>3. QED
    BY <2>2, Pow2Step
<1>2. ASSUME NEW p \in S \cap Pow2 PROVE 2 * p \in S
  BY ReachingTwice, Pow2Step
<1> HIDE DEF S
<1>3. q \in S
  BY <1>1, <1>2, Pow2All
<1>4. QED
  BY <1>3 DEF S
----------------------------------------------------------------------------
(* Capacities *)

\* The constants of the build, and the operations the compiler uses.
AsCompiled == GroupWidth \in {8, 16} /\ LoadDivisor = 8 /\ MaxExtras = 0

\* The capacities that tables have.
Capacities == {c \in Nat \ {0} : c + 1 \in Pow2}

\* A table smaller than a group.
Small(c) == c + 1 < GroupWidth

LEMMA CapacityKinds ==
    ASSUME AsCompiled, NEW c \in Capacities
    PROVE  \/ Small(c) /\ 2 * c + 1 <= GroupWidth - 1 /\ c \in {1, 3, 7}
           \/ ~Small(c) /\ \E q \in Pow2 : c + 1 = q * GroupWidth
<1>1. c \in Nat \ {0} /\ c + 1 \in Pow2
  BY DEF Capacities
<1>2. CASE GroupWidth = 8
  <2>1. CASE c + 1 \in {1, 2, 4}
    BY <1>1, <1>2, <2>1 DEF Small
  <2>2. CASE \E q \in Pow2 : c + 1 = 8 * q
    <3>1. PICK q \in Pow2 : c + 1 = 8 * q
      BY <2>2
    <3>2. q \in Nat \ {0}
      BY Pow2Step
    <3>3. c + 1 = q * 8 /\ c + 1 >= 8
      BY <3>1, <3>2
    <3>4. QED
      BY <1>1, <1>2, <3>3 DEF Small
  <2>3. QED
    BY <1>1, <2>1, <2>2, Pow2Eight
<1>3. CASE GroupWidth = 16
  <2>1. CASE c + 1 \in {1, 2, 4, 8}
    BY <1>1, <1>3, <2>1 DEF Small
  <2>2. CASE \E q \in Pow2 : c + 1 = 16 * q
    <3>1. PICK q \in Pow2 : c + 1 = 16 * q
      BY <2>2
    <3>2. q \in Nat \ {0}
      BY Pow2Step
    <3>3. c + 1 = q * 16 /\ c + 1 >= 16
      BY <3>1, <3>2
    <3>4. QED
      BY <1>1, <1>3, <3>3 DEF Small
  <2>3. QED
    BY <1>1, <2>1, <2>2, Pow2Sixteen
<1>4. QED
  BY <1>2, <1>3 DEF AsCompiled

\* The next capacity.
LEMMA CapacityTwice ==
    /\ 1 \in Capacities
    /\ \A c \in Capacities : 2 * c + 1 \in Capacities
<1>1. 2 * 1 \in Pow2
  BY Pow2Step
<1>2. ASSUME NEW c \in Capacities PROVE 2 * c + 1 \in Capacities
  <2>1. c \in Nat \ {0} /\ 2 * (c + 1) \in Pow2
    BY Pow2Step DEF Capacities
  <2>2. 2 * (c + 1) = (2 * c + 1) + 1 /\ 2 * c + 1 \in Nat \ {0}
    BY <2>1
  <2>3. QED
    BY <2>1, <2>2 DEF Capacities
<1>3. QED
  BY <1>1, <1>2 DEF Capacities

\* A table that is as full as it gets keeps an empty slot unless it is small, is not
\* rehashed in place, and has room when it has grown.
LEMMA GrowthRange ==
    ASSUME AsCompiled, NEW c \in Capacities
    PROVE  /\ CapacityToGrowth(c) \in 1 .. c
           /\ ~Small(c) => CapacityToGrowth(c) < c
           /\ CapacityToGrowth(2 * c + 1) > CapacityToGrowth(c)
           /\ CapacityToGrowth(c) * 32 > c * 25
<1>1. c \in Nat \ {0}
  BY DEF Capacities
<1>2. CASE GroupWidth = 8
  BY <1>1, <1>2 DEF AsCompiled, CapacityToGrowth, Small
<1>3. CASE GroupWidth = 16
  BY <1>1, <1>3 DEF AsCompiled, CapacityToGrowth, Small
<1>4. QED
  BY <1>2, <1>3 DEF AsCompiled

----------------------------------------------------------------------------
(* Tables *)

SlotsOf(t) == 0 .. t.capacity - 1

Full(t) == {i \in SlotsOf(t) : t.ctrl[i] >= 0}

KeysOf(t) == {t.slots[i] : i \in Full(t)}

WellFormed(t) ==
    /\ t = [capacity |-> t.capacity, ctrl |-> t.ctrl, seed |-> t.seed, slots |-> t.slots]
    /\ t.capacity \in Capacities
    /\ t.seed \in Seeds
    /\ t.ctrl \in [Bytes(t.capacity) -> {Empty, Sentinel} \cup 0 .. 127]
    /\ t.slots \in [SlotsOf(t) -> Key \cup {Unwritten}]
    /\ t.ctrl[t.capacity] = Sentinel
    /\ \A i \in SlotsOf(t) : t.ctrl[i] # Sentinel

\* The bytes behind the sentinel repeat the first ones; those of no slot are Empty.
Cloned(t) ==
    /\ \A i \in SlotsOf(t) : i < GroupWidth - 1 => t.ctrl[i + t.capacity + 1] = t.ctrl[i]
    /\ \A b \in Bytes(t.capacity) : b > 2 * t.capacity => t.ctrl[b] = Empty

\* A key is where its probing gets to.
KeysPlaced(t) ==
    \A i \in Full(t) : /\ t.slots[i] \in Key
                       /\ t.ctrl[i] = t.slots[i].hash.h2
                       /\ Reached(t, t.slots[i].hash, i)

KeysOnce(t) == \A i, j \in Full(t) : t.slots[i] = t.slots[j] => i = j

Good(t) == WellFormed(t) /\ Cloned(t) /\ KeysPlaced(t) /\ KeysOnce(t)

\* The slot a byte is of.
LEMMA SlotOfByte ==
    ASSUME NEW t, AsCompiled, WellFormed(t), Cloned(t), NEW b \in Bytes(t.capacity),
           b # t.capacity, b <= 2 * t.capacity
    PROVE  \E i \in SlotsOf(t) : /\ t.ctrl[b] = t.ctrl[i] /\ b % (t.capacity + 1) = i
                                 /\ b = i \/ b = i + t.capacity + 1
<1> DEFINE c == t.capacity
           ctrl == t.ctrl
<1>1. c \in Nat \ {0} /\ GroupWidth \in {8, 16} /\ b \in 0 .. c + GroupWidth - 1
  BY DEF WellFormed, Capacities, AsCompiled, Bytes
<1>2. \A i \in 0 .. c - 1 : i < GroupWidth - 1 => ctrl[i + c + 1] = ctrl[i]
  BY DEF Cloned, SlotsOf
<1>3. b # c /\ b <= 2 * c
  OBVIOUS
<1>4. SlotsOf(t) = 0 .. c - 1
  BY DEF SlotsOf
<1> SUFFICES \E i \in 0 .. c - 1 : /\ ctrl[b] = ctrl[i] /\ b % (c + 1) = i
                                   /\ b = i \/ b = i + c + 1
  BY <1>4
<1> HIDE DEF c, ctrl
<1>5. CASE b < c
  <2>1. b \in 0 .. c - 1 /\ b \in 0 .. (c + 1) - 1 /\ b = 0 * (c + 1) + b
        /\ c + 1 \in Nat \ {0} /\ b \in Int
    BY <1>1, <1>5
  <2>2. b % (c + 1) = b
    BY <2>1, ModUnique
  <2>3. QED
    BY <2>1, <2>2
<1>6. CASE b > c
  <2> DEFINE i == b - c - 1
  <2>1. i \in 0 .. c - 1 /\ i \in 0 .. (c + 1) - 1 /\ i < GroupWidth - 1 /\ b = i + c + 1
        /\ b = 1 * (c + 1) + i /\ c + 1 \in Nat \ {0} /\ b \in Int
    BY <1>1, <1>3, <1>6
  <2> HIDE DEF i
  <2>2. b % (c + 1) = i
    BY <2>1, ModUnique
  <2>3. QED
    BY <1>2, <2>1, <2>2
<1>7. QED
  BY <1>1, <1>3, <1>5, <1>6

----------------------------------------------------------------------------
(* Probing *)

LEMMA OffsetRange ==
    ASSUME NEW t, AsCompiled, WellFormed(t), NEW hash \in Hashes, NEW n \in Nat
    PROVE  /\ Start(t, hash) \in 0 .. t.capacity
           /\ Offset(t, hash, n) = (Start(t, hash) + GroupWidth * Tri(n)) % (t.capacity + 1)
           /\ Offset(t, hash, n) \in 0 .. t.capacity
           /\ \A j \in 0 .. GroupWidth - 1 : Offset(t, hash, n) + j \in Bytes(t.capacity)
<1> DEFINE c == t.capacity
           m == c + 1
<1>1. c \in Nat \ {0} /\ m \in Nat \ {0} /\ GroupWidth \in {8, 16} /\ m - 1 = c
  BY DEF WellFormed, Capacities, AsCompiled
<1>2. Mixed(hash.h1, t.seed) \in Int
  BY DictAssumption DEF DictAssumption, WellFormed
<1>3. Start(t, hash) = Mixed(hash.h1, t.seed) % m
  BY DEF Start
<1>4. Offset(t, hash, n) = (Start(t, hash) + GroupWidth * Tri(n)) % m
  BY DEF Offset, Tri
<1>5. Tri(n) \in Nat
  BY TriTwice
<1> HIDE DEF m
<1>6. Start(t, hash) \in 0 .. c
  BY <1>1, <1>2, <1>3, ModParts
<1>7. Start(t, hash) + GroupWidth * Tri(n) \in Int
  BY <1>1, <1>5, <1>6
<1>8. Offset(t, hash, n) \in 0 .. c
  BY <1>1, <1>4, <1>7, ModParts
<1>9. Bytes(t.capacity) = 0 .. c + GroupWidth - 1
  BY DEF Bytes
<1> HIDE DEF c
<1>10. \A j \in 0 .. GroupWidth - 1 : Offset(t, hash, n) + j \in 0 .. c + GroupWidth - 1
  BY <1>1, <1>8
<1>11. QED
  BY <1>4, <1>6, <1>8, <1>9, <1>10 DEF c, m

\* The steps that are taken.
LEMMA StepsRange ==
    ASSUME NEW t, AsCompiled, WellFormed(t)
    PROVE  /\ Steps(t) \subseteq Nat /\ 0 \in Steps(t)
           /\ \A q \in Pow2 : t.capacity + 1 = q * GroupWidth => Steps(t) = 0 .. q - 1
<1> DEFINE c == t.capacity
<1>1. c \in Nat \ {0} /\ GroupWidth \in {8, 16}
  BY DEF WellFormed, Capacities, AsCompiled
<1>2. Steps(t) = 0 .. c \div GroupWidth
  BY DEF Steps
<1> HIDE DEF c
<1>3. c \div GroupWidth \in Nat
  BY <1>1
<1>4. ASSUME NEW q \in Pow2, c + 1 = q * GroupWidth
      PROVE  c \div GroupWidth = q - 1
  <2>1. q \in Nat \ {0}
    BY Pow2Step
  <2>2. CASE GroupWidth = 8
    BY <1>1, <1>4, <2>1, <2>2
  <2>3. CASE GroupWidth = 16
    BY <1>1, <1>4, <2>1, <2>3
  <2>4. QED
    BY <1>1, <2>2, <2>3
<1>5. QED
  BY <1>2, <1>3, <1>4 DEF c

\* Two places in a table that are a multiple of its length apart, one behind the other.
LEMMA WrapOnce ==
    ASSUME NEW m \in Nat \ {0}, NEW e \in 0 .. m - 1, NEW x \in 0 .. 2 * m - 1,
           NEW w \in Int, x = e + w * m
    PROVE  w = 0 \/ w = 1
<1>1. w > -1
  <2> SUFFICES ASSUME w <= -1 PROVE FALSE
    OBVIOUS
  <2>1. w * m <= -m
    OBVIOUS
  <2>2. QED
    BY <2>1
<1>2. w < 2
  <2> SUFFICES ASSUME w >= 2 PROVE FALSE
    OBVIOUS
  <2>1. w * m >= 2 * m
    OBVIOUS
  <2>2. QED
    BY <2>1
<1>3. QED
  BY <1>1, <1>2

\* In a table of whole groups a probing comes to every slot, or to its clone.
LEMMA SlotReached ==
    ASSUME NEW t, AsCompiled, WellFormed(t), Cloned(t), ~Small(t.capacity),
           NEW hash \in Hashes, NEW e \in SlotsOf(t)
    PROVE  \E n \in Steps(t) : \E j \in 0 .. GroupWidth - 1 :
                t.ctrl[Offset(t, hash, n) + j] = t.ctrl[e]
<1> DEFINE c == t.capacity
           m == c + 1
           s == Start(t, hash)
<1>1. PICK q \in Pow2 : m = q * GroupWidth
  BY CapacityKinds DEF WellFormed
<1>2. c \in Nat \ {0} /\ m \in Nat \ {0} /\ GroupWidth \in {8, 16} /\ m - 1 = c
      /\ q \in Nat \ {0} /\ GroupWidth <= m
  BY Pow2Step DEF WellFormed, Capacities, AsCompiled, Small
<1>3. e \in 0 .. m - 1 /\ e \in 0 .. c - 1 /\ s \in 0 .. m - 1
  BY <1>2, OffsetRange DEF SlotsOf
<1>4. Steps(t) = 0 .. q - 1
  BY <1>1, StepsRange
<1> DEFINE d == (e - s) % m
           z == (e - s) \div m
<1>5. d \in 0 .. m - 1 /\ z \in Int /\ e - s = z * m + d
  <2> HIDE DEF m, s
  <2>1. e - s \in Int
    BY <1>2, <1>3
  <2>2. QED
    BY <1>2, <2>1, ModParts
<1> DEFINE a == d \div GroupWidth
           b == d % GroupWidth
<1>6. a \in Nat /\ b \in 0 .. GroupWidth - 1 /\ d = a * GroupWidth + b
  <2> HIDE DEF d
  <2>1. QED
    BY <1>2, <1>5
<1> HIDE DEF c, s, d, z, a, b, m
<1>7. a \in 0 .. q - 1
  <2> SUFFICES ASSUME a >= q PROVE FALSE
    BY <1>2, <1>6
  <2>1. a * GroupWidth >= q * GroupWidth
    BY <1>2, <1>6
  <2>2. QED
    BY <1>1, <1>2, <1>5, <1>6, <2>1
<1>8. PICK n \in 0 .. q - 1 : \E k \in Nat : Tri(n) = k * q + a
  BY <1>7, TriReaches DEF Reaching
<1>9. PICK k \in Nat : Tri(n) = k * q + a
  BY <1>8
<1> DEFINE o == Offset(t, hash, n)
<1>10. o = (s + GroupWidth * Tri(n)) % m /\ o \in 0 .. m - 1 /\ n \in Nat
  BY <1>2, <1>8, OffsetRange DEF s, c, m
<1> DEFINE y == (s + GroupWidth * Tri(n)) \div m
<1>11. y \in Int /\ s + GroupWidth * Tri(n) = y * m + o
  <2>1. s + GroupWidth * Tri(n) \in Int
    BY <1>2, <1>3, <1>10, TriTwice
  <2>2. QED
    BY <1>2, <1>10, <2>1, ModParts
<1> HIDE DEF o, y
<1> DEFINE w == k - y - z
<1>12. o + b = e + w * m
  <2>1. GroupWidth * Tri(n) = k * m + a * GroupWidth
    <3>1. GroupWidth * (k * q + a) = k * (q * GroupWidth) + a * GroupWidth
      BY <1>2, <1>7
    <3>2. QED
      BY <1>1, <1>9, <3>1
  <2>2. w * m = k * m - y * m - z * m
    BY <1>2, <1>5, <1>11
  <2> DEFINE gt == GroupWidth * Tri(n)
             km == k * m
             ag == a * GroupWidth
             ym == y * m
             zm == z * m
             wm == w * m
  <2>3. /\ km \in Int /\ ag \in Int /\ ym \in Int /\ zm \in Int
        /\ wm = km - ym - zm /\ gt = km + ag /\ s + gt = ym + o
        /\ e - s = zm + d /\ d = ag + b
    BY <1>2, <1>5, <1>6, <1>7, <1>11, <2>1, <2>2
  <2> HIDE DEF gt, km, ag, ym, zm, wm, w
  <2>4. o + b = e + wm
    BY <1>3, <1>5, <1>6, <1>10, <2>3
  <2>5. QED
    BY <2>4 DEF wm
<1>13. w \in Int /\ o + b \in 0 .. 2 * m - 1
  BY <1>2, <1>5, <1>6, <1>10, <1>11
<1> HIDE DEF w
<1>14. w = 0 \/ w = 1
  BY <1>2, <1>3, <1>12, <1>13, WrapOnce
<1>15. t.ctrl[o + b] = t.ctrl[e]
  <2>1. CASE w = 0
    <3>1. o + b = e
      BY <1>2, <1>3, <1>6, <1>10, <1>12, <2>1
    <3>2. QED
      BY <3>1
  <2>2. CASE w = 1
    <3>1. o + b = e + c + 1 /\ e < GroupWidth - 1
      BY <1>2, <1>3, <1>6, <1>10, <1>12, <2>2
    <3>2. QED
      BY <3>1 DEF Cloned, c
  <2>3. QED
    BY <1>14, <2>1, <2>2
<1>16. QED
  BY <1>4, <1>6, <1>15 DEF o
\* As long as a slot is empty, and in a small table always, every probing finds an Empty.
LEMMA EmptyReached ==
    ASSUME NEW t, AsCompiled, WellFormed(t), Cloned(t), NEW hash \in Hashes,
           Small(t.capacity) \/ \E e \in SlotsOf(t) : t.ctrl[e] = Empty
    PROVE  StepsWith(t, hash, {Empty}) # {}
<1>1. CASE Small(t.capacity)
  <2> DEFINE c == t.capacity
             o == Offset(t, hash, 0)
             j == 2 * c + 1 - o
  <2>1. o \in 0 .. c /\ c \in {1, 3, 7} /\ 2 * c + 1 <= GroupWidth - 1
        /\ GroupWidth \in {8, 16}
    BY <1>1, CapacityKinds, OffsetRange DEF WellFormed, AsCompiled
  <2>2. \A b \in 0 .. c + GroupWidth - 1 : b > 2 * c => t.ctrl[b] = Empty
    BY DEF Cloned, Bytes
  <2> HIDE DEF c, o
  <2>3. j \in 0 .. GroupWidth - 1 /\ o + j = 2 * c + 1 /\ 2 * c + 1 \in 0 .. c + GroupWidth - 1
    BY <2>1
  <2>4. t.ctrl[o + j] = Empty
    BY <2>1, <2>2, <2>3
  <2>5. 0 \in Steps(t)
    BY StepsRange
  <2> HIDE DEF j
  <2>6. QED
    BY <2>3, <2>4, <2>5 DEF StepsWith, Match, o
<1>2. CASE ~Small(t.capacity)
  <2>1. PICK e \in SlotsOf(t) : t.ctrl[e] = Empty
    BY <1>2
  <2>2. PICK n \in Steps(t), j \in 0 .. GroupWidth - 1 :
            t.ctrl[Offset(t, hash, n) + j] = t.ctrl[e]
    BY <1>2, SlotReached
  <2>3. QED
    BY <2>1, <2>2 DEF StepsWith, Match
<1>3. QED
  BY <1>1, <1>2

\* Nothing is Deleted.
LEMMA NoneDeleted ==
    ASSUME NEW t, AsCompiled, WellFormed(t), NEW hash \in Hashes
    PROVE  /\ \A n \in Nat : Match(t, Offset(t, hash, n), {Empty, Deleted})
                               = Match(t, Offset(t, hash, n), {Empty})
           /\ StepsWith(t, hash, {Empty, Deleted}) = StepsWith(t, hash, {Empty})
<1>1. ASSUME NEW n \in Nat
      PROVE  Match(t, Offset(t, hash, n), {Empty, Deleted})
               = Match(t, Offset(t, hash, n), {Empty})
  <2> DEFINE o == Offset(t, hash, n)
  <2>1. \A j \in 0 .. GroupWidth - 1 : t.ctrl[o + j] \in {Empty, Sentinel} \cup 0 .. 127
    BY OffsetRange DEF WellFormed
  <2> HIDE DEF o
  <2>2. \A j \in 0 .. GroupWidth - 1 : t.ctrl[o + j] # Deleted
    BY <2>1 DEF Empty, Deleted, Sentinel
  <2>3. Match(t, o, {Empty, Deleted}) = Match(t, o, {Empty})
    BY <2>2 DEF Match
  <2>4. QED
    BY <2>3 DEF o
<1>2. \A n \in Steps(t) : n \in Nat
  BY StepsRange
<1>3. QED
  BY <1>1, <1>2 DEF StepsWith

\* Where the key of a slot is looked for: dict_find_first_non_full comes to an empty slot,
\* and dict_find comes to it as well.
LEMMA FirstIsEmpty ==
    ASSUME NEW t, AsCompiled, WellFormed(t), Cloned(t), NEW hash \in Hashes,
           NEW e \in SlotsOf(t), t.ctrl[e] = Empty
    PROVE  /\ FirstNonFull(t, hash) \in SlotsOf(t)
           /\ t.ctrl[FirstNonFull(t, hash)] = Empty
           /\ Reached(t, hash, FirstNonFull(t, hash))
<1> DEFINE c == t.capacity
           S == StepsWith(t, hash, {Empty, Deleted})
           n == Min(S)
           o == Offset(t, hash, n)
           M == Match(t, o, {Empty, Deleted})
           j == Min(M)
           b == o + j
           i == FirstNonFull(t, hash)
<1>1. i = b % (c + 1)
  BY DEF FirstNonFull
<1>2. c \in Nat \ {0} /\ GroupWidth \in {8, 16} /\ Steps(t) \subseteq Nat
  BY StepsRange DEF WellFormed, Capacities, AsCompiled
<1>3. S \subseteq Nat /\ S # {} /\ S \subseteq Steps(t)
  <2>1. Small(t.capacity) \/ \E x \in SlotsOf(t) : t.ctrl[x] = Empty
    OBVIOUS
  <2>2. StepsWith(t, hash, {Empty}) # {}
    BY <2>1, EmptyReached
  <2>3. StepsWith(t, hash, {Empty, Deleted}) = StepsWith(t, hash, {Empty})
    BY NoneDeleted
  <2>4. S \subseteq Steps(t)
    BY DEF StepsWith
  <2>5. S # {}
    BY <2>2, <2>3
  <2> HIDE DEF S
  <2>6. QED
    BY <1>2, <2>4, <2>5
<1> HIDE DEF i, S
<1>4. n \in S /\ \A k \in S : n <= k
  BY <1>3, MinIs
<1>5. n \in Nat /\ n \in Steps(t)
  BY <1>3, <1>4
<1> HIDE DEF n
<1>6. o \in 0 .. c /\ \A k \in 0 .. GroupWidth - 1 : o + k \in Bytes(c)
  BY <1>5, OffsetRange
<1>7. M = Match(t, o, {Empty}) /\ M # {}
  BY <1>4, <1>5, NoneDeleted DEF S, StepsWith
<1> HIDE DEF o
<1>8. M = {k \in 0 .. GroupWidth - 1 : t.ctrl[o + k] = Empty}
  BY <1>7 DEF Match
<1> HIDE DEF M
<1>9. M \subseteq Nat
  BY <1>8
<1>10. j \in M /\ \A k \in M : j <= k
  BY <1>7, <1>9, MinIs
<1> HIDE DEF j
<1>11. j \in 0 .. GroupWidth - 1 /\ t.ctrl[b] = Empty /\ b \in Bytes(c)
  BY <1>6, <1>8, <1>10
<1>12. b # c
  BY <1>11 DEF WellFormed, Empty, Sentinel
<1>13. b <= 2 * c
  <2>1. CASE ~Small(c)
    <3>1. c + GroupWidth - 1 <= 2 * c
      BY <1>2, <2>1 DEF Small
    <3>2. b \in 0 .. c + GroupWidth - 1
      BY <1>11 DEF Bytes
    <3> HIDE DEF b, c
    <3>3. QED
      BY <1>2, <3>1, <3>2 DEF c
  <2>2. CASE Small(c)
    <3>1. c + 1 < GroupWidth /\ e \in 0 .. c - 1
      BY <2>2 DEF Small, SlotsOf
    <3>2. e < GroupWidth - 1 => t.ctrl[e + c + 1] = Empty
      BY DEF Cloned
    <3>3. CASE e >= o
      <4>1. e - o \in 0 .. GroupWidth - 1 /\ o + (e - o) = e
        BY <1>2, <1>6, <3>1, <3>3
      <4>2. e - o \in M
        BY <1>8, <4>1
      <4>3. j <= e - o
        BY <1>10, <4>2
      <4>4. QED
        BY <1>2, <1>6, <1>11, <3>1, <4>3
    <3>4. CASE e < o
      <4>1. (e + c + 1) - o \in 0 .. GroupWidth - 1 /\ o + ((e + c + 1) - o) = e + c + 1
        BY <1>2, <1>6, <3>1, <3>4
      <4>2. t.ctrl[e + c + 1] = Empty
        BY <1>2, <3>1, <3>2
      <4>3. (e + c + 1) - o \in M
        BY <1>8, <4>1, <4>2
      <4>4. j <= (e + c + 1) - o
        BY <1>10, <4>3
      <4>5. QED
        BY <1>2, <1>6, <1>11, <3>1, <4>4
    <3>5. QED
      BY <1>6, <3>1, <3>3, <3>4
  <2>3. QED
    BY <2>1, <2>2
<1>14. PICK x \in SlotsOf(t) : /\ t.ctrl[b] = t.ctrl[x] /\ b % (c + 1) = x
                               /\ b = x \/ b = x + c + 1
  <2> HIDE DEF b
  <2>1. QED
    BY <1>11, <1>12, <1>13, SlotOfByte
<1>15. i = x
  BY <1>1, <1>14
<1>16. (x - o) % (c + 1) < GroupWidth
  <2> DEFINE m == c + 1
             r == j % m
             k == j \div m
  <2>1. m \in Nat \ {0} /\ j \in Int /\ x \in Int /\ x \in 0 .. c - 1
    BY <1>2, <1>11, <1>14 DEF SlotsOf
  <2>2. r \in 0 .. m - 1 /\ k \in Int /\ j = k * m + r
    BY <2>1, ModParts
  <2>3. r <= j
    <3>1. j < m => r = j
      <4>1. j < m => j \in 0 .. m - 1 /\ j = 0 * m + j
        BY <1>11, <2>1
      <4>2. QED
        BY <2>1, <4>1, ModUnique
    <3> HIDE DEF r
    <3>2. QED
      BY <2>1, <2>2, <3>1
  <2> DEFINE h == IF b = x THEN k ELSE k - 1
  <2>4. h \in Int /\ x - o = h * m + r
    <3>1. (k - 1) * m = k * m - m
      BY <2>1, <2>2
    <3> DEFINE km == k * m
    <3>2. km \in Int /\ j = km + r /\ (k - 1) * m = km - m /\ b = o + j
      BY <2>1, <2>2, <3>1
    <3>3. m = c + 1
      OBVIOUS
    <3> HIDE DEF r, m, k, b, km, c
    <3>4. CASE b = x
      <4>1. x - o = km + r /\ h = k
        BY <1>6, <2>1, <2>2, <3>2, <3>4
      <4>2. QED
        BY <2>2, <4>1 DEF km
    <3>5. CASE b # x
      <4>1. b = x + c + 1
        BY <1>14, <3>5
      <4>2. x - o = (km - m) + r /\ h = k - 1
        BY <1>2, <1>6, <2>1, <2>2, <3>2, <3>3, <3>5, <4>1
      <4>3. h * m + r = (km - m) + r
        BY <3>2, <4>2
      <4>4. h \in Int
        BY <2>2, <4>2
      <4>5. QED
        BY <4>2, <4>3, <4>4
    <3>6. QED
      BY <3>4, <3>5
  <2> HIDE DEF h, m, r, k
  <2>5. (x - o) % m = r
    BY <1>6, <2>1, <2>2, <2>4, ModUnique
  <2>6. QED
    BY <1>2, <1>11, <2>1, <2>2, <2>3, <2>5 DEF m
<1>17. \A k \in 0 .. n - 1 : Match(t, Offset(t, hash, k), {Empty}) = {}
  <2> SUFFICES ASSUME NEW k \in 0 .. n - 1
               PROVE  Match(t, Offset(t, hash, k), {Empty}) = {}
    OBVIOUS
  <2>1. k \in Nat /\ k \in Steps(t) /\ ~(n <= k)
    BY <1>2, <1>5 DEF Steps
  <2>2. k \notin S
    BY <1>4, <2>1
  <2>3. Match(t, Offset(t, hash, k), {Empty, Deleted}) = {}
    BY <2>1, <2>2 DEF S, StepsWith
  <2>4. QED
    BY <2>1, <2>3, NoneDeleted
<1>18. Reached(t, hash, x)
  BY <1>5, <1>16, <1>17 DEF Reached, o
<1>19. QED
  BY <1>11, <1>14, <1>15, <1>18 DEF i
----------------------------------------------------------------------------
(* A key put in a slot *)

\* The clone of the byte of a slot is behind the sentinel, if it is among the first.
LEMMA MirrorIs ==
    ASSUME AsCompiled, NEW c \in Capacities, NEW i \in 0 .. c - 1
    PROVE  Mirror(i, c) = IF i < GroupWidth - 1 THEN i + c + 1 ELSE i
<1>1. c \in Nat \ {0} /\ GroupWidth \in {8, 16}
  BY DEF Capacities, AsCompiled
<1>2. CASE Small(c)
  <2>1. c \in {1, 3, 7} /\ 2 * c + 1 <= GroupWidth - 1
    BY <1>2, CapacityKinds
  <2>2. i < GroupWidth - 1
    BY <1>1, <2>1
  <2>3. CASE GroupWidth = 8
    <3>1. c \in {1, 3} /\ i \in 0 .. 2 /\ i < c
      BY <2>1, <2>3
    <3>2. ((i - 7) % (c + 1)) + (7 % (c + 1)) = i + c + 1
      BY <3>1
    <3>3. QED
      BY <2>2, <2>3, <3>2 DEF Mirror
  <2>4. CASE GroupWidth = 16
    <3>1. c \in {1, 3, 7} /\ i \in 0 .. 6 /\ i < c
      BY <2>1, <2>4
    <3>2. ((i - 15) % (c + 1)) + (15 % (c + 1)) = i + c + 1
      BY <3>1
    <3>3. QED
      BY <2>2, <2>4, <3>2 DEF Mirror
  <2>5. QED
    BY <1>1, <2>3, <2>4
<1>3. CASE ~Small(c)
  <2> DEFINE m == c + 1
             g == GroupWidth - 1
  <2>1. m \in Nat \ {0} /\ g \in 0 .. m - 1 /\ i \in 0 .. m - 1 /\ i \in Int
        /\ m = c + 1 /\ g = GroupWidth - 1
    BY <1>1, <1>3 DEF Small
  <2>2. Mirror(i, c) = ((i - g) % m) + (g % m)
    BY DEF Mirror
  <2> HIDE DEF m, g
  <2>3. g % m = g
    <3>1. g \in Int /\ g = 0 * m + g
      BY <2>1
    <3>2. QED
      BY <2>1, <3>1, ModUnique
  <2>4. CASE i >= g
    <3>1. i - g \in 0 .. m - 1 /\ i - g \in Int /\ i - g = 0 * m + (i - g)
      BY <2>1, <2>4
    <3>2. (i - g) % m = i - g
      BY <2>1, <3>1, ModUnique
    <3>3. QED
      BY <1>1, <2>1, <2>2, <2>3, <2>4, <3>2
  <2>5. CASE i < g
    <3>1. (i - g) + m \in 0 .. m - 1 /\ i - g \in Int
          /\ i - g = (-1) * m + ((i - g) + m) /\ -1 \in Int
      BY <2>1, <2>5
    <3>2. (i - g) % m = (i - g) + m
      BY <2>1, <3>1, ModUnique
    <3>3. QED
      BY <1>1, <2>1, <2>2, <2>3, <2>5, <3>2
  <2>6. QED
    BY <2>1, <2>4, <2>5
<1>4. QED
  BY <1>2, <1>3

\* The parts of the record.
LEMMA PutRecord ==
    ASSUME NEW c, NEW ctrl, NEW s, NEW slots, NEW i, NEW m, NEW h, NEW k
    PROVE  [[[capacity |-> c, ctrl |-> ctrl, seed |-> s, slots |-> slots]
                EXCEPT !.ctrl[i] = h, !.ctrl[m] = h] EXCEPT !.slots[i] = k]
           = [capacity |-> c, ctrl |-> [ctrl EXCEPT ![i] = h, ![m] = h], seed |-> s,
              slots |-> [slots EXCEPT ![i] = k]]
<1> DEFINE t == [capacity |-> c, ctrl |-> ctrl, seed |-> s, slots |-> slots]
           put == [ctrl EXCEPT ![i] = h, ![m] = h]
           u == [capacity |-> c, ctrl |-> put, seed |-> s, slots |-> slots]
<1>1. [t EXCEPT !.ctrl[i] = h, !.ctrl[m] = h] = [t EXCEPT !.ctrl = put]
  <2>1. t.ctrl = ctrl
    OBVIOUS
  <2> HIDE DEF t
  <2>2. QED
    BY <2>1
<1>2. [t EXCEPT !.ctrl = put] = u
  <2> HIDE DEF put
  <2>1. QED
    OBVIOUS
<1>3. [u EXCEPT !.slots[i] = k]
        = [capacity |-> c, ctrl |-> put, seed |-> s, slots |-> [slots EXCEPT ![i] = k]]
  <2> HIDE DEF put
  <2>1. QED
    OBVIOUS
<1> HIDE DEF u, put, t
<1>4. [[t EXCEPT !.ctrl[i] = h, !.ctrl[m] = h] EXCEPT !.slots[i] = k]
        = [capacity |-> c, ctrl |-> put, seed |-> s, slots |-> [slots EXCEPT ![i] = k]]
  BY <1>1, <1>2, <1>3
<1>5. QED
  BY <1>4, Zenon DEF put, t

LEMMA PutParts ==
    ASSUME NEW t, AsCompiled, WellFormed(t), NEW i \in SlotsOf(t), NEW k \in Key
    PROVE  LET u == Put(t, i, k)
               h == k.hash.h2
           IN  /\ h \in 0 .. 127 /\ k.hash \in Hashes
               /\ u = [capacity |-> u.capacity, ctrl |-> u.ctrl, seed |-> u.seed,
                       slots |-> u.slots]
               /\ u.capacity = t.capacity /\ u.seed = t.seed
               /\ u.slots \in [SlotsOf(t) -> Key \cup {Unwritten}]
               /\ \A s \in SlotsOf(t) : u.slots[s] = IF s = i THEN k ELSE t.slots[s]
               /\ u.ctrl = [b \in Bytes(t.capacity) |-> u.ctrl[b]]
               /\ \A b \in Bytes(t.capacity) :
                    u.ctrl[b] = IF b = i \/ (b = i + t.capacity + 1 /\ i < GroupWidth - 1)
                                THEN h ELSE t.ctrl[b]
<1> DEFINE u == Put(t, i, k)
           h == k.hash.h2
           m == Mirror(i, t.capacity)
           c == t.capacity
           ctrl == [t.ctrl EXCEPT ![i] = h, ![m] = h]
           slots == [t.slots EXCEPT ![i] = k]
<1>1. k.hash \in Hashes
  BY DEF Key
<1>2. h \in 0 .. 127
  BY <1>1, DictAssumption DEF DictAssumption
<1>3. u = [[t EXCEPT !.ctrl[i] = h, !.ctrl[m] = h] EXCEPT !.slots[i] = k]
  BY DEF Put, SetCtrl
<1>4. t = [capacity |-> c, ctrl |-> t.ctrl, seed |-> t.seed, slots |-> t.slots]
  BY DEF WellFormed
<1>5. u = [capacity |-> c, ctrl |-> ctrl, seed |-> t.seed, slots |-> slots]
  <2> DEFINE ct == t.ctrl
             sd == t.seed
             sl == t.slots
  <2>1. /\ u = [[[capacity |-> c, ctrl |-> ct, seed |-> sd, slots |-> sl]
                EXCEPT !.ctrl[i] = h, !.ctrl[m] = h] EXCEPT !.slots[i] = k]
    BY <1>3, <1>4, Zenon
  <2> HIDE DEF u, h, m, c, ct, sd, sl
  <2>2. u = [capacity |-> c, ctrl |-> [ct EXCEPT ![i] = h, ![m] = h], seed |-> sd,
              slots |-> [sl EXCEPT ![i] = k]]
    BY <2>1, PutRecord, Zenon
  <2>3. QED
    BY <2>2, Zenon DEF ct, sd, sl
<1>6. m = IF i < GroupWidth - 1 THEN i + c + 1 ELSE i
  BY MirrorIs DEF WellFormed, SlotsOf
<1>7. /\ t.ctrl \in [Bytes(c) -> {Empty, Sentinel} \cup 0 .. 127]
      /\ t.slots \in [SlotsOf(t) -> Key \cup {Unwritten}]
  BY DEF WellFormed
<1> HIDE DEF u, h, m
<1>8. u.ctrl = ctrl /\ u.slots = slots /\ u.capacity = c /\ u.seed = t.seed
  <2> HIDE DEF ctrl, slots, c
  <2>1. QED
    BY <1>5
<1>9. /\ slots \in [SlotsOf(t) -> Key \cup {Unwritten}]
      /\ \A s \in SlotsOf(t) : slots[s] = IF s = i THEN k ELSE t.slots[s]
  BY <1>7
<1>10. /\ ctrl = [b \in Bytes(c) |-> ctrl[b]]
       /\ \A b \in Bytes(c) : ctrl[b] = IF b = i \/ b = m THEN h ELSE t.ctrl[b]
  BY <1>7
<1>11. \A b : (b = i \/ b = m) <=> (b = i \/ (b = i + c + 1 /\ i < GroupWidth - 1))
  BY <1>6
<1> HIDE DEF ctrl, slots, c
<1>12. u = [capacity |-> u.capacity, ctrl |-> u.ctrl, seed |-> u.seed, slots |-> u.slots]
  BY <1>5, <1>8
<1>13. QED
  BY <1>1, <1>2, <1>8, <1>9, <1>10, <1>11, <1>12, Zenon DEF u, h, c
\* The table that a key is put in stays good.
LEMMA PutGood ==
    ASSUME NEW t, AsCompiled, Good(t), NEW i \in SlotsOf(t), t.ctrl[i] = Empty,
           NEW k \in Key, k \notin KeysOf(t), Reached(t, k.hash, i)
    PROVE  /\ Good(Put(t, i, k))
           /\ Put(t, i, k).capacity = t.capacity
           /\ Full(Put(t, i, k)) = Full(t) \cup {i}
           /\ KeysOf(Put(t, i, k)) = KeysOf(t) \cup {k}
<1> DEFINE u == Put(t, i, k)
           h == k.hash.h2
           c == t.capacity
<1>1. WellFormed(t) /\ Cloned(t) /\ KeysPlaced(t) /\ KeysOnce(t)
  BY DEF Good
<1>2. /\ h \in 0 .. 127 /\ k.hash \in Hashes
      /\ u = [capacity |-> u.capacity, ctrl |-> u.ctrl, seed |-> u.seed, slots |-> u.slots]
      /\ u.capacity = c /\ u.seed = t.seed
      /\ u.slots \in [SlotsOf(t) -> Key \cup {Unwritten}]
      /\ \A s \in SlotsOf(t) : u.slots[s] = IF s = i THEN k ELSE t.slots[s]
      /\ u.ctrl = [b \in Bytes(c) |-> u.ctrl[b]]
      /\ \A b \in Bytes(c) :
            u.ctrl[b] = IF b = i \/ (b = i + c + 1 /\ i < GroupWidth - 1) THEN h ELSE t.ctrl[b]
  BY <1>1, PutParts
<1>3. /\ c \in Nat \ {0} /\ GroupWidth \in {8, 16} /\ SlotsOf(t) = 0 .. c - 1
      /\ Bytes(c) = 0 .. c + GroupWidth - 1 /\ SlotsOf(u) = SlotsOf(t)
      /\ i \in 0 .. c - 1
  BY <1>1, <1>2 DEF WellFormed, Capacities, AsCompiled, SlotsOf, Bytes
<1>4. /\ t.ctrl \in [Bytes(c) -> {Empty, Sentinel} \cup 0 .. 127]
      /\ c \in Capacities /\ t.seed \in Seeds
      /\ t.ctrl[c] = Sentinel /\ \A s \in SlotsOf(t) : t.ctrl[s] # Sentinel
  BY <1>1 DEF WellFormed
<1> HIDE DEF u, h, c
<1>5. WellFormed(u)
  <2>1. u.ctrl[c] = Sentinel
    <3>1. c \in Bytes(c) /\ c # i /\ c # i + c + 1
      BY <1>3
    <3>2. QED
      BY <1>2, <1>4, <3>1
  <2>2. \A s \in SlotsOf(u) : u.ctrl[s] # Sentinel
    <3>1. \A s \in SlotsOf(u) : s \in Bytes(c) /\ s \in SlotsOf(t)
      BY <1>3
    <3>2. h # Sentinel
      BY <1>2 DEF Sentinel
    <3>3. QED
      BY <1>2, <1>4, <3>1, <3>2
  <2>3. \A b \in Bytes(c) : u.ctrl[b] \in {Empty, Sentinel} \cup 0 .. 127
    BY <1>2, <1>4
  <2>4. u.ctrl = [b \in Bytes(c) |-> u.ctrl[b]]
    BY <1>2
  <2>5. u.ctrl \in [Bytes(c) -> {Empty, Sentinel} \cup 0 .. 127]
    BY <2>3, <2>4
  <2>6. QED
    BY <1>2, <1>3, <1>4, <2>1, <2>2, <2>5 DEF WellFormed
<1>6. Cloned(u)
  <2>1. ASSUME NEW s \in SlotsOf(u), s < GroupWidth - 1
        PROVE  u.ctrl[s + c + 1] = u.ctrl[s]
    <3>1. s \in 0 .. c - 1 /\ s + c + 1 \in Bytes(c) /\ s \in Bytes(c)
      BY <1>3, <2>1
    <3>2. t.ctrl[s + c + 1] = t.ctrl[s]
      BY <1>1, <1>3, <2>1 DEF Cloned, c
    <3>3. CASE s = i
      BY <1>2, <1>3, <2>1, <3>1, <3>3
    <3>4. CASE s # i
      <4>1. s + c + 1 # i /\ s # i + c + 1 /\ s + c + 1 # i + c + 1
        BY <1>3, <3>1, <3>4
      <4>2. QED
        BY <1>2, <3>1, <3>2, <3>4, <4>1
    <3>5. QED
      BY <3>3, <3>4
  <2>2. ASSUME NEW b \in Bytes(c), b > 2 * c
        PROVE  u.ctrl[b] = Empty
    <3>1. b # i /\ b # i + c + 1
      BY <1>3, <2>2
    <3>2. t.ctrl[b] = Empty
      BY <1>1, <2>2 DEF Cloned, c
    <3>3. QED
      BY <1>2, <3>1, <3>2
  <2>3. QED
    BY <1>2, <2>1, <2>2 DEF Cloned
<1>7. Full(u) = Full(t) \cup {i}
  <2>1. \A s \in SlotsOf(t) : s \in Bytes(c) /\ s # i + c + 1
    BY <1>3
  <2>2. \A s \in SlotsOf(t) : u.ctrl[s] = IF s = i THEN h ELSE t.ctrl[s]
    BY <1>2, <2>1
  <2>3. h >= 0
    BY <1>2
  <2>4. QED
    BY <1>3, <2>2, <2>3 DEF Full
<1>8. i \notin Full(t)
  BY DEF Full, Empty
<1>9. /\ u.slots[i] = k /\ u.ctrl[i] = h
      /\ \A s \in Full(t) : u.slots[s] = t.slots[s] /\ u.ctrl[s] = t.ctrl[s] /\ s \in SlotsOf(t)
  <2>1. \A s \in Full(t) : s \in SlotsOf(t) /\ s # i
    BY <1>8 DEF Full
  <2>2. \A s \in SlotsOf(t) : s \in Bytes(c) /\ s # i + c + 1
    BY <1>3
  <2>3. QED
    BY <1>2, <2>1, <2>2
<1>10. KeysOf(u) = KeysOf(t) \cup {k}
  BY <1>7, <1>9 DEF KeysOf
<1>11. KeysOnce(u)
  <2>1. \A s \in Full(t) : t.slots[s] # k
    BY DEF KeysOf
  <2>2. QED
    BY <1>1, <1>7, <1>9, <2>1 DEF KeysOnce
\* A probing that got to a slot still does.
<1>12. ASSUME NEW hash \in Hashes, NEW s \in SlotsOf(t), Reached(t, hash, s)
       PROVE  Reached(u, hash, s)
  <2>1. \A n : Offset(u, hash, n) = Offset(t, hash, n)
    BY <1>2 DEF Offset, Start, c
  <2>2. Steps(u) = Steps(t) /\ Steps(t) \subseteq Nat
    BY <1>1, <1>2, StepsRange DEF Steps, c
  <2>3. PICK n \in Steps(t) :
            /\ (s - Offset(t, hash, n)) % (c + 1) < GroupWidth
            /\ \A m \in 0 .. n - 1 : Match(t, Offset(t, hash, m), {Empty}) = {}
    BY <1>12 DEF Reached, c
  <2>4. ASSUME NEW m \in 0 .. n - 1
        PROVE  Match(u, Offset(u, hash, m), {Empty}) = {}
    <3>1. m \in Nat
      BY <2>2, <2>3
    <3>2. \A j \in 0 .. GroupWidth - 1 : Offset(t, hash, m) + j \in Bytes(c)
      BY <1>1, <3>1, OffsetRange DEF c
    <3>3. \A j \in 0 .. GroupWidth - 1 : t.ctrl[Offset(t, hash, m) + j] # Empty
      BY <2>3 DEF Match
    <3>4. h # Empty
      BY <1>2 DEF Empty
    <3>5. \A j \in 0 .. GroupWidth - 1 : u.ctrl[Offset(t, hash, m) + j] # Empty
      BY <1>2, <3>2, <3>3, <3>4
    <3>6. QED
      BY <2>1, <3>5 DEF Match
  <2>5. QED
    BY <1>2, <2>1, <2>2, <2>3, <2>4 DEF Reached
<1>13. KeysPlaced(u)
  <2>1. ASSUME NEW s \in Full(u)
        PROVE  /\ u.slots[s] \in Key /\ u.ctrl[s] = u.slots[s].hash.h2
               /\ Reached(u, u.slots[s].hash, s)
    <3>1. CASE s = i
      BY <1>2, <1>9, <1>12, <3>1 DEF h
    <3>2. CASE s \in Full(t)
      <4>1. /\ t.slots[s] \in Key /\ t.ctrl[s] = t.slots[s].hash.h2
            /\ Reached(t, t.slots[s].hash, s)
        BY <1>1, <3>2 DEF KeysPlaced
      <4>2. t.slots[s].hash \in Hashes
        BY <4>1 DEF Key
      <4>3. QED
        BY <1>9, <1>12, <3>2, <4>1, <4>2
    <3>3. QED
      BY <1>7, <2>1, <3>1, <3>2
  <2>2. QED
    BY <2>1 DEF KeysPlaced
<1>14. QED
  BY <1>2, <1>5, <1>6, <1>7, <1>10, <1>11, <1>13 DEF Good, u, c

\* A new table.
LEMMA NewTableGood ==
    ASSUME AsCompiled, NEW c \in Capacities, NEW seed \in Seeds
    PROVE  LET t == NewTable(c, seed)
           IN  Good(t) /\ t.capacity = c /\ Full(t) = {} /\ KeysOf(t) = {}
<1> DEFINE t == NewTable(c, seed)
<1>1. c \in Nat \ {0} /\ GroupWidth \in {8, 16} /\ Bytes(c) = 0 .. c + GroupWidth - 1
  BY DEF Capacities, AsCompiled, Bytes
<1>2. /\ t.capacity = c /\ t.seed = seed /\ t.ctrl = ResetCtrl(c)
      /\ t.slots = [i \in 0 .. c - 1 |-> Unwritten]
      /\ t = [capacity |-> t.capacity, ctrl |-> t.ctrl, seed |-> t.seed, slots |-> t.slots]
  BY DEF NewTable
<1> HIDE DEF t
<1>3. SlotsOf(t) = 0 .. c - 1
  BY <1>2 DEF SlotsOf
<1>4. t.ctrl = [b \in Bytes(c) |-> IF b = c THEN Sentinel ELSE Empty]
  BY <1>2 DEF ResetCtrl
<1>5. \A i \in SlotsOf(t) : i \in Bytes(c) /\ i # c
  BY <1>1, <1>3
<1>6. \A i \in SlotsOf(t) : t.ctrl[i] = Empty
  BY <1>4, <1>5
<1>7. WellFormed(t)
  <2>1. t.ctrl[c] = Sentinel
    BY <1>1, <1>4
  <2>2. t.ctrl \in [Bytes(c) -> {Empty, Sentinel} \cup 0 .. 127]
    BY <1>4
  <2>3. t.slots \in [SlotsOf(t) -> Key \cup {Unwritten}]
    BY <1>2, <1>3
  <2>4. \A i \in SlotsOf(t) : t.ctrl[i] # Sentinel
    BY <1>6 DEF Empty, Sentinel
  <2>5. QED
    BY <1>2, <2>1, <2>2, <2>3, <2>4 DEF WellFormed
<1>8. Cloned(t)
  <2>1. ASSUME NEW i \in SlotsOf(t), i < GroupWidth - 1
        PROVE  t.ctrl[i + c + 1] = t.ctrl[i]
    <3>1. i + c + 1 \in Bytes(c) /\ i + c + 1 # c
      BY <1>1, <1>3, <2>1
    <3>2. QED
      BY <1>4, <1>6, <3>1
  <2>2. ASSUME NEW b \in Bytes(c), b > 2 * c
        PROVE  t.ctrl[b] = Empty
    <3>1. b # c
      BY <1>1, <2>2
    <3>2. QED
      BY <1>4, <3>1
  <2>3. QED
    BY <1>2, <2>1, <2>2 DEF Cloned
<1>9. Full(t) = {}
  BY <1>6 DEF Full, Empty
<1>10. QED
  BY <1>2, <1>7, <1>8, <1>9 DEF Good, KeysPlaced, KeysOnce, KeysOf, t

\* A table has as many slots as its capacity says.
LEMMA SlotsCount ==
    ASSUME NEW t, t.capacity \in Nat \ {0}
    PROVE  IsFiniteSet(SlotsOf(t)) /\ Cardinality(SlotsOf(t)) = t.capacity
<1> DEFINE b == t.capacity - 1
<1>1. 0 \in Int /\ b \in Int /\ SlotsOf(t) = 0 .. b /\ b >= 0 /\ b + 1 = t.capacity
  BY DEF SlotsOf
<1> HIDE DEF b
<1>2. IsFiniteSet(0 .. b) /\ Cardinality(0 .. b) = IF 0 > b THEN 0 ELSE b - 0 + 1
  BY <1>1, FS_Interval, Zenon
<1>3. QED
  BY <1>1, <1>2

\* A table has as many keys as slots in use.
LEMMA KeysCount ==
    ASSUME NEW t, Good(t)
    PROVE  /\ IsFiniteSet(Full(t)) /\ IsFiniteSet(KeysOf(t))
           /\ Cardinality(Full(t)) \in Nat /\ Cardinality(Full(t)) <= t.capacity
           /\ Cardinality(KeysOf(t)) = Cardinality(Full(t))
<1>1. t.capacity \in Nat \ {0}
  BY DEF Good, WellFormed, Capacities
<1>2. IsFiniteSet(SlotsOf(t)) /\ Cardinality(SlotsOf(t)) = t.capacity
  BY <1>1, SlotsCount
<1>3. Full(t) \in SUBSET SlotsOf(t)
  BY DEF Full
<1>4. IsFiniteSet(Full(t)) /\ Cardinality(Full(t)) <= t.capacity
  BY <1>2, <1>3, FS_Subset
<1>5. Cardinality(Full(t)) \in Nat
  BY <1>4, FS_CardinalityType
<1>6. ExistsBijection(Full(t), KeysOf(t))
  <2> DEFINE f == [i \in Full(t) |-> t.slots[i]]
  <2>1. f \in [Full(t) -> KeysOf(t)]
    BY DEF KeysOf
  <2>2. \A i, j \in Full(t) : f[i] = f[j] => i = j
    BY DEF Good, KeysOnce
  <2>3. \A k \in KeysOf(t) : \E i \in Full(t) : f[i] = k
    BY DEF KeysOf
  <2> HIDE DEF f
  <2>4. f \in Bijection(Full(t), KeysOf(t))
    BY <2>1, <2>2, <2>3 DEF Bijection, Injection, Surjection, IsInjective
  <2>5. QED
    BY <2>4 DEF ExistsBijection
<1>7. QED
  BY <1>4, <1>5, <1>6, FS_Bijection

\* A table with fewer keys than slots has an empty slot.
LEMMA EmptySlot ==
    ASSUME NEW t, Good(t), Cardinality(Full(t)) < t.capacity
    PROVE  \E e \in SlotsOf(t) : t.ctrl[e] = Empty
<1> SUFFICES ASSUME \A e \in SlotsOf(t) : t.ctrl[e] # Empty PROVE FALSE
  OBVIOUS
<1>1. t.capacity \in Nat \ {0} /\ SlotsOf(t) = 0 .. t.capacity - 1
  BY DEF Good, WellFormed, Capacities, SlotsOf
<1>2. \A e \in SlotsOf(t) : t.ctrl[e] >= 0
  <2>1. GroupWidth \in Nat \ {0}
    BY DictAssumption DEF DictAssumption
  <2>2. \A e \in SlotsOf(t) : e \in Bytes(t.capacity)
    BY <1>1, <2>1 DEF Bytes
  <2>3. \A e \in SlotsOf(t) : t.ctrl[e] \in {Empty, Sentinel} \cup 0 .. 127 /\ t.ctrl[e] # Sentinel
    BY <2>2 DEF Good, WellFormed
  <2>4. QED
    BY <2>3
<1>3. Full(t) = SlotsOf(t)
  BY <1>2 DEF Full
<1>4. QED
  BY <1>1, <1>3, SlotsCount
----------------------------------------------------------------------------
(* dict_normalize_capacity *)

\* Twice a power of two is as far as the next larger one at most.
LEMMA Pow2Next ==
    ASSUME NEW x \in Pow2, NEW y \in Pow2, x < y
    PROVE  2 * x <= y
<1> DEFINE H == {b \in Pow2 : b = 1 \/ \E z \in Pow2 : b = 2 * z}
           S == {a \in Pow2 : \A b \in Pow2 : a < b => 2 * a <= b}
<1>1. ASSUME NEW b \in Pow2 PROVE b = 1 \/ \E z \in Pow2 : b = 2 * z
  <2>1. 1 \in H
    BY Pow2Step
  <2>2. \A a \in H \cap Pow2 : 2 * a \in H
    BY Pow2Step
  <2> HIDE DEF H
  <2>3. b \in H
    BY <2>1, <2>2, Pow2All
  <2>4. QED
    BY <2>3 DEF H
<1>2. 1 \in S
  <2>1. \A b \in Pow2 : b \in Nat
    BY Pow2Step
  <2>2. \A b \in Pow2 : 1 < b => 2 * 1 <= b
    BY <2>1
  <2>3. QED
    BY <2>2, Pow2Step
<1>3. ASSUME NEW a \in S \cap Pow2 PROVE 2 * a \in S
  <2>1. 2 * a \in Pow2 /\ a \in Nat \ {0}
    BY Pow2Step
  <2>2. ASSUME NEW b \in Pow2, 2 * a < b
        PROVE  2 * (2 * a) <= b
    <3>1. b # 1
      BY <2>1, <2>2
    <3>2. PICK z \in Pow2 : b = 2 * z
      BY <1>1, <3>1
    <3>3. z \in Nat
      BY Pow2Step
    <3>4. a < z
      BY <2>1, <2>2, <3>2, <3>3
    <3>5. 2 * a <= z
      BY <3>4
    <3>6. QED
      BY <2>1, <3>2, <3>3, <3>5
  <2>3. QED
    BY <2>1, <2>2
<1> HIDE DEF S
<1>4. x \in S
  BY <1>2, <1>3, Pow2All
<1>5. QED
  BY <1>4 DEF S

\* The least capacity that holds n, from m on.
IsNormalized(f, n) == f = [m \in Nat |-> IF m >= n THEN m ELSE f[2 * m + 1]]

LEMMA NormalizedExists ==
    ASSUME NEW n \in Nat
    PROVE  \E f : IsNormalized(f, n)
<1> DEFINE From(f, l) == \A m \in Nat : m >= l => f[m] = IF m >= n THEN m ELSE f[2 * m + 1]
           S == {l \in Nat : \E f : f = [m \in Nat |-> f[m]] /\ From(f, l)}
<1>1. n \in S
  <2> DEFINE f == [m \in Nat |-> m]
  <2>1. f = [m \in Nat |-> f[m]] /\ From(f, n)
    OBVIOUS
  <2> HIDE DEF f
  <2>2. QED
    BY <2>1
<1>2. PICK l \in S : \A k \in S : l <= k
  <2>1. S \subseteq Nat
    OBVIOUS
  <2> HIDE DEF S
  <2>2. QED
    BY <1>1, <2>1, Least
<1>3. l \in Nat /\ l <= n
  BY <1>1, <1>2
<1>4. PICK f : f = [m \in Nat |-> f[m]] /\ From(f, l)
  OBVIOUS
<1>5. l = 0
  <2> SUFFICES ASSUME l # 0 PROVE FALSE
    OBVIOUS
  <2> DEFINE p == l - 1
             g == [m \in Nat |-> IF m = p THEN f[2 * p + 1] ELSE f[m]]
  <2>1. p \in Nat /\ p < n /\ 2 * p + 1 \in Nat /\ 2 * p + 1 # p /\ p < l
        /\ \A m \in Nat : m >= p => m = p \/ (m >= l /\ m # p)
    BY <1>3
  <2>2. \A m \in Nat : m >= l => 2 * m + 1 \in Nat /\ 2 * m + 1 # p
    BY <1>3
  <2>3. g = [m \in Nat |-> g[m]]
    OBVIOUS
  <2>4. g[p] = f[2 * p + 1] /\ \A m \in Nat : m # p => g[m] = f[m]
    BY <2>1
  <2> HIDE DEF g
  <2>5. ASSUME NEW m \in Nat, m >= p
        PROVE  g[m] = IF m >= n THEN m ELSE g[2 * m + 1]
    <3>1. CASE m = p
      BY <2>1, <2>4, <3>1
    <3>2. CASE m # p
      <4>1. m >= l /\ 2 * m + 1 \in Nat /\ 2 * m + 1 # p
        BY <2>1, <2>2, <2>5, <3>2
      <4>2. f[m] = IF m >= n THEN m ELSE f[2 * m + 1]
        BY <1>4, <4>1
      <4>3. QED
        BY <2>4, <3>2, <4>1, <4>2
    <3>3. QED
      BY <3>1, <3>2
  <2>6. p \in S
    BY <2>1, <2>3, <2>5
  <2> HIDE DEF S
  <2>7. QED
    BY <1>2, <1>3, <2>1, <2>6
<1>6. \A m \in Nat : f[m] = IF m >= n THEN m ELSE f[2 * m + 1]
  BY <1>4, <1>5
<1>7. IsNormalized(f, n)
  BY <1>4, <1>6, Zenon DEF IsNormalized
<1>8. QED
  BY <1>7

LEMMA NormalizeIs ==
    ASSUME NEW n \in Nat
    PROVE  \E f : /\ NormalizeCapacity(n) = f[1]
                  /\ \A m \in Nat : f[m] = IF m >= n THEN m ELSE f[2 * m + 1]
<1> DEFINE f == CHOOSE f : f = [m \in Nat |-> IF m >= n THEN m ELSE f[2 * m + 1]]
<1>1. IsNormalized(f, n)
  BY NormalizedExists, Zenon DEF IsNormalized
<1>2. NormalizeCapacity(n) = f[1]
  BY DEF NormalizeCapacity
<1> HIDE DEF f
<1>3. \A m \in Nat : f[m] = IF m >= n THEN m ELSE f[2 * m + 1]
  BY <1>1 DEF IsNormalized
<1>4. QED
  BY <1>2, <1>3

\* A table that is asked for has a capacity that a table can have.
LEMMA NormalizeIsCapacity ==
    ASSUME NEW n \in Nat
    PROVE  NormalizeCapacity(n) \in Capacities
<1>1. PICK f : /\ NormalizeCapacity(n) = f[1]
               /\ \A m \in Nat : f[m] = IF m >= n THEN m ELSE f[2 * m + 1]
  BY NormalizeIs
<1>2. \A m \in Capacities : m \in Nat \ {0}
  BY DEF Capacities
<1> DEFINE Bad == {m \in Capacities : f[m] \notin Capacities}
           Below == {k \in Nat : \E m \in Bad : k = n - m}
<1> SUFFICES ASSUME f[1] \notin Capacities PROVE FALSE
  BY <1>1
<1>3. ASSUME NEW m \in Bad PROVE m \in Nat \ {0} /\ m < n /\ 2 * m + 1 \in Bad
  <2>1. m \in Nat \ {0} /\ m \in Capacities /\ f[m] \notin Capacities
    BY <1>2
  <2>2. ~(m >= n)
    BY <1>1, <2>1
  <2>3. f[m] = f[2 * m + 1]
    BY <1>1, <2>1, <2>2
  <2>4. 2 * m + 1 \in Capacities
    BY <2>1, CapacityTwice
  <2>5. QED
    BY <2>1, <2>2, <2>3, <2>4
<1>4. 1 \in Bad
  BY CapacityTwice
<1> HIDE DEF Bad
<1>5. n - 1 \in Below
  <2>1. n - 1 \in Nat
    BY <1>3, <1>4
  <2>2. QED
    BY <1>4, <2>1
<1>6. PICK k \in Below : \A x \in Below : k <= x
  <2>1. Below \subseteq Nat
    OBVIOUS
  <2> HIDE DEF Below
  <2>2. QED
    BY <1>5, <2>1, Least
<1>7. PICK m \in Bad : k = n - m
  OBVIOUS
<1>8. 2 * m + 1 \in Bad /\ 2 * m + 1 < n /\ m \in Nat
  BY <1>3
<1>9. n - (2 * m + 1) \in Below
  <2>1. n - (2 * m + 1) \in Nat
    BY <1>8
  <2>2. QED
    BY <1>8, <2>1
<1>10. QED
  BY <1>6, <1>7, <1>8, <1>9

\* The capacity of a table is the least that holds it.
LEMMA NormalizeCapacities ==
    ASSUME NEW c \in Capacities
    PROVE  NormalizeCapacity(c) = c
<1>1. c \in Nat \ {0}
  BY DEF Capacities
<1>2. PICK f : /\ NormalizeCapacity(c) = f[1]
               /\ \A m \in Nat : f[m] = IF m >= c THEN m ELSE f[2 * m + 1]
  BY <1>1, NormalizeIs
<1> DEFINE Bad == {m \in Capacities : m <= c /\ f[m] # c}
           Below == {k \in Nat : \E m \in Bad : k = c - m}
<1> SUFFICES ASSUME f[1] # c PROVE FALSE
  BY <1>2
<1>3. ASSUME NEW m \in Bad PROVE m \in Nat \ {0} /\ m < c /\ 2 * m + 1 \in Bad
  <2>1. m \in Nat \ {0} /\ m \in Capacities /\ f[m] # c /\ m <= c
    BY DEF Capacities
  <2>2. ~(m >= c)
    BY <1>1, <1>2, <2>1
  <2>3. f[m] = f[2 * m + 1]
    BY <1>2, <2>1, <2>2
  <2>4. 2 * m + 1 \in Capacities
    BY <2>1, CapacityTwice
  <2>5. 2 * (m + 1) <= c + 1
    <3>1. m + 1 \in Pow2 /\ c + 1 \in Pow2 /\ m + 1 < c + 1
      BY <1>1, <2>1, <2>2 DEF Capacities
    <3>2. QED
      BY <3>1, Pow2Next
  <2>6. 2 * m + 1 <= c
    BY <1>1, <2>1, <2>5
  <2>7. QED
    BY <1>1, <2>1, <2>2, <2>3, <2>4, <2>6
<1>4. 1 \in Bad
  BY <1>1, CapacityTwice
<1> HIDE DEF Bad
<1>5. c - 1 \in Below
  BY <1>1, <1>4
<1>6. PICK k \in Below : \A x \in Below : k <= x
  <2>1. Below \subseteq Nat
    OBVIOUS
  <2> HIDE DEF Below
  <2>2. QED
    BY <1>5, <2>1, Least
<1>7. PICK m \in Bad : k = c - m
  OBVIOUS
<1>8. 2 * m + 1 \in Bad /\ 2 * m + 1 < c /\ m \in Nat
  BY <1>3
<1>9. c - (2 * m + 1) \in Below
  <2>1. c - (2 * m + 1) \in Nat
    BY <1>1, <1>8
  <2>2. QED
    BY <1>8, <2>1
<1>10. QED
  BY <1>1, <1>6, <1>7, <1>8, <1>9

----------------------------------------------------------------------------
(* dict_resize *)

\* What the first n slots of a table leave in the new one.
IsMoved(f, t, capacity, seed, n) ==
    /\ f = [d \in 0 .. t.capacity |-> f[d]]
    /\ f[0] = NewTable(capacity, seed)
    /\ \A d \in 1 .. n : f[d] = IF t.ctrl[d - 1] >= 0 THEN PutFirst(f[d - 1], t.slots[d - 1])
                                ELSE f[d - 1]

LEMMA MovedExists ==
    ASSUME NEW t, t.capacity \in Nat, NEW capacity, NEW seed
    PROVE  \E f : IsMoved(f, t, capacity, seed, t.capacity)
<1> DEFINE c == t.capacity
           Bad == {d \in 0 .. c : ~ \E f : IsMoved(f, t, capacity, seed, d)}
<1> SUFFICES ASSUME Bad # {} PROVE FALSE
  <2>1. c \in Bad \/ \E f : IsMoved(f, t, capacity, seed, c)
    OBVIOUS
  <2>2. QED
    BY <2>1
<1>1. PICK m \in Bad : \A d \in Bad : m <= d
  <2>1. Bad \subseteq Nat
    OBVIOUS
  <2> HIDE DEF Bad
  <2>2. QED
    BY <2>1, Least
<1>2. m \in 0 .. c /\ ~ \E f : IsMoved(f, t, capacity, seed, m)
  OBVIOUS
<1>3. CASE m = 0
  <2> DEFINE f == [d \in 0 .. c |-> NewTable(capacity, seed)]
  <2>1. f = [d \in 0 .. c |-> f[d]] /\ f[0] = NewTable(capacity, seed) /\ 1 .. 0 = {}
    BY <1>2
  <2> HIDE DEF f
  <2>2. IsMoved(f, t, capacity, seed, 0)
    BY <2>1 DEF IsMoved
  <2>3. QED
    BY <1>2, <1>3, <2>2
<1>4. CASE m # 0
  <2>1. m - 1 \in 0 .. c /\ m - 1 \notin Bad
    BY <1>1, <1>2, <1>4
  <2>2. PICK f : IsMoved(f, t, capacity, seed, m - 1)
    BY <2>1
  <2> DEFINE last == IF t.ctrl[m - 1] >= 0 THEN PutFirst(f[m - 1], t.slots[m - 1])
                     ELSE f[m - 1]
             g == [d \in 0 .. c |-> IF d = m THEN last ELSE f[d]]
  <2> HIDE DEF last
  <2>3. g = [d \in 0 .. c |-> g[d]] /\ g[m] = last /\ \A d \in 0 .. c : d # m => g[d] = f[d]
    BY <1>2
  <2> HIDE DEF g
  <2>4. g[0] = NewTable(capacity, seed)
    <3>1. 0 \in 0 .. c /\ 0 # m
      BY <1>4
    <3>2. QED
      BY <2>2, <2>3, <3>1 DEF IsMoved
  <2>5. ASSUME NEW d \in 1 .. m
        PROVE  g[d] = IF t.ctrl[d - 1] >= 0 THEN PutFirst(g[d - 1], t.slots[d - 1])
                      ELSE g[d - 1]
    <3>1. d - 1 \in 0 .. c /\ d - 1 # m /\ d \in 0 .. c
      BY <1>2
    <3>2. g[d - 1] = f[d - 1]
      BY <2>3, <3>1
    <3>3. CASE d = m
      BY <2>3, <3>2, <3>3 DEF last
    <3>4. CASE d # m
      <4>1. d \in 1 .. m - 1
        BY <1>2, <3>4
      <4>2. f[d] = IF t.ctrl[d - 1] >= 0 THEN PutFirst(f[d - 1], t.slots[d - 1]) ELSE f[d - 1]
        BY <2>2, <4>1 DEF IsMoved
      <4>3. g[d] = f[d]
        BY <2>3, <3>1, <3>4
      <4>4. QED
        BY <3>2, <4>2, <4>3
    <3>5. QED
      BY <3>3, <3>4
  <2>6. IsMoved(g, t, capacity, seed, m)
    BY <2>3, <2>4, <2>5 DEF IsMoved
  <2>7. QED
    BY <1>2, <2>6
<1>5. QED
  BY <1>3, <1>4

LEMMA ResizedIs ==
    ASSUME NEW t, t.capacity \in Nat, NEW capacity, NEW seed
    PROVE  \E f : /\ IsMoved(f, t, capacity, seed, t.capacity)
                  /\ Resized(t, capacity, seed) = f[t.capacity]
<1> DEFINE step(f) == [n \in 0 .. t.capacity |->
                IF n = 0 THEN NewTable(capacity, seed)
                ELSE IF t.ctrl[n - 1] >= 0 THEN PutFirst(f[n - 1], t.slots[n - 1])
                ELSE f[n - 1]]
           f == CHOOSE f : f = step(f)
<1>1. \E e : e = step(e)
  <2>1. PICK e : IsMoved(e, t, capacity, seed, t.capacity)
    BY MovedExists
  <2>2. ASSUME NEW d \in 0 .. t.capacity
        PROVE  e[d] = IF d = 0 THEN NewTable(capacity, seed)
                      ELSE IF t.ctrl[d - 1] >= 0 THEN PutFirst(e[d - 1], t.slots[d - 1])
                      ELSE e[d - 1]
    <3>1. d = 0 \/ d \in 1 .. t.capacity
      OBVIOUS
    <3>2. QED
      BY <2>1, <3>1, Zenon DEF IsMoved
  <2>3. e = [d \in 0 .. t.capacity |-> e[d]]
    BY <2>1 DEF IsMoved
  <2>4. e = step(e)
    BY <2>2, <2>3, Zenon
  <2>5. QED
    BY <2>4, Zenon
<1>2. Resized(t, capacity, seed) = f[t.capacity]
  BY DEF Resized
<1>3. f = step(f)
  BY <1>1, Zenon
<1> HIDE DEF f
<1>4. IsMoved(f, t, capacity, seed, t.capacity)
  <2>1. f = [d \in 0 .. t.capacity |-> f[d]]
    BY <1>3, Zenon
  <2>2. f[0] = NewTable(capacity, seed)
    <3>1. 0 \in 0 .. t.capacity
      OBVIOUS
    <3>2. QED
      BY <1>3, <3>1, Zenon
  <2>3. ASSUME NEW d \in 1 .. t.capacity
        PROVE  f[d] = IF t.ctrl[d - 1] >= 0 THEN PutFirst(f[d - 1], t.slots[d - 1])
                      ELSE f[d - 1]
    <3>1. d \in 0 .. t.capacity /\ d # 0
      OBVIOUS
    <3>2. QED
      BY <1>3, <3>1, Zenon
  <2>4. QED
    BY <2>1, <2>2, <2>3, Zenon DEF IsMoved
<1>5. QED
  BY <1>2, <1>4
\* A new key in a table that has an empty slot.
LEMMA PutFirstGood ==
    ASSUME NEW t, AsCompiled, Good(t), Cardinality(Full(t)) < t.capacity,
           NEW k \in Key, k \notin KeysOf(t)
    PROVE  /\ Good(PutFirst(t, k))
           /\ PutFirst(t, k).capacity = t.capacity
           /\ KeysOf(PutFirst(t, k)) = KeysOf(t) \cup {k}
           /\ t.ctrl[FirstNonFull(t, k.hash)] = Empty
<1>1. PICK e \in SlotsOf(t) : t.ctrl[e] = Empty
  BY EmptySlot
<1>2. WellFormed(t) /\ Cloned(t) /\ k.hash \in Hashes
  BY DEF Good, Key
<1> DEFINE i == FirstNonFull(t, k.hash)
<1>3. i \in SlotsOf(t) /\ t.ctrl[i] = Empty /\ Reached(t, k.hash, i)
  BY <1>1, <1>2, FirstIsEmpty
<1>4. PutFirst(t, k) = Put(t, i, k)
  BY DEF PutFirst
<1> HIDE DEF i
<1>5. /\ Good(Put(t, i, k))
      /\ Put(t, i, k).capacity = t.capacity
      /\ KeysOf(Put(t, i, k)) = KeysOf(t) \cup {k}
  BY <1>3, PutGood
<1>6. QED
  BY <1>3, <1>4, <1>5 DEF i

\* All keys of a table are in the table it is resized to, and nothing else.
LEMMA ResizedGood ==
    ASSUME NEW t, AsCompiled, Good(t), NEW capacity \in Capacities, NEW seed \in Seeds,
           Cardinality(Full(t)) < capacity
    PROVE  /\ Good(Resized(t, capacity, seed))
           /\ Resized(t, capacity, seed).capacity = capacity
           /\ KeysOf(Resized(t, capacity, seed)) = KeysOf(t)
<1> DEFINE c == t.capacity
           Upto(n) == {s \in Full(t) : s < n}
           Some(n) == {t.slots[s] : s \in Upto(n)}
<1>1. c \in Nat \ {0} /\ SlotsOf(t) = 0 .. c - 1
  BY DEF Good, WellFormed, Capacities, SlotsOf
<1>2. PICK f : /\ IsMoved(f, t, capacity, seed, c)
               /\ Resized(t, capacity, seed) = f[c]
  BY <1>1, ResizedIs
<1>3. capacity \in Nat \ {0}
  BY DEF Capacities
<1> DEFINE Holds(n) == Good(f[n]) /\ f[n].capacity = capacity /\ KeysOf(f[n]) = Some(n)
<1>4. Holds(0)
  <2>1. f[0] = NewTable(capacity, seed)
    BY <1>2 DEF IsMoved
  <2>2. Some(0) = {}
    BY <1>1 DEF Full
  <2>3. QED
    BY <2>1, <2>2, NewTableGood
<1>5. ASSUME NEW n \in 1 .. c, Holds(n - 1) PROVE Holds(n)
  <2>1. f[n] = IF t.ctrl[n - 1] >= 0 THEN PutFirst(f[n - 1], t.slots[n - 1]) ELSE f[n - 1]
    BY <1>2 DEF IsMoved
  <2>2. n - 1 \in SlotsOf(t)
    BY <1>1
  <2>3. \A s \in Full(t) : s < n <=> (s < n - 1 \/ s = n - 1)
    BY <1>1 DEF Full
  <2>4. CASE t.ctrl[n - 1] >= 0
    <3>1. n - 1 \in Full(t)
      BY <2>2, <2>4 DEF Full
    <3> DEFINE k == t.slots[n - 1]
               u == f[n - 1]
    <3>2. k \in Key
      BY <3>1 DEF Good, KeysPlaced
    <3>3. k \notin KeysOf(u)
      <4>1. \A s \in Upto(n - 1) : s # n - 1 /\ s \in Full(t)
        BY <1>1 DEF Full
      <4>2. \A s \in Upto(n - 1) : t.slots[s] # k
        BY <3>1, <4>1 DEF Good, KeysOnce
      <4>3. QED
        BY <1>5, <4>2
    <3>4. Good(u) /\ u.capacity = capacity /\ KeysOf(u) = Some(n - 1)
      BY <1>5
    <3>5. KeysOf(u) \in SUBSET KeysOf(t)
      BY <3>4 DEF KeysOf
    <3>6. /\ IsFiniteSet(KeysOf(t)) /\ Cardinality(KeysOf(t)) = Cardinality(Full(t))
          /\ Cardinality(Full(t)) \in Nat
          /\ Cardinality(KeysOf(u)) = Cardinality(Full(u)) /\ Cardinality(Full(u)) \in Nat
      BY <3>4, KeysCount
    <3>7. Cardinality(KeysOf(u)) <= Cardinality(KeysOf(t))
      BY <3>5, <3>6, FS_Subset
    <3>8. Cardinality(Full(u)) < u.capacity
      BY <1>3, <3>4, <3>6, <3>7
    <3>9. Some(n) = Some(n - 1) \cup {k}
      BY <2>3, <3>1
    <3> HIDE DEF u, k, Some, Upto
    <3>10. /\ Good(PutFirst(u, k)) /\ PutFirst(u, k).capacity = u.capacity
           /\ KeysOf(PutFirst(u, k)) = KeysOf(u) \cup {k}
      BY <3>2, <3>3, <3>4, <3>8, PutFirstGood
    <3>11. f[n] = PutFirst(u, k)
      BY <2>1, <2>4 DEF u, k
    <3>12. QED
      BY <3>4, <3>9, <3>10, <3>11
  <2>5. CASE ~(t.ctrl[n - 1] >= 0)
    <3>1. n - 1 \notin Full(t)
      BY <2>5 DEF Full
    <3>2. Upto(n) = Upto(n - 1)
      BY <2>3, <3>1
    <3>3. QED
      BY <1>5, <2>1, <2>5, <3>2
  <2>6. QED
    BY <2>4, <2>5
<1>6. \A n \in 0 .. c : Holds(n)
  <2> DEFINE Bad == {n \in 0 .. c : ~Holds(n)}
  <2> HIDE DEF Holds
  <2> SUFFICES ASSUME Bad # {} PROVE FALSE
    OBVIOUS
  <2>1. PICK m \in Bad : \A n \in Bad : m <= n
    <3>1. Bad \subseteq Nat
      OBVIOUS
    <3> HIDE DEF Bad
    <3>2. QED
      BY <3>1, Least
  <2>2. m \in 1 .. c
    BY <1>1, <1>4
  <2>3. Holds(m - 1)
    BY <1>1, <2>1, <2>2
  <2>4. QED
    BY <1>5, <2>2, <2>3
<1>7. Some(c) = KeysOf(t)
  <2>1. Upto(c) = Full(t)
    BY <1>1 DEF Full
  <2>2. QED
    BY <2>1 DEF KeysOf
<1>8. Holds(c)
  <2> HIDE DEF Holds
  <2>1. c \in 0 .. c
    BY <1>1
  <2>2. QED
    BY <1>6, <2>1
<1>9. QED
  BY <1>2, <1>7, <1>8

\* The first table of a compiler that did not ask for one.
LEMMA ResizedNoTable ==
    ASSUME NEW capacity, NEW seed
    PROVE  Resized(NoTable, capacity, seed) = NewTable(capacity, seed)
<1>1. NoTable.capacity = 0
  BY DEF NoTable
<1> HIDE DEF NoTable
<1>2. PICK f : /\ IsMoved(f, NoTable, capacity, seed, NoTable.capacity)
               /\ Resized(NoTable, capacity, seed) = f[NoTable.capacity]
  BY <1>1, ResizedIs
<1>3. QED
  BY <1>1, <1>2 DEF IsMoved

----------------------------------------------------------------------------
(* The invariant *)

\* A table without slots holds no key.
LEMMA NoSlots ==
    /\ NoTable.capacity = 0 /\ Destroyed.capacity = 0
    /\ NoTable.slots = << >> /\ Destroyed.slots = << >>
    /\ NoTable # Destroyed
    /\ KeysOf(NoTable) = {} /\ KeysOf(Destroyed) = {}
<1>1. NoTable = [capacity |-> 0, ctrl |-> EmptyGroup, seed |-> 0, slots |-> << >>]
  BY DEF NoTable
<1>2. Destroyed = [capacity |-> 0, ctrl |-> << >>, seed |-> 0, slots |-> << >>]
  <2> HIDE DEF EmptyGroup
  <2>1. QED
    BY <1>1 DEF Destroyed
<1>3. EmptyGroup # << >>
  <2>1. GroupWidth \in Nat \ {0}
    BY DictAssumption DEF DictAssumption
  <2>2. 0 \in DOMAIN EmptyGroup
    BY <2>1 DEF EmptyGroup, Bytes
  <2>3. 0 \notin DOMAIN << >>
    OBVIOUS
  <2> HIDE DEF EmptyGroup
  <2>4. QED
    BY <2>2, <2>3
<1>4. NoTable.capacity = 0 /\ Destroyed.capacity = 0
      /\ NoTable.slots = << >> /\ Destroyed.slots = << >>
      /\ NoTable.ctrl = EmptyGroup /\ Destroyed.ctrl = << >>
  BY <1>1, <1>2
<1>5. NoTable # Destroyed
  BY <1>3, <1>4
<1>6. ASSUME NEW t, t.capacity = 0 PROVE KeysOf(t) = {}
  BY <1>6 DEF KeysOf, Full, SlotsOf
<1>7. QED
  BY <1>4, <1>5, <1>6

\* No rehash in place goes on; without slots there is nothing; a table is good, counts its
\* keys, and has what is left of its growth.
IInv ==
    /\ extras = 0 /\ rehash = NoRehash
    /\ \/ tab \in {NoTable, Destroyed} /\ size = 0 /\ growthLeft = 0
       \/ /\ Good(tab) /\ tab.capacity <= SizeMax
          /\ size = Cardinality(Full(tab))
          /\ growthLeft \in Nat
          /\ growthLeft = CapacityToGrowth(tab.capacity) - size

LEMMA InitInvariant ==
    ASSUME AsCompiled, Init
    PROVE  IInv
<1>1. size = 0 /\ rehash = NoRehash /\ extras = 0
  BY DEF Init
<1>2. CASE tab = NoTable /\ growthLeft = 0
  BY <1>1, <1>2 DEF IInv
<1>3. ASSUME NEW n \in Requests \ {0}, NEW seed \in Seeds,
             tab = NewTable(NormalizeCapacity(n), seed),
             growthLeft = CapacityToGrowth(NormalizeCapacity(n))
      PROVE  IInv
  <2> DEFINE c == NormalizeCapacity(n)
  <2>1. n \in Nat
    BY DictAssumption DEF DictAssumption
  <2>2. c \in Capacities /\ c \in Nat /\ c <= SizeMax
    BY <2>1, NormalizeIsCapacity, RequestsAssumption DEF RequestsAssumption, Capacities
  <2>3. tab = NewTable(c, seed) /\ growthLeft = CapacityToGrowth(c)
    BY <1>3
  <2> HIDE DEF c
  <2>4. Good(tab) /\ tab.capacity = c /\ Full(tab) = {}
    BY <2>2, <2>3, NewTableGood
  <2>5. Cardinality(Full(tab)) = 0
    BY <2>4, FS_EmptySet
  <2>6. CapacityToGrowth(c) \in 1 .. c
    BY <2>2, GrowthRange
  <2>7. growthLeft \in Nat /\ growthLeft = CapacityToGrowth(tab.capacity) - size
    BY <1>1, <2>2, <2>3, <2>4, <2>6
  <2>8. QED
    BY <1>1, <2>2, <2>4, <2>5, <2>7 DEF IInv
<1>4. QED
  BY <1>2, <1>3 DEF Init

\* The keys of the table are as many as size says.
LEMMA ContentsAre ==
    ASSUME AsCompiled, IInv
    PROVE  /\ Contents = KeysOf(tab) /\ DOMAIN tab.slots = SlotsOf(tab)
           /\ IsFiniteSet(KeysOf(tab)) /\ Cardinality(KeysOf(tab)) = size
           /\ size \in Nat /\ size <= tab.capacity /\ KeysOf(tab) \subseteq Key
<1>1. CASE Good(tab) /\ size = Cardinality(Full(tab))
  <2>1. DOMAIN tab.slots = SlotsOf(tab)
    BY <1>1 DEF Good, WellFormed
  <2>2. KeysOf(tab) \subseteq Key
    BY <1>1 DEF Good, KeysPlaced, KeysOf
  <2>3. Contents = KeysOf(tab)
    BY <2>1 DEF Contents, KeysOf, Full
  <2>4. QED
    BY <1>1, <2>1, <2>2, <2>3, KeysCount
<1>2. CASE tab \in {NoTable, Destroyed} /\ size = 0
  <2>1. tab.capacity = 0 /\ tab.slots = << >> /\ KeysOf(tab) = {}
    BY <1>2, NoSlots
  <2>2. DOMAIN tab.slots = {} /\ SlotsOf(tab) = {}
    BY <2>1 DEF SlotsOf
  <2>3. Contents = {}
    BY <2>2 DEF Contents
  <2>4. QED
    BY <1>2, <2>1, <2>2, <2>3, FS_EmptySet
<1>3. QED
  BY <1>1, <1>2 DEF IInv

\* There is a number for one more key of every hash.
LEMMA NewKeyIsNew ==
    ASSUME AsCompiled, IInv, size < MaxKeys, NEW hash \in Hashes
    PROVE  NewKey(hash) \in Key /\ NewKey(hash) \notin KeysOf(tab)
<1> DEFINE K == KeysOf(tab)
           named(n) == [hash |-> hash, number |-> n]
           Free == {n \in 1 .. MaxKeys : named(n) \notin Contents}
<1>1. Contents = K /\ IsFiniteSet(K) /\ Cardinality(K) = size /\ size \in Nat
  BY ContentsAre
<1>2. MaxKeys \in Nat /\ 1 \in Int /\ MaxKeys \in Int /\ MaxKeys > 0
  BY <1>1, DictAssumption DEF DictAssumption
<1>3. Free # {}
  <2> SUFFICES ASSUME Free = {} PROVE FALSE
    OBVIOUS
  <2> DEFINE f == [n \in 1 .. MaxKeys |-> named(n)]
  <2>1. \A n \in 1 .. MaxKeys : named(n) \in K
    BY <1>1
  <2>2. \A m, n : named(m) = named(n) => m = n
    <3> SUFFICES ASSUME NEW m, NEW n, named(m) = named(n) PROVE m = n
      OBVIOUS
    <3>1. named(m).number = named(n).number
      OBVIOUS
    <3>2. QED
      BY <3>1
  <2> HIDE DEF named, K
  <2>3. f \in [1 .. MaxKeys -> K] /\ \A m, n \in 1 .. MaxKeys : f[m] = f[n] => m = n
    BY <2>1, <2>2
  <2> HIDE DEF f
  <2>4. f \in Injection(1 .. MaxKeys, K)
    BY <2>3 DEF Injection, IsInjective
  <2>5. Cardinality(1 .. MaxKeys) <= Cardinality(K)
    BY <1>1, <2>4, FS_Injection
  <2>6. Cardinality(1 .. MaxKeys) = IF 1 > MaxKeys THEN 0 ELSE MaxKeys - 1 + 1
    BY <1>2, FS_Interval, Zenon
  <2>7. QED
    BY <1>1, <1>2, <2>5, <2>6
<1>4. Min(Free) \in Free
  <2>1. Free \subseteq Nat
    OBVIOUS
  <2> HIDE DEF Free
  <2>2. QED
    BY <1>3, <2>1, MinIs
<1>5. NewKey(hash) = named(Min(Free))
  BY DEF NewKey
<1>6. Min(Free) \in 1 .. MaxKeys /\ named(Min(Free)) \notin K
  BY <1>1, <1>4
<1> HIDE DEF Free
<1>7. QED
  BY <1>5, <1>6 DEF Key

\* No insertion has a Deleted slot to take.
LEMMA FirstNotDeleted ==
    ASSUME NEW t, AsCompiled, Good(t) \/ t = NoTable, NEW hash \in Hashes,
           StepsWith(t, hash, {Empty, Deleted}) # {}
    PROVE  t.ctrl[FirstNonFull(t, hash)] # Deleted
<1> DEFINE S == StepsWith(t, hash, {Empty, Deleted})
           n == Min(S)
           o == Offset(t, hash, n)
           M == Match(t, o, {Empty, Deleted})
           i == FirstNonFull(t, hash)
           c == t.capacity
<1>1. i = (o + Min(M)) % (c + 1)
  BY DEF FirstNonFull
<1>2. c \in Nat /\ GroupWidth \in {8, 16}
  BY NoSlots DEF Good, WellFormed, Capacities, AsCompiled
<1>3. Steps(t) \subseteq Nat
  <2>1. c \div GroupWidth \in Int
    BY <1>2
  <2>2. QED
    BY <2>1 DEF Steps
<1>4. S \subseteq Nat /\ S # {}
  BY <1>3 DEF StepsWith
<1> HIDE DEF S
<1>5. n \in S /\ n \in Nat
  BY <1>4, MinIs
<1> HIDE DEF n
<1>6. M \subseteq Nat /\ M # {}
  <2>1. M # {}
    BY <1>5 DEF S, StepsWith
  <2>2. M \subseteq 0 .. GroupWidth - 1
    BY DEF Match
  <2>3. QED
    BY <2>1, <2>2
<1> HIDE DEF M
<1>7. Min(M) \in Nat
  BY <1>6, MinIs
<1>8. o \in Int
  <2>1. t.seed \in Seeds \cup {0}
    BY DEF Good, WellFormed, NoTable
  <2>2. Mixed(hash.h1, t.seed) \in Nat
    BY <2>1, DictAssumption DEF DictAssumption
  <2> DEFINE m == c + 1
             tri == (n * (n + 1)) \div 2
             s == Start(t, hash)
  <2>3. m \in Nat \ {0} /\ Mixed(hash.h1, t.seed) \in Int
    BY <1>2, <2>2
  <2>4. s = Mixed(hash.h1, t.seed) % m /\ o = (s + GroupWidth * tri) % m
    BY DEF Start, Offset
  <2>5. tri \in Nat
    BY <1>5, TriTwice DEF Tri
  <2> HIDE DEF m, tri, s, o
  <2>6. s \in Int
    BY <2>3, <2>4, ModParts
  <2>7. s + GroupWidth * tri \in Int
    BY <1>2, <2>5, <2>6
  <2>8. o \in 0 .. m - 1
    BY <2>3, <2>4, <2>7, ModParts
  <2>9. QED
    BY <2>3, <2>8
<1> HIDE DEF o
<1>9. i \in 0 .. c
  <2> DEFINE m == c + 1
  <2>1. m \in Nat \ {0} /\ o + Min(M) \in Int /\ m - 1 = c
    BY <1>2, <1>7, <1>8
  <2>2. i = (o + Min(M)) % m
    BY <1>1
  <2> HIDE DEF m, i
  <2>3. QED
    BY <2>1, <2>2, ModParts
<1> HIDE DEF i, c
<1>10. CASE Good(t)
  <2>1. i \in Bytes(c)
    BY <1>2, <1>9 DEF Bytes
  <2>2. t.ctrl[i] \in {Empty, Sentinel} \cup 0 .. 127
    BY <1>10, <2>1 DEF Good, WellFormed, c
  <2>3. t.ctrl[i] # Deleted
    BY <2>2 DEF Empty, Sentinel, Deleted
  <2>4. QED
    BY <2>3 DEF i
<1>11. CASE t = NoTable
  <2>1. c = 0 /\ i = 0
    BY <1>9, <1>11, NoSlots DEF c
  <2>2. t.ctrl = EmptyGroup
    BY <1>11 DEF NoTable
  <2>3. EmptyGroup[0] = Sentinel
    BY <1>2 DEF EmptyGroup, Bytes
  <2>4. t.ctrl[i] # Deleted
    BY <2>1, <2>2, <2>3 DEF Sentinel, Deleted
  <2>5. QED
    BY <2>4 DEF i
<1>12. QED
  BY <1>10, <1>11

\* A key put in a table that has room, which may be the one that is there or a larger one.
LEMMA PlaceKeeps ==
    ASSUME AsCompiled, IInv, NEW t, Good(t), t.capacity <= SizeMax, KeysOf(t) = KeysOf(tab),
           NEW left, left = CapacityToGrowth(t.capacity) - size, left >= 1,
           NEW k \in Key, k \notin KeysOf(tab), Place(t, left, k),
           rehash' = rehash, extras' = extras
    PROVE  IInv' /\ KeysOf(tab') = KeysOf(tab) \cup {k}
<1>1. /\ size \in Nat /\ IsFiniteSet(KeysOf(tab)) /\ Cardinality(KeysOf(tab)) = size
      /\ Cardinality(Full(t)) = size
  BY ContentsAre, KeysCount
<1>2. /\ t.capacity \in Capacities /\ t.capacity \in Nat
      /\ CapacityToGrowth(t.capacity) \in 1 .. t.capacity
  BY GrowthRange DEF Good, WellFormed, Capacities
<1>3. left \in 1 .. t.capacity /\ size < t.capacity
  BY <1>1, <1>2
<1> DEFINE u == PutFirst(t, k)
<1>4. /\ Good(u) /\ u.capacity = t.capacity /\ KeysOf(u) = KeysOf(tab) \cup {k}
      /\ t.ctrl[FirstNonFull(t, k.hash)] = Empty
  BY <1>1, <1>3, PutFirstGood
<1>5. /\ tab' = u /\ size' = size + 1
      /\ growthLeft' = (left - 1) % (SizeMax + 1)
  BY <1>4 DEF Place, PutFirst
<1> HIDE DEF u
<1>6. growthLeft' = left - 1
  <2> DEFINE m == SizeMax + 1
             l == left - 1
  <2>1. m \in Nat \ {0} /\ l \in 0 .. m - 1 /\ l \in Int /\ l = 0 * m + l
    <3>1. SizeMax \in Nat
      BY DictAssumption DEF DictAssumption
    <3>2. QED
      BY <1>2, <1>3, <3>1
  <2>2. growthLeft' = l % m
    BY <1>5
  <2> HIDE DEF m, l
  <2>3. l % m = l
    BY <2>1, ModUnique
  <2>4. QED
    BY <2>2, <2>3 DEF l
<1>7. Cardinality(Full(u)) = size + 1
  <2>1. Cardinality(KeysOf(u)) = size + 1
    BY <1>1, <1>4, FS_AddElement
  <2>2. QED
    BY <1>4, <2>1, KeysCount
<1>8. growthLeft' \in Nat /\ growthLeft' = CapacityToGrowth(u.capacity) - (size + 1)
  <2>1. CapacityToGrowth(u.capacity) \in Int /\ left = CapacityToGrowth(u.capacity) - size
    BY <1>2, <1>4
  <2>2. QED
    BY <1>1, <1>2, <1>3, <1>6, <2>1
<1>9. extras' = 0 /\ rehash' = NoRehash
  BY DEF IInv
<1>10. IInv'
  BY <1>4, <1>5, <1>7, <1>8, <1>9 DEF IInv
<1>11. QED
  BY <1>4, <1>5, <1>10

\* dict_insert of a key that has room.
LEMMA InsertKeeps ==
    ASSUME AsCompiled, IInv, NEW k \in Key, k \notin KeysOf(tab), Insert(k)
    PROVE  IInv' /\ KeysOf(tab') = KeysOf(tab) \cup {k}
<1>1. /\ tab # Destroyed /\ StepsWith(tab, k.hash, {Empty, Deleted}) # {}
      /\ Place(tab, growthLeft, k) /\ rehash' = rehash /\ extras' = extras
      /\ ~(growthLeft = 0 /\ tab.ctrl[FirstNonFull(tab, k.hash)] # Deleted)
  BY DEF Insert, CanInsert, MustGrow, Usable
<1>2. k.hash \in Hashes /\ (Good(tab) \/ tab = NoTable)
  BY <1>1 DEF Key, IInv
<1>3. growthLeft # 0
  BY <1>1, <1>2, FirstNotDeleted
<1>4. /\ Good(tab) /\ tab.capacity <= SizeMax /\ growthLeft \in Nat
      /\ growthLeft = CapacityToGrowth(tab.capacity) - size
  BY <1>3 DEF IInv
<1>5. growthLeft >= 1
  BY <1>3, <1>4
<1>6. QED
  BY <1>1, <1>4, <1>5, PlaceKeeps

\* dict_insert of a key that makes the table larger first.
LEMMA InsertGrowingKeeps ==
    ASSUME AsCompiled, IInv, NEW k \in Key, k \notin KeysOf(tab), InsertGrowing(k)
    PROVE  IInv' /\ KeysOf(tab') = KeysOf(tab) \cup {k}
<1> DEFINE capacity == IF tab.capacity = 0 THEN 1 ELSE tab.capacity * 2 + 1
<1>1. /\ tab # Destroyed /\ rehash' = rehash /\ extras' = extras /\ capacity <= MaxCapacity
      /\ \E seed \in Seeds :
            Place(Resized(tab, capacity, seed), CapacityToGrowth(capacity) - size, k)
  BY DEF InsertGrowing, CanInsert, Usable
<1>2. PICK seed \in Seeds :
            Place(Resized(tab, capacity, seed), CapacityToGrowth(capacity) - size, k)
  BY <1>1
<1> DEFINE t == Resized(tab, capacity, seed)
<1>3. size \in Nat /\ size <= tab.capacity
  BY ContentsAre
<1>4. /\ Good(t) /\ t.capacity = capacity /\ KeysOf(t) = KeysOf(tab)
      /\ CapacityToGrowth(capacity) - size >= 1 /\ capacity \in Nat
  <2>1. CASE tab = NoTable /\ size = 0
    <3>1. tab.capacity = 0 /\ KeysOf(tab) = {}
      BY <2>1, NoSlots
    <3>2. capacity = 1
      BY <3>1
    <3>3. t = NewTable(1, seed)
      BY <2>1, <3>2, ResizedNoTable
    <3>4. CapacityToGrowth(1) \in 1 .. 1
      BY CapacityTwice, GrowthRange
    <3> HIDE DEF t, capacity
    <3>5. Good(t) /\ t.capacity = capacity /\ KeysOf(t) = KeysOf(tab)
      BY <3>1, <3>2, <3>3, CapacityTwice, NewTableGood
    <3>6. QED
      BY <2>1, <3>2, <3>4, <3>5
  <2>2. CASE Good(tab) /\ size = Cardinality(Full(tab)) /\ growthLeft \in Nat
             /\ growthLeft = CapacityToGrowth(tab.capacity) - size
    <3>1. tab.capacity \in Capacities /\ tab.capacity \in Nat \ {0}
      BY <2>2 DEF Good, WellFormed, Capacities
    <3>2. capacity = 2 * tab.capacity + 1
      BY <3>1
    <3> HIDE DEF capacity
    <3>3. capacity \in Capacities /\ capacity \in Nat /\ size < capacity
      BY <1>3, <3>1, <3>2, CapacityTwice
    <3>4. Good(t) /\ t.capacity = capacity /\ KeysOf(t) = KeysOf(tab)
      BY <2>2, <3>3, ResizedGood
    <3>5. CapacityToGrowth(capacity) > CapacityToGrowth(tab.capacity)
      BY <3>1, <3>2, GrowthRange
    <3>6. CapacityToGrowth(capacity) \in Nat /\ CapacityToGrowth(tab.capacity) \in Nat
      BY <3>1, <3>3, GrowthRange
    <3> HIDE DEF t
    <3>7. QED
      BY <1>3, <2>2, <3>3, <3>4, <3>5, <3>6
  <2>3. QED
    BY <1>1, <2>1, <2>2 DEF IInv
<1> HIDE DEF t, capacity
<1>5. capacity <= SizeMax
  <2>1. MaxCapacity < SizeMax /\ MaxCapacity \in Nat /\ SizeMax \in Nat
    BY DictAssumption DEF DictAssumption
  <2>2. QED
    BY <1>1, <1>4, <2>1
<1>6. Place(t, CapacityToGrowth(capacity) - size, k)
  BY <1>2 DEF t
<1> DEFINE left == CapacityToGrowth(capacity) - size
<1>7. left = CapacityToGrowth(t.capacity) - size /\ left >= 1 /\ Place(t, left, k)
  BY <1>4, <1>6
<1> HIDE DEF left
<1>8. QED
  BY <1>1, <1>4, <1>5, <1>7, PlaceKeeps

\* dict_insert never rehashes in place: the load is over 25/32 when there is no room.
LEMMA NeverDrops ==
    ASSUME AsCompiled, IInv, NEW k \in Key
    PROVE  ~InsertDropping(k)
<1> SUFFICES ASSUME InsertDropping(k) PROVE FALSE
  OBVIOUS
<1>1. growthLeft = 0 /\ tab.capacity > GroupWidth /\ size * 32 <= tab.capacity * 25
  BY DEF InsertDropping, MustGrow, DropsDeletes
<1>2. GroupWidth \in {8, 16}
  BY DEF AsCompiled
<1>3. tab \notin {NoTable, Destroyed}
  BY <1>1, <1>2, NoSlots
<1>4. Good(tab) /\ growthLeft = CapacityToGrowth(tab.capacity) - size
  BY <1>3 DEF IInv
<1>5. tab.capacity \in Capacities /\ tab.capacity \in Nat
  BY <1>4 DEF Good, WellFormed, Capacities
<1>6. /\ CapacityToGrowth(tab.capacity) \in 1 .. tab.capacity
      /\ CapacityToGrowth(tab.capacity) * 32 > tab.capacity * 25
  BY <1>5, GrowthRange
<1>7. size \in Nat
  BY ContentsAre
<1>8. QED
  BY <1>1, <1>4, <1>5, <1>6, <1>7

\* One key more, or none.
Changed == \/ \E k \in Key \ KeysOf(tab) : KeysOf(tab') = KeysOf(tab) \cup {k}
           \/ KeysOf(tab') = {}

LEMMA NextKeeps ==
    ASSUME AsCompiled, IInv, Next
    PROVE  IInv' /\ Changed
<1>1. extras = 0 /\ ~rehash.on /\ MaxExtras = 0
  BY DEF IInv, NoRehash, AsCompiled
<1>2. ASSUME NEW h \in Hashes, \/ Insert(NewKey(h)) \/ InsertGrowing(NewKey(h))
                               \/ InsertDropping(NewKey(h))
      PROVE  IInv' /\ Changed
  <2> DEFINE k == NewKey(h)
  <2>1. size < MaxKeys
    BY <1>2 DEF Insert, InsertGrowing, InsertDropping, CanInsert
  <2>2. k \in Key /\ k \notin KeysOf(tab)
    BY <2>1, NewKeyIsNew
  <2>3. Insert(k) \/ InsertGrowing(k) \/ InsertDropping(k)
    BY <1>2
  <2> HIDE DEF k
  <2>4. CASE Insert(k)
    BY <2>2, <2>4, InsertKeeps DEF Changed
  <2>5. CASE InsertGrowing(k)
    BY <2>2, <2>5, InsertGrowingKeeps DEF Changed
  <2>6. CASE InsertDropping(k)
    BY <2>2, <2>6, NeverDrops
  <2>7. QED
    BY <2>3, <2>4, <2>5, <2>6
<1>3. ASSUME NEW k \in Contents, Erase(k) PROVE FALSE
  BY <1>1, <1>3 DEF Erase
<1>4. CASE RehashSlot
  BY <1>1, <1>4 DEF RehashSlot
<1>5. CASE RehashDone
  BY <1>1, <1>5 DEF RehashDone
<1>6. CASE Destroy
  <2>1. /\ tab' = Destroyed /\ size' = 0 /\ growthLeft' = 0
        /\ rehash' = rehash /\ extras' = extras
    BY <1>6 DEF Destroy
  <2>2. IInv'
    BY <2>1 DEF IInv
  <2>3. KeysOf(tab') = {}
    BY <2>1, NoSlots
  <2>4. QED
    BY <2>2, <2>3 DEF Changed
<1>7. ASSUME NEW n \in Requests, Rehash(n) \/ Reserve(n)
      PROVE  IInv' /\ Changed
  <2>1. \A c : ~Resize(c)
    BY <1>1 DEF Resize
  <2>2. Destroy
    BY <1>7, <2>1 DEF Rehash, Reserve
  <2>3. QED
    BY <1>6, <2>2
<1>8. QED
  BY <1>2, <1>3, <1>4, <1>5, <1>6, <1>7 DEF Next

LEMMA StepKeeps ==
    ASSUME AsCompiled, IInv, [Next]_vars
    PROVE  IInv'
<1>1. CASE Next
  BY <1>1, NextKeeps
<1>2. CASE vars' = vars
  BY <1>2 DEF vars, IInv
<1>3. QED
  BY <1>1, <1>2

\* Whatever the hashes are and wherever the table lies, the table is good, counts its keys
\* and has what is left of its growth, and never asks for a rehash in place.
THEOREM DictInvariant ==
    ASSUME AsCompiled
    PROVE  Spec => []IInv
<1>1. Init => IInv
  BY InitInvariant
<1>2. IInv /\ [Next]_vars => IInv'
  BY StepKeeps
<1>3. QED
  BY <1>1, <1>2, PTL DEF Spec

\* The state is of the right type: the sentinel of the control bytes is where the capacity
\* says, and size and growth_left are in range.
THEOREM DictTypeCorrect ==
    ASSUME AsCompiled
    PROVE  Spec => []TypeOK
<1>1. IInv => TypeOK
  <2> SUFFICES ASSUME IInv PROVE TypeOK
    OBVIOUS
  <2>1. extras \in 0 .. MaxExtras /\ rehash = NoRehash
    BY DEF IInv, AsCompiled
  <2>2. /\ DOMAIN tab.slots = 0 .. tab.capacity - 1
        /\ size \in Nat /\ size <= tab.capacity
    BY ContentsAre DEF SlotsOf
  <2>3. MaxCapacity < SizeMax /\ SizeMax \in Nat /\ GroupWidth \in {8, 16}
    BY DictAssumption DEF DictAssumption, AsCompiled
  <2>4. CASE tab \in {NoTable, Destroyed} /\ growthLeft = 0
    <3>1. tab.capacity = 0 /\ tab.slots = << >>
      BY <2>4, NoSlots
    <3>2. tab = NoTable => /\ tab.ctrl \in [Bytes(0) -> {Empty, Deleted, Sentinel} \cup 0 .. 127]
                           /\ tab.ctrl[0] = Sentinel
      <4>1. EmptyGroup \in [Bytes(0) -> {Empty, Deleted, Sentinel} \cup 0 .. 127]
        BY DEF EmptyGroup
      <4>2. EmptyGroup[0] = Sentinel
        BY <2>3 DEF EmptyGroup, Bytes
      <4>3. NoTable.ctrl = EmptyGroup
        BY DEF NoTable
      <4>4. QED
        BY <4>1, <4>2, <4>3
    <3>3. \A i \in DOMAIN tab.slots : FALSE
      BY <3>1
    <3>4. rehash.on \in BOOLEAN /\ rehash.at \in 0 .. tab.capacity
      BY <2>1, <3>1 DEF NoRehash
    <3>5. growthLeft \in 0 .. SizeMax /\ size \in 0 .. tab.capacity
      BY <2>2, <2>3, <2>4, <3>1
    <3>6. QED
      BY <2>1, <2>2, <2>4, <3>1, <3>2, <3>3, <3>4, <3>5 DEF TypeOK
  <2>5. CASE /\ Good(tab) /\ tab.capacity <= SizeMax /\ growthLeft \in Nat
             /\ growthLeft = CapacityToGrowth(tab.capacity) - size
    <3>1. /\ tab.capacity \in Capacities /\ tab.capacity \in Nat \ {0}
          /\ tab.ctrl \in [Bytes(tab.capacity) -> {Empty, Sentinel} \cup 0 .. 127]
          /\ tab.slots \in [SlotsOf(tab) -> Key \cup {Unwritten}]
          /\ tab.ctrl[tab.capacity] = Sentinel
      BY <2>5 DEF Good, WellFormed, Capacities
    <3>2. NormalizeCapacity(tab.capacity) = tab.capacity
      BY <3>1, NormalizeCapacities
    <3>3. tab.ctrl \in [Bytes(tab.capacity) -> {Empty, Deleted, Sentinel} \cup 0 .. 127]
      BY <3>1
    <3>4. \A i \in DOMAIN tab.slots : tab.slots[i] \in Key \cup {Unwritten}
      BY <3>1
    <3>5. CapacityToGrowth(tab.capacity) \in 1 .. tab.capacity
      BY <3>1, GrowthRange
    <3>6. growthLeft \in 0 .. SizeMax /\ size \in 0 .. tab.capacity
      BY <2>2, <2>3, <2>5, <3>1, <3>5
    <3>7. rehash.on \in BOOLEAN /\ rehash.at \in 0 .. tab.capacity
      BY <2>1, <3>1 DEF NoRehash
    <3>8. QED
      BY <2>1, <2>2, <3>1, <3>2, <3>3, <3>4, <3>6, <3>7 DEF TypeOK
  <2>6. QED
    BY <2>4, <2>5 DEF IInv
<1>2. QED
  BY <1>1, DictInvariant, PTL

\* The probing of every lookup comes to an Empty, in a table of any capacity, and the clones
\* behind the sentinel agree with the bytes they repeat.
THEOREM DictProbesEnd ==
    ASSUME AsCompiled
    PROVE  Spec => []EveryProbeEnds
<1>1. IInv => EveryProbeEnds
  <2> SUFFICES ASSUME IInv, tab.capacity # 0
               PROVE  /\ \A h \in Hashes : StepsWith(tab, h, {Empty}) # {}
                      /\ \A i \in DOMAIN tab.slots :
                            tab.ctrl[Mirror(i, tab.capacity)] = tab.ctrl[i]
                      /\ \A i \in DOMAIN tab.slots : i < GroupWidth - 1 =>
                            tab.ctrl[i + tab.capacity + 1] = tab.ctrl[i]
    BY DEF EveryProbeEnds
  <2>1. /\ Good(tab) /\ growthLeft \in Nat /\ size = Cardinality(Full(tab))
        /\ growthLeft = CapacityToGrowth(tab.capacity) - size
    BY NoSlots DEF IInv
  <2>2. WellFormed(tab) /\ Cloned(tab)
    BY <2>1 DEF Good
  <2>3. tab.capacity \in Capacities /\ tab.capacity \in Nat
    BY <2>2 DEF WellFormed, Capacities
  <2>4. size \in Nat /\ DOMAIN tab.slots = SlotsOf(tab)
    BY ContentsAre
  <2>5. Small(tab.capacity) \/ \E e \in SlotsOf(tab) : tab.ctrl[e] = Empty
    <3>1. CASE ~Small(tab.capacity)
      <4>1. /\ CapacityToGrowth(tab.capacity) \in 1 .. tab.capacity
            /\ CapacityToGrowth(tab.capacity) < tab.capacity
        BY <2>3, <3>1, GrowthRange
      <4>2. size < tab.capacity
        BY <2>1, <2>3, <2>4, <4>1
      <4>3. QED
        BY <2>1, <4>2, EmptySlot
    <3>2. QED
      BY <3>1
  <2>6. \A h \in Hashes : StepsWith(tab, h, {Empty}) # {}
    BY <2>2, <2>5, EmptyReached
  <2>7. \A i \in SlotsOf(tab) : i < GroupWidth - 1 =>
            tab.ctrl[i + tab.capacity + 1] = tab.ctrl[i]
    BY <2>2 DEF Cloned
  <2>8. ASSUME NEW i \in SlotsOf(tab)
        PROVE  tab.ctrl[Mirror(i, tab.capacity)] = tab.ctrl[i]
    <3>1. i \in 0 .. tab.capacity - 1
      BY DEF SlotsOf
    <3>2. Mirror(i, tab.capacity) = IF i < GroupWidth - 1 THEN i + tab.capacity + 1 ELSE i
      BY <2>3, <3>1, MirrorIs
    <3>3. QED
      BY <2>7, <3>2
  <2>9. QED
    BY <2>4, <2>6, <2>7, <2>8
<1>2. QED
  BY <1>1, DictInvariant, PTL

\* What is found in a table are the keys that were put in it.
LEMMA FoundAre ==
    ASSUME NEW t, Good(t) \/ t = NoTable
    PROVE  {t.slots[i] : i \in {s \in DOMAIN t.slots : s \in Found(t, t.slots[s])}} = KeysOf(t)
<1>1. CASE t = NoTable
  <2>1. t.slots = << >> /\ KeysOf(t) = {}
    BY <1>1, NoSlots
  <2>2. DOMAIN t.slots = {}
    BY <2>1
  <2>3. QED
    BY <2>1, <2>2
<1>2. CASE Good(t)
  <2>1. DOMAIN t.slots = SlotsOf(t) /\ t.slots \in [SlotsOf(t) -> Key \cup {Unwritten}]
    BY <1>2 DEF Good, WellFormed
  <2>2. ASSUME NEW s \in SlotsOf(t)
        PROVE  s \in Found(t, t.slots[s]) <=> s \in Full(t)
    <3>1. s \in Found(t, t.slots[s]) <=> /\ t.ctrl[s] = t.slots[s].hash.h2
                                         /\ Reached(t, t.slots[s].hash, s)
      BY <2>1 DEF Found
    <3>2. s \in Full(t) => /\ t.ctrl[s] = t.slots[s].hash.h2
                           /\ Reached(t, t.slots[s].hash, s)
      BY <1>2 DEF Good, KeysPlaced
    <3>3. t.slots[s].hash.h2 \in Nat
      <4>1. t.slots[s] \in Key \/ t.slots[s] = Unwritten
        BY <2>1
      <4>2. \A k \in Key : k.hash \in Hashes
        BY DEF Key
      <4>3. Unwritten.hash.h2 = 0
        BY DEF Unwritten
      <4>4. \A h \in Hashes : h.h2 \in 0 .. 127
        BY DictAssumption DEF DictAssumption
      <4>5. QED
        BY <4>1, <4>2, <4>3, <4>4
    <3>4. t.ctrl[s] = t.slots[s].hash.h2 => s \in Full(t)
      BY <3>3 DEF Full
    <3>5. QED
      BY <3>1, <3>2, <3>4
  <2>3. {s \in DOMAIN t.slots : s \in Found(t, t.slots[s])} = Full(t)
    BY <2>1, <2>2 DEF Full
  <2>4. QED
    BY <2>3 DEF KeysOf
<1>3. QED
  BY <1>1, <1>2

\* The table is a set: an insertion adds its key, whatever table it makes room in, and every
\* key that was inserted is found until the table is destroyed.
THEOREM DictImplementsKeySet ==
    ASSUME AsCompiled
    PROVE  Spec => ImplementsKeySet
<1>1. IInv => Present = KeysOf(tab)
  <2> SUFFICES ASSUME IInv PROVE Present = KeysOf(tab)
    OBVIOUS
  <2>1. ~rehash.on /\ (tab = Destroyed \/ tab = NoTable \/ Good(tab))
    BY DEF IInv, NoRehash
  <2>2. CASE tab = Destroyed
    BY <2>2, NoSlots DEF Present
  <2>3. CASE tab # Destroyed
    BY <2>1, <2>3, FoundAre DEF Present
  <2>4. QED
    BY <2>2, <2>3
<1>2. IInv' => Present' = KeysOf(tab')
  <2> SUFFICES ASSUME IInv' PROVE Present' = KeysOf(tab')
    OBVIOUS
  <2>1. ~rehash'.on /\ (tab' = Destroyed \/ tab' = NoTable \/ Good(tab'))
    BY DEF IInv, NoRehash
  <2>2. CASE tab' = Destroyed
    BY <2>2, NoSlots DEF Present
  <2>3. CASE tab' # Destroyed
    BY <2>1, <2>3, FoundAre DEF Present
  <2>4. QED
    BY <2>2, <2>3
<1>3. Init => Set!Init
  <2> SUFFICES ASSUME Init PROVE Set!Init
    OBVIOUS
  <2>1. Present = KeysOf(tab)
    BY <1>1, InitInvariant
  <2>2. CASE tab = NoTable
    BY <2>1, <2>2, NoSlots DEF Set!Init
  <2>3. ASSUME NEW n \in Requests \ {0}, NEW seed \in Seeds,
               tab = NewTable(NormalizeCapacity(n), seed)
        PROVE  Set!Init
    <3>1. n \in Nat
      BY DictAssumption DEF DictAssumption
    <3>2. NormalizeCapacity(n) \in Capacities
      BY <3>1, NormalizeIsCapacity
    <3>3. KeysOf(tab) = {}
      BY <2>3, <3>2, NewTableGood
    <3>4. QED
      BY <2>1, <3>3 DEF Set!Init
  <2>4. QED
    BY <2>2, <2>3 DEF Init
<1>4. IInv /\ [Next]_vars => [Set!Next]_Present
  <2> SUFFICES ASSUME IInv, [Next]_vars PROVE [Set!Next]_Present
    OBVIOUS
  <2>1. CASE Next
    <3>1. IInv' /\ Changed
      BY <2>1, NextKeeps
    <3>2. Present = KeysOf(tab) /\ Present' = KeysOf(tab')
      BY <1>1, <1>2, <3>1
    <3>3. KeysOf(tab) \subseteq Key
      BY ContentsAre
    <3>4. CASE KeysOf(tab') = {}
      <4>1. Set!Clear /\ Present' \subseteq Key
        BY <3>2, <3>4 DEF Set!Clear
      <4>2. QED
        BY <4>1 DEF Set!Next
    <3>5. CASE \E k \in Key \ KeysOf(tab) : KeysOf(tab') = KeysOf(tab) \cup {k}
      <4>1. PICK k \in Key \ KeysOf(tab) : KeysOf(tab') = KeysOf(tab) \cup {k}
        BY <3>5
      <4>2. Present' \ Present = {k} /\ Present \subseteq Present' /\ Present' \subseteq Key
        BY <3>2, <3>3, <4>1
      <4>3. Cardinality(Present' \ Present) = 1
        BY <4>2, FS_Singleton
      <4>4. Set!Cardinality(Present' \ Present) = 1
        BY <4>3, Zenon DEF Cardinality, Set!Cardinality
      <4>5. QED
        BY <4>2, <4>4 DEF Set!Add, Set!Next
    <3>6. QED
      BY <3>1, <3>4, <3>5 DEF Changed
  <2>2. CASE vars' = vars
    BY <2>2 DEF vars, Present, Found, Reached, Steps, Match, Offset, Start
  <2>3. QED
    BY <2>1, <2>2
<1>5. QED
  BY <1>3, <1>4, DictInvariant, PTL DEF Spec, ImplementsKeySet, Set!Spec
============================================================================
