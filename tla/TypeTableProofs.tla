-------------------------- MODULE TypeTableProofs --------------------------
(* Proofs about TypeTable: handles keep their meaning, and a type is interned *)
(* once unless it was entered over words left by another.                    *)
EXTENDS TypeTable, SequenceTheorems, WellFoundedInduction, TLAPS

USE DEF NUM_TYPE_KINDS, VOID, STR, RANGE, LIST, ARRAY, PTR, FUNC, STRUCT

----------------------------------------------------------------------------
(* Handles, and words of sequences put together *)

\* A handle is taken apart into what it was made of.
LEMMA HandleParts ==
    ASSUME NEW i \in Nat, NEW kind \in 0..255
    PROVE  /\ Handle(i, kind) \in Nat
           /\ Index(Handle(i, kind)) = i
           /\ Kind(Handle(i, kind)) = kind
BY SMT DEF Handle, Index, Kind

\* The parts of any number that is taken for a handle.
LEMMA PartsOfHandle ==
    ASSUME NEW t \in Nat
    PROVE  Index(t) \in Nat /\ Kind(t) \in 0..255
BY SMT DEF Index, Kind

\* Two sequences one behind the other, whatever their elements are.
LEMMA Joined ==
    ASSUME NEW S, NEW T, NEW s \in Seq(S), NEW t \in Seq(T)
    PROVE  /\ s \o t \in Seq(S \cup T)
           /\ Len(s \o t) = Len(s) + Len(t)
           /\ \A k \in 1..Len(s) : (s \o t)[k] = s[k]
           /\ \A k \in 1..Len(t) : (s \o t)[Len(s) + k] = t[k]
<1>1. s \in Seq(S \cup T) /\ t \in Seq(S \cup T)
  <2>1. S \subseteq S \cup T /\ T \subseteq S \cup T
    OBVIOUS
  <2>2. QED
    BY <2>1, SeqMonotonic
<1>2. /\ s \o t \in Seq(S \cup T)
      /\ Len(s \o t) = Len(s) + Len(t)
      /\ \A i \in 1..Len(s) + Len(t) :
            (s \o t)[i] = IF i <= Len(s) THEN s[i] ELSE t[i - Len(s)]
  BY <1>1, ConcatProperties
<1>3. QED
  BY <1>1, <1>2, LenProperties

\* And three.
LEMMA JoinedThree ==
    ASSUME NEW S, NEW T, NEW U, NEW s \in Seq(S), NEW t \in Seq(T), NEW u \in Seq(U)
    PROVE  /\ Len(s \o t \o u) = Len(s) + Len(t) + Len(u)
           /\ \A k \in 1..Len(s) : (s \o t \o u)[k] = s[k]
           /\ \A k \in 1..Len(t) : (s \o t \o u)[Len(s) + k] = t[k]
           /\ \A k \in 1..Len(u) : (s \o t \o u)[Len(s) + Len(t) + k] = u[k]
<1>1. /\ s \o t \in Seq(S \cup T)
      /\ Len(s \o t) = Len(s) + Len(t)
      /\ \A k \in 1..Len(s) : (s \o t)[k] = s[k]
      /\ \A k \in 1..Len(t) : (s \o t)[Len(s) + k] = t[k]
  BY Joined
<1>2. /\ Len(s \o t \o u) = Len(s \o t) + Len(u)
      /\ \A k \in 1..Len(s \o t) : (s \o t \o u)[k] = (s \o t)[k]
      /\ \A k \in 1..Len(u) : (s \o t \o u)[Len(s \o t) + k] = u[k]
  BY <1>1, Joined
<1>3. Len(s) \in Nat /\ Len(t) \in Nat /\ Len(u) \in Nat
  BY LenProperties
<1>4. QED
  BY <1>1, <1>2, <1>3

\* A number is made of its quotient and remainder in one way.
LEMMA QuotientOfSum ==
    ASSUME NEW b \in Nat, NEW F \in Nat \ {0}, NEW n \in 0..(F - 1)
    PROVE  (b * F + n) % F = n /\ (b * F + n) \div F = b
BY SMT

\* Alignments that pass the assertions have a largest one.
LEMMA LargestAlign ==
    ASSUME NEW S \in SUBSET {1, 2, 4, 8, 16, 32, 64, 128}, S # {}
    PROVE  Max(S) \in Nat /\ Max(S) \in S /\ \A y \in S : y <= Max(S)
<1>1. \E x \in S : \A y \in S : x >= y
  <2>1. CASE 128 \in S
    BY <2>1
  <2>2. CASE 128 \notin S /\ 64 \in S
    BY <2>2
  <2>3. CASE 128 \notin S /\ 64 \notin S /\ 32 \in S
    BY <2>3
  <2>4. CASE 128 \notin S /\ 64 \notin S /\ 32 \notin S /\ 16 \in S
    BY <2>4
  <2>5. CASE 128 \notin S /\ 64 \notin S /\ 32 \notin S /\ 16 \notin S /\ 8 \in S
    BY <2>5
  <2>6. CASE 128 \notin S /\ 64 \notin S /\ 32 \notin S /\ 16 \notin S /\ 8 \notin S
            /\ 4 \in S
    BY <2>6
  <2>7. CASE 128 \notin S /\ 64 \notin S /\ 32 \notin S /\ 16 \notin S /\ 8 \notin S
            /\ 4 \notin S /\ 2 \in S
    BY <2>7
  <2>8. CASE 128 \notin S /\ 64 \notin S /\ 32 \notin S /\ 16 \notin S /\ 8 \notin S
            /\ 4 \notin S /\ 2 \notin S /\ 1 \in S
    BY <2>8
  <2>9. \/ 128 \in S \/ 64 \in S \/ 32 \in S \/ 16 \in S
        \/ 8 \in S \/ 4 \in S \/ 2 \in S \/ 1 \in S
    <3>1. PICK x \in S : TRUE
      OBVIOUS
    <3>2. x \in {1, 2, 4, 8, 16, 32, 64, 128}
      OBVIOUS
    <3>3. QED
      BY <3>1, <3>2
  <2>10. QED
    BY <2>1, <2>2, <2>3, <2>4, <2>5, <2>6, <2>7, <2>8, <2>9
<1>2. Max(S) \in S /\ \A y \in S : Max(S) >= y
  BY <1>1 DEF Max
<1>3. S \subseteq Nat
  OBVIOUS
<1>4. QED
  BY <1>2, <1>3

----------------------------------------------------------------------------
(* Alignment, and the ends of the fields *)

\* A set of natural numbers that has one has a least one.
LEMMA Least ==
    ASSUME NEW S, S \subseteq Nat, S # {}
    PROVE  \E m \in S : \A k \in S : m <= k
<1>1. PICK R : IsWellFoundedOn(R, Nat) /\ \A k, m \in Nat : k < m => <<k, m>> \in R
  BY NatLessThanWellFounded DEF OpToRel
<1>2. IsWellFoundedOn(R, Nat)
  BY <1>1
<1>3. \E m \in S : \A k \in S : ~ (<<k, m>> \in R)
  BY <1>2, WFMin, Zenon
<1>4. PICK m \in S : \A k \in S : ~ (<<k, m>> \in R)
  BY <1>3
<1>5. \A k \in S : k \in Nat /\ m \in Nat /\ ~(k < m)
  BY <1>1, <1>4
<1>6. \A k \in S : m <= k
  BY <1>5
<1>7. QED
  BY <1>6

\* A product leaves no remainder.
LEMMA MultipleMod ==
    ASSUME NEW b \in Nat \ {0}, NEW k \in Nat
    PROVE  (k * b) % b = 0
BY SMT

\* Aligning goes up to a multiple of the alignment.
LEMMA AlignUpAt ==
    ASSUME NEW n \in Nat, NEW a \in Nat \ {0}
    PROVE  AlignUp(n, a) \in Nat /\ n <= AlignUp(n, a) /\ AlignUp(n, a) % a = 0
<1> DEFINE q == (n + a - 1) \div a
<1>1. q \in Nat
  BY SMT
<1>2. n + a - 1 = q * a + ((n + a - 1) % a) /\ (n + a - 1) % a \in 0 .. a - 1
  BY SMT
<1>3. (q * a) % a = 0 /\ q * a \in Nat
  <2> HIDE DEF q
  <2>1. QED
   BY <1>1, MultipleMod
<1>4. n <= q * a
  <2> DEFINE p == q * a
             r == (n + a - 1) % a
  <2>1. p \in Nat /\ n + a - 1 = p + r /\ r \in 0 .. a - 1
    BY <1>2, <1>3
  <2> HIDE DEF p, r
  <2>2. n <= p
    BY <2>1
  <2>3. QED
    BY <2>2 DEF p
<1>5. QED
  BY <1>3, <1>4 DEF AlignUp

Powers == {1, 2, 4, 8, 16, 32, 64, 128}

\* Of two powers of two the larger is a multiple of the smaller.
LEMMA PowersDivide ==
    ASSUME NEW a \in Powers, NEW b \in Powers, b <= a
    PROVE  \E c \in Nat : a = c * b
<1>1. a = (a \div b) * b /\ (a \div b) \in Nat
  BY SMT DEF Powers
<1>2. QED
  BY <1>1

\* What is aligned for the larger is aligned for the smaller.
LEMMA AlignedByLarger ==
    ASSUME NEW n \in Nat, NEW a \in Powers, NEW b \in Powers, b <= a
    PROVE  AlignUp(n, a) % b = 0
<1> DEFINE q == (n + a - 1) \div a
<1>1. a \in Nat \ {0} /\ b \in Nat \ {0}
  BY DEF Powers
<1>2. q \in Nat
  BY <1>1, SMT
<1>3. PICK c \in Nat : a = c * b
  BY PowersDivide
<1> HIDE DEF q
<1>4. q * a = (q * c) * b /\ q * c \in Nat
  BY <1>1, <1>2, <1>3
<1>5. (q * a) % b = 0
  BY <1>1, <1>4, MultipleMod
<1>6. QED
  BY <1>5 DEF AlignUp, q

\* What a sequence of numbers is when each is got from the one before it.
IsRun(e, next, n) ==
    /\ e \in [0..n -> Nat] /\ e[0] = 0
    /\ \A i \in 1..n : e[i] = next[i][e[i - 1]]

\* There is such a sequence: those before the last have theirs, and it comes behind.
LEMMA RunExists ==
    ASSUME NEW n \in Nat, NEW next \in [1..n -> [Nat -> Nat]]
    PROVE  \E e : IsRun(e, next, n)
<1> DEFINE Bad == {k \in 0..n : ~ \E e : IsRun(e, next, k)}
<1> SUFFICES ASSUME Bad # {} PROVE FALSE
  <2>1. n \in Bad \/ \E e : IsRun(e, next, n)
    OBVIOUS
  <2>2. QED
    BY <2>1
<1>1. PICK m \in Bad : \A k \in Bad : m <= k
  <2>1. Bad \subseteq Nat
    OBVIOUS
  <2> HIDE DEF Bad
  <2>2. QED
    BY <2>1, Least
<1>2. m \in 0..n /\ ~ \E e : IsRun(e, next, m)
  OBVIOUS
<1>3. CASE m = 0
  <2>1. IsRun([i \in 0..0 |-> 0], next, 0)
    BY DEF IsRun
  <2>2. QED
    BY <1>2, <1>3, <2>1
<1>4. CASE m # 0
  <2>1. m - 1 \in 0..n /\ m - 1 \notin Bad
    <3>1. m - 1 \in 0..n /\ ~(m <= m - 1)
      BY <1>2, <1>4
    <3> HIDE DEF Bad
    <3>2. QED
      BY <1>1, <3>1
  <2>2. PICK e : IsRun(e, next, m - 1)
    BY <2>1
  <2> DEFINE last == next[m][e[m - 1]]
             f == [i \in 0..m |-> IF i = m THEN last ELSE e[i]]
  <2>3. m \in 1..n /\ m - 1 \in 0..(m - 1) /\ 0 \in 0..(m - 1)
    BY <1>2, <1>4
  <2>4. /\ e \in [0..(m - 1) -> Nat] /\ e[0] = 0
        /\ \A i \in 1..(m - 1) : e[i] = next[i][e[i - 1]]
    BY <2>2 DEF IsRun
  <2>5. last \in Nat
    <3>1. e[m - 1] \in Nat
      BY <2>3, <2>4
    <3>2. QED
      BY <2>3, <3>1
  <2>6. f[m] = last /\ \A i \in 0..(m - 1) : f[i] = e[i]
    BY <1>2, <1>4
  <2>7. f \in [0..m -> Nat]
    <3> HIDE DEF last
    <3>1. \A i \in 0..m : i # m => i \in 0..(m - 1)
      BY <1>2, <1>4
    <3>2. \A i \in 0..m : i # m => e[i] \in Nat
      BY <2>4, <3>1
    <3>3. QED
      BY <2>5, <3>2
  <2> HIDE DEF f
  <2>8. f[0] = 0
    BY <2>3, <2>6, <2>4
  <2>9. ASSUME NEW i \in 1..m
        PROVE  f[i] = next[i][f[i - 1]]
    <3>1. f[i - 1] = e[i - 1]
      BY <1>2, <2>6
    <3>2. CASE i = m
      BY <2>6, <3>1, <3>2
    <3>3. CASE i # m
      <4>1. i \in 0..(m - 1) /\ i \in 1..(m - 1)
        BY <1>2, <3>3
      <4>2. QED
        BY <2>6, <2>4, <3>1, <4>1
    <3>4. QED
      BY <3>2, <3>3
  <2>10. IsRun(f, next, m)
    BY <2>7, <2>8, <2>9 DEF IsRun
  <2>11. QED
    BY <1>2, <2>10
<1>5. QED
  BY <1>3, <1>4

\* What a uint32_t keeps lies below its limit, and is the number itself when that does.
LEMMA WrappedAt ==
    ASSUME NEW k \in Nat
    PROVE  /\ WordLimit \in Nat \ {0}
           /\ Wrapped(k) \in 0..(WordLimit - 1)
           /\ k < WordLimit => Wrapped(k) = k
           /\ k = WordLimit => Wrapped(k) = 0
<1>1. WordLimit \in Nat \ {0}
  BY TypeTableAssumption DEF TypeTableAssumption
<1>2. Wrapped(k) \in 0..(WordLimit - 1)
  BY <1>1, SMT DEF Wrapped
<1>3. k < WordLimit => Wrapped(k) = k
  BY <1>1, SMT DEF Wrapped
<1>4. WordLimit % WordLimit = 0
  BY <1>1, SMT
<1>5. QED
  BY <1>1, <1>2, <1>3, <1>4 DEF Wrapped

\* Aligning a number below the limit goes no further than the limit, and nothing goes
\* nowhere.
LEMMA AlignedWithin ==
    ASSUME NEW k \in Nat, k < WordLimit, NEW a \in Powers
    PROVE  /\ AlignUp(k, a) \in Nat /\ AlignUp(k, a) <= WordLimit
           /\ k = 0 => AlignUp(k, a) = 0
<1>1. WordLimit \in Nat /\ WordLimit % 128 = 0
  BY TypeTableAssumption DEF TypeTableAssumption
<1>2. CASE a = 1
  BY <1>1, <1>2, SMT DEF AlignUp
<1>3. CASE a = 2
  BY <1>1, <1>3, SMT DEF AlignUp
<1>4. CASE a = 4
  BY <1>1, <1>4, SMT DEF AlignUp
<1>5. CASE a = 8
  BY <1>1, <1>5, SMT DEF AlignUp
<1>6. CASE a = 16
  BY <1>1, <1>6, SMT DEF AlignUp
<1>7. CASE a = 32
  BY <1>1, <1>7, SMT DEF AlignUp
<1>8. CASE a = 64
  BY <1>1, <1>8, SMT DEF AlignUp
<1>9. CASE a = 128
  BY <1>1, <1>9, SMT DEF AlignUp
<1>10. QED
  BY <1>2, <1>3, <1>4, <1>5, <1>6, <1>7, <1>8, <1>9 DEF Powers

\* ExactEnd is what its recursion says it is.
LEMMA ExactEndIs ==
    ASSUME NEW parts, Len(parts) \in Nat,
           \A i \in 1..Len(parts) : parts[i].size \in Nat /\ parts[i].align \in Nat \ {0}
    PROVE  /\ ExactEnd(parts)[0] = 0
           /\ \A i \in 0..Len(parts) : ExactEnd(parts)[i] \in Nat
           /\ \A i \in 1..Len(parts) :
                ExactEnd(parts)[i]
                  = parts[i].size + AlignUp(ExactEnd(parts)[i - 1], parts[i].align)
<1> DEFINE n == Len(parts)
           next == [i \in 1..n |-> [k \in Nat |-> parts[i].size + AlignUp(k, parts[i].align)]]
           step(f) == [i \in 0..n |->
                         IF i = 0 THEN 0
                         ELSE parts[i].size + AlignUp(f[i - 1], parts[i].align)]
<1>1. n \in Nat
  OBVIOUS
<1>2. \A i \in 1..n, k \in Nat :
        /\ next[i][k] = parts[i].size + AlignUp(k, parts[i].align)
        /\ next[i][k] \in Nat
  <2>1. TAKE i \in 1..n, k \in Nat
  <2>2. AlignUp(k, parts[i].align) \in Nat /\ parts[i].size \in Nat
    BY AlignUpAt
  <2>3. QED
    BY <2>2
<1>3. next \in [1..n -> [Nat -> Nat]]
  <2>1. \A i \in 1..n, k \in Nat : parts[i].size + AlignUp(k, parts[i].align) \in Nat
    BY <1>2
  <2>2. QED
    BY <2>1
<1>4. PICK e : IsRun(e, next, n)
  <2> HIDE DEF next, n
  <2>1. QED
    BY <1>1, <1>3, RunExists
<1>5. e = step(e) /\ \A i \in 0..n : e[i] \in Nat
  <2>1. e = [i \in 0..n |-> e[i]] /\ \A i \in 0..n : e[i] \in Nat
    BY <1>4 DEF IsRun
  <2>2. \A i \in 0..n : e[i] = IF i = 0 THEN 0
            ELSE parts[i].size + AlignUp(e[i - 1], parts[i].align)
    <3>1. e[0] = 0 /\ \A i \in 1..n : e[i] = next[i][e[i - 1]] /\ e[i - 1] \in Nat
      BY <1>4 DEF IsRun
    <3> HIDE DEF next
    <3>2. QED
      BY <1>1, <1>2, <3>1
  <2>3. QED
    BY <2>1, <2>2, Zenon
<1>6. ExactEnd(parts) = CHOOSE f : f = step(f)
  BY DEF ExactEnd
<1> HIDE DEF step
<1>7. ExactEnd(parts) = step(ExactEnd(parts))
  BY <1>5, <1>6, Zenon
<1>8. /\ ExactEnd(parts)[0] = 0
      /\ \A i \in 1..n : ExactEnd(parts)[i]
                           = parts[i].size + AlignUp(ExactEnd(parts)[i - 1], parts[i].align)
  BY <1>7 DEF step
<1>9. \A i \in 0..n : ExactEnd(parts)[i] \in Nat
  <2> DEFINE Bad == {k \in 0..n : ExactEnd(parts)[k] \notin Nat}
  <2> SUFFICES ASSUME Bad # {} PROVE FALSE
    OBVIOUS
  <2>1. PICK m \in Bad : \A k \in Bad : m <= k
    <3>1. Bad \subseteq Nat
      OBVIOUS
    <3> HIDE DEF Bad
    <3>2. QED
      BY <3>1, Least
  <2>2. m \in 1..n /\ m - 1 \in 0..n
    BY <1>8
  <2>3. ExactEnd(parts)[m - 1] \in Nat
    BY <2>1, <2>2
  <2>4. AlignUp(ExactEnd(parts)[m - 1], parts[m].align) \in Nat /\ parts[m].size \in Nat
    BY <2>2, <2>3, AlignUpAt
  <2>5. QED
    BY <1>8, <2>2, <2>4
<1>10. QED
  BY <1>8, <1>9

\* FieldEnd is what its recursion says it is, and lies below the limit.
LEMMA FieldEndIs ==
    ASSUME NEW fields, Len(fields) \in Nat,
           \A i \in 1..Len(fields) : /\ TypeSize(fields[i]) \in Nat
                                     /\ TypeAlign(fields[i]) \in Nat \ {0}
    PROVE  /\ FieldEnd(fields)[0] = 0
           /\ \A i \in 0..Len(fields) : FieldEnd(fields)[i] \in 0..(WordLimit - 1)
           /\ \A i \in 1..Len(fields) :
                /\ FieldOffset(fields, i) \in 0..(WordLimit - 1)
                /\ FieldEnd(fields)[i] = Wrapped(TypeSize(fields[i]) + FieldOffset(fields, i))
<1> DEFINE n == Len(fields)
           after(i, k) == Wrapped(TypeSize(fields[i]) + Wrapped(AlignUp(k, TypeAlign(fields[i]))))
           next == [i \in 1..n |-> [k \in Nat |-> after(i, k)]]
           step(f) == [i \in 0..n |-> IF i = 0 THEN 0 ELSE after(i, f[i - 1])]
<1>1. n \in Nat
  OBVIOUS
<1>2. ASSUME NEW i \in 1..n, NEW k \in Nat
      PROVE  /\ Wrapped(AlignUp(k, TypeAlign(fields[i]))) \in 0..(WordLimit - 1)
             /\ after(i, k) \in 0..(WordLimit - 1)
             /\ after(i, k) \in Nat
  <2>1. AlignUp(k, TypeAlign(fields[i])) \in Nat /\ TypeSize(fields[i]) \in Nat
    BY AlignUpAt
  <2>2. PICK offset \in Nat : /\ offset = Wrapped(AlignUp(k, TypeAlign(fields[i])))
                              /\ offset \in 0..(WordLimit - 1)
    BY <2>1, WrappedAt
  <2>3. TypeSize(fields[i]) + offset \in Nat
    BY <2>1
  <2>4. Wrapped(TypeSize(fields[i]) + offset) \in 0..(WordLimit - 1)
    BY <2>3, WrappedAt
  <2>5. QED
    BY <2>2, <2>4
<1> HIDE DEF after
<1>3. next \in [1..n -> [Nat -> Nat]] /\ \A i \in 1..n, k \in Nat : next[i][k] = after(i, k)
  <2>1. \A i \in 1..n, k \in Nat : after(i, k) \in Nat
    BY <1>2
  <2>2. QED
    BY <2>1
<1>4. PICK e : IsRun(e, next, n)
  <2> HIDE DEF next, n
  <2>1. QED
    BY <1>1, <1>3, RunExists
<1>5. e = step(e)
  <2>1. e = [i \in 0..n |-> e[i]] /\ \A i \in 0..n : e[i] \in Nat
    BY <1>4 DEF IsRun
  <2>2. \A i \in 0..n : e[i] = IF i = 0 THEN 0 ELSE after(i, e[i - 1])
    <3>1. e[0] = 0 /\ \A i \in 1..n : e[i] = next[i][e[i - 1]] /\ e[i - 1] \in Nat
      BY <1>4 DEF IsRun
    <3> HIDE DEF next
    <3>2. \A i \in 1..n : e[i] = after(i, e[i - 1])
      BY <1>3, <3>1
    <3>3. TAKE i \in 0..n
    <3>4. CASE i = 0
      BY <3>1, <3>4
    <3>5. CASE i # 0
      <4>1. i \in 1..n
        BY <1>1, <3>5
      <4>2. QED
        BY <3>2, <3>5, <4>1
    <3>6. QED
      BY <3>4, <3>5
  <2>3. QED
    BY <2>1, <2>2, Zenon
<1>6. FieldEnd(fields) = CHOOSE f : f = step(f)
  BY DEF FieldEnd, after
<1> HIDE DEF step
<1>7. FieldEnd(fields) = step(FieldEnd(fields))
  BY <1>5, <1>6, Zenon
<1> DEFINE end == FieldEnd(fields)
<1>8. end[0] = 0 /\ \A i \in 1..n : end[i] = after(i, end[i - 1])
  BY <1>7 DEF step
<1> HIDE DEF end
<1>9. \A i \in 0..n : end[i] \in 0..(WordLimit - 1)
  <2> DEFINE Bad == {k \in 0..n : end[k] \notin 0..(WordLimit - 1)}
  <2> SUFFICES ASSUME Bad # {} PROVE FALSE
    OBVIOUS
  <2>1. PICK m \in Bad : \A k \in Bad : m <= k
    <3>1. Bad \subseteq Nat
      OBVIOUS
    <3> HIDE DEF Bad
    <3>2. QED
      BY <3>1, Least
  <2>2. m \in 1..n /\ m - 1 \in 0..n
    <3>1. WordLimit \in Nat \ {0}
      BY WrappedAt
    <3>2. QED
      BY <1>8, <3>1
  <2>3. end[m - 1] \in 0..(WordLimit - 1)
    BY <2>1, <2>2
  <2>4. end[m - 1] \in Nat
    BY <2>3
  <2>5. after(m, end[m - 1]) \in 0..(WordLimit - 1)
    BY <1>2, <2>2, <2>4
  <2>6. QED
    BY <1>8, <2>2, <2>5
<1>10. ASSUME NEW i \in 1..n
       PROVE  /\ FieldOffset(fields, i) \in 0..(WordLimit - 1)
              /\ end[i] = Wrapped(TypeSize(fields[i]) + FieldOffset(fields, i))
  <2>1. FieldOffset(fields, i) = Wrapped(AlignUp(end[i - 1], TypeAlign(fields[i])))
    BY DEF FieldOffset, end
  <2>2. end[i - 1] \in Nat
    <3>1. i - 1 \in 0..n
      BY <1>1
    <3>2. end[i - 1] \in 0..(WordLimit - 1)
      BY <1>9, <3>1
    <3>3. QED
      BY <3>2
  <2>3. QED
    BY <1>2, <1>8, <2>1, <2>2 DEF after
<1>11. QED
  BY <1>8, <1>9, <1>10 DEF end

\* The places of the fields in numbers of any width: each begins at or behind the end of
\* the one before it, on its alignment.
ExactOffset(parts, i) == AlignUp(ExactEnd(parts)[i - 1], parts[i].align)

LEMMA ExactRange ==
    ASSUME NEW parts, Len(parts) \in Nat,
           \A i \in 1..Len(parts) : parts[i].size \in Nat /\ parts[i].align \in Nat \ {0}
    PROVE  /\ \A i \in 0..Len(parts) : ExactEnd(parts)[i] \in Nat
           /\ \A i \in 1..Len(parts) :
                /\ ExactOffset(parts, i) \in Nat
                /\ ExactOffset(parts, i) % parts[i].align = 0
                /\ ExactEnd(parts)[i - 1] <= ExactOffset(parts, i)
                /\ ExactEnd(parts)[i] = ExactOffset(parts, i) + parts[i].size
           /\ \A i, j \in 0..Len(parts) : j <= i => ExactEnd(parts)[j] <= ExactEnd(parts)[i]
<1> DEFINE n == Len(parts)
           end == ExactEnd(parts)
           offset(i) == AlignUp(end[i - 1], parts[i].align)
<1>1. /\ end[0] = 0 /\ \A i \in 0..n : end[i] \in Nat
      /\ \A i \in 1..n : end[i] = parts[i].size + offset(i)
  BY ExactEndIs
<1>2. \A i \in 1..n : ExactOffset(parts, i) = offset(i)
  BY DEF ExactOffset
<1> HIDE DEF end
<1>3. ASSUME NEW i \in 1..n
      PROVE  /\ offset(i) \in Nat /\ offset(i) % parts[i].align = 0
             /\ end[i - 1] <= offset(i)
             /\ end[i] = offset(i) + parts[i].size
             /\ end[i - 1] \in Nat /\ end[i] \in Nat /\ end[i - 1] <= end[i]
  <2>1. end[i - 1] \in Nat /\ end[i] \in Nat
    BY <1>1
  <2>2. /\ offset(i) \in Nat /\ offset(i) % parts[i].align = 0
        /\ end[i - 1] <= offset(i)
    BY <2>1, AlignUpAt
  <2>3. QED
    BY <1>1, <2>1, <2>2
<1>4. ASSUME NEW i \in 0..n, NEW j \in 0..n, j <= i
      PROVE  end[j] <= end[i]
  <2> DEFINE Bad == {k \in j..n : ~(end[j] <= end[k])}
  <2> SUFFICES ASSUME Bad # {} PROVE FALSE
    BY <1>4
  <2>1. PICK m \in Bad : \A k \in Bad : m <= k
    <3>1. Bad \subseteq Nat
      OBVIOUS
    <3> HIDE DEF Bad
    <3>2. QED
      BY <3>1, Least
  <2>2. m # j
    BY <1>1
  <2>3. m \in 1..n /\ m - 1 \in j..n
    BY <2>2
  <2>4. end[j] <= end[m - 1]
    BY <2>1, <2>3
  <2>5. end[j] \in Nat
    BY <1>1
  <2>6. QED
    BY <1>3, <2>3, <2>4, <2>5
<1>5. QED
  BY <1>1, <1>2, <1>3, <1>4 DEF end

\* What is asked of fields of which a struct is made, and of their largest alignment.
Layable(fields) ==
    /\ Len(fields) \in Nat \ {0}
    /\ StructAlign(fields) \in Powers
    /\ \A i \in 1..Len(fields) : /\ TypeSize(fields[i]) \in Nat
                                 /\ TypeAlign(fields[i]) \in Powers
                                 /\ TypeAlign(fields[i]) <= StructAlign(fields)

LEMMA MeasuresAt ==
    ASSUME NEW fields, Layable(fields)
    PROVE  /\ Len(Measures(fields)) = Len(fields)
           /\ \A i \in 1..Len(fields) : /\ Measures(fields)[i].size = TypeSize(fields[i])
                                        /\ Measures(fields)[i].align = TypeAlign(fields[i])
                                        /\ TypeAlign(fields[i]) \in Nat \ {0}
           /\ StructAlign(fields) \in Nat \ {0}
           /\ \A i \in 1..Len(fields) : /\ Measures(fields)[i].size \in Nat
                                        /\ Measures(fields)[i].align \in Nat \ {0}
<1> DEFINE n == Len(fields)
           parts == Measures(fields)
<1>1. n \in Nat /\ Powers \subseteq Nat \ {0}
  BY DEF Layable, Powers
<1>2. \A i \in 1..n : /\ parts[i].size = TypeSize(fields[i])
                      /\ parts[i].align = TypeAlign(fields[i])
  BY DEF Measures
<1>3. Len(parts) = n
  <2>1. PICK S : S = {parts[i] : i \in 1..n}
    OBVIOUS
  <2>2. parts \in [1..n -> S] /\ DOMAIN parts = 1..n
    BY <2>1 DEF Measures
  <2> HIDE DEF parts, n
  <2>3. parts \in Seq(S)
    BY <1>1, <2>2, SeqDef
  <2>4. QED
    BY <1>1, <2>2, <2>3, LenProperties
<1>4. QED
  BY <1>1, <1>2, <1>3 DEF Layable

\* As long as the fields fit, nothing is lost in 32 bits.
LEMMA NothingWraps ==
    ASSUME NEW fields, Layable(fields), Fits(fields)
    PROVE  /\ StructSize(fields)
                = AlignUp(ExactEnd(Measures(fields))[Len(fields)], StructAlign(fields))
           /\ \A i \in 1..Len(fields) :
                FieldOffset(fields, i) = ExactOffset(Measures(fields), i)
<1> DEFINE n == Len(fields)
           parts == Measures(fields)
           exact == ExactEnd(parts)
           end == FieldEnd(fields)
<1>1. /\ Len(parts) = n /\ n \in Nat \ {0} /\ StructAlign(fields) \in Nat \ {0}
      /\ \A i \in 1..n : /\ parts[i].size = TypeSize(fields[i])
                         /\ parts[i].align = TypeAlign(fields[i])
                         /\ TypeAlign(fields[i]) \in Nat \ {0}
                         /\ TypeSize(fields[i]) \in Nat
  BY MeasuresAt DEF Layable
<1>2. /\ \A i \in 0..n : exact[i] \in Nat
      /\ \A i \in 1..n :
           /\ ExactOffset(parts, i) \in Nat
           /\ exact[i] = ExactOffset(parts, i) + TypeSize(fields[i])
      /\ \A i \in 0..n : exact[i] <= exact[n]
      /\ exact[0] = 0
  <2>1. \A i \in 1..Len(parts) : parts[i].size \in Nat /\ parts[i].align \in Nat \ {0}
    BY <1>1
  <2>2. Len(parts) \in Nat /\ n \in 0..n /\ Len(parts) = n
    BY <1>1
  <2> HIDE DEF parts, n
  <2>3. /\ \A i \in 0..n : exact[i] \in Nat
        /\ \A i \in 1..n :
             /\ ExactOffset(parts, i) \in Nat
             /\ exact[i] = ExactOffset(parts, i) + parts[i].size
        /\ \A i, j \in 0..n : j <= i => exact[j] <= exact[i]
    BY <2>1, <2>2, ExactRange
  <2>4. exact[0] = 0
    BY <2>1, <2>2, ExactEndIs
  <2> HIDE DEF exact
  <2>5. \A i \in 0..n : exact[i] <= exact[n]
    BY <2>2, <2>3
  <2>6. QED
    BY <1>1, <2>3, <2>4, <2>5
<1>3. /\ end[0] = 0
      /\ \A i \in 1..n : end[i] = Wrapped(TypeSize(fields[i]) + FieldOffset(fields, i))
  BY <1>1, FieldEndIs
<1>4. \A i \in 1..n :
        /\ FieldOffset(fields, i) = Wrapped(AlignUp(end[i - 1], TypeAlign(fields[i])))
        /\ ExactOffset(parts, i) = AlignUp(exact[i - 1], TypeAlign(fields[i]))
  BY <1>1 DEF FieldOffset, ExactOffset
<1>5. exact[n] \in Nat /\ AlignUp(exact[n], StructAlign(fields)) < WordLimit
      /\ AlignUp(exact[n], StructAlign(fields)) \in Nat
      /\ exact[n] <= AlignUp(exact[n], StructAlign(fields))
  <2>1. AlignUp(exact[n], StructAlign(fields)) < WordLimit
    BY DEF Fits
  <2>2. exact[n] \in Nat
    BY <1>1, <1>2
  <2> HIDE DEF exact
  <2>3. QED
    BY <1>1, <2>1, <2>2, AlignUpAt
<1> HIDE DEF exact, end, parts
<1>6. \A i \in 0..n : exact[i] < WordLimit
  <2>1. WordLimit \in Nat
    BY <1>5, WrappedAt
  <2>2. QED
    BY <1>2, <1>5, <2>1
<1>7. ASSUME NEW i \in 1..n, end[i - 1] = exact[i - 1]
      PROVE  FieldOffset(fields, i) = ExactOffset(parts, i) /\ end[i] = exact[i]
  <2>1. /\ i \in 0..n /\ TypeSize(fields[i]) \in Nat /\ ExactOffset(parts, i) \in Nat
        /\ exact[i] = ExactOffset(parts, i) + TypeSize(fields[i])
        /\ exact[i] < WordLimit
    BY <1>1, <1>2, <1>6
  <2>2. WordLimit \in Nat
    BY <1>5, WrappedAt
  <2>3. ExactOffset(parts, i) < WordLimit
    BY <2>1, <2>2
  <2>4. FieldOffset(fields, i) = Wrapped(ExactOffset(parts, i))
    BY <1>4, <1>7
  <2>5. FieldOffset(fields, i) = ExactOffset(parts, i)
    BY <2>1, <2>3, <2>4, WrappedAt
  <2>6. TypeSize(fields[i]) + FieldOffset(fields, i) = exact[i] /\ exact[i] \in Nat
    BY <2>1, <2>5
  <2>7. Wrapped(exact[i]) = exact[i]
    BY <2>1, <2>6, WrappedAt
  <2>8. QED
    BY <1>3, <2>5, <2>6, <2>7
<1>8. \A i \in 0..n : end[i] = exact[i]
  <2> DEFINE Bad == {k \in 0..n : end[k] # exact[k]}
  <2> SUFFICES ASSUME Bad # {} PROVE FALSE
    OBVIOUS
  <2>1. PICK m \in Bad : \A k \in Bad : m <= k
    <3>1. Bad \subseteq Nat
      OBVIOUS
    <3> HIDE DEF Bad
    <3>2. QED
      BY <3>1, Least
  <2>2. m \in 1..n /\ m - 1 \in 0..n
    BY <1>2, <1>3
  <2>3. end[m - 1] = exact[m - 1]
    BY <2>1, <2>2
  <2>4. QED
    BY <1>7, <2>2, <2>3
<1>9. StructSize(fields) = AlignUp(exact[n], StructAlign(fields))
  <2>1. end[n] = exact[n]
    BY <1>1, <1>8
  <2>2. StructSize(fields) = Wrapped(AlignUp(end[n], StructAlign(fields)))
    BY DEF StructSize, end
  <2>3. QED
    BY <1>5, <2>1, <2>2, WrappedAt
<1>10. ASSUME NEW i \in 1..n
       PROVE  FieldOffset(fields, i) = ExactOffset(parts, i)
  <2>1. i - 1 \in 0..n
    BY <1>1
  <2>2. QED
    BY <1>7, <1>8, <2>1
<1>11. QED
  BY <1>9, <1>10 DEF exact, parts

\* And when something is, a field does not lie inside the struct or behind the others.
LEMMA WrappedOverlaps ==
    ASSUME NEW fields, Layable(fields),
           \A i \in 1..Len(fields) :
             /\ FieldOffset(fields, i) + TypeSize(fields[i]) <= StructSize(fields)
             /\ \A j \in 1..(i - 1) :
                  FieldOffset(fields, j) + TypeSize(fields[j]) <= FieldOffset(fields, i)
    PROVE  Fits(fields)
<1> DEFINE n == Len(fields)
           parts == Measures(fields)
           exact == ExactEnd(parts)
           end == FieldEnd(fields)
<1>1. /\ Len(parts) = n /\ n \in Nat \ {0} /\ StructAlign(fields) \in Powers
      /\ \A i \in 1..n : /\ parts[i].size = TypeSize(fields[i])
                         /\ parts[i].align = TypeAlign(fields[i])
                         /\ TypeAlign(fields[i]) \in Nat \ {0}
                         /\ TypeAlign(fields[i]) \in Powers
                         /\ TypeSize(fields[i]) \in Nat
  BY MeasuresAt DEF Layable
<1>2. /\ exact[0] = 0
      /\ \A i \in 1..n :
           exact[i] = TypeSize(fields[i]) + AlignUp(exact[i - 1], TypeAlign(fields[i]))
  <2>1. \A i \in 1..Len(parts) : parts[i].size \in Nat /\ parts[i].align \in Nat \ {0}
    BY <1>1
  <2>2. Len(parts) \in Nat
    BY <1>1
  <2> HIDE DEF parts, n
  <2>3. /\ exact[0] = 0
        /\ \A i \in 1..n : exact[i] = parts[i].size + AlignUp(exact[i - 1], parts[i].align)
    BY <1>1, <2>1, <2>2, ExactEndIs
  <2> HIDE DEF exact
  <2>4. QED
    BY <1>1, <2>3
<1>3. /\ end[0] = 0 /\ \A i \in 0..n : end[i] \in 0..(WordLimit - 1)
      /\ \A i \in 1..n : /\ FieldOffset(fields, i) \in 0..(WordLimit - 1)
                         /\ end[i] = Wrapped(TypeSize(fields[i]) + FieldOffset(fields, i))
  BY <1>1, FieldEndIs
<1>4. \A i \in 1..n :
        FieldOffset(fields, i) = Wrapped(AlignUp(end[i - 1], TypeAlign(fields[i])))
  BY DEF FieldOffset
<1>5. StructSize(fields) = Wrapped(AlignUp(end[n], StructAlign(fields)))
  BY DEF StructSize
<1> HIDE DEF exact, end, parts
<1>6. WordLimit \in Nat \ {0}
  BY TypeTableAssumption DEF TypeTableAssumption
<1>7. StructSize(fields) \in 0..(WordLimit - 1)
  <2>1. end[n] \in Nat /\ end[n] < WordLimit
    BY <1>1, <1>3, <1>6
  <2>2. AlignUp(end[n], StructAlign(fields)) \in Nat
    BY <1>1, <2>1, AlignedWithin
  <2>3. QED
    BY <1>5, <2>2, WrappedAt
<1>8. \A i \in 1..n : end[i] = TypeSize(fields[i]) + FieldOffset(fields, i)
  <2>1. TAKE i \in 1..n
  <2>2. /\ TypeSize(fields[i]) \in Nat /\ FieldOffset(fields, i) \in Nat
        /\ FieldOffset(fields, i) + TypeSize(fields[i]) < WordLimit
    BY <1>1, <1>3, <1>6, <1>7
  <2>3. /\ TypeSize(fields[i]) + FieldOffset(fields, i) \in Nat
        /\ TypeSize(fields[i]) + FieldOffset(fields, i) < WordLimit
    BY <2>2
  <2>4. QED
    BY <1>3, <2>3, WrappedAt
\* A multiple of the alignment that is the limit would put what follows at 0.
<1>9. ASSUME NEW e \in Nat, e < WordLimit, NEW a \in Powers,
             e <= Wrapped(AlignUp(e, a))
      PROVE  Wrapped(AlignUp(e, a)) = AlignUp(e, a) /\ AlignUp(e, a) < WordLimit
  <2>1. /\ AlignUp(e, a) \in Nat /\ AlignUp(e, a) <= WordLimit
        /\ e = 0 => AlignUp(e, a) = 0
    BY <1>9, AlignedWithin
  <2>2. CASE AlignUp(e, a) = WordLimit
    <3>1. Wrapped(AlignUp(e, a)) = 0
      BY <2>1, <2>2, WrappedAt
    <3>2. e = 0
      BY <1>9, <3>1
    <3>3. QED
      BY <1>6, <2>1, <2>2, <3>2
  <2>3. CASE AlignUp(e, a) # WordLimit
    <3>1. AlignUp(e, a) < WordLimit
      BY <1>6, <2>1, <2>3
    <3>2. QED
      BY <2>1, <3>1, WrappedAt
  <2>4. QED
    BY <2>2, <2>3
<1>10. ASSUME NEW i \in 1..n
       PROVE  FieldOffset(fields, i) = AlignUp(end[i - 1], TypeAlign(fields[i]))
  <2>1. end[i - 1] \in Nat /\ end[i - 1] < WordLimit
    <3>1. i - 1 \in 0..n
      BY <1>1
    <3>2. QED
      BY <1>3, <1>6, <3>1
  <2>2. FieldOffset(fields, i) \in Nat
    BY <1>3
  <2>3. end[i - 1] <= FieldOffset(fields, i)
    <3>1. CASE i = 1
      BY <1>3, <2>2, <3>1
    <3>2. CASE i # 1
      <4>1. i - 1 \in 1..(i - 1) /\ i - 1 \in 1..n
        BY <1>1, <3>2
      <4>2. FieldOffset(fields, i - 1) + TypeSize(fields[i - 1]) <= FieldOffset(fields, i)
        BY <4>1
      <4>3. end[i - 1] = TypeSize(fields[i - 1]) + FieldOffset(fields, i - 1)
        BY <1>8, <4>1
      <4>4. TypeSize(fields[i - 1]) \in Nat /\ FieldOffset(fields, i - 1) \in Nat
        BY <1>1, <1>3, <4>1
      <4>5. QED
        BY <4>2, <4>3, <4>4
    <3>3. QED
      BY <3>1, <3>2
  <2>4. FieldOffset(fields, i) = Wrapped(AlignUp(end[i - 1], TypeAlign(fields[i])))
    BY <1>4
  <2>5. TypeAlign(fields[i]) \in Powers
    BY <1>1
  <2>6. QED
    BY <1>9, <2>1, <2>3, <2>4, <2>5
<1>11. \A i \in 0..n : exact[i] = end[i]
  <2> DEFINE Bad == {k \in 0..n : exact[k] # end[k]}
  <2> SUFFICES ASSUME Bad # {} PROVE FALSE
    OBVIOUS
  <2>1. PICK m \in Bad : \A k \in Bad : m <= k
    <3>1. Bad \subseteq Nat
      OBVIOUS
    <3> HIDE DEF Bad
    <3>2. QED
      BY <3>1, Least
  <2>2. m \in 1..n /\ m - 1 \in 0..n
    BY <1>2, <1>3
  <2>3. end[m - 1] = exact[m - 1]
    BY <2>1, <2>2
  <2>4. QED
    BY <1>2, <1>8, <1>10, <2>2, <2>3
<1>12. AlignUp(end[n], StructAlign(fields)) < WordLimit
  <2>1. n \in 1..n /\ n \in 0..n
    BY <1>1
  <2>2. end[n] <= StructSize(fields)
    <3>1. /\ FieldOffset(fields, n) + TypeSize(fields[n]) <= StructSize(fields)
          /\ end[n] = TypeSize(fields[n]) + FieldOffset(fields, n)
          /\ TypeSize(fields[n]) \in Nat /\ FieldOffset(fields, n) \in Nat
      BY <1>1, <1>3, <1>8, <2>1
    <3>2. QED
      BY <3>1
  <2>3. end[n] \in Nat /\ end[n] < WordLimit
    BY <1>3, <1>6, <2>1
  <2>4. QED
    BY <1>1, <1>5, <1>9, <2>2, <2>3
<1>13. QED
  <2>1. exact[n] = end[n]
    BY <1>1, <1>11
  <2>2. QED
    BY <1>12, <2>1 DEF Fits, exact, parts

\* The places of fields are numbers, whether or not they have wrapped.
LEMMA PlacesTyped ==
    ASSUME NEW fields, Layable(fields)
    PROVE  StructSize(fields) \in Nat /\ \A i \in 1..Len(fields) : FieldOffset(fields, i) \in Nat
<1> DEFINE n == Len(fields)
<1>1. n \in Nat /\ n \in 0..n /\ StructAlign(fields) \in Powers
  BY DEF Layable
<1>2. /\ \A i \in 0..n : FieldEnd(fields)[i] \in 0..(WordLimit - 1)
      /\ \A i \in 1..n : FieldOffset(fields, i) \in 0..(WordLimit - 1)
  BY <1>1, MeasuresAt, FieldEndIs DEF Layable
<1>3. WordLimit \in Nat \ {0}
  BY TypeTableAssumption DEF TypeTableAssumption
<1>4. FieldEnd(fields)[n] \in Nat /\ FieldEnd(fields)[n] < WordLimit
  BY <1>1, <1>2, <1>3
<1>5. AlignUp(FieldEnd(fields)[n], StructAlign(fields)) \in Nat
  BY <1>1, <1>4, AlignedWithin
<1>6. StructSize(fields) \in Nat
  BY <1>5, WrappedAt DEF StructSize
<1>7. QED
  BY <1>2, <1>6

\* Fields that fit lie inside the struct, aligned, and off one another.
LEMMA LaidOutIfFits ==
    ASSUME NEW fields, Layable(fields), Fits(fields)
    PROVE  \A i \in 1..Len(fields) :
             /\ FieldOffset(fields, i) % TypeAlign(fields[i]) = 0
             /\ StructSize(fields) % TypeAlign(fields[i]) = 0
             /\ FieldOffset(fields, i) + TypeSize(fields[i]) <= StructSize(fields)
             /\ \A j \in 1..(i - 1) :
                  FieldOffset(fields, j) + TypeSize(fields[j]) <= FieldOffset(fields, i)
<1> DEFINE n == Len(fields)
           parts == Measures(fields)
           exact == ExactEnd(parts)
           size == AlignUp(exact[n], StructAlign(fields))
<1>1. /\ Len(parts) = n /\ n \in Nat \ {0}
      /\ StructAlign(fields) \in Nat \ {0} /\ StructAlign(fields) \in Powers
      /\ \A i \in 1..n : /\ parts[i].size = TypeSize(fields[i])
                         /\ parts[i].align = TypeAlign(fields[i])
                         /\ TypeAlign(fields[i]) \in Nat \ {0}
                         /\ TypeAlign(fields[i]) \in Powers
                         /\ TypeAlign(fields[i]) <= StructAlign(fields)
                         /\ TypeSize(fields[i]) \in Nat
  BY MeasuresAt DEF Layable
<1>2. /\ \A i \in 0..n : exact[i] \in Nat
      /\ \A i \in 1..n :
           /\ ExactOffset(parts, i) \in Nat
           /\ ExactOffset(parts, i) % TypeAlign(fields[i]) = 0
           /\ exact[i - 1] <= ExactOffset(parts, i)
           /\ exact[i] = ExactOffset(parts, i) + TypeSize(fields[i])
      /\ \A i, j \in 0..n : j <= i => exact[j] <= exact[i]
  <2>1. \A i \in 1..Len(parts) : parts[i].size \in Nat /\ parts[i].align \in Nat \ {0}
    BY <1>1
  <2>2. Len(parts) \in Nat
    BY <1>1
  <2> HIDE DEF parts
  <2>3. QED
    BY <1>1, <2>1, <2>2, ExactRange
<1>3. /\ StructSize(fields) = size
      /\ \A i \in 1..n : FieldOffset(fields, i) = ExactOffset(parts, i)
  BY NothingWraps
<1> HIDE DEF exact, parts
<1>4. /\ size \in Nat /\ exact[n] \in Nat /\ exact[n] <= size
      /\ \A i \in 1..n : size % TypeAlign(fields[i]) = 0
  <2>1. exact[n] \in Nat
    BY <1>1, <1>2
  <2>2. QED
    BY <1>1, <2>1, AlignUpAt, AlignedByLarger
<1> HIDE DEF size
<1>5. ASSUME NEW i \in 1..n
      PROVE  /\ ExactOffset(parts, i) + TypeSize(fields[i]) <= size
             /\ \A j \in 1..(i - 1) :
                  ExactOffset(parts, j) + TypeSize(fields[j]) <= ExactOffset(parts, i)
  <2>1. i \in 0..n /\ n \in 0..n /\ i <= n
    BY <1>1
  <2>2. exact[i] <= exact[n] /\ exact[i] \in Nat
    BY <1>2, <2>1
  <2>3. ASSUME NEW j \in 1..(i - 1)
        PROVE  ExactOffset(parts, j) + TypeSize(fields[j]) <= ExactOffset(parts, i)
    <3>1. j \in 1..n /\ j \in 0..n /\ i - 1 \in 0..n /\ j <= i - 1
      BY <1>1
    <3>2. exact[j] <= exact[i - 1] /\ exact[j] \in Nat /\ exact[i - 1] \in Nat
      BY <1>2, <3>1
    <3>3. QED
      BY <1>2, <3>1, <3>2
  <2>4. QED
    BY <1>2, <1>4, <2>2, <2>3
<1>6. \A i \in 1..n : \A j \in 1..(i - 1) : j \in 1..n
  BY <1>1
<1>7. QED
  BY <1>2, <1>3, <1>4, <1>5, <1>6

----------------------------------------------------------------------------
(* The invariant *)

Requests ==
    [kind : {PTR, LIST}, sub : Nat]
    \cup [kind : {ARRAY}, sub : Nat, count : Nat]
    \cup [kind : {FUNC}, params : Seq(Nat), ret : Nat, flags : {0, 1, 2, 4}]
    \cup [kind : {STRUCT}, name : Nat, fields : Seq(Nat), blob : Nat]

\* The blocks of a type.
Extent(r) ==
    IF r.kind = STRUCT THEN 1 + Len(r.fields) + (IF r.blob = 0 THEN 0 ELSE 1)
                       ELSE Blocks(r)

\* A part whose size or alignment goes into the words of r has been handed out.
PartsBelow(r) == r.kind \in {PTR, LIST, ARRAY} => Index(r.sub) < num

\* A type that was returned lies below num_typedata with all its blocks.
Placed(m) ==
    /\ m = [request |-> m.request, type |-> m.type]
    /\ m.request \in Requests
    /\ m.type \in Nat
    /\ NUM_TYPE_KINDS <= Index(m.type)
    /\ Index(m.type) + Extent(m.request) <= num
    /\ Kind(m.type) = m.request.kind
    /\ PartsBelow(m.request)
    /\ m.request.kind = STRUCT => Len(m.request.fields) < FieldLimit

\* What was asked for stands in its blocks.
Filled(m) ==
    \A w \in Compared(m.request) :
        w < Len(Words(m.request)) => Word(m.type, w) = Words(m.request)[w + 1]

FilledStruct(m) ==
    LET r == m.request
        n == Len(r.fields)
    IN  /\ Word(m.type, 0) = r.name
        /\ FieldCount(m.type) = n
        /\ HasInitializer(m.type) <=> r.blob # 0
        /\ \A i \in 1..n : Word(m.type, 4 * i + 2) = r.fields[i]
        /\ r.blob # 0 => Word(m.type, 4 * n + 4) = r.blob

\* The words that type_ptr, type_list and type_function do not write are zero.
Zeroed(m) ==
    \A w \in Hashed(m.request) :
        w >= Len(Words(m.request)) \/ w \notin Compared(m.request)
        => Word(m.type, w) = 0

IsInterned(m) == m.request.kind # STRUCT

IInv ==
    /\ DOMAIN typedata = 0..(4 * Limit - 1)
    /\ num \in NUM_TYPE_KINDS..Limit
    /\ \A m \in made : Placed(m)
    /\ \A m \in made : IsInterned(m) => m.type \in cached /\ Filled(m)
    /\ \A m \in made : ~IsInterned(m) => FilledStruct(m)
    /\ \A s \in cached : \E m \in made : m.type = s /\ IsInterned(m)
    /\ ~reused => \A m \in made : IsInterned(m) => Zeroed(m)
    /\ InternedUnlessReused

----------------------------------------------------------------------------
(* The words of a request *)

\* A request has the parts that its kind asks for.
LEMMA RequestParts ==
    ASSUME NEW r \in Requests
    PROVE  /\ r.kind \in {PTR, LIST, ARRAY, FUNC, STRUCT}
           /\ r.kind \in {PTR, LIST} => /\ r.sub \in Nat
                                        /\ r = [kind |-> r.kind, sub |-> r.sub]
           /\ r.kind = ARRAY =>
                 /\ r.sub \in Nat
                 /\ r = [kind |-> ARRAY, sub |-> r.sub, count |-> r.count]
           /\ r.kind = FUNC =>
                 /\ r.params \in Seq(Nat) /\ Len(r.params) \in Nat
                 /\ r.flags \in {0, 1, 2, 4}
                 /\ r = [kind |-> FUNC, params |-> r.params, ret |-> r.ret,
                         flags |-> r.flags]
           /\ r.kind = STRUCT =>
                 /\ r.fields \in Seq(Nat) /\ Len(r.fields) \in Nat
                 /\ r = [kind |-> STRUCT, name |-> r.name, fields |-> r.fields,
                         blob |-> r.blob]
<1>1. CASE r \in [kind : {PTR, LIST}, sub : Nat]
  BY <1>1
<1>2. CASE r \in [kind : {ARRAY}, sub : Nat, count : Nat]
  BY <1>2
<1>3. CASE r \in [kind : {FUNC}, params : Seq(Nat), ret : Nat, flags : {0, 1, 2, 4}]
  BY <1>3, LenProperties
<1>4. CASE r \in [kind : {STRUCT}, name : Nat, fields : Seq(Nat), blob : Nat]
  BY <1>4, LenProperties
<1>5. QED
  BY <1>1, <1>2, <1>3, <1>4 DEF Requests

\* The words of a function: four, and its parameters.
LEMMA FuncWordsAt ==
    ASSUME NEW params \in Seq(Nat), NEW ret, NEW flags
    PROVE  LET ws == FuncWords(params, ret, flags)
           IN  /\ Len(ws) = 4 + Len(params)
               /\ ws[1] = ret
               /\ ws[2] = Len(params)
               /\ ws[3] = StoredFlags(params, ret, flags)
               /\ ws[4] = typedata[4 * num + 3]
               /\ \A p \in 1..Len(params) : ws[4 + p] = params[p]
BY DEF FuncWords

\* A struct has a block for itself, for each field, and for its initializer.
LEMMA StructExtent ==
    ASSUME NEW r \in Requests, r.kind = STRUCT
    PROVE  /\ Len(r.fields) \in Nat /\ Extent(r) \in Nat
           /\ 1 + Len(r.fields) <= Extent(r)
           /\ r.blob # 0 => Extent(r) = 2 + Len(r.fields)
<1>1. Len(r.fields) \in Nat
  BY RequestParts
<1>2. CASE r.blob = 0
  <2>1. Extent(r) = 1 + Len(r.fields)
    BY <1>1, <1>2 DEF Extent
  <2>2. QED
    BY <1>1, <1>2, <2>1
<1>3. CASE r.blob # 0
  <2>1. Extent(r) = 2 + Len(r.fields)
    BY <1>1, <1>3 DEF Extent
  <2>2. QED
    BY <1>1, <2>1
<1>4. QED
  BY <1>2, <1>3

\* ROUND_UP leaves room for every parameter.
LEMMA ParamsFit ==
    ASSUME NEW n \in Nat
    PROVE  FuncBlocks(n) \in Nat \ {0} /\ 4 + n <= 4 * FuncBlocks(n)
BY SMT DEF FuncBlocks

\* Where the words of some of the blocks are.
LEMMA BlockWords ==
    ASSUME NEW i \in Nat, NEW b \in Nat, NEW n \in Nat, i + b <= n, NEW w \in 0..(4 * b - 1)
    PROVE  w \in Nat /\ 4 * i + w \in 0..(4 * n - 1)
OBVIOUS

\* A request's words fit in its blocks.
LEMMA WordsFit ==
    ASSUME NEW r \in Requests, r.kind # STRUCT
    PROVE  /\ Blocks(r) \in Nat \ {0}
           /\ Len(Words(r)) \in 3..(4 * Blocks(r))
<1>1. CASE r.kind = PTR
  BY <1>1 DEF Words, Blocks
<1>2. CASE r.kind = LIST
  BY <1>2 DEF Words, Blocks
<1>3. CASE r.kind = ARRAY
  BY <1>3 DEF Words, Blocks
<1>4. CASE r.kind = FUNC
  <2>1. r.params \in Seq(Nat) /\ Len(r.params) \in Nat
    BY <1>4, LenProperties DEF Requests
  <2>2. Len(Words(r)) = 4 + Len(r.params)
    BY <1>4, <2>1, FuncWordsAt DEF Words
  <2>3. Blocks(r) = FuncBlocks(Len(r.params))
    BY <1>4 DEF Blocks
  <2>4. Blocks(r) \in Nat \ {0} /\ 4 + Len(r.params) <= 4 * Blocks(r)
    BY <2>1, <2>3, ParamsFit
  <2>5. QED
    BY <2>1, <2>2, <2>4
<1>5. QED
  BY <1>1, <1>2, <1>3, <1>4 DEF Requests

\* Writing a request's words changes nothing below num_typedata, puts them
\* where it points, and leaves the words behind them.
LEMMA WrittenAt ==
    ASSUME NEW ws, NEW blocks \in Nat, Len(ws) \in 0..(4 * blocks),
           DOMAIN typedata = 0..(4 * Limit - 1), num \in Nat,
           num + blocks <= Limit, typedata' = Written(ws)
    PROVE  /\ DOMAIN typedata' = 0..(4 * Limit - 1)
           /\ \A a \in 0..(4 * num - 1) : typedata'[a] = typedata[a]
           /\ \A w \in 0..(Len(ws) - 1) : typedata'[4 * num + w] = ws[w + 1]
           /\ \A w \in Len(ws)..(4 * blocks - 1) :
                 typedata'[4 * num + w] = typedata[4 * num + w]
<1>1. Limit \in Nat
  BY TypeTableAssumption DEF TypeTableAssumption
<1>2. DOMAIN typedata' = 0..(4 * Limit - 1)
  BY DEF Written
<1>3. \A a \in 0..(4 * Limit - 1) :
        typedata'[a] = IF a - 4 * num \in 0..(Len(ws) - 1) THEN ws[1 + a - 4 * num]
                                                          ELSE typedata[a]
  BY DEF Written
<1>4. \A a \in 0..(4 * num - 1) : typedata'[a] = typedata[a]
  BY <1>1, <1>3
<1>5. ASSUME NEW w \in 0..(4 * blocks - 1)
      PROVE  typedata'[4 * num + w] = IF w \in 0..(Len(ws) - 1)
                                      THEN ws[w + 1] ELSE typedata[4 * num + w]
  <2>1. 4 * num + w \in 0..(4 * Limit - 1)
    BY <1>1
  <2>2. (4 * num + w) - 4 * num = w /\ 1 + (4 * num + w) - 4 * num = w + 1
    BY <1>1
  <2>3. QED
    BY <1>3, <2>1, <2>2
<1>6. \A w \in 0..(Len(ws) - 1) : typedata'[4 * num + w] = ws[w + 1]
  BY <1>5
<1>7. \A w \in Len(ws)..(4 * blocks - 1) :
        typedata'[4 * num + w] = typedata[4 * num + w]
  <2>1. TAKE w \in Len(ws)..(4 * blocks - 1)
  <2>2. w \in 0..(4 * blocks - 1) /\ w \notin 0..(Len(ws) - 1)
    OBVIOUS
  <2>3. QED
    BY <1>5, <2>2
<1>8. QED
  BY <1>2, <1>4, <1>6, <1>7

\* The size and alignment of a type do not change once it has been handed out.
LEMMA MeasuresStable ==
    ASSUME NEW t \in Nat, Index(t) < num, num \in Nat,
           \A a \in 0..(4 * num - 1) : typedata'[a] = typedata[a]
    PROVE  TypeSize(t)' = TypeSize(t) /\ TypeAlign(t)' = TypeAlign(t)
<1>1. Index(t) \in Nat
  BY PartsOfHandle
<1>2. \A w \in 0..3 : Word(t, w)' = Word(t, w)
  BY <1>1 DEF Word
<1>3. QED
  BY <1>2 DEF TypeSize, TypeAlign

\* Nor do the words of a request, but for the one a function leaves alone.
LEMMA WordsStable ==
    ASSUME NEW r \in Requests, r.kind # STRUCT, PartsBelow(r), num \in Nat,
           \A a \in 0..(4 * num - 1) : typedata'[a] = typedata[a]
    PROVE  /\ Len(Words(r))' = Len(Words(r))
           /\ \A w \in Compared(r) :
                 w < Len(Words(r)) => Words(r)'[w + 1] = Words(r)[w + 1]
<1>1. CASE r.kind = PTR
  BY <1>1 DEF Words
<1>2. CASE r.kind = LIST
  <2>1. TypeAlign(r.sub)' = TypeAlign(r.sub)
    BY <1>2, MeasuresStable DEF Requests, PartsBelow
  <2>2. QED
    BY <1>2, <2>1 DEF Words
<1>3. CASE r.kind = ARRAY
  <2>1. TypeSize(r.sub)' = TypeSize(r.sub) /\ TypeAlign(r.sub)' = TypeAlign(r.sub)
    BY <1>3, MeasuresStable DEF Requests, PartsBelow
  <2>2. QED
    BY <1>3, <2>1 DEF Words
<1>4. CASE r.kind = FUNC
  <2>1. r.params \in Seq(Nat) /\ Len(r.params) \in Nat
    BY <1>4, LenProperties DEF Requests
  <2>2. Len(Words(r)) = 4 + Len(r.params) /\ Len(Words(r))' = 4 + Len(r.params)
    BY <1>4, <2>1 DEF Words, FuncWords
  <2>3. ASSUME NEW w \in Compared(r), w < Len(Words(r))
        PROVE  Words(r)'[w + 1] = Words(r)[w + 1]
    <3>1. w \in 0..2 \/ w \in 4..(3 + Len(r.params))
      BY <1>4, <2>1, <2>2, <2>3, WordsFit DEF Compared, Hashed
    <3>2. CASE w \in 0..2
      BY <1>4, <2>1, <3>2 DEF Words, FuncWords
    <3>3. CASE w \in 4..(3 + Len(r.params))
      <4>1. PICK p \in 1..Len(r.params) : w + 1 = 4 + p
        BY <2>1, <3>3
      <4>2. QED
        BY <1>4, <2>1, <4>1 DEF Words, FuncWords
    <3>4. QED
      BY <3>1, <3>2, <3>3
  <2>4. QED
    BY <2>2, <2>3
<1>5. QED
  BY <1>1, <1>2, <1>3, <1>4 DEF Requests

\* What holds of a type that was returned goes on holding when nothing is
\* written below num_typedata.
LEMMA Frame ==
    ASSUME NEW m \in made, Placed(m), num \in Nat, num' \in Nat, num <= num',
           \A a \in 0..(4 * num - 1) : typedata'[a] = typedata[a]
    PROVE  /\ Placed(m)'
           /\ IsInterned(m) /\ Filled(m) => Filled(m)'
           /\ IsInterned(m) /\ Zeroed(m) => Zeroed(m)'
           /\ ~IsInterned(m) /\ FilledStruct(m) => FilledStruct(m)'
<1> DEFINE r == m.request
           t == m.type
<1>1. /\ r \in Requests /\ t \in Nat /\ Index(t) \in Nat
      /\ PartsBelow(r) /\ Index(t) + Extent(r) <= num
  BY PartsOfHandle DEF Placed
<1>2. PartsBelow(r)'
  <2>1. r.kind \in {PTR, LIST, ARRAY} => Index(r.sub) \in Nat
    BY <1>1, PartsOfHandle, RequestParts
  <2>2. QED
    BY <1>1, <2>1 DEF PartsBelow
<1>3. Extent(r) \in Nat
  <2>1. CASE r.kind = STRUCT
    BY <1>1, <2>1, StructExtent
  <2>2. CASE r.kind # STRUCT
    BY <1>1, <2>2, WordsFit DEF Extent
  <2>3. QED
    BY <2>1, <2>2
<1>4. Placed(m)'
  BY <1>1, <1>2, <1>3 DEF Placed
<1>5. \A w \in 0..(4 * Extent(r) - 1) : Word(t, w)' = Word(t, w)
  BY <1>1, <1>3 DEF Word
<1>6. ASSUME IsInterned(m)
      PROVE  (Filled(m) => Filled(m)') /\ (Zeroed(m) => Zeroed(m)')
  <2>1. Extent(r) = Blocks(r) /\ r.kind # STRUCT
    BY <1>6 DEF Extent, IsInterned
  <2>2. \A w \in Hashed(r) : Word(t, w)' = Word(t, w)
    BY <1>5, <2>1 DEF Hashed
  <2>3. Compared(r) \subseteq Hashed(r)
    BY DEF Compared
  <2>4. /\ Len(Words(r))' = Len(Words(r))
        /\ \A w \in Compared(r) :
              w < Len(Words(r)) => Words(r)'[w + 1] = Words(r)[w + 1]
    BY <1>1, <2>1, WordsStable
  <2>5. Filled(m) => Filled(m)'
    BY <2>2, <2>3, <2>4 DEF Filled
  <2>6. Zeroed(m) => Zeroed(m)'
    BY <2>2, <2>4 DEF Zeroed
  <2>7. QED
    BY <2>5, <2>6
<1>7. ASSUME ~IsInterned(m), FilledStruct(m)
      PROVE  FilledStruct(m)'
  <2>1. /\ Len(r.fields) \in Nat /\ Extent(r) \in Nat
        /\ 1 + Len(r.fields) <= Extent(r)
        /\ r.blob # 0 => Extent(r) = 2 + Len(r.fields)
    BY <1>1, <1>7, StructExtent DEF IsInterned
  <2>2. Word(t, 0)' = Word(t, 0) /\ Word(t, 3)' = Word(t, 3)
    BY <1>5, <2>1
  <2>3. ASSUME NEW i \in 1..Len(r.fields)
        PROVE  Word(t, 4 * i + 2)' = Word(t, 4 * i + 2)
    <3>1. 4 * i + 2 \in 0..(4 * Extent(r) - 1)
      BY <2>1
    <3>2. QED
      BY <1>5, <3>1
  <2>4. ASSUME r.blob # 0
        PROVE  Word(t, 4 * Len(r.fields) + 4)' = Word(t, 4 * Len(r.fields) + 4)
    <3>1. 4 * Len(r.fields) + 4 \in 0..(4 * Extent(r) - 1)
      BY <2>1, <2>4
    <3>2. QED
      BY <1>5, <3>1
  <2>5. QED
    BY <1>7, <2>2, <2>3, <2>4 DEF FilledStruct, FieldCount, HasInitializer
<1>8. QED
  BY <1>4, <1>6, <1>7

----------------------------------------------------------------------------
(* What the accessors read *)

\* Words that were filled in are read back as the request.
LEMMA FilledDescribes ==
    ASSUME NEW m, m.request \in Requests, IsInterned(m), Filled(m),
           Kind(m.type) = m.request.kind
    PROVE  Described(m.type) = m.request
<1> DEFINE r == m.request
           t == m.type
<1>1. \A w \in Compared(r) : w < Len(Words(r)) => Word(t, w) = Words(r)[w + 1]
  BY DEF Filled
<1>2. CASE r.kind \in {PTR, LIST}
  <2>1. 2 \in Compared(r) /\ Len(Words(r)) = 3 /\ Words(r)[3] = r.sub
    BY <1>2 DEF Compared, Hashed, Blocks, Words
  <2>2. Word(t, 2) = r.sub
    BY <1>1, <2>1
  <2>3. r = [kind |-> r.kind, sub |-> r.sub]
    BY <1>2, RequestParts
  <2>4. QED
    BY <1>2, <2>2, <2>3 DEF Described
<1>3. CASE r.kind = ARRAY
  <2>1. /\ 2 \in Compared(r) /\ 3 \in Compared(r) /\ Len(Words(r)) = 4
        /\ Words(r)[3] = r.sub /\ Words(r)[4] = r.count
    BY <1>3 DEF Compared, Hashed, Blocks, Words
  <2>2. Word(t, 2) = r.sub /\ Word(t, 3) = r.count
    BY <1>1, <2>1
  <2>3. r = [kind |-> ARRAY, sub |-> r.sub, count |-> r.count]
    BY <1>3, RequestParts
  <2>4. QED
    BY <1>3, <2>2, <2>3 DEF Described
<1>4. CASE r.kind = FUNC
  <2> DEFINE n == Len(r.params)
  <2>1. r.params \in Seq(Nat) /\ n \in Nat /\ r.flags \in {0, 1, 2, 4}
    BY <1>4, RequestParts
  <2>2. Words(r) = FuncWords(r.params, r.ret, r.flags)
    BY <1>4 DEF Words
  <2>3. /\ Len(Words(r)) = 4 + n
        /\ Words(r)[1] = r.ret /\ Words(r)[2] = n
        /\ Words(r)[3] = StoredFlags(r.params, r.ret, r.flags)
        /\ \A p \in 1..n : Words(r)[4 + p] = r.params[p]
    BY <2>1, <2>2, FuncWordsAt
  <2>4. 4 * Blocks(r) \in Nat /\ 4 + n <= 4 * Blocks(r)
    <3>1. Blocks(r) = FuncBlocks(n)
      BY <1>4 DEF Blocks
    <3>2. FuncBlocks(n) \in Nat \ {0} /\ 4 + n <= 4 * FuncBlocks(n)
      BY <2>1, ParamsFit
    <3>3. QED
      BY <2>1, <3>1, <3>2
  <2>5. \A w \in 0..(3 + n) : w # 3 => Word(t, w) = Words(r)[w + 1]
    <3> HIDE DEF n
    <3>1. \A w \in 0..(3 + n) : w \in 0..(4 * Blocks(r) - 1) /\ w < 4 + n
      BY <2>1, <2>4
    <3>2. \A w \in 0..(3 + n) : w # 3 => w \in Compared(r) /\ w < Len(Words(r))
      BY <1>4, <2>3, <3>1 DEF Compared, Hashed
    <3>3. QED
      BY <1>1, <3>2
  <2>6. Word(t, 0) = r.ret /\ Word(t, 1) = n
    BY <2>1, <2>3, <2>5
  <2>7. Word(t, 2) % 8 = r.flags
    <3>1. Word(t, 2) = StoredFlags(r.params, r.ret, r.flags)
      BY <2>1, <2>3, <2>5
    <3>2. StoredFlags(r.params, r.ret, r.flags) \in {r.flags, r.flags + 8}
      BY DEF StoredFlags
    <3>3. QED
      BY <2>1, <3>1, <3>2
  <2>8. ASSUME NEW p \in 1..n
        PROVE  Word(t, 3 + p) = r.params[p]
    <3>1. 3 + p \in 0..(3 + n) /\ 3 + p # 3 /\ (3 + p) + 1 = 4 + p
      BY <2>1
    <3>2. QED
      BY <2>3, <2>5, <3>1
  <2>9. [i \in 1..Word(t, 1) |-> Word(t, 3 + i)] = r.params
    <3>1. r.params = [i \in 1..n |-> r.params[i]]
      BY <2>1, LenProperties
    <3>2. QED
      BY <2>6, <2>8, <3>1
  <2>10. r = [kind |-> FUNC, params |-> r.params, ret |-> r.ret, flags |-> r.flags]
    BY <1>4, RequestParts
  <2>11. QED
    BY <1>4, <2>6, <2>7, <2>9, <2>10 DEF Described
<1>5. QED
  BY <1>2, <1>3, <1>4, RequestParts DEF IsInterned

LEMMA FilledStructDescribes ==
    ASSUME NEW m, m.request \in Requests, ~IsInterned(m), FilledStruct(m),
           Kind(m.type) = m.request.kind
    PROVE  Described(m.type) = m.request
<1> DEFINE r == m.request
           t == m.type
           n == Len(r.fields)
<1>1. /\ r.kind = STRUCT
      /\ r.fields \in Seq(Nat) /\ n \in Nat
      /\ r = [kind |-> STRUCT, name |-> r.name, fields |-> r.fields, blob |-> r.blob]
  BY RequestParts DEF IsInterned
<1>2. /\ Word(t, 0) = r.name
      /\ FieldCount(t) = n
      /\ HasInitializer(t) <=> r.blob # 0
      /\ \A i \in 1..n : Word(t, 4 * i + 2) = r.fields[i]
      /\ r.blob # 0 => Word(t, 4 * n + 4) = r.blob
  BY DEF FilledStruct
<1>3. [i \in 1..FieldCount(t) |-> Word(t, 4 * i + 2)] = r.fields
  <2>1. r.fields = [i \in 1..n |-> r.fields[i]]
    BY <1>1, LenProperties
  <2>2. QED
    BY <1>2, <2>1
<1>4. (IF HasInitializer(t) THEN Word(t, 4 * FieldCount(t) + 4) ELSE 0) = r.blob
  BY <1>2
<1>5. Described(t) =
        [kind |-> STRUCT, name |-> Word(t, 0),
         fields |-> [i \in 1..FieldCount(t) |-> Word(t, 4 * i + 2)],
         blob |-> IF HasInitializer(t) THEN Word(t, 4 * FieldCount(t) + 4) ELSE 0]
  BY <1>1 DEF Described
<1>6. QED
  BY <1>1, <1>2, <1>3, <1>4, <1>5

\* The invariant says what HandlesKeepMeaning does.
LEMMA InvariantImpliesMeaning == IInv => HandlesKeepMeaning
BY FilledDescribes, FilledStructDescribes DEF IInv, Placed, HandlesKeepMeaning

----------------------------------------------------------------------------
(* The invariant is inductive *)

LEMMA InitInvariant == Init => IInv
<1> SUFFICES ASSUME Init PROVE IInv
  OBVIOUS
<1>1. num \in NUM_TYPE_KINDS..Limit
  BY TypeTableAssumption DEF Init, TypeTableAssumption
<1>2. DOMAIN typedata = 0..(4 * Limit - 1)
  BY DEF Init
<1>3. QED
  BY <1>1, <1>2 DEF Init, IInv, InternedUnlessReused

\* A type that is found is the one that was made for the same request, and
\* nothing is new but the words behind the last block.
LEMMA FoundKeeps ==
    ASSUME IInv, NEW r \in Requests, r.kind # STRUCT, PartsBelow(r),
           num + Blocks(r) <= Limit, typedata' = Written(Words(r)),
           NEW s \in cached, Kind(s) = r.kind,
           \A w \in Compared(r) : typedata'[4 * Index(s) + w] = typedata'[4 * num + w]
    PROVE  [request |-> r, type |-> s] \in made
<1>1. DOMAIN typedata = 0..(4 * Limit - 1) /\ num \in Nat
  BY DEF IInv
<1>2. PICK m \in made : m.type = s /\ IsInterned(m)
  BY DEF IInv
<1> DEFINE q == m.request
<1>3. Placed(m) /\ Filled(m)
  BY <1>2 DEF IInv
<1>4. /\ q \in Requests /\ q.kind = r.kind /\ s \in Nat /\ Index(s) \in Nat
      /\ Index(s) + Blocks(q) <= num
      /\ m = [request |-> q, type |-> s]
  BY <1>2, <1>3, PartsOfHandle DEF Placed, Extent, IsInterned
<1>5. /\ Blocks(r) \in Nat \ {0} /\ Len(Words(r)) \in 3..(4 * Blocks(r))
      /\ Blocks(q) \in Nat \ {0} /\ Len(Words(q)) \in 3..(4 * Blocks(q))
  BY <1>4, WordsFit
<1>6. /\ \A a \in 0..(4 * num - 1) : typedata'[a] = typedata[a]
      /\ \A w \in 0..(Len(Words(r)) - 1) : typedata'[4 * num + w] = Words(r)[w + 1]
  <2>1. Len(Words(r)) \in 0..(4 * Blocks(r))
    BY <1>5
  <2>2. QED
    BY <1>1, <1>5, <2>1, WrittenAt
<1>7. ASSUME NEW w \in Compared(r), w < Len(Words(r)), 4 * Index(s) + w < 4 * num
      PROVE  Word(s, w) = Words(r)[w + 1]
  <2>1. w \in Nat
    <3>1. w \in 0..(4 * Blocks(r) - 1)
      BY DEF Compared, Hashed
    <3>2. QED
      BY <3>1
  <2>2. Len(Words(r)) \in Nat
    BY <1>5
  <2>3. w \in 0..(Len(Words(r)) - 1)
    BY <1>7, <2>1, <2>2
  <2>4. 4 * Index(s) + w \in 0..(4 * num - 1)
    BY <1>1, <1>4, <1>7, <2>1
  <2>5. QED
    BY <1>6, <2>3, <2>4 DEF Word
<1>8. Blocks(r) = Blocks(q)
  <2>1. CASE r.kind # FUNC
    BY <1>4, <2>1 DEF Blocks
  <2>2. CASE r.kind = FUNC
    <3>1. /\ r.params \in Seq(Nat) /\ Len(r.params) \in Nat
          /\ q.params \in Seq(Nat) /\ Len(q.params) \in Nat
      BY <1>4, <2>2, RequestParts
    <3>2. /\ Len(Words(r)) = 4 + Len(r.params) /\ Words(r)[2] = Len(r.params)
          /\ Len(Words(q)) = 4 + Len(q.params) /\ Words(q)[2] = Len(q.params)
      <4>1. /\ Words(r) = FuncWords(r.params, r.ret, r.flags)
            /\ Words(q) = FuncWords(q.params, q.ret, q.flags)
        BY <1>4, <2>2 DEF Words
      <4>2. Len(Words(r)) = 4 + Len(r.params) /\ Words(r)[2] = Len(r.params)
        BY <3>1, <4>1, FuncWordsAt
      <4>3. Len(Words(q)) = 4 + Len(q.params) /\ Words(q)[2] = Len(q.params)
        BY <3>1, <4>1, FuncWordsAt
      <4>4. QED
        BY <4>2, <4>3
    <3>3. 1 \in Compared(r) /\ 1 \in Compared(q)
      BY <1>5 DEF Compared, Hashed
    <3>4. 4 * Index(s) + 1 < 4 * num
      BY <1>1, <1>4, <1>5
    <3>5. Word(s, 1) = Len(r.params)
      BY <1>7, <3>1, <3>2, <3>3, <3>4
    <3>6. Word(s, 1) = Len(q.params)
      <4>1. \A w \in Compared(q) : w < Len(Words(q)) => Word(s, w) = Words(q)[w + 1]
        BY <1>2, <1>3 DEF Filled
      <4>2. 1 < Len(Words(q))
        BY <3>1, <3>2
      <4>3. Word(s, 1) = Words(q)[2]
        BY <3>3, <4>1, <4>2
      <4>4. QED
        BY <3>2, <4>3
    <3>7. QED
      BY <1>4, <2>2, <3>5, <3>6 DEF Blocks
  <2>3. QED
    BY <2>1, <2>2
<1> DEFINE n == [request |-> r, type |-> s]
<1>9. Filled(n)
  <2>1. ASSUME NEW w \in Compared(r), w < Len(Words(r))
        PROVE  Word(s, w) = Words(r)[w + 1]
    <3>1. w \in 0..(4 * Blocks(q) - 1)
      BY <1>8 DEF Compared, Hashed
    <3>2. 4 * Index(s) + w < 4 * num
      BY <1>1, <1>4, <1>5, <3>1
    <3>3. QED
      BY <1>7, <2>1, <3>2
  <2>2. QED
    BY <2>1 DEF Filled
<1>10. Described(s) = r
  BY <1>9, FilledDescribes DEF IsInterned
<1>11. Described(s) = q
  BY <1>2, <1>3, <1>4, FilledDescribes
<1>12. QED
  BY <1>4, <1>10, <1>11

\* What a step does to a type that was returned before it.
LEMMA OldOnesKept ==
    ASSUME IInv, NEW ws, NEW blocks \in Nat, Len(ws) \in 0..(4 * blocks),
           num + blocks <= Limit, typedata' = Written(ws),
           num' \in {num, num + blocks}, cached \subseteq cached', NEW m \in made
    PROVE  /\ Placed(m)'
           /\ IsInterned(m) => m.type \in cached' /\ Filled(m)'
           /\ ~IsInterned(m) => FilledStruct(m)'
           /\ IsInterned(m) /\ ~reused => Zeroed(m)'
<1>1. /\ DOMAIN typedata = 0..(4 * Limit - 1) /\ num \in Nat /\ Limit \in Nat
      /\ num <= Limit
  BY TypeTableAssumption DEF IInv, TypeTableAssumption
<1>2. \A a \in 0..(4 * num - 1) : typedata'[a] = typedata[a]
  BY <1>1, WrittenAt
<1>3. /\ Placed(m) /\ (IsInterned(m) => m.type \in cached /\ Filled(m))
      /\ (~IsInterned(m) => FilledStruct(m))
      /\ (IsInterned(m) /\ ~reused => Zeroed(m))
  BY DEF IInv
<1>4. num' \in Nat /\ num <= num'
  BY <1>1
<1>5. QED
  BY <1>1, <1>2, <1>3, <1>4, Frame

\* What a new type finds in the blocks behind the last one.
LEMMA EnteredWords ==
    ASSUME IInv, NEW r \in Requests, r.kind # STRUCT, PartsBelow(r),
           num + Blocks(r) <= Limit, typedata' = Written(Words(r)),
           NEW w \in Hashed(r)
    PROVE  /\ w \in Compared(r) /\ w < Len(Words(r))
                => typedata'[4 * num + w] = Words(r)[w + 1]
           /\ w >= Len(Words(r)) \/ w \notin Compared(r)
                => typedata'[4 * num + w] = typedata[4 * num + w]
<1>1. /\ DOMAIN typedata = 0..(4 * Limit - 1) /\ num \in Nat /\ Limit \in Nat
  BY TypeTableAssumption DEF IInv, TypeTableAssumption
<1>2. /\ Blocks(r) \in Nat \ {0} /\ Len(Words(r)) \in 3..(4 * Blocks(r))
  BY WordsFit
<1>3. /\ \A v \in 0..(Len(Words(r)) - 1) : typedata'[4 * num + v] = Words(r)[v + 1]
      /\ \A v \in Len(Words(r))..(4 * Blocks(r) - 1) :
            typedata'[4 * num + v] = typedata[4 * num + v]
  <2>1. Len(Words(r)) \in 0..(4 * Blocks(r))
    BY <1>2
  <2>2. QED
    BY <1>1, <1>2, <2>1, WrittenAt
<1>4. w \in 0..(4 * Blocks(r) - 1)
  BY DEF Hashed
<1>5. w < Len(Words(r)) => typedata'[4 * num + w] = Words(r)[w + 1]
  BY <1>2, <1>3, <1>4
<1>6. w >= Len(Words(r)) => typedata'[4 * num + w] = typedata[4 * num + w]
  BY <1>2, <1>3, <1>4
<1>7. ASSUME w \notin Compared(r), w < Len(Words(r))
      PROVE  typedata'[4 * num + w] = typedata[4 * num + w]
  <2>1. r.kind = FUNC /\ w = 3
    BY <1>7 DEF Compared
  <2>2. r.params \in Seq(Nat)
    BY <2>1, RequestParts
  <2>3. Words(r)[4] = typedata[4 * num + 3]
    BY <2>1, <2>2, FuncWordsAt DEF Words
  <2>4. QED
    BY <1>5, <1>7, <2>1, <2>3
<1>8. QED
  BY <1>2, <1>4, <1>5, <1>6, <1>7

\* A type that is asked for again is found, unless words of others are in the way.
LEMMA AskedAgain ==
    ASSUME IInv, NEW r \in Requests, r.kind # STRUCT, PartsBelow(r),
           num + Blocks(r) <= Limit, typedata' = Written(Words(r)),
           NEW m \in made, m.request = r,
           \/ r.kind = ARRAY
           \/ /\ ~reused
              /\ \A w \in Hashed(r) : w >= Len(Words(r)) \/ w \notin Compared(r)
                                     => typedata[4 * num + w] = 0
    PROVE  /\ m.type \in cached /\ Kind(m.type) = r.kind
           /\ \A w \in Hashed(r) :
                 typedata'[4 * Index(m.type) + w] = typedata'[4 * num + w]
<1> DEFINE s == m.type
<1>1. /\ DOMAIN typedata = 0..(4 * Limit - 1) /\ num \in Nat /\ Limit \in Nat
  BY TypeTableAssumption DEF IInv, TypeTableAssumption
<1>2. IsInterned(m) /\ Placed(m) /\ s \in cached /\ Filled(m)
  BY DEF IInv, IsInterned
<1>3. /\ s \in Nat /\ Index(s) \in Nat /\ Kind(s) = r.kind
      /\ Index(s) + Blocks(r) <= num
  BY <1>2, PartsOfHandle DEF Placed, Extent
<1>4. /\ Blocks(r) \in Nat \ {0} /\ Len(Words(r)) \in 3..(4 * Blocks(r))
  BY WordsFit
<1>5. \A a \in 0..(4 * num - 1) : typedata'[a] = typedata[a]
  <2>1. Len(Words(r)) \in 0..(4 * Blocks(r))
    BY <1>4
  <2>2. QED
    BY <1>1, <1>4, <2>1, WrittenAt
<1>6. ASSUME NEW w \in Hashed(r)
      PROVE  typedata'[4 * Index(s) + w] = typedata'[4 * num + w]
  <2>1. typedata'[4 * Index(s) + w] = Word(s, w)
    <3>1. w \in 0..(4 * Blocks(r) - 1)
      BY DEF Hashed
    <3>2. 4 * Index(s) + w \in 0..(4 * num - 1)
      BY <1>1, <1>3, <1>4, <3>1, BlockWords
    <3>3. QED
      BY <1>5, <3>2 DEF Word
  <2>2. CASE w \in Compared(r) /\ w < Len(Words(r))
    <3>1. Word(s, w) = Words(r)[w + 1]
      BY <1>2, <2>2 DEF Filled
    <3>2. QED
      BY <2>1, <2>2, <3>1, EnteredWords
  <2>3. CASE w >= Len(Words(r)) \/ w \notin Compared(r)
    <3>1. r.kind # ARRAY
      BY <2>3 DEF Compared, Hashed, Blocks, Words
    <3>2. Zeroed(m)
      BY <1>2, <3>1 DEF IInv
    <3>3. Word(s, w) = 0
      BY <2>3, <3>2 DEF Zeroed
    <3>4. typedata'[4 * num + w] = 0
      BY <2>3, <3>1, EnteredWords
    <3>5. QED
      BY <2>1, <3>3, <3>4
  <2>4. w \in Int /\ Len(Words(r)) \in Int
    BY <1>4 DEF Hashed
  <2>5. QED
    BY <2>2, <2>3, <2>4
<1>7. QED
  BY <1>2, <1>3, <1>6

\* A type that is found leaves the tables as they were.
LEMMA FoundInvariant ==
    ASSUME IInv, NEW r \in Requests, r.kind # STRUCT, PartsBelow(r),
           num + Blocks(r) <= Limit, typedata' = Written(Words(r)),
           NEW s \in cached, Kind(s) = r.kind,
           \A w \in Compared(r) : typedata'[4 * Index(s) + w] = typedata'[4 * num + w],
           num' = num, made' = made \cup {[request |-> r, type |-> s]},
           cached' = cached, reused' = reused
    PROVE  IInv'
<1>1. made' = made
  BY FoundKeeps
<1>2. /\ Blocks(r) \in Nat /\ Len(Words(r)) \in 0..(4 * Blocks(r))
      /\ DOMAIN typedata = 0..(4 * Limit - 1)
  BY WordsFit DEF IInv
<1>3. DOMAIN typedata' = 0..(4 * Limit - 1)
  BY <1>2 DEF Written
<1>4. InternedUnlessReused'
  BY <1>1 DEF IInv, InternedUnlessReused
<1>5. ASSUME NEW m \in made'
      PROVE  /\ Placed(m)'
             /\ IsInterned(m) => m.type \in cached' /\ Filled(m)'
             /\ ~IsInterned(m) => FilledStruct(m)'
             /\ IsInterned(m) /\ ~reused' => Zeroed(m)'
  <2>1. m \in made /\ num' \in {num, num + Blocks(r)} /\ cached \subseteq cached'
    BY <1>1
  <2>2. ~reused' => ~reused
    OBVIOUS
  <2>3. QED
    BY <1>2, <2>1, <2>2, OldOnesKept
<1>6. \A x \in cached' : \E m \in made' : m.type = x /\ IsInterned(m)
  BY <1>1 DEF IInv
<1>7. num' \in NUM_TYPE_KINDS..Limit
  BY DEF IInv
<1>8. QED
  BY <1>3, <1>4, <1>5, <1>6, <1>7 DEF IInv, IsInterned

\* A type that is entered is filled in, and is the only one of its request.
LEMMA EnteredInvariant ==
    ASSUME IInv, NEW r \in Requests, r.kind # STRUCT, PartsBelow(r),
           num + Blocks(r) <= Limit, typedata' = Written(Words(r)),
           \A s \in cached : Kind(s) = r.kind =>
             ~\A w \in Hashed(r) :
                 typedata'[4 * Index(s) + w] = typedata'[4 * num + w],
           num' = num + Blocks(r), cached' = cached \cup {Handle(num, r.kind)},
           made' = made \cup {[request |-> r, type |-> Handle(num, r.kind)]},
           reused' = (reused \/ \E w \in {v \in Hashed(r) : \/ v >= Len(Words(r))
                                                           \/ v \notin Compared(r)} :
                                    typedata[4 * num + w] # 0)
    PROVE  IInv'
<1>. PICK t : t = Handle(num, r.kind)
  OBVIOUS
<1> DEFINE n == [request |-> r, type |-> t]
<1>1. /\ Blocks(r) \in Nat \ {0} /\ Len(Words(r)) \in 0..(4 * Blocks(r))
      /\ DOMAIN typedata = 0..(4 * Limit - 1) /\ num \in Nat /\ Limit \in Nat
      /\ num \in NUM_TYPE_KINDS..Limit
  BY WordsFit, TypeTableAssumption DEF IInv, TypeTableAssumption
<1>2. num' \in num..Limit
  BY <1>1
<1>3. DOMAIN typedata' = 0..(4 * Limit - 1)
  BY <1>1 DEF Written
<1>4. t \in Nat /\ Index(t) = num /\ Kind(t) = r.kind
  <2>1. r.kind \in 0..255
    BY RequestParts
  <2>2. QED
    BY <1>1, <2>1, HandleParts
<1>5. /\ Len(Words(r))' = Len(Words(r))
      /\ \A w \in Compared(r) :
            w < Len(Words(r)) => Words(r)'[w + 1] = Words(r)[w + 1]
  <2>1. \A a \in 0..(4 * num - 1) : typedata'[a] = typedata[a]
    BY <1>1, WrittenAt
  <2>2. QED
    BY <1>1, <2>1, WordsStable
<1>6. Compared(r) \subseteq Hashed(r)
  BY DEF Compared
<1>7. \A w \in Hashed(r) : Word(t, w)' = typedata'[4 * num + w]
  BY <1>4 DEF Word
<1>8. Placed(n)'
  <2>1. PartsBelow(r)'
    <3>1. r.kind \in {PTR, LIST, ARRAY} => Index(r.sub) \in Nat
      BY PartsOfHandle, RequestParts
    <3>2. QED
      BY <1>1, <3>1 DEF PartsBelow
  <2>2. Extent(r) = Blocks(r)
    BY DEF Extent
  <2>3. QED
    BY <1>1, <1>4, <2>1, <2>2 DEF Placed
<1>9. Filled(n)'
  <2>1. ASSUME NEW w \in Compared(r), w < Len(Words(r))
        PROVE  Word(t, w)' = Words(r)'[w + 1]
    BY <1>5, <1>6, <1>7, <2>1, EnteredWords
  <2>2. QED
    BY <1>5, <2>1 DEF Filled
<1>10. ASSUME ~reused' PROVE Zeroed(n)'
  <2>1. ASSUME NEW w \in Hashed(r), w >= Len(Words(r)) \/ w \notin Compared(r)
        PROVE  Word(t, w)' = 0
    <3>1. typedata[4 * num + w] = 0
      BY <1>10, <2>1
    <3>2. QED
      BY <1>7, <2>1, <3>1, EnteredWords
  <2>2. QED
    BY <1>5, <2>1 DEF Zeroed
<1>11. ASSUME NEW m \in made, m.request = r
       PROVE  r.kind # ARRAY /\ reused'
  <2>1. SUFFICES ASSUME r.kind = ARRAY \/ ~reused' PROVE FALSE
    OBVIOUS
  <2>2. \/ r.kind = ARRAY
        \/ /\ ~reused
           /\ \A w \in Hashed(r) : w >= Len(Words(r)) \/ w \notin Compared(r)
                                  => typedata[4 * num + w] = 0
    BY <2>1
  <2>3. /\ m.type \in cached /\ Kind(m.type) = r.kind
        /\ \A w \in Hashed(r) :
              typedata'[4 * Index(m.type) + w] = typedata'[4 * num + w]
    BY <1>11, <2>2, AskedAgain
  <2>4. QED
    BY <2>3
<1>12. InternedUnlessReused'
  <2>1. SUFFICES ASSUME NEW m \in made', NEW k \in made', m.request = k.request,
                        m.request.kind # STRUCT,
                        m.request.kind = ARRAY \/ ~reused'
                 PROVE  m.type = k.type
    BY DEF InternedUnlessReused
  <2>2. CASE m \in made /\ k \in made
    <3>1. m.request.kind = ARRAY \/ ~reused
      BY <2>1
    <3>2. QED
      BY <2>1, <2>2, <3>1 DEF IInv, InternedUnlessReused
  <2>3. CASE m = n /\ k = n
    BY <2>3
  <2>4. CASE m = n /\ k \in made
    BY <1>11, <2>1, <2>4
  <2>5. CASE m \in made /\ k = n
    BY <1>11, <2>1, <2>5
  <2>6. QED
    BY <2>2, <2>3, <2>4, <2>5
<1>13. /\ n.request = r /\ n.type = t /\ IsInterned(n)
       /\ \A m \in made' : m \in made \/ m = n
  BY DEF IsInterned
<1>14. ASSUME NEW m \in made'
       PROVE  /\ Placed(m)'
              /\ IsInterned(m) => m.type \in cached' /\ Filled(m)'
              /\ ~IsInterned(m) => FilledStruct(m)'
              /\ IsInterned(m) /\ ~reused' => Zeroed(m)'
  <2>1. CASE m \in made
    <3>1. /\ Blocks(r) \in Nat /\ num' \in {num, num + Blocks(r)}
          /\ cached \subseteq cached' /\ (~reused' => ~reused)
      BY <1>1
    <3>2. QED
      BY <1>1, <2>1, <3>1, OldOnesKept
  <2>2. CASE m = n
    BY <1>8, <1>9, <1>10, <1>13, <2>2
  <2>3. QED
    BY <1>13, <2>1, <2>2
<1>15. \A s \in cached' : \E m \in made' : m.type = s /\ IsInterned(m)
  BY <1>13 DEF IInv
<1>16. num' \in NUM_TYPE_KINDS..Limit
  BY <1>1, <1>2
<1>17. QED
  BY <1>3, <1>12, <1>14, <1>15, <1>16 DEF IInv, IsInterned

\* The two ways in which a type is interned.
LEMMA InternInvariant ==
    ASSUME IInv, NEW r \in Requests, r.kind # STRUCT, PartsBelow(r), Intern(r)
    PROVE  IInv'
<1>1. num + Blocks(r) <= Limit /\ typedata' = Written(Words(r))
  BY DEF Intern
<1>2. CASE \E s \in {x \in cached : Kind(x) = r.kind} :
             /\ \A w \in Compared(r) :
                   typedata'[4 * Index(s) + w] = typedata'[4 * num + w]
             /\ num' = num
             /\ made' = made \cup {[request |-> r, type |-> s]}
             /\ cached' = cached /\ reused' = reused
  BY <1>1, <1>2, FoundInvariant
<1>3. CASE /\ \A s \in {x \in cached : Kind(x) = r.kind} :
                ~\A w \in Hashed(r) :
                    typedata'[4 * Index(s) + w] = typedata'[4 * num + w]
           /\ num' = num + Blocks(r)
           /\ cached' = cached \cup {Handle(num, r.kind)}
           /\ made' = made \cup {[request |-> r, type |-> Handle(num, r.kind)]}
           /\ reused' = (reused \/
                           \E w \in {v \in Hashed(r) : \/ v >= Len(Words(r))
                                                       \/ v \notin Compared(r)} :
                              typedata[4 * num + w] # 0)
  <2>1. \A s \in cached : Kind(s) = r.kind =>
          ~\A w \in Hashed(r) :
              typedata'[4 * Index(s) + w] = typedata'[4 * num + w]
    BY <1>3
  <2>2. QED
    BY <1>1, <1>3, <2>1, EnteredInvariant
<1>4. QED
  BY <1>2, <1>3, Zenon DEF Intern, Rewound, CachedAfter

\* The bits that a struct keeps above its count of fields.
StructBits(fields, blob) ==
    (IF blob = 0 THEN 0 ELSE 128) + (StructAlign(fields) % 128)

\* A bit above seven says whether there is an initializer.
LEMMA BitsAbove ==
    ASSUME NEW rest \in 0..127, NEW blob \in Nat, NEW bits,
           bits = (IF blob = 0 THEN 0 ELSE 128) + rest
    PROVE  bits \in Nat /\ (bits >= 128 <=> blob # 0)
OBVIOUS

\* Fields that pass the assertions give bits that say whether there is an
\* initializer.
LEMMA BitsOfStruct ==
    ASSUME NEW fields \in Seq(Nat), fields # <<>>, Alignable(fields), NEW blob \in Nat
    PROVE  /\ StructBits(fields, blob) \in Nat
           /\ StructBits(fields, blob) >= 128 <=> blob # 0
<1> DEFINE S == {TypeAlign(fields[i]) : i \in DOMAIN fields}
<1>1. S \in SUBSET {1, 2, 4, 8, 16, 32, 64, 128}
  BY DEF Alignable
<1>2. S # {}
  <2>1. 1 \in DOMAIN fields
    OBVIOUS
  <2>2. QED
    BY <2>1
<1>3. StructAlign(fields) \in Nat
  BY <1>1, <1>2, LargestAlign DEF StructAlign
<1>4. PICK rest : rest \in 0..127 /\ rest = StructAlign(fields) % 128
  <2>1. \A a \in Nat : a % 128 \in 0..127
    OBVIOUS
  <2>2. QED
    BY <1>3, <2>1
<1>5. /\ rest \in 0..127
      /\ StructBits(fields, blob) = (IF blob = 0 THEN 0 ELSE 128) + rest
  BY <1>4, Zenon DEF StructBits
<1>6. QED
  BY <1>5, BitsAbove

\* Four words for the struct and for each field, and two for the initializer.
LEMMA StructWordsAt ==
    ASSUME NEW name, NEW fields \in Seq(Nat), NEW blob \in Nat
    PROVE  LET ws == StructWords(name, fields, blob)
               n == Len(fields)
           IN  /\ Len(ws) = 4 + 4 * n + (IF blob = 0 THEN 0 ELSE 2)
               /\ ws[1] = name /\ ws[2] = 0
               /\ ws[3] = StructSize(fields)
               /\ ws[4] = StructBits(fields, blob) * FieldLimit + n
               /\ \A i \in 1..n : /\ ws[4 * i + 1] = i /\ ws[4 * i + 2] = 0
                                  /\ ws[4 * i + 3] = fields[i]
                                  /\ ws[4 * i + 4] = FieldOffset(fields, i)
               /\ blob # 0 => ws[4 * n + 5] = blob /\ ws[4 * n + 6] = 0
<1> DEFINE n == Len(fields)
           field(i) == <<i, 0, fields[i], FieldOffset(fields, i)>>
           own == <<name, 0, StructSize(fields),
                    StructBits(fields, blob) * FieldLimit + n>>
           rest == [k \in 1..(4 * n) |-> field(1 + (k - 1) \div 4)[1 + ((k - 1) % 4)]]
           init == IF blob = 0 THEN <<>> ELSE <<blob, 0>>
<1>1. StructWords(name, fields, blob) = own \o rest \o init
  BY DEF StructWords, StructBits
<1>2. n \in Nat
  BY LenProperties
<1>3. ASSUME NEW i \in 1..n, NEW w \in 1..4
      PROVE  4 * i - 4 + w \in 1..(4 * n) /\ rest[4 * i - 4 + w] = field(i)[w]
  <2>1. 4 * i - 4 + w \in 1..(4 * n)
    BY <1>2
  <2>2. 1 + ((4 * i - 4 + w) - 1) \div 4 = i /\ 1 + (((4 * i - 4 + w) - 1) % 4) = w
    BY <1>2
  <2>3. QED
    BY <2>1, <2>2
<1>4. Len(rest) = 4 * n /\ DOMAIN rest = 1..(4 * n) /\ 4 * n \in Nat
  BY <1>2
<1> DEFINE R == {rest[k] : k \in 1..(4 * n)}
<1>5. own \in Seq({own[1], 0, own[3], own[4]}) /\ Len(own) = 4
  OBVIOUS
<1>6. rest \in Seq(R)
  <2>1. rest \in [1..(4 * n) -> R] /\ 4 * n \in Nat
    BY <1>4
  <2> HIDE DEF rest, R
  <2>2. QED
    BY <2>1, SeqDef
<1>7. init \in Seq({blob, 0}) /\ Len(init) = (IF blob = 0 THEN 0 ELSE 2)
  <2>1. CASE blob = 0
    BY <2>1
  <2>2. CASE blob # 0
    BY <2>2
  <2>3. QED
    BY <2>1, <2>2
<1>8. blob # 0 => init[1] = blob /\ init[2] = 0 /\ Len(init) = 2
  OBVIOUS
<1>9. /\ own[1] = name /\ own[2] = 0
      /\ own[3] = StructSize(fields)
      /\ own[4] = StructBits(fields, blob) * FieldLimit + n
  OBVIOUS
<1> HIDE DEF own, rest, init, R
<1> DEFINE ws == own \o rest \o init
<1>10. /\ Len(ws) = 4 + 4 * n + (IF blob = 0 THEN 0 ELSE 2)
       /\ \A k \in 1..4 : ws[k] = own[k]
       /\ \A k \in 1..(4 * n) : ws[4 + k] = rest[k]
       /\ blob # 0 => ws[4 + 4 * n + 1] = blob /\ ws[4 + 4 * n + 2] = 0
  <2>1. /\ Len(ws) = Len(own) + Len(rest) + Len(init)
        /\ \A k \in 1..Len(own) : ws[k] = own[k]
        /\ \A k \in 1..Len(rest) : ws[Len(own) + k] = rest[k]
        /\ \A k \in 1..Len(init) : ws[Len(own) + Len(rest) + k] = init[k]
    <3>1. PICK S, T, U : own \in Seq(S) /\ rest \in Seq(T) /\ init \in Seq(U)
      BY <1>5, <1>6, <1>7, Zenon
    <3>2. PICK s \in Seq(S), t \in Seq(T), u \in Seq(U) :
            s = own /\ t = rest /\ u = init
      BY <3>1, Zenon
    <3>3. /\ Len(s \o t \o u) = Len(s) + Len(t) + Len(u)
          /\ \A k \in 1..Len(s) : (s \o t \o u)[k] = s[k]
          /\ \A k \in 1..Len(t) : (s \o t \o u)[Len(s) + k] = t[k]
          /\ \A k \in 1..Len(u) : (s \o t \o u)[Len(s) + Len(t) + k] = u[k]
      BY JoinedThree
    <3>4. QED
      BY <3>2, <3>3, Zenon
  <2> HIDE DEF ws
  <2>2. QED
    BY <1>4, <1>5, <1>7, <1>8, <2>1
<1>11. /\ ws[1] = name /\ ws[2] = 0
       /\ ws[3] = StructSize(fields)
       /\ ws[4] = StructBits(fields, blob) * FieldLimit + n
  <2> HIDE DEF ws
  <2>1. QED
    BY <1>9, <1>10
<1>12. ASSUME NEW i \in 1..n
       PROVE  /\ ws[4 * i + 1] = i /\ ws[4 * i + 2] = 0
              /\ ws[4 * i + 3] = fields[i]
              /\ ws[4 * i + 4] = FieldOffset(fields, i)
  <2> HIDE DEF ws
  <2>1. ASSUME NEW w \in 1..4
        PROVE  ws[4 * i + w] = field(i)[w]
    <3>1. 4 * i - 4 + w \in 1..(4 * n) /\ 4 + (4 * i - 4 + w) = 4 * i + w
      BY <1>2
    <3> HIDE DEF field
    <3>2. rest[4 * i - 4 + w] = field(i)[w]
      BY <1>3
    <3>3. ws[4 + (4 * i - 4 + w)] = rest[4 * i - 4 + w]
      BY <1>10, <3>1
    <3>4. QED
      BY <3>1, <3>2, <3>3
  <2>2. QED
    BY <2>1
<1>13. blob # 0 => ws[4 * n + 5] = blob /\ ws[4 * n + 6] = 0
  <2>1. 4 + 4 * n + 1 = 4 * n + 5 /\ 4 + 4 * n + 2 = 4 * n + 6
    BY <1>2
  <2> HIDE DEF ws
  <2>2. QED
    BY <1>10, <2>1
<1>14. QED
  BY <1>1, <1>10, <1>11, <1>12, <1>13

\* A step that leaves the tables alone keeps the invariant.
LEMMA UnchangedInvariant ==
    ASSUME IInv, typedata' = typedata, num' = num, made' = made, cached' = cached,
           reused' = reused
    PROVE  IInv'
<1>1. /\ DOMAIN typedata = 0..(4 * Limit - 1) /\ num \in NUM_TYPE_KINDS..Limit
      /\ num \in Nat
  BY TypeTableAssumption DEF IInv, TypeTableAssumption
<1>2. ASSUME NEW m \in made'
      PROVE  /\ Placed(m)'
             /\ IsInterned(m) => m.type \in cached' /\ Filled(m)'
             /\ ~IsInterned(m) => FilledStruct(m)'
             /\ IsInterned(m) /\ ~reused' => Zeroed(m)'
  <2>1. /\ Placed(m) /\ (IsInterned(m) => m.type \in cached /\ Filled(m))
        /\ (~IsInterned(m) => FilledStruct(m))
        /\ (IsInterned(m) /\ ~reused => Zeroed(m))
    BY DEF IInv
  <2>2. m \in made /\ num' \in Nat /\ num <= num'
    BY <1>1
  <2>3. \A a \in 0..(4 * num - 1) : typedata'[a] = typedata[a]
    OBVIOUS
  <2>4. QED
    BY <1>1, <2>1, <2>2, <2>3, Frame
<1>3. \A s \in cached' : \E m \in made' : m.type = s /\ IsInterned(m)
  BY DEF IInv
<1>4. InternedUnlessReused'
  BY DEF IInv, InternedUnlessReused
<1>5. QED
  BY <1>1, <1>2, <1>3, <1>4 DEF IInv, IsInterned

\* A struct is filled in behind the other types.
LEMMA StructInvariant ==
    ASSUME IInv, NEW name \in Nat, NEW fields \in Seq(Nat), fields # <<>>,
           Len(fields) < FieldLimit, NEW blob \in Nat, Struct(name, fields, blob)
    PROVE  IInv'
<1> DEFINE n == Len(fields)
           blocks == 1 + n + (IF blob = 0 THEN 0 ELSE 1)
           ws == StructWords(name, fields, blob)
           request == [kind |-> STRUCT, name |-> name, fields |-> fields, blob |-> blob]
<1>1. n \in Nat /\ blocks \in Nat
  BY LenProperties
<1>2. num + blocks <= Limit /\ cached' = cached /\ reused' = reused
  BY DEF Struct
<1>3. CASE ~Alignable(fields)
  <2>1. typedata' = typedata /\ num' = num /\ made' = made
    BY <1>3 DEF Struct
  <2>2. QED
    BY <1>2, <2>1, UnchangedInvariant
<1>4. CASE Alignable(fields)
  <2>1. PICK t : t = Handle(num, STRUCT)
    OBVIOUS
  <2> DEFINE new == [request |-> request, type |-> t]
  <2>2. /\ typedata' = Written(ws) /\ num' = num + blocks
        /\ made' = made \cup {new}
    BY <1>4, <2>1 DEF Struct
  <2>3. /\ DOMAIN typedata = 0..(4 * Limit - 1) /\ num \in Nat /\ Limit \in Nat
        /\ num \in NUM_TYPE_KINDS..Limit
    BY TypeTableAssumption DEF IInv, TypeTableAssumption
  <2>4. /\ Len(ws) = 4 + 4 * n + (IF blob = 0 THEN 0 ELSE 2)
        /\ ws[1] = name
        /\ ws[4] = StructBits(fields, blob) * FieldLimit + n
        /\ \A i \in 1..n : ws[4 * i + 3] = fields[i]
        /\ blob # 0 => ws[4 * n + 5] = blob
    BY StructWordsAt
  <2> HIDE DEF ws
  <2>5. Len(ws) \in 0..(4 * blocks) /\ Len(ws) \in Nat
    <3>1. CASE blob = 0
      BY <1>1, <2>4, <3>1
    <3>2. CASE blob # 0
      BY <1>1, <2>4, <3>2
    <3>3. QED
      BY <3>1, <3>2
  <2> HIDE DEF n, blocks
  <2>6. /\ DOMAIN typedata' = 0..(4 * Limit - 1)
        /\ \A w \in 0..(Len(ws) - 1) : typedata'[4 * num + w] = ws[w + 1]
    BY <1>1, <1>2, <2>2, <2>3, <2>5, WrittenAt
  <2>7. t \in Nat /\ Index(t) = num /\ Kind(t) = STRUCT
    BY <2>1, <2>3, HandleParts
  <2>8. \A w \in 0..(Len(ws) - 1) : Word(t, w)' = ws[w + 1]
    BY <2>6, <2>7 DEF Word
  <2>9. 4 + 4 * n <= Len(ws) /\ (blob # 0 => Len(ws) = 6 + 4 * n)
    <3>1. CASE blob = 0
      BY <1>1, <2>4, <3>1 DEF n
    <3>2. CASE blob # 0
      BY <1>1, <2>4, <3>2 DEF n
    <3>3. QED
      BY <3>1, <3>2
  <2>10. Word(t, 0)' = name /\ Word(t, 3)' = StructBits(fields, blob) * FieldLimit + n
    <3>1. 0 \in 0..(Len(ws) - 1) /\ 3 \in 0..(Len(ws) - 1)
      BY <1>1, <2>5, <2>9
    <3>2. QED
      BY <2>4, <2>8, <3>1 DEF n
  <2>11. FieldCount(t)' = n /\ (HasInitializer(t)' <=> blob # 0)
    <3>1. /\ StructBits(fields, blob) \in Nat
          /\ StructBits(fields, blob) >= 128 <=> blob # 0
      BY <1>4, BitsOfStruct
    <3>2. FieldLimit \in Nat \ {0} /\ n \in 0..(FieldLimit - 1)
      BY <1>1, TypeTableAssumption DEF TypeTableAssumption, n
    <3>3. /\ (StructBits(fields, blob) * FieldLimit + n) % FieldLimit = n
          /\ (StructBits(fields, blob) * FieldLimit + n) \div FieldLimit
               = StructBits(fields, blob)
      BY <3>1, <3>2, QuotientOfSum
    <3>4. FieldCount(t)' = n
      BY <2>10, <3>3, Zenon DEF FieldCount
    <3>5. HasInitializer(t)' <=> StructBits(fields, blob) >= 128
      BY <2>10, <3>3, Zenon DEF HasInitializer
    <3>6. QED
      BY <3>1, <3>4, <3>5
  <2>12. ASSUME NEW i \in 1..n
         PROVE  Word(t, 4 * i + 2)' = fields[i]
    <3>1. 4 * i + 2 \in 0..(Len(ws) - 1) /\ (4 * i + 2) + 1 = 4 * i + 3
      BY <1>1, <2>5, <2>9
    <3>2. ws[4 * i + 3] = fields[i]
      BY <2>4 DEF n
    <3>3. QED
      BY <2>8, <3>1, <3>2
  <2>13. ASSUME blob # 0
         PROVE  Word(t, 4 * n + 4)' = blob
    <3>1. 4 * n + 4 \in 0..(Len(ws) - 1) /\ (4 * n + 4) + 1 = 4 * n + 5
      BY <1>1, <2>5, <2>9, <2>13
    <3>2. ws[4 * n + 5] = blob
      BY <2>4, <2>13 DEF n
    <3>3. QED
      BY <2>8, <3>1, <3>2
  <2>14. /\ new.request = request /\ new.type = t /\ ~IsInterned(new)
         /\ \A m \in made' : m \in made \/ m = new
    BY <2>2 DEF IsInterned
  <2>15. FilledStruct(new)'
    BY <2>10, <2>11, <2>12, <2>13 DEF FilledStruct, n
  <2>16. Placed(new)'
    <3>1. request \in Requests /\ Extent(request) = blocks
      BY DEF Requests, Extent, blocks, n
    <3>2. PartsBelow(request)'
      BY DEF PartsBelow
    <3>3. QED
      BY <1>1, <2>2, <2>3, <2>7, <3>1, <3>2 DEF Placed
  <2>17. ASSUME NEW m \in made'
         PROVE  /\ Placed(m)'
                /\ IsInterned(m) => m.type \in cached' /\ Filled(m)'
                /\ ~IsInterned(m) => FilledStruct(m)'
                /\ IsInterned(m) /\ ~reused' => Zeroed(m)'
    <3>1. CASE m \in made
      <4>1. num' \in {num, num + blocks} /\ cached \subseteq cached'
        BY <1>2, <2>2
      <4>2. QED
        BY <1>1, <1>2, <2>2, <2>5, <3>1, <4>1, OldOnesKept
    <3>2. CASE m = new
      BY <2>14, <2>15, <2>16, <3>2
    <3>3. QED
      BY <2>14, <3>1, <3>2
  <2>18. \A s \in cached' : \E m \in made' : m.type = s /\ IsInterned(m)
    BY <1>2, <2>2 DEF IInv
  <2>19. InternedUnlessReused'
    <3>1. ASSUME NEW m \in made', m.request.kind # STRUCT
          PROVE  m \in made
      BY <2>14, <3>1
    <3>2. QED
      BY <1>2, <3>1 DEF IInv, InternedUnlessReused
  <2>20. num' \in NUM_TYPE_KINDS..Limit
    BY <1>1, <1>2, <2>2, <2>3
  <2>21. QED
    BY <2>6, <2>17, <2>18, <2>19, <2>20 DEF IInv, IsInterned
<1>5. QED
  BY <1>3, <1>4

\* Types that parse_type may return have been handed out.
LEMMA NameablePlaced ==
    ASSUME IInv, NEW t \in Nameable
    PROVE  t \in Nat /\ Index(t) < num
<1>1. num \in Nat /\ NUM_TYPE_KINDS <= num
  BY TypeTableAssumption DEF IInv, TypeTableAssumption
<1>2. CASE \E k \in Basics : t = Basic(k)
  <2>1. PICK k \in Basics : t = Basic(k)
    BY <1>2
  <2>2. k \in 2..15 /\ k \in Nat /\ k \in 0..255
    BY TypeTableAssumption DEF TypeTableAssumption
  <2>3. Handle(k, k) \in Nat /\ Index(Handle(k, k)) = k
    BY <2>2, HandleParts
  <2>4. QED
    BY <1>1, <2>1, <2>2, <2>3 DEF Basic
<1>3. CASE \E m \in made : t = m.type
  <2>1. PICK m \in made : t = m.type
    BY <1>3
  <2>2. Placed(m)
    BY DEF IInv
  <2>3. /\ t \in Nat /\ Index(t) \in Nat /\ m.request \in Requests
        /\ Index(t) + Extent(m.request) <= num
    BY <2>1, <2>2, PartsOfHandle DEF Placed
  <2>4. Extent(m.request) \in Nat \ {0}
    <3>1. CASE m.request.kind = STRUCT
      <4>1. /\ Len(m.request.fields) \in Nat /\ Extent(m.request) \in Nat
            /\ 1 + Len(m.request.fields) <= Extent(m.request)
        BY <2>3, <3>1, StructExtent
      <4>2. QED
        BY <4>1
    <3>2. CASE m.request.kind # STRUCT
      BY <2>3, <3>2, WordsFit DEF Extent
    <3>3. QED
      BY <3>1, <3>2
  <2>5. QED
    BY <1>1, <2>3, <2>4
<1>4. QED
  BY <1>2, <1>3 DEF Nameable

\* A basic type's handle is a number, and its block is one of the first.
LEMMA BasicPlaced ==
    ASSUME IInv, NEW k \in 1..RANGE
    PROVE  Basic(k) \in Nat /\ Index(Basic(k)) < num
<1>1. num \in Nat /\ NUM_TYPE_KINDS <= num
  BY TypeTableAssumption DEF IInv, TypeTableAssumption
<1>2. k \in Nat /\ k \in 0..255
  OBVIOUS
<1>3. Handle(k, k) \in Nat /\ Index(Handle(k, k)) = k
  BY <1>2, HandleParts
<1>4. QED
  BY <1>1, <1>3 DEF Basic

\* A step interns a type whose parts have been handed out, or makes a struct of such
\* fields.
Interns == \E r \in Requests : r.kind # STRUCT /\ PartsBelow(r) /\ Intern(r)

MakesStruct ==
    \E name \in Nat, fields \in Seq(Nat), blob \in Nat :
        /\ fields # <<>> /\ Len(fields) < FieldLimit
        /\ \A i \in DOMAIN fields : Index(fields[i]) < num
        /\ Struct(name, fields, blob)

\* Or it stops at an assertion.
Stops ==
    /\ typedata' = typedata /\ num' = num /\ cached' = cached /\ made' = made
    /\ reused' = reused /\ trapped' = TRUE

LEMMA StepKinds == IInv /\ Next => Interns \/ MakesStruct \/ Stops
<1> SUFFICES ASSUME IInv, Next PROVE Interns \/ MakesStruct \/ Stops
  OBVIOUS
<1>1. ASSUME NEW sub \in Nameable \cup {Basic(VOID)}, Ptr(sub)
      PROVE  Interns
  <2> DEFINE r == [kind |-> PTR, sub |-> sub]
  <2>1. sub \in Nat /\ Index(sub) < num
    BY NameablePlaced, BasicPlaced
  <2>2. r \in Requests /\ r.kind # STRUCT /\ PartsBelow(r)
    BY <2>1 DEF Requests, PartsBelow
  <2>3. QED
    BY <1>1, <2>2 DEF Interns, Ptr
<1>2. ASSUME NEW sub \in Nameable, NEW count \in Counts, Array(sub, count)
      PROVE  Interns \/ Stops
  <2> DEFINE r == [kind |-> ARRAY, sub |-> sub, count |-> count]
  <2>1. sub \in Nat /\ Index(sub) < num /\ count \in Nat
    BY NameablePlaced, TypeTableAssumption DEF TypeTableAssumption
  <2>2. r \in Requests /\ r.kind # STRUCT /\ PartsBelow(r)
    BY <2>1 DEF Requests, PartsBelow
  <2>3. QED
    BY <1>2, <2>2, Zenon DEF Interns, Stops, Array
<1>3. ASSUME NEW sub \in Nameable, List(sub)
      PROVE  Interns
  <2> DEFINE r == [kind |-> LIST, sub |-> sub]
  <2>1. sub \in Nat /\ Index(sub) < num
    BY NameablePlaced
  <2>2. r \in Requests /\ r.kind # STRUCT /\ PartsBelow(r)
    BY <2>1 DEF Requests, PartsBelow
  <2>3. QED
    BY <1>3, <2>2 DEF Interns, List
<1>4. ASSUME NEW params \in Seq(Nat), NEW k \in Returns, NEW flags \in Flags,
             Function(params, Basic(k), flags)
      PROVE  Interns
  <2> DEFINE r == [kind |-> FUNC, params |-> params, ret |-> Basic(k), flags |-> flags]
  <2>1. k \in 1..RANGE /\ flags \in {0, 1, 2, 4}
    BY TypeTableAssumption DEF TypeTableAssumption
  <2>2. Basic(k) \in Nat
    BY <2>1, BasicPlaced
  <2>3. r \in Requests /\ r.kind # STRUCT /\ PartsBelow(r)
    BY <2>1, <2>2 DEF Requests, PartsBelow
  <2>4. QED
    BY <1>4, <2>3 DEF Interns, Function
<1>5. ASSUME NEW n \in FieldCounts, NEW blob \in Blobs \cup {0},
             NEW fields \in [1..n -> Nameable], Struct(n, fields, blob)
      PROVE  MakesStruct
  <2>1. n \in 1..(FieldLimit - 1) /\ n \in Nat /\ blob \in Nat /\ FieldLimit \in Nat
    BY TypeTableAssumption DEF TypeTableAssumption
  <2>2. fields \in [1..n -> Nat]
    BY NameablePlaced
  <2>3. fields \in Seq(Nat) /\ Len(fields) = n /\ fields # <<>>
    <3>1. fields \in Seq(Nat)
      BY <2>1, <2>2, SeqDef
    <3>2. Len(fields) = n
      BY <2>1, <2>2, <3>1, LenProperties
    <3>3. QED
      BY <2>1, <3>1, <3>2
  <2>4. \A i \in DOMAIN fields : Index(fields[i]) < num
    BY NameablePlaced
  <2>5. QED
    BY <1>5, <2>1, <2>3, <2>4 DEF MakesStruct
<1>6. ASSUME NEW kinds \in ParamLists
      PROVE  [i \in DOMAIN kinds |-> Basic(kinds[i])] \in Seq(Nat)
  <2>1. kinds \in Seq(Basics)
    BY TypeTableAssumption DEF TypeTableAssumption
  <2>2. Len(kinds) \in Nat /\ DOMAIN kinds = 1..Len(kinds)
        /\ \A i \in 1..Len(kinds) : kinds[i] \in Basics
    BY <2>1, LenProperties, ElementOfSeq
  <2>3. \A i \in 1..Len(kinds) : Basic(kinds[i]) \in Nat
    BY <2>2, NameablePlaced DEF Nameable
  <2>4. [i \in 1..Len(kinds) |-> Basic(kinds[i])] \in [1..Len(kinds) -> Nat]
    BY <2>3
  <2>5. QED
    BY <2>2, <2>4, SeqDef
<1>7. ASSUME NEW t \in Nameable
      PROVE  <<t>> \in Seq(Nat)
  BY NameablePlaced
<1>8. QED
  BY <1>1, <1>2, <1>3, <1>4, <1>5, <1>6, <1>7 DEF Next

\* Every step keeps the invariant.
LEMMA NextInvariant == IInv /\ [Next]_vars => IInv'
<1> SUFFICES ASSUME IInv, [Next]_vars PROVE IInv'
  OBVIOUS
<1>1. CASE Interns
  BY <1>1, InternInvariant DEF Interns
<1>2. CASE MakesStruct
  BY <1>2, StructInvariant DEF MakesStruct
<1>3. CASE Stops
  BY <1>3, UnchangedInvariant DEF Stops
<1>4. CASE UNCHANGED vars
  BY <1>4, UnchangedInvariant DEF vars
<1>5. QED
  BY <1>1, <1>2, <1>3, <1>4, StepKinds

----------------------------------------------------------------------------
(* The layout of structs: words are numbers, the fields of a struct have been *)
(* handed out before it, and so keep the size and alignment it was laid out   *)
(* with, or with which it could not be.                                       *)

FieldsBelow(m) == \A i \in DOMAIN m.request.fields : Index(m.request.fields[i]) < num

\* FieldsLaidOut, of one struct.
Layout(m) == LaidOut(m.type, m.request.fields) <=> Fits(m.request.fields)

LInv ==
    /\ typedata \in [0..(4 * Limit - 1) -> Nat]
    /\ \A m \in made : ~IsInterned(m) => FieldsBelow(m) /\ Layout(m)
    /\ trapped \in BOOLEAN /\ reused \in BOOLEAN

\* The size and the alignment of a type that was handed out are numbers.
LEMMA MeasuresTyped ==
    ASSUME IInv, LInv, NEW t \in Nat, Index(t) < num
    PROVE  TypeSize(t) \in Nat /\ TypeAlign(t) \in Nat
<1>1. num \in Nat /\ num <= Limit /\ Limit \in Nat /\ FieldLimit \in Nat \ {0}
  BY TypeTableAssumption DEF IInv, TypeTableAssumption
<1>2. Index(t) \in Nat
  BY PartsOfHandle
<1>3. ASSUME NEW w \in 0..3 PROVE Word(t, w) \in Nat
  <2>1. 4 * Index(t) + w \in 0..(4 * Limit - 1)
    BY <1>1, <1>2
  <2>2. QED
    BY <2>1 DEF Word, LInv
<1>4. (Word(t, 3) \div FieldLimit) % 128 \in Nat
  <2>1. \A a \in Nat, b \in Nat \ {0} : a \div b \in Nat
    BY SMT
  <2>2. \A a \in Nat : a % 128 \in Nat
    BY SMT
  <2>3. Word(t, 3) \div FieldLimit \in Nat
    BY <1>1, <1>3, <2>1
  <2>4. QED
    BY <2>2, <2>3
<1>5. QED
  BY <1>3, <1>4 DEF TypeSize, TypeAlign

\* Words that are numbers keep typedata one of numbers.
LEMMA WrittenTyped ==
    ASSUME LInv, num \in Nat, NEW ws, Len(ws) \in Nat, \A k \in 1..Len(ws) : ws[k] \in Nat,
           typedata' = Written(ws)
    PROVE  typedata' \in [0..(4 * Limit - 1) -> Nat]
<1>1. DOMAIN typedata = 0..(4 * Limit - 1) /\ \A a \in 0..(4 * Limit - 1) : typedata[a] \in Nat
  BY DEF LInv
<1>2. ASSUME NEW a \in 0..(4 * Limit - 1)
      PROVE  (IF a - 4 * num \in 0..(Len(ws) - 1) THEN ws[1 + a - 4 * num]
                                                  ELSE typedata[a]) \in Nat
  <2>1. CASE a - 4 * num \in 0..(Len(ws) - 1)
    <3>1. 1 + a - 4 * num \in 1..Len(ws)
      BY <2>1
    <3>2. QED
      BY <2>1, <3>1
  <2>2. QED
    BY <1>1, <2>1
<1>3. QED
  BY <1>1, <1>2 DEF Written

\* The words of a request are numbers.
LEMMA WordsTyped ==
    ASSUME IInv, LInv, NEW r \in Requests, r.kind # STRUCT, PartsBelow(r), num < Limit
    PROVE  \A k \in 1..Len(Words(r)) : Words(r)[k] \in Nat
<1>1. r.kind \in {LIST, ARRAY} => TypeSize(r.sub) \in Nat /\ TypeAlign(r.sub) \in Nat
  BY RequestParts, MeasuresTyped DEF PartsBelow
<1>2. CASE r.kind = PTR
  BY <1>2, RequestParts DEF Words
<1>3. CASE r.kind = LIST
  BY <1>1, <1>3, RequestParts DEF Words
<1>4. CASE r.kind = ARRAY
  <2>1. r.count \in Nat /\ r.sub \in Nat
    BY <1>4 DEF Requests
  <2> DEFINE bytes == r.count * TypeSize(r.sub)
  <2>2. bytes \in Nat
    BY <1>1, <1>4, <2>1
  <2>3. Words(r) = <<Wrapped(bytes), TypeAlign(r.sub), r.sub, r.count>>
    BY <1>4 DEF Words
  <2> HIDE DEF bytes
  <2>4. Wrapped(bytes) \in Nat
    BY <2>2, WrappedAt
  <2>5. QED
    BY <1>1, <1>4, <2>1, <2>3, <2>4
<1>5. CASE r.kind = FUNC
  <2> DEFINE ws == FuncWords(r.params, r.ret, r.flags)
             n == Len(r.params)
  <2>1. r.params \in Seq(Nat) /\ r.ret \in Nat /\ r.flags \in Nat /\ n \in Nat
        /\ \A p \in 1..n : r.params[p] \in Nat
    <3>1. r.params \in Seq(Nat) /\ r.ret \in Nat /\ r.flags \in {0, 1, 2, 4}
      BY <1>5 DEF Requests
    <3>2. QED
      BY <3>1, LenProperties, ElementOfSeq
  <2>2. /\ Len(ws) = 4 + n /\ ws[1] = r.ret /\ ws[2] = n
        /\ ws[3] = StoredFlags(r.params, r.ret, r.flags)
        /\ ws[4] = typedata[4 * num + 3]
        /\ \A p \in 1..n : ws[4 + p] = r.params[p]
    BY <2>1, FuncWordsAt
  <2>3. typedata[4 * num + 3] \in Nat
    <3>1. num \in Nat /\ Limit \in Nat
      BY TypeTableAssumption DEF IInv, TypeTableAssumption
    <3>2. 4 * num + 3 \in 0..(4 * Limit - 1)
      BY <3>1
    <3>3. QED
      BY <3>2 DEF LInv
  <2>4. StoredFlags(r.params, r.ret, r.flags) \in Nat
    BY <2>1 DEF StoredFlags
  <2>5. Words(r) = ws
    BY <1>5 DEF Words
  <2> HIDE DEF ws
  <2>6. ASSUME NEW k \in 1..Len(ws) PROVE ws[k] \in Nat
    <3>1. CASE k \in 1..4
      BY <2>1, <2>2, <2>3, <2>4, <3>1
    <3>2. CASE k \notin 1..4
      <4>1. PICK p \in 1..n : k = 4 + p
        <5>1. k - 4 \in 1..n /\ k = 4 + (k - 4)
          BY <2>1, <2>2, <3>2
        <5>2. QED
          BY <5>1
      <4>2. QED
        BY <2>1, <2>2, <4>1
    <3>3. QED
      BY <3>1, <3>2
  <2>7. QED
    BY <2>5, <2>6
<1>6. QED
  BY <1>2, <1>3, <1>4, <1>5, RequestParts

\* What fits goes on fitting as long as the fields keep their sizes and alignments.
LEMMA FitsStable ==
    ASSUME NEW fields, DOMAIN fields = 1..Len(fields),
           \A i \in DOMAIN fields : /\ TypeSize(fields[i])' = TypeSize(fields[i])
                                   /\ TypeAlign(fields[i])' = TypeAlign(fields[i])
    PROVE  Fits(fields)' <=> Fits(fields)
<1>1. Measures(fields)' = Measures(fields)
  BY DEF Measures
<1>2. StructAlign(fields)' = StructAlign(fields)
  <2>1. {TypeAlign(fields[i]) : i \in DOMAIN fields}'
          = {TypeAlign(fields[i]) : i \in DOMAIN fields}
    OBVIOUS
  <2>2. QED
    BY <2>1 DEF StructAlign
<1>3. QED
  BY <1>1, <1>2 DEF Fits

\* What is laid out stays so when nothing is written below num_typedata.
LEMMA LayoutFrame ==
    ASSUME IInv, NEW m \in made, ~IsInterned(m), FieldsBelow(m), Layout(m),
           num' \in Nat, num <= num',
           \A a \in 0..(4 * num - 1) : typedata'[a] = typedata[a]
    PROVE  FieldsBelow(m)' /\ Layout(m)'
<1> DEFINE r == m.request
           t == m.type
           fields == r.fields
<1>1. num \in Nat
  BY TypeTableAssumption DEF IInv, TypeTableAssumption
<1>2. /\ r \in Requests /\ r.kind = STRUCT /\ t \in Nat /\ Index(t) \in Nat
      /\ Index(t) + Extent(r) <= num
  BY PartsOfHandle DEF IInv, Placed, IsInterned
<1>3. /\ Len(fields) \in Nat /\ Extent(r) \in Nat /\ 1 + Len(fields) <= Extent(r)
      /\ DOMAIN fields = 1..Len(fields) /\ \A i \in DOMAIN fields : fields[i] \in Nat
  <2>1. fields \in Seq(Nat)
    BY <1>2, RequestParts
  <2>2. QED
    BY <1>2, <2>1, StructExtent, LenProperties, ElementOfSeq
<1>4. TypeSize(t)' = TypeSize(t)
  BY <1>1, <1>2, <1>3, MeasuresStable
<1>5. ASSUME NEW i \in DOMAIN fields
      PROVE  /\ TypeSize(fields[i])' = TypeSize(fields[i])
             /\ TypeAlign(fields[i])' = TypeAlign(fields[i])
             /\ Word(t, 4 * i + 3)' = Word(t, 4 * i + 3)
             /\ Index(fields[i]) < num'
  <2>1. Index(fields[i]) < num /\ Index(fields[i]) \in Nat /\ fields[i] \in Nat
    BY <1>3, PartsOfHandle DEF FieldsBelow
  <2>2. 4 * Index(t) + (4 * i + 3) \in 0..(4 * num - 1)
    <3>1. i \in Nat /\ i <= Len(fields)
      BY <1>3
    <3>2. Index(t) + 1 + Len(fields) <= num
      BY <1>1, <1>2, <1>3
    <3> DEFINE block == Index(t)
               n == Len(fields)
    <3>3. block \in Nat /\ n \in Nat /\ i <= n /\ block + 1 + n <= num
      BY <1>2, <1>3, <3>1, <3>2
    <3> HIDE DEF block, n, r, t, fields
    <3>4. 4 * block + (4 * i + 3) \in 0..(4 * num - 1)
      BY <1>1, <3>1, <3>3
    <3>5. QED
      BY <3>4 DEF block
  <2>3. QED
    BY <1>1, <2>1, <2>2, MeasuresStable DEF Word
<1>6. FieldsBelow(m)'
  BY <1>5 DEF FieldsBelow
<1>7. \A i \in DOMAIN fields : \A j \in 1..(i - 1) : j \in DOMAIN fields
  BY <1>3
<1>8. LaidOut(t, fields)' <=> LaidOut(t, fields)
  <2> HIDE DEF t, fields
  <2>1. QED
    BY <1>4, <1>5, <1>7 DEF LaidOut
<1>9. Fits(fields)' <=> Fits(fields)
  BY <1>3, <1>5, FitsStable
<1>10. QED
  BY <1>6, <1>8, <1>9 DEF Layout

\* A type that is interned is none of the structs.
LEMMA InternLayout ==
    ASSUME IInv, LInv, Interns
    PROVE  LInv'
<1>1. PICK r \in Requests : r.kind # STRUCT /\ PartsBelow(r) /\ Intern(r)
  BY DEF Interns
<1>2. num \in Nat /\ Limit \in Nat /\ DOMAIN typedata = 0..(4 * Limit - 1)
  BY TypeTableAssumption DEF IInv, TypeTableAssumption
<1>3. num + Blocks(r) <= Limit /\ typedata' = Written(Words(r)) /\ trapped' = trapped
  BY <1>1 DEF Intern
<1>4. Blocks(r) \in Nat \ {0} /\ Len(Words(r)) \in 0..(4 * Blocks(r))
  BY <1>1, WordsFit
<1>5. typedata' \in [0..(4 * Limit - 1) -> Nat]
  BY <1>1, <1>2, <1>3, <1>4, WordsTyped, WrittenTyped
<1>6. num' \in Nat /\ num <= num'
  <2>1. num' = num \/ num' = num + Blocks(r)
    BY <1>1 DEF Intern, Rewound
  <2>2. QED
    BY <1>2, <1>4, <2>1
<1>7. \A a \in 0..(4 * num - 1) : typedata'[a] = typedata[a]
  BY <1>2, <1>3, <1>4, WrittenAt
<1>8. ASSUME NEW m \in made', ~IsInterned(m)
      PROVE  m \in made
  <2>1. PICK t : made' = made \cup {[request |-> r, type |-> t]}
    BY <1>1, Zenon DEF Intern
  <2>2. QED
    BY <1>1, <1>8, <2>1 DEF IsInterned
<1>9. ASSUME NEW m \in made', ~IsInterned(m)
      PROVE  FieldsBelow(m)' /\ Layout(m)'
  BY <1>6, <1>7, <1>8, <1>9, LayoutFrame DEF LInv
<1>10. reused' \in BOOLEAN
  <2>1. reused \in BOOLEAN
    BY DEF LInv
  <2>2. reused' = reused \/ reused' \in BOOLEAN
    BY <1>1, Zenon DEF Intern
  <2>3. QED
    BY <2>1, <2>2, Zenon
<1>11. QED
  BY <1>3, <1>5, <1>9, <1>10 DEF LInv, IsInterned

\* The fields of a new struct are laid out one behind the other.
LEMMA StructLayout ==
    ASSUME IInv, LInv, MakesStruct
    PROVE  LInv'
<1>1. PICK name \in Nat, fields \in Seq(Nat), blob \in Nat :
        /\ fields # <<>> /\ Len(fields) < FieldLimit
        /\ \A i \in DOMAIN fields : Index(fields[i]) < num
        /\ Struct(name, fields, blob)
  BY DEF MakesStruct
<1>2. num \in Nat /\ Limit \in Nat /\ num <= Limit /\ DOMAIN typedata = 0..(4 * Limit - 1)
  BY TypeTableAssumption DEF IInv, TypeTableAssumption
<1>3. reused' = reused
  BY <1>1 DEF Struct
<1>4. CASE ~Alignable(fields)
  <2>1. typedata' = typedata /\ num' = num /\ made' = made /\ trapped' = TRUE
    BY <1>1, <1>4 DEF Struct
  <2>2. \A m \in made : ~IsInterned(m) => FieldsBelow(m)' /\ Layout(m)'
    BY <1>2, <2>1, LayoutFrame DEF LInv
  <2>3. QED
    BY <1>3, <2>1, <2>2 DEF LInv, IsInterned
<1>5. CASE Alignable(fields)
  <2> DEFINE n == Len(fields)
             blocks == 1 + n + (IF blob = 0 THEN 0 ELSE 1)
             ws == StructWords(name, fields, blob)
             size == StructSize(fields)
  <2>1. PICK t : t = Handle(num, STRUCT)
    OBVIOUS
  <2> DEFINE new == [request |-> [kind |-> STRUCT, name |-> name, fields |-> fields,
                                  blob |-> blob], type |-> t]
  <2>2. /\ typedata' = Written(ws) /\ num' = num + blocks /\ num + blocks <= Limit
        /\ made' = made \cup {new} /\ trapped' = trapped
    BY <1>1, <1>5, <2>1 DEF Struct
  <2>3. n \in Nat \ {0} /\ DOMAIN fields = 1..n /\ \A i \in 1..n : fields[i] \in Nat
    BY <1>1, LenProperties, ElementOfSeq, EmptySeq
  <2>4. blocks \in Nat
    BY <2>3
  <2>5. ASSUME NEW i \in 1..n
        PROVE  /\ TypeSize(fields[i]) \in Nat /\ TypeAlign(fields[i]) \in Powers
               /\ TypeAlign(fields[i]) \in Nat \ {0}
               /\ TypeAlign(fields[i]) <= StructAlign(fields)
               /\ StructAlign(fields) \in Powers /\ StructAlign(fields) \in Nat \ {0}
    <3> DEFINE S == {TypeAlign(fields[j]) : j \in DOMAIN fields}
    <3>1. S \in SUBSET Powers /\ TypeAlign(fields[i]) \in S
      BY <1>5, <2>3 DEF Alignable, Powers
    <3>2. TypeSize(fields[i]) \in Nat
      BY <1>1, <2>3, MeasuresTyped
    <3>3. StructAlign(fields) = Max(S)
      BY DEF StructAlign
    <3> HIDE DEF S
    <3>4. Max(S) \in S /\ \A y \in S : y <= Max(S)
      BY <3>1, LargestAlign DEF Powers
    <3>5. Powers \subseteq Nat \ {0}
      BY DEF Powers
    <3>6. QED
      BY <3>1, <3>2, <3>3, <3>4, <3>5
  <2>6. Layable(fields)
    <3>1. 1 \in 1..n
      BY <2>3
    <3>2. QED
      BY <2>3, <2>5, <3>1 DEF Layable
  <2>7. /\ size \in Nat /\ \A i \in 1..n : FieldOffset(fields, i) \in Nat
    BY <2>6, PlacesTyped
  <2>8. /\ Len(ws) = 4 + 4 * n + (IF blob = 0 THEN 0 ELSE 2)
        /\ ws[1] = name /\ ws[2] = 0 /\ ws[3] = size
        /\ ws[4] = StructBits(fields, blob) * FieldLimit + n
        /\ \A i \in 1..n : /\ ws[4 * i + 1] = i /\ ws[4 * i + 2] = 0
                           /\ ws[4 * i + 3] = fields[i]
                           /\ ws[4 * i + 4] = FieldOffset(fields, i)
        /\ blob # 0 => ws[4 * n + 5] = blob /\ ws[4 * n + 6] = 0
    BY StructWordsAt
  <2>9. StructBits(fields, blob) * FieldLimit + n \in Nat
    <3>1. StructBits(fields, blob) \in Nat /\ FieldLimit \in Nat
      BY <1>1, <1>5, BitsOfStruct, TypeTableAssumption DEF TypeTableAssumption
    <3>2. QED
      BY <2>3, <3>1
  <2> HIDE DEF ws, size, n
  <2>10. Len(ws) \in 0..(4 * blocks) /\ 4 + 4 * n <= Len(ws)
    <3>1. CASE blob = 0
      BY <2>3, <2>8, <3>1
    <3>2. CASE blob # 0
      BY <2>3, <2>8, <3>2
    <3>3. QED
      BY <3>1, <3>2
  <2>11. ASSUME NEW k \in 1..Len(ws) PROVE ws[k] \in Nat
    <3>1. CASE k \in 1..4
      BY <2>7, <2>8, <2>9, <3>1
    <3>2. CASE k \in 5..(4 * n + 4)
      <4>1. PICK i \in 1..n, w \in 1..4 : k = 4 * i + w
        <5>1. (k - 1) \div 4 \in 1..n /\ 1 + ((k - 1) % 4) \in 1..4
              /\ k = 4 * ((k - 1) \div 4) + (1 + ((k - 1) % 4))
          BY <2>3, <3>2
        <5>2. QED
          BY <5>1
      <4>2. /\ ws[4 * i + 1] \in Nat /\ ws[4 * i + 2] \in Nat
            /\ ws[4 * i + 3] \in Nat /\ ws[4 * i + 4] \in Nat
        <5>1. i \in Nat /\ fields[i] \in Nat /\ FieldOffset(fields, i) \in Nat
          BY <2>3, <2>7
        <5>2. /\ ws[4 * i + 1] = i /\ ws[4 * i + 2] = 0
              /\ ws[4 * i + 3] = fields[i] /\ ws[4 * i + 4] = FieldOffset(fields, i)
          BY <2>8
        <5>3. QED
          BY <5>1, <5>2
      <4>3. w = 1 \/ w = 2 \/ w = 3 \/ w = 4
        OBVIOUS
      <4>4. QED
        BY <4>1, <4>2, <4>3
    <3>3. CASE k > 4 * n + 4
      <4>1. blob # 0 /\ k \in {4 * n + 5, 4 * n + 6}
        BY <2>3, <2>8, <3>3
      <4>2. QED
        BY <2>8, <4>1
    <3>4. QED
      BY <2>3, <3>1, <3>2, <3>3
  <2>12. typedata' \in [0..(4 * Limit - 1) -> Nat]
    BY <1>2, <2>2, <2>10, <2>11, WrittenTyped
  <2> HIDE DEF blocks
  <2>13. /\ \A a \in 0..(4 * num - 1) : typedata'[a] = typedata[a]
         /\ \A w \in 0..(Len(ws) - 1) : typedata'[4 * num + w] = ws[w + 1]
    BY <1>2, <2>2, <2>4, <2>10, WrittenAt
  <2>14. t \in Nat /\ Index(t) = num /\ Kind(t) = STRUCT
    BY <1>2, <2>1, HandleParts
  <2>15. ASSUME NEW w \in 0..(4 * n + 3) PROVE Word(t, w)' = ws[w + 1]
    <3>1. w \in 0..(Len(ws) - 1)
      BY <2>3, <2>4, <2>10
    <3>2. QED
      BY <2>13, <2>14, <3>1 DEF Word
  <2>16. TypeSize(t)' = size
    <3>1. Word(t, 2)' = size
      BY <2>3, <2>8, <2>15
    <3>2. QED
      BY <2>14, <3>1 DEF TypeSize
  <2>17. ASSUME NEW i \in 1..n
         PROVE  /\ Word(t, 4 * i + 3)' = FieldOffset(fields, i)
                /\ TypeSize(fields[i])' = TypeSize(fields[i])
                /\ TypeAlign(fields[i])' = TypeAlign(fields[i])
    <3>1. 4 * i + 3 \in 0..(4 * n + 3) /\ (4 * i + 3) + 1 = 4 * i + 4
      BY <2>3
    <3>2. Word(t, 4 * i + 3)' = FieldOffset(fields, i)
      BY <2>8, <2>15, <3>1
    <3>3. QED
      BY <1>1, <1>2, <2>3, <2>13, <3>2, MeasuresStable
  <2>18. Layout(new)'
    <3>1. LaidOut(t, fields)' <=>
            \A i \in 1..n :
              /\ FieldOffset(fields, i) % TypeAlign(fields[i]) = 0
              /\ size % TypeAlign(fields[i]) = 0
              /\ FieldOffset(fields, i) + TypeSize(fields[i]) <= size
              /\ \A j \in 1..(i - 1) :
                   FieldOffset(fields, j) + TypeSize(fields[j]) <= FieldOffset(fields, i)
      <4>1. \A i \in 1..n, j \in Nat : j \in 1..(i - 1) => j \in 1..n
        BY <2>3
      <4>2. LaidOut(t, fields)' <=>
              \A i \in 1..n :
                /\ Word(t, 4 * i + 3)' % TypeAlign(fields[i])' = 0
                /\ TypeSize(t)' % TypeAlign(fields[i])' = 0
                /\ Word(t, 4 * i + 3)' + TypeSize(fields[i])' <= TypeSize(t)'
                /\ \A j \in 1..(i - 1) :
                     Word(t, 4 * j + 3)' + TypeSize(fields[j])' <= Word(t, 4 * i + 3)'
        BY <2>3, Zenon DEF LaidOut
      <4>3. QED
        BY <2>16, <2>17, <4>1, <4>2
    <3>2. LaidOut(t, fields)' <=> Fits(fields)
      BY <2>6, <3>1, LaidOutIfFits, WrappedOverlaps DEF n, size
    <3>3. Fits(fields)' <=> Fits(fields)
      BY <2>3, <2>17, FitsStable DEF n
    <3>4. new.type = t /\ new.request.fields = fields
      OBVIOUS
    <3> HIDE DEF new
    <3>5. QED
      BY <3>2, <3>3, <3>4 DEF Layout
  <2>19. num' \in Nat /\ num <= num'
    BY <1>2, <2>2, <2>4
  <2>20. FieldsBelow(new)'
    <3>1. ASSUME NEW i \in DOMAIN fields
          PROVE  Index(fields[i]) < num'
      <4>1. fields[i] \in Nat /\ Index(fields[i]) < num
        BY <1>1, <2>3
      <4>2. Index(fields[i]) \in Nat
        BY <4>1, PartsOfHandle
      <4>3. QED
        BY <1>2, <2>19, <4>1, <4>2
    <3>2. new.request.fields = fields
      OBVIOUS
    <3> HIDE DEF new
    <3>3. QED
      BY <3>1, <3>2 DEF FieldsBelow
  <2>21. ASSUME NEW m \in made', ~IsInterned(m)
         PROVE  FieldsBelow(m)' /\ Layout(m)'
    <3>1. CASE m \in made
      BY <1>2, <2>13, <2>19, <2>21, <3>1, LayoutFrame DEF LInv
    <3>2. CASE m = new
      BY <2>18, <2>20, <3>2
    <3>3. QED
      BY <2>2, <3>1, <3>2
  <2>22. QED
    BY <1>3, <2>2, <2>12, <2>21 DEF LInv, IsInterned
<1>6. QED
  BY <1>4, <1>5

\* The basic types' words are numbers.
LEMMA InitLayout == Init => LInv
<1> SUFFICES ASSUME Init PROVE LInv
  OBVIOUS
<1>1. \A k \in Nat : BasicSize(k) \in Nat /\ BasicAlign(k) \in Nat
  BY DEF BasicSize, BasicAlign
<1>2. ASSUME NEW a \in 0..(4 * Limit - 1)
      PROVE  typedata[a] \in Nat
  <2>1. a \in Nat /\ a \div 4 \in Nat
    BY SMT
  <2>2. BasicSize(a \div 4) \in Nat /\ BasicAlign(a \div 4) \in Nat
    BY <1>1, <2>1
  <2>3. QED
    BY <2>1, <2>2 DEF Init
<1>3. typedata \in [0..(4 * Limit - 1) -> Nat]
  BY <1>2 DEF Init
<1>4. QED
  BY <1>3 DEF Init, LInv

LEMMA NextLayout == IInv /\ LInv /\ [Next]_vars => LInv'
<1> SUFFICES ASSUME IInv, LInv, [Next]_vars PROVE LInv'
  OBVIOUS
<1>1. CASE UNCHANGED vars
  <2>1. /\ typedata' = typedata /\ num' = num /\ made' = made /\ trapped' = trapped
        /\ reused' = reused
    BY <1>1 DEF vars
  <2>2. num \in Nat
    BY TypeTableAssumption DEF IInv, TypeTableAssumption
  <2>3. \A m \in made : ~IsInterned(m) => FieldsBelow(m)' /\ Layout(m)'
    BY <2>1, <2>2, LayoutFrame DEF LInv
  <2>4. QED
    BY <2>1, <2>3 DEF LInv, IsInterned
<1>2. CASE Stops
  <2>1. num \in Nat
    BY TypeTableAssumption DEF IInv, TypeTableAssumption
  <2>2. \A m \in made : ~IsInterned(m) => FieldsBelow(m)' /\ Layout(m)'
    BY <1>2, <2>1, LayoutFrame DEF LInv, Stops
  <2>3. QED
    BY <1>2, <2>2 DEF LInv, IsInterned, Stops
<1>3. QED
  BY <1>1, <1>2, StepKinds, InternLayout, StructLayout

\* What can be found has its place among the blocks.
LEMMA InvariantImpliesType == IInv /\ LInv => TypeOK
<1> SUFFICES ASSUME IInv, LInv PROVE TypeOK
  OBVIOUS
<1>1. num \in NUM_TYPE_KINDS..Limit
  BY DEF IInv
<1>2. ASSUME NEW s \in cached
      PROVE  /\ Index(s) \in NUM_TYPE_KINDS..(num - 1)
             /\ Kind(s) \in {LIST, ARRAY, PTR, FUNC}
  <2>1. PICK m \in made : m.type = s /\ IsInterned(m)
    BY DEF IInv
  <2>2. /\ m.request \in Requests /\ s \in Nat /\ Index(s) \in Nat
        /\ NUM_TYPE_KINDS <= Index(s) /\ Kind(s) = m.request.kind
        /\ Index(s) + Blocks(m.request) <= num /\ Blocks(m.request) \in Nat \ {0}
    BY <2>1, PartsOfHandle, WordsFit DEF IInv, Placed, Extent, IsInterned
  <2>3. QED
    BY <1>1, <2>1, <2>2, RequestParts DEF IsInterned
<1>3. QED
  BY <1>1, <1>2 DEF TypeOK, LInv

----------------------------------------------------------------------------
(* What is proved of the specification *)

\* Whatever types a program makes, in whatever order, a handle that type.c has
\* returned goes on describing what was asked for.
THEOREM HandlesKept == Spec => []HandlesKeepMeaning
<1>1. IInv => HandlesKeepMeaning
  BY InvariantImpliesMeaning
<1>2. QED
  BY InitInvariant, NextInvariant, <1>1, PTL DEF Spec

\* Asking twice for a type gives one handle: always for arrays, and for the
\* others as long as none was entered over another's words.
THEOREM Interned == Spec => []InternedUnlessReused
<1>1. IInv => InternedUnlessReused
  BY DEF IInv
<1>2. QED
  BY InitInvariant, NextInvariant, <1>1, PTL DEF Spec

\* Every word is a number, and what the sets of types hold lies below num_typedata.
THEOREM TypeTableTypeCorrect == Spec => []TypeOK
<1>1. IInv /\ LInv => TypeOK
  BY InvariantImpliesType
<1>2. QED
  BY InitInvariant, NextInvariant, InitLayout, NextLayout, <1>1, PTL DEF Spec

\* However structs are nested in one another, in arrays and behind pointers, the fields
\* of each stay inside it, aligned, and off one another, exactly as long as their ends
\* can be said in 32 bits: a size that wraps always shows in the layout.
THEOREM StructsLaidOut == Spec => []FieldsLaidOut
<1>1. IInv /\ LInv => FieldsLaidOut
  <2> SUFFICES ASSUME IInv, LInv, NEW m \in made, m.request.kind = STRUCT
               PROVE  Layout(m)
    BY DEF FieldsLaidOut, Layout
  <2>1. QED
    BY DEF LInv, IsInterned
<1>2. QED
  BY InitInvariant, NextInvariant, InitLayout, NextLayout, <1>1, PTL DEF Spec
============================================================================
