---------------------------- MODULE ArenaProofs ----------------------------
(* Proofs about Arena, for every page size, reserve, commit step, and every *)
(* set of request sizes and alignments.                                     *)
EXTENDS Arena, TLAPS

----------------------------------------------------------------------------
(* Rounding *)

\* A remainder lies below its divisor.
LEMMA ModRange ==
    ASSUME NEW n \in Nat, NEW a \in Nat \ {0}
    PROVE  n % a \in 0 .. a - 1
BY SMT

\* Rounding up never goes below the number it rounds.
LEMMA AlignUpRange ==
    ASSUME NEW n \in Nat, NEW a \in Nat \ {0}
    PROVE  AlignUp(n, a) \in Nat /\ n <= AlignUp(n, a)
<1>1. n + a - 1 \in Nat
  OBVIOUS
<1>2. (n + a - 1) % a \in 0 .. a - 1
  BY <1>1, ModRange
<1>3. QED
  BY <1>1, <1>2 DEF AlignUp

\* Rounding up a multiple leaves it alone.
LEMMA AlignUpMultiple ==
    ASSUME NEW n \in Nat, NEW a \in Nat \ {0}, n % a = 0
    PROVE  AlignUp(n, a) = n
<1>1. (n + a - 1) % a = a - 1
  BY SMT
<1>2. QED
  BY <1>1 DEF AlignUp

\* A multiple of the divisor leaves no remainder.
LEMMA ProductMod ==
    ASSUME NEW a \in Nat \ {0}, NEW k \in Nat
    PROVE  (a * k) % a = 0
BY SMT

\* In particular the divisor itself.
LEMMA ModSelf ==
    ASSUME NEW a \in Nat \ {0}
    PROVE  a % a = 0
BY SMT

\* A number is its quotient times the divisor, and the remainder.
LEMMA DivMod ==
    ASSUME NEW n \in Nat, NEW a \in Nat \ {0}
    PROVE  n \div a \in Nat /\ n = a * (n \div a) + (n % a)
BY SMT

\* Rounding up to a multiple of a page lands on a page.
LEMMA AlignUpOnPage ==
    ASSUME NEW n \in Nat, NEW step \in Nat \ {0}, NEW page \in Nat \ {0},
           step % page = 0
    PROVE  AlignUp(n, step) % page = 0
<1> DEFINE m == n + step - 1
           k == step \div page
           q == m \div step
<1>1. m \in Nat
  OBVIOUS
<1>2. k \in Nat /\ step = page * k
  BY DivMod
<1>3. q \in Nat /\ m = step * q + (m % step)
  BY <1>1, DivMod
<1>4. m % step \in Nat
  BY <1>1, ModRange
<1>5. step * q \in Nat
  BY <1>3
<1>6. AlignUp(n, step) = step * q
  <2> HIDE DEF q
  <2>1. AlignUp(n, step) = m - (m % step)
    BY DEF AlignUp
  <2> HIDE DEF m
  <2>2. QED
    BY <1>1, <1>3, <1>4, <1>5, <2>1
<1>7. step * q = page * (k * q)
  <2> HIDE DEF k, q
  <2>1. QED
    BY <1>2, <1>3
<1>8. k * q \in Nat
  BY <1>2, <1>3
<1>9. QED
  BY <1>6, <1>7, <1>8, ProductMod

\* cur_reserve is a number that the initial commit does not pass.
LEMMA InitialCommitFits ==
    /\ reserve \in Nat
    /\ initialCommit = ProvidedCommit
    /\ initialCommit <= reserve
<1> USE ArenaAssumption
<1>1. reserve \in Nat /\ ProvidedReserve <= reserve
  BY AlignUpRange DEF reserve
<1>2. initialCommit = ProvidedCommit
  BY AlignUpMultiple DEF initialCommit
<1>3. QED
  BY <1>1, <1>2

\* The new commit is a number between the old one and the reserve.
LEMMA CommitForRange ==
    ASSUME commit \in Nat, commit <= reserve, NEW post \in Nat
    PROVE  /\ CommitFor(post) \in Nat
           /\ commit <= CommitFor(post)
           /\ CommitFor(post) <= reserve
           /\ commit % PageSize = 0 => CommitFor(post) % PageSize = 0
<1>1. reserve \in Nat
  BY InitialCommitFits
<1>2. AlignUp(post, ProvidedCommit) \in Nat /\ post <= AlignUp(post, ProvidedCommit)
  BY AlignUpRange, ArenaAssumption
<1>3. AlignUp(post, ProvidedCommit) % PageSize = 0 /\ reserve % PageSize = 0
  BY AlignUpOnPage, ModSelf, ArenaAssumption DEF reserve
<1>4. QED
  BY <1>1, <1>2, <1>3 DEF CommitFor, Smaller

----------------------------------------------------------------------------
(* The inductive invariant: the saved positions are ordered, lie between    *)
(* the header and the current position, and the usable blocks are disjoint. *)

MarksOrdered ==
    /\ \A i \in DOMAIN marks : HeaderSize <= marks[i].pos /\ marks[i].pos <= pos
    /\ \A i, j \in DOMAIN marks : i <= j => marks[i].pos <= marks[j].pos

ArenaInv ==
    /\ TypeOK
    /\ BlocksUsable
    /\ BlocksDisjoint
    /\ MarksRestore
    /\ MarksOrdered
    /\ CommitOnPages

\* What the invariant says of one saved position.
LEMMA MarkFacts ==
    ASSUME ArenaInv, NEW i \in DOMAIN marks
    PROVE  /\ i \in 1 .. Len(marks) /\ marks[i] \in Marks
           /\ marks[i].pos \in Nat
           /\ HeaderSize <= marks[i].pos /\ marks[i].pos <= pos
<1>1. marks \in Seq(Marks)
  BY DEF ArenaInv, TypeOK
<1>2. i \in 1 .. Len(marks) /\ marks[i] \in Marks
  BY <1>1
<1>3. marks[i].pos \in Nat
  BY <1>2 DEF Marks
<1>4. QED
  BY <1>2, <1>3 DEF ArenaInv, MarksOrdered

LEMMA InitArenaInv == Init => ArenaInv
<1> SUFFICES ASSUME Init PROVE ArenaInv
  OBVIOUS
<1> USE ArenaAssumption DEF Init
<1>1. initialCommit \in Nat /\ initialCommit <= reserve /\ HeaderSize <= initialCommit
  BY InitialCommitFits
<1>2. TypeOK
  <2>1. <<>> \in Seq(Marks)
    OBVIOUS
  <2>2. QED
    BY <1>1, <2>1 DEF TypeOK
<1>3. BlocksUsable
  BY <1>1 DEF BlocksUsable
<1>4. BlocksDisjoint /\ MarksRestore /\ MarksOrdered
  BY DEF BlocksDisjoint, MarksRestore, MarksOrdered
<1>5. CommitOnPages
  BY InitialCommitFits DEF CommitOnPages
<1>6. QED
  BY <1>2, <1>3, <1>4, <1>5 DEF ArenaInv

\* A successful push adds one block, above everything that was live.
LEMMA PushArenaInv ==
    ASSUME ArenaInv, NEW size \in Sizes, NEW align \in Aligns, Push(size, align)
    PROVE  ArenaInv'
<1> DEFINE pre == AlignUp(pos, align)
           post == pre + size
           b == Block(pre, size, align)
<1> USE ArenaAssumption
<1>1. /\ pos \in Nat /\ commit \in Nat /\ size \in Nat /\ 0 < size
      /\ commit <= reserve /\ live \subseteq Blocks /\ marks \in Seq(Marks)
  BY DEF ArenaInv, TypeOK, BlocksUsable
<1>2. pre \in Nat /\ pos <= pre
  BY <1>1, AlignUpRange
<1>3. post \in Nat /\ pos < post
  BY <1>1, <1>2
<1>4. /\ commit' \in Nat /\ commit <= commit' /\ commit' <= reserve
      /\ CommitOnPages'
  BY <1>1, <1>3, CommitForRange DEF Push, ArenaInv, CommitOnPages
<1>5. marks' = marks
  BY DEF Push
<1>6. CASE commit' >= post /\ pos' = post /\ live' = live \cup {b} /\ UNCHANGED trapped
  <2>1. b \in Blocks /\ b.lo = pre /\ b.hi = post
    BY <1>1, <1>2, <1>3 DEF Block, Blocks
  <2> HIDE DEF b, post, pre
  <2>2. TypeOK'
    BY <1>1, <1>3, <1>4, <1>5, <1>6, <2>1 DEF TypeOK, ArenaInv
  <2>3. BlocksUsable'
    <3>1. HeaderSize <= pos' /\ pos' <= commit' /\ commit' <= reserve'
      BY <1>1, <1>3, <1>4, <1>6 DEF BlocksUsable, ArenaInv, reserve
    <3>2. HeaderSize <= b.lo /\ b.lo < b.hi /\ b.hi <= pos'
      BY <1>1, <1>2, <1>3, <1>6, <2>1 DEF BlocksUsable, ArenaInv, post
    <3>3. \A c \in live : HeaderSize <= c.lo /\ c.lo < c.hi /\ c.hi <= pos'
      <4>1. \A c \in live : c.hi \in Nat /\ c.hi <= pos
        BY <1>1 DEF BlocksUsable, ArenaInv, Blocks
      <4>2. QED
        BY <1>1, <1>3, <1>6, <4>1 DEF BlocksUsable, ArenaInv
    <3>4. QED
      BY <1>6, <3>1, <3>2, <3>3 DEF BlocksUsable
  <2>4. BlocksDisjoint'
    BY <1>1, <1>2, <1>6, <2>1 DEF BlocksDisjoint, BlocksUsable, ArenaInv, Blocks
  <2>5. MarksOrdered'
    BY <1>1, <1>3, <1>5, <1>6, MarkFacts DEF MarksOrdered, ArenaInv
  <2>6. ASSUME NEW i \in DOMAIN marks
        PROVE  {c \in live' : c.hi <= marks[i].pos} = marks[i].live
    <3>1. marks[i].pos \in Nat /\ marks[i].pos <= pos
      BY <2>6, MarkFacts
    <3>2. ~(b.hi <= marks[i].pos)
      BY <1>1, <1>3, <2>1, <3>1
    <3>3. {c \in live' : c.hi <= marks[i].pos} = {c \in live : c.hi <= marks[i].pos}
      BY <1>6, <3>2
    <3>4. QED
      BY <2>6, <3>3 DEF MarksRestore, ArenaInv
  <2>7. MarksRestore'
    BY <1>5, <2>6 DEF MarksRestore
  <2>8. QED
    BY <1>4, <2>2, <2>3, <2>4, <2>5, <2>7 DEF ArenaInv
<1>7. CASE commit' < post /\ trapped' = TRUE /\ UNCHANGED <<pos, live>>
  <2>1. TypeOK'
    BY <1>4, <1>5, <1>7 DEF TypeOK, ArenaInv
  <2>2. BlocksUsable'
    BY <1>1, <1>4, <1>7 DEF BlocksUsable, ArenaInv, reserve
  <2>3. BlocksDisjoint' /\ MarksRestore' /\ MarksOrdered'
    BY <1>5, <1>7 DEF BlocksDisjoint, MarksRestore, MarksOrdered, ArenaInv
  <2>4. QED
    BY <1>4, <2>1, <2>2, <2>3 DEF ArenaInv
<1>8. QED
  BY <1>6, <1>7 DEF Push

LEMMA SavePosArenaInv == ArenaInv /\ SavePos => ArenaInv'
<1> SUFFICES ASSUME ArenaInv, SavePos PROVE ArenaInv'
  OBVIOUS
<1> DEFINE m == [pos |-> pos, live |-> live]
<1> USE ArenaAssumption
<1>1. /\ pos \in Nat /\ live \subseteq Blocks /\ marks \in Seq(Marks)
      /\ \A c \in live : c.hi <= pos
  BY DEF ArenaInv, TypeOK, BlocksUsable
<1>2. m \in Marks /\ m.pos = pos /\ m.live = live
  BY <1>1 DEF Marks
<1> HIDE DEF m
<1>3. marks' = Append(marks, m) /\ UNCHANGED <<pos, commit, trapped, live>>
  BY DEF SavePos, m
<1>4. /\ marks' \in Seq(Marks) /\ Len(marks') = Len(marks) + 1
      /\ DOMAIN marks' = DOMAIN marks \cup {Len(marks) + 1}
      /\ \A i \in DOMAIN marks : marks'[i] = marks[i]
      /\ marks'[Len(marks) + 1] = m
  BY <1>1, <1>2, <1>3
<1>5. TypeOK' /\ BlocksUsable' /\ BlocksDisjoint' /\ CommitOnPages'
  BY <1>3, <1>4 DEF ArenaInv, TypeOK, BlocksUsable, BlocksDisjoint, CommitOnPages, reserve
<1>6. MarksRestore'
  <2>1. {c \in live : c.hi <= pos} = live
    BY <1>1
  <2>2. QED
    BY <1>2, <1>3, <1>4, <2>1 DEF MarksRestore, ArenaInv
<1>7. MarksOrdered'
  <2>1. \A i \in DOMAIN marks : /\ marks[i].pos \in Nat /\ i <= Len(marks)
                                /\ marks[i].pos <= pos /\ HeaderSize <= marks[i].pos
    BY MarkFacts
  <2>2. HeaderSize <= pos
    BY DEF ArenaInv, BlocksUsable
  <2>3. QED
    BY <1>1, <1>2, <1>3, <1>4, <2>1, <2>2 DEF MarksOrdered, ArenaInv
<1>8. QED
  BY <1>5, <1>6, <1>7 DEF ArenaInv

LEMMA PopToArenaInv ==
    ASSUME ArenaInv, NEW i \in DOMAIN marks, PopTo(i)
    PROVE  ArenaInv'
<1> USE ArenaAssumption
<1>1. /\ pos \in Nat /\ commit \in Nat /\ live \subseteq Blocks
      /\ marks \in Seq(Marks) /\ i \in 1 .. Len(marks)
  BY DEF ArenaInv, TypeOK
<1>2. marks[i].pos \in Nat /\ HeaderSize <= marks[i].pos /\ marks[i].pos <= pos
  BY MarkFacts
<1>3. /\ pos' = marks[i].pos /\ live' = {b \in live : b.hi <= pos'}
      /\ commit' = commit /\ trapped' = trapped
  BY <1>2 DEF PopTo, PopTarget, Larger
<1>4. /\ marks' \in Seq(Marks) /\ DOMAIN marks' = 1 .. i - 1
      /\ \A j \in 1 .. i - 1 : j \in DOMAIN marks /\ marks'[j] = marks[j]
  BY <1>1 DEF PopTo
<1>5. TypeOK'
  BY <1>1, <1>2, <1>3, <1>4 DEF TypeOK, ArenaInv
<1>6. BlocksUsable' /\ BlocksDisjoint' /\ CommitOnPages'
  BY <1>1, <1>2, <1>3 DEF BlocksUsable, BlocksDisjoint, CommitOnPages, ArenaInv, Blocks,
                          reserve
<1>7. ASSUME NEW j \in 1 .. i - 1
      PROVE  /\ marks[j].pos \in Nat /\ HeaderSize <= marks[j].pos
             /\ marks[j].pos <= marks[i].pos
  <2>1. j \in DOMAIN marks /\ j <= i
    BY <1>1, <1>7
  <2>2. QED
    BY <2>1, MarkFacts DEF ArenaInv, MarksOrdered
<1>8. MarksOrdered'
  BY <1>1, <1>3, <1>4, <1>7 DEF MarksOrdered, ArenaInv
<1>9. ASSUME NEW j \in 1 .. i - 1
      PROVE  {b \in live' : b.hi <= marks[j].pos} = marks[j].live
  <2>1. \A b \in live : b.hi \in Nat
    BY <1>1 DEF Blocks
  <2>2. \A b \in live : b.hi <= marks[j].pos => b.hi <= marks[i].pos
    BY <1>2, <1>7, <1>9, <2>1
  <2>3. {b \in live' : b.hi <= marks[j].pos} = {b \in live : b.hi <= marks[j].pos}
    BY <1>3, <2>2
  <2>4. QED
    BY <1>4, <2>3 DEF MarksRestore, ArenaInv
<1>10. MarksRestore'
  BY <1>4, <1>9 DEF MarksRestore
<1>11. QED
  BY <1>5, <1>6, <1>8, <1>10 DEF ArenaInv

LEMMA StepArenaInv == ArenaInv /\ [Next]_vars => ArenaInv'
<1> SUFFICES ASSUME ArenaInv, [Next]_vars PROVE ArenaInv'
  OBVIOUS
<1>1. ASSUME NEW size \in Sizes, NEW align \in Aligns, Push(size, align)
      PROVE  ArenaInv'
  BY <1>1, PushArenaInv
<1>2. CASE SavePos
  BY <1>2, SavePosArenaInv
<1>3. ASSUME NEW i \in DOMAIN marks, PopTo(i)
      PROVE  ArenaInv'
  BY <1>3, PopToArenaInv
<1>4. CASE UNCHANGED vars
  BY <1>4 DEF ArenaInv, TypeOK, BlocksUsable, BlocksDisjoint, MarksRestore,
              MarksOrdered, CommitOnPages, vars, reserve
<1>5. QED
  BY <1>1, <1>2, <1>3, <1>4 DEF Next

----------------------------------------------------------------------------
(* Theorems *)

\* The strengthened invariant holds throughout every behaviour of the arena.
THEOREM ArenaInvariant == Spec => []ArenaInv
BY InitArenaInv, StepArenaInv, PTL DEF Spec

\* Every variable of the arena keeps its type.
THEOREM ArenaTypeCorrect == Spec => []TypeOK
<1>1. ArenaInv => TypeOK
  BY DEF ArenaInv
<1>2. QED
  BY <1>1, ArenaInvariant, PTL

\* Memory that arena_push returned lies in committed memory and past the header.
THEOREM ArenaBlocksUsable == Spec => []BlocksUsable
<1>1. ArenaInv => BlocksUsable
  BY DEF ArenaInv
<1>2. QED
  BY <1>1, ArenaInvariant, PTL

\* No two live allocations overlap.
THEOREM ArenaBlocksDisjoint == Spec => []BlocksDisjoint
<1>1. ArenaInv => BlocksDisjoint
  BY DEF ArenaInv
<1>2. QED
  BY <1>1, ArenaInvariant, PTL

\* base_mem_commit is only ever asked for memory that starts on a page.
THEOREM ArenaCommitOnPages == Spec => []CommitOnPages
<1>1. ArenaInv => CommitOnPages
  BY DEF ArenaInv
<1>2. QED
  BY <1>1, ArenaInvariant, PTL

\* Popping to a saved position restores exactly the allocations of that moment.
THEOREM ArenaMarksRestore == Spec => []MarksRestore
<1>1. ArenaInv => MarksRestore
  BY DEF ArenaInv
<1>2. QED
  BY <1>1, ArenaInvariant, PTL

\* The committed prefix never shrinks.
THEOREM ArenaCommitGrows == Spec => CommitNeverShrinks
<1>1. ArenaInv /\ [Next]_vars => [commit' >= commit]_vars
  <2> SUFFICES ASSUME ArenaInv, Next PROVE commit' >= commit
    OBVIOUS
  <2>1. commit \in Nat /\ commit <= reserve /\ pos \in Nat
    BY DEF ArenaInv, TypeOK, BlocksUsable
  <2>2. ASSUME NEW size \in Sizes, NEW align \in Aligns, Push(size, align)
        PROVE  commit' >= commit
    <3>1. AlignUp(pos, align) + size \in Nat
      BY <2>1, AlignUpRange, ArenaAssumption
    <3>2. commit' \in Nat /\ commit <= commit'
      BY <2>1, <2>2, <3>1, CommitForRange DEF Push
    <3>3. QED
      BY <2>1, <3>2
  <2>3. QED
    BY <2>1, <2>2 DEF Next, SavePos, PopTo
<1>2. QED
  BY <1>1, ArenaInvariant, PTL DEF Spec, CommitNeverShrinks
============================================================================
