-------------------------- MODULE VarScopesProofs --------------------------
(* Proofs about VarScopes, for every arena, every alignment and size of a    *)
(* table, and every number of open scopes and of symbols in them.            *)
EXTENDS VarScopes, TLAPS

----------------------------------------------------------------------------
(* The arena *)

\* Rounding up never goes below the number it rounds.
LEMMA AlignUpRange ==
    ASSUME NEW n \in Nat, NEW a \in Nat \ {0}
    PROVE  VarArena!AlignUp(n, a) \in Nat /\ n <= VarArena!AlignUp(n, a)
<1>1. (n + a - 1) % a \in 0 .. a - 1
  <2>1. n + a - 1 \in Nat
    OBVIOUS
  <2>2. \A m \in Nat : m % a \in 0 .. a - 1
    OBVIOUS
  <2>3. QED
    BY <2>1, <2>2
<1>2. QED
  BY <1>1 DEF VarArena!AlignUp

\* The commit is a number, whatever is asked for.
LEMMA CommitRange ==
    /\ VarArena!initialCommit \in Nat
    /\ \A post \in Nat : commit \in Nat => VarArena!CommitFor(post) \in Nat
<1>1. VarArena!initialCommit \in Nat /\ VarArena!reserve \in Nat
  BY AlignUpRange, VarScopesAssumption DEF VarArena!initialCommit, VarArena!reserve
<1>2. ASSUME NEW post \in Nat, commit \in Nat
      PROVE  VarArena!CommitFor(post) \in Nat
  <2>1. VarArena!AlignUp(post, ProvidedCommit) \in Nat
    BY AlignUpRange, VarScopesAssumption
  <2>2. QED
    BY <1>1, <1>2, <2>1 DEF VarArena!CommitFor, VarArena!Smaller
<1>3. QED
  BY <1>1, <1>2

\* A block for a table lies behind the position.
LEMMA NewBlockRange ==
    ASSUME pos \in Nat, NEW room \in 1 .. Room + 2 * MaxSyms
    PROVE  /\ NewBlock(room) \in VarArena!Blocks
           /\ pos <= NewBlock(room).lo
           /\ NewBlock(room).hi = VarArena!AlignUp(pos, TableAlign) + TableSize(room)
           /\ NewBlock(room).lo <= NewBlock(room).hi
           /\ NewBlock(room).hi \in Nat
<1>1. TableSize(room) \in Nat
  BY VarScopesAssumption
<1>2. VarArena!AlignUp(pos, TableAlign) \in Nat /\ pos <= VarArena!AlignUp(pos, TableAlign)
  BY AlignUpRange, VarScopesAssumption
<1>3. QED
  BY <1>1, <1>2, VarScopesAssumption DEF NewBlock, VarArena!Block, VarArena!Blocks

----------------------------------------------------------------------------
(* The invariant *)

Tables == [room : 0 .. Room + 2 * MaxSyms, block : SUBSET VarArena!Blocks]
ScopeRecords == [syms : 0 .. MaxSyms, table : Tables, exposed : BOOLEAN]

\* Each scope has its records, and a table has room.
ScopesTyped ==
    /\ scopes \in Seq(ScopeRecords)
    /\ \A i \in DOMAIN scopes : scopes[i].table = NoTable \/ scopes[i].table.room > 0

\* Positions are saved in order, between the header and the position of the arena.
MarksOrdered ==
    /\ HeaderSize <= pos
    /\ \A i \in DOMAIN marks : HeaderSize <= marks[i].pos /\ marks[i].pos <= pos
    /\ \A i, j \in DOMAIN marks : i <= j => marks[i].pos <= marks[j].pos

\* A block that is live lies below the position.
LiveBelow == \A b \in live : b.hi <= pos

\* The table of a scope that is not exposed was made before the functions nested in it
\* were entered: it lies below the positions they saved.
TableBelow ==
    \A i \in Unexposed : \A b \in scopes[i].table.block :
        \A j \in DOMAIN marks : j > i => b.hi <= marks[j].pos

IInv == TypeOK /\ ScopesTyped /\ MarksOrdered /\ LiveBelow /\ TableBelow
        /\ TablesLive /\ TablesDisjoint

\* The types of the parts.
LEMMA Parts ==
    ASSUME IInv
    PROVE  /\ pos \in Nat /\ commit \in Nat /\ live \subseteq VarArena!Blocks
           /\ marks \in Seq(VarArena!Marks) /\ scopes \in Seq(ScopeRecords)
           /\ Len(scopes) \in Nat /\ Len(marks) = Len(scopes)
           /\ DOMAIN scopes = 1 .. Len(scopes) /\ DOMAIN marks = 1 .. Len(scopes)
           /\ \A i \in 1 .. Len(scopes) :
                /\ marks[i].pos \in Nat
                /\ scopes[i] \in ScopeRecords
                /\ scopes[i].table.block \subseteq VarArena!Blocks
           /\ \A b \in VarArena!Blocks : b.lo \in Nat /\ b.hi \in Nat
<1>1. pos \in Nat /\ commit \in Nat /\ live \subseteq VarArena!Blocks
      /\ marks \in Seq(VarArena!Marks) /\ scopes \in Seq(ScopeRecords) /\ Len(marks) = Len(scopes)
  BY DEF IInv, TypeOK, VarArena!TypeOK, ScopesTyped
<1>2. Len(scopes) \in Nat /\ DOMAIN scopes = 1 .. Len(scopes) /\ DOMAIN marks = 1 .. Len(scopes)
  BY <1>1
<1>3. ASSUME NEW i \in 1 .. Len(scopes)
      PROVE  marks[i].pos \in Nat /\ scopes[i] \in ScopeRecords
             /\ scopes[i].table.block \subseteq VarArena!Blocks
  <2>1. marks[i] \in VarArena!Marks /\ scopes[i] \in ScopeRecords
    BY <1>1, <1>2
  <2>2. QED
    BY <2>1 DEF VarArena!Marks, ScopeRecords, Tables
<1>4. QED
  BY <1>1, <1>2, <1>3 DEF VarArena!Blocks

\* A scope is opened without symbols and without a table.
LEMMA NewScopeTyped ==
    /\ NewScope \in ScopeRecords /\ NewScope.syms = 0
    /\ NewScope.table = NoTable /\ NoTable.block = {}
<1>1. NoTable \in Tables
  BY VarScopesAssumption DEF NoTable, Tables
<1>2. QED
  BY <1>1, VarScopesAssumption DEF NewScope, NoTable, ScopeRecords

\* Only the module's scope is open, and its table is the one block that lives.
LEMMA InitIInv == Init => IInv
<1> SUFFICES ASSUME Init PROVE IInv
  OBVIOUS
<1> DEFINE first == VarArena!Block(VarArena!AlignUp(HeaderSize, TableAlign),
                                   TableSize(MaxSyms), TableAlign)
           table == [room |-> MaxSyms, block |-> {first}]
           scope == [NewScope EXCEPT !.table = table]
           mark == [pos |-> HeaderSize, live |-> {}]
<1>1. TableSize(MaxSyms) \in Nat /\ MaxSyms \in 1 .. Room + 2 * MaxSyms
  BY VarScopesAssumption
<1>2. first \in VarArena!Blocks /\ HeaderSize <= first.hi /\ first.hi \in Nat
  <2>1. VarArena!AlignUp(HeaderSize, TableAlign) \in Nat
        /\ HeaderSize <= VarArena!AlignUp(HeaderSize, TableAlign)
    BY AlignUpRange, VarScopesAssumption
  <2>2. QED
    BY <1>1, <2>1, VarScopesAssumption DEF VarArena!Block, VarArena!Blocks
<1> HIDE DEF first
<1>3. marks = <<mark>> /\ pos = first.hi /\ commit = VarArena!initialCommit /\ trapped = FALSE
      /\ live = {first}
  BY DEF Init, first
<1>4. scopes = <<scope>>
  BY DEF Init, first, Table
<1>5. table \in Tables /\ table.room = MaxSyms /\ table.block = {first}
      /\ mark \in VarArena!Marks /\ mark.pos = HeaderSize
  BY <1>1, <1>2, VarScopesAssumption DEF Tables, VarArena!Marks
<1> HIDE DEF table, mark
<1>6. scope \in ScopeRecords /\ scope.syms = 0 /\ scope.table = table
  <2>1. NewScope \in ScopeRecords /\ NewScope.syms = 0
    BY NewScopeTyped
  <2>2. QED
    BY <1>5, <2>1 DEF ScopeRecords
<1> HIDE DEF scope
<1>7. scopes \in Seq(ScopeRecords) /\ marks \in Seq(VarArena!Marks) /\ Len(scopes) = 1
      /\ Len(marks) = 1 /\ scopes[1] = scope /\ marks[1] = mark
  BY <1>3, <1>4, <1>5, <1>6
<1>8. TypeOK
  <2>1. VarArena!TypeOK
    BY <1>2, <1>3, <1>7, CommitRange DEF VarArena!TypeOK
  <2>2. ASSUME NEW i \in DOMAIN scopes
        PROVE  /\ scopes[i].syms \in 0 .. MaxSyms
               /\ scopes[i].table # NoTable => scopes[i].syms <= scopes[i].table.room
    <3>1. i = 1
      BY <1>7
    <3>2. QED
      BY <3>1, <1>5, <1>6, <1>7, VarScopesAssumption
  <2>3. QED
    BY <1>7, <2>1, <2>2 DEF TypeOK
<1>9. ScopesTyped /\ MarksOrdered /\ LiveBelow /\ TableBelow
  BY <1>2, <1>3, <1>5, <1>6, <1>7, VarScopesAssumption
     DEF ScopesTyped, MarksOrdered, LiveBelow, TableBelow, Unexposed
<1>10. TablesLive /\ TablesDisjoint
  BY <1>3, <1>5, <1>6, <1>7 DEF TablesLive, TablesDisjoint, Unexposed
<1>11. QED
  BY <1>8, <1>9, <1>10 DEF IInv

\* What is left of a scope's record when it is exposed.
LEMMA ExposedScope ==
    ASSUME NEW s \in ScopeRecords, NEW r, r = [s EXCEPT !.exposed = TRUE]
    PROVE  r \in ScopeRecords /\ r.syms = s.syms /\ r.table = s.table /\ r.exposed
BY DEF ScopeRecords

\* A sequence with one element replaced.
LEMMA Replace ==
    ASSUME NEW S, NEW s \in Seq(S), NEW k \in 1 .. Len(s), NEW e \in S
    PROVE  /\ [s EXCEPT ![k] = e] \in Seq(S)
           /\ Len([s EXCEPT ![k] = e]) = Len(s)
           /\ DOMAIN [s EXCEPT ![k] = e] = 1 .. Len(s)
           /\ [s EXCEPT ![k] = e][k] = e
           /\ \A i \in 1 .. Len(s) : i # k => [s EXCEPT ![k] = e][i] = s[i]
OBVIOUS

----------------------------------------------------------------------------
(* The steps *)

\* enter_function: what lives lies below the position that is saved.
LEMMA EnterFunctionStep ==
    ASSUME IInv, EnterFunction
    PROVE  IInv'
<1> DEFINE n == Len(scopes)
           mark == [pos |-> pos, live |-> live]
<1>1. scopes' = Append(scopes, NewScope) /\ marks' = Append(marks, mark)
      /\ pos' = pos /\ live' = live /\ commit' = commit /\ trapped' = trapped
  BY DEF EnterFunction, VarArena!SavePos
<1>2. NewScope \in ScopeRecords /\ NewScope.syms = 0 /\ NewScope.table = NoTable
      /\ NoTable.block = {} /\ mark \in VarArena!Marks /\ mark.pos = pos
  BY NewScopeTyped, Parts DEF VarArena!Marks
<1> HIDE DEF mark
<1>3. n \in Nat /\ DOMAIN scopes = 1 .. n /\ DOMAIN marks = 1 .. n
  BY Parts
<1> HIDE DEF n
<1>4. /\ scopes' \in Seq(ScopeRecords) /\ marks' \in Seq(VarArena!Marks)
      /\ DOMAIN scopes' = 1 .. n + 1 /\ DOMAIN marks' = 1 .. n + 1
      /\ Len(scopes') = n + 1 /\ Len(marks') = n + 1
      /\ scopes'[n + 1] = NewScope /\ marks'[n + 1] = mark
      /\ \A i \in 1 .. n : scopes'[i] = scopes[i] /\ marks'[i] = marks[i]
  BY <1>1, <1>2, Parts DEF n
<1>5. TypeOK'
  <2>1. VarArena!TypeOK'
    BY <1>1, <1>4 DEF VarArena!TypeOK, IInv, TypeOK
  <2>2. ASSUME NEW i \in 1 .. n + 1
        PROVE  /\ scopes'[i].syms \in 0 .. MaxSyms
               /\ scopes'[i].table # NoTable => scopes'[i].syms <= scopes'[i].table.room
    <3>1. CASE i = n + 1
      BY <3>1, <1>2, <1>4, VarScopesAssumption
    <3>2. CASE i \in 1 .. n
      BY <3>2, <1>3, <1>4 DEF IInv, TypeOK
    <3>3. QED
      BY <3>1, <3>2, <1>3
  <2>3. QED
    BY <1>4, <2>1, <2>2 DEF TypeOK
<1>6. ScopesTyped'
  BY <1>2, <1>3, <1>4 DEF ScopesTyped, IInv
<1>7. MarksOrdered'
  <2>1. HeaderSize <= pos
    BY DEF IInv, MarksOrdered
  <2>2. ASSUME NEW i \in 1 .. n + 1
        PROVE  HeaderSize <= marks'[i].pos /\ marks'[i].pos <= pos /\ marks'[i].pos \in Nat
    <3>1. pos \in Nat
      BY Parts
    <3>2. CASE i = n + 1
      BY <3>1, <3>2, <1>2, <1>4, <2>1
    <3>3. CASE i \in 1 .. n
      <4>1. marks[i].pos \in Nat
        BY <3>3, Parts DEF n
      <4>2. QED
        BY <3>3, <4>1, <1>3, <1>4 DEF IInv, MarksOrdered
    <3>4. QED
      BY <3>2, <3>3, <1>3
  <2>3. ASSUME NEW i \in 1 .. n + 1, NEW j \in 1 .. n + 1, i <= j
        PROVE  marks'[i].pos <= marks'[j].pos
    <3>1. CASE j = n + 1
      BY <3>1, <1>2, <1>4, <2>2
    <3>2. CASE j \in 1 .. n
      BY <3>2, <2>3, <1>3, <1>4 DEF IInv, MarksOrdered
    <3>3. QED
      BY <3>1, <3>2, <1>3
  <2>4. QED
    BY <1>1, <1>4, <2>1, <2>2, <2>3 DEF MarksOrdered
<1>8. LiveBelow'
  BY <1>1 DEF LiveBelow, IInv
<1>9. ASSUME NEW i \in Unexposed'
      PROVE  \/ i \in Unexposed /\ i \in 1 .. n /\ scopes'[i] = scopes[i]
             \/ i = n + 1 /\ scopes'[i].table.block = {}
  BY <1>2, <1>3, <1>4, <1>9 DEF Unexposed
<1>10. TableBelow'
  <2> SUFFICES ASSUME NEW i \in Unexposed', NEW b \in scopes'[i].table.block,
                      NEW j \in 1 .. n + 1, j > i
               PROVE  b.hi <= marks'[j].pos
    BY <1>4 DEF TableBelow
  <2>1. i \in Unexposed /\ i \in 1 .. n /\ b \in scopes[i].table.block
    BY <1>9
  <2>2. CASE j \in 1 .. n
    BY <2>1, <2>2, <1>3, <1>4 DEF IInv, TableBelow
  <2>3. CASE j = n + 1
    BY <2>1, <2>3, <1>2, <1>4 DEF IInv, TablesLive, LiveBelow
  <2>4. QED
    BY <2>2, <2>3, <1>3
<1>11. TablesLive'
  BY <1>1, <1>9 DEF TablesLive, IInv
<1>12. TablesDisjoint'
  <2> SUFFICES ASSUME NEW i \in Unexposed', NEW j \in Unexposed', i # j,
                      NEW p \in scopes'[i].table.block, NEW q \in scopes'[j].table.block
               PROVE  p.hi <= q.lo \/ q.hi <= p.lo
    BY DEF TablesDisjoint, Disjoint
  <2>1. i \in Unexposed /\ j \in Unexposed /\ p \in scopes[i].table.block
        /\ q \in scopes[j].table.block
    BY <1>9
  <2>2. QED
    BY <2>1 DEF IInv, TablesDisjoint, Disjoint
<1>13. QED
  BY <1>5, <1>6, <1>7, <1>8, <1>10, <1>11, <1>12 DEF IInv

\* sym_new where the symbol fits: no table moves.
LEMMA SymNewFitsStep ==
    ASSUME IInv, SymNewFits
    PROVE  IInv'
<1> DEFINE n == Len(scopes)
<1>1. n \in Nat /\ n > 0 /\ DOMAIN scopes = 1 .. n /\ DOMAIN marks = 1 .. n
  BY Parts DEF SymNewFits
<1>2. scopes[n].syms < MaxSyms
      /\ (scopes[n].table = NoTable \/ scopes[n].syms < scopes[n].table.room)
  BY DEF SymNewFits, Top
<1>3. scopes' = [scopes EXCEPT ![n].syms = @ + 1]
      /\ pos' = pos /\ live' = live /\ commit' = commit /\ trapped' = trapped
      /\ marks' = marks
  BY DEF SymNewFits, arenaVars
<1> HIDE DEF n
<1>4. scopes[n] \in ScopeRecords /\ scopes[n].syms \in 0 .. MaxSyms
      /\ scopes[n].table \in Tables
  BY <1>1, Parts DEF ScopeRecords, n
<1> DEFINE top == [scopes[n] EXCEPT !.syms = @ + 1]
<1>5. top \in ScopeRecords /\ top.syms = scopes[n].syms + 1
      /\ top.table = scopes[n].table /\ top.exposed = scopes[n].exposed
  BY <1>2, <1>4, VarScopesAssumption DEF ScopeRecords
<1>6. scopes' = [scopes EXCEPT ![n] = top]
  BY <1>3
<1> HIDE DEF top
<1>7. scopes' \in Seq(ScopeRecords) /\ Len(scopes') = n /\ DOMAIN scopes' = 1 .. n
      /\ scopes'[n] = top /\ \A i \in 1 .. n : i # n => scopes'[i] = scopes[i]
  <2>1. scopes \in Seq(ScopeRecords) /\ n = Len(scopes) /\ n \in 1 .. Len(scopes)
    BY <1>1, Parts DEF n
  <2>2. QED
    BY ONLY <1>5, <1>6, <2>1, Replace
<1>8. \A i \in 1 .. n : scopes'[i].table = scopes[i].table
                       /\ scopes'[i].exposed = scopes[i].exposed
  BY <1>5, <1>7
<1>9. TypeOK'
  <2>1. VarArena!TypeOK' /\ Len(marks') = n
    BY <1>3 DEF VarArena!TypeOK, IInv, TypeOK, n
  <2>2. ASSUME NEW i \in 1 .. n
        PROVE  /\ scopes'[i].syms \in 0 .. MaxSyms
               /\ scopes'[i].table # NoTable => scopes'[i].syms <= scopes'[i].table.room
    <3>1. CASE i = n
      <4>1. scopes'[n].syms = scopes[n].syms + 1 /\ scopes'[n].table = scopes[n].table
        BY <1>5, <1>7
      <4>2. scopes[n].table.room \in Nat
        BY <1>4, VarScopesAssumption DEF Tables
      <4>3. QED
        BY <3>1, <4>1, <4>2, <1>2, <1>4, VarScopesAssumption
    <3>2. CASE i # n
      BY <3>2, <1>1, <1>7 DEF IInv, TypeOK
    <3>3. QED
      BY <3>1, <3>2
  <2>3. QED
    BY <1>7, <2>1, <2>2 DEF TypeOK
<1>10. ScopesTyped'
  BY <1>1, <1>7, <1>8 DEF ScopesTyped, IInv
<1>11. MarksOrdered' /\ LiveBelow'
  BY <1>3 DEF MarksOrdered, LiveBelow, IInv
<1>12. Unexposed' = Unexposed
  BY <1>1, <1>7, <1>8 DEF Unexposed
<1>13. \A i \in Unexposed : scopes'[i].table = scopes[i].table
  BY <1>1, <1>8 DEF Unexposed
<1>14. TableBelow' /\ TablesLive' /\ TablesDisjoint'
  BY <1>3, <1>12, <1>13 DEF TableBelow, TablesLive, TablesDisjoint, Disjoint, IInv
<1>15. QED
  BY <1>9, <1>10, <1>11, <1>14 DEF IInv

\* sym_new that makes a table: its block lies behind every block that lives.
LEMMA SymNewAllocatesStep ==
    ASSUME IInv, scopes # <<>>, Top(scopes).syms < MaxSyms,
           NEW room \in 1 .. Room + 2 * MaxSyms, Top(scopes).syms + 1 <= room,
           SymNewAllocates(room)
    PROVE  IInv'
<1> DEFINE n == Len(scopes)
           block == NewBlock(room)
           post == VarArena!AlignUp(pos, TableAlign) + TableSize(room)
<1>1. pos \in Nat /\ commit \in Nat
  BY Parts
<1>2. block \in VarArena!Blocks /\ pos <= block.lo /\ block.hi = post
      /\ block.lo <= block.hi /\ post \in Nat /\ block.lo \in Nat
  BY <1>1, NewBlockRange, Parts
<1>3. commit' = VarArena!CommitFor(post) /\ commit' \in Nat /\ marks' = marks /\ ~trapped
  BY <1>1, <1>2, CommitRange DEF SymNewAllocates, VarArena!Push
<1>4. CASE trapped'
  <2>1. pos' = pos /\ live' = live /\ trapped' = TRUE /\ scopes' = scopes
    BY <1>3, <1>4 DEF SymNewAllocates, VarArena!Push
  <2>2. TypeOK'
    BY <1>3, <2>1 DEF TypeOK, VarArena!TypeOK, IInv
  <2>3. Unexposed' = Unexposed
    BY <2>1 DEF Unexposed
  <2>4. QED
    BY <1>3, <2>1, <2>2, <2>3
       DEF IInv, ScopesTyped, MarksOrdered, LiveBelow, TableBelow, TablesLive,
           TablesDisjoint, Disjoint
<1>5. CASE ~trapped'
  <2>1. pos' = post /\ live' = live \cup {block} /\ trapped' = trapped
    BY <1>5 DEF SymNewAllocates, VarArena!Push, NewBlock
  <2>2. scopes' = [scopes EXCEPT ![n].syms = @ + 1, ![n].table = Table(room, block)]
    BY <1>5 DEF SymNewAllocates
  <2>3. n \in Nat /\ n > 0 /\ DOMAIN scopes = 1 .. n /\ DOMAIN marks = 1 .. n
        /\ scopes[n].syms < MaxSyms /\ scopes[n].syms + 1 <= room
    BY Parts DEF Top
  <2> DEFINE table == Table(room, block)
             top == [scopes[n] EXCEPT !.syms = @ + 1, !.table = table]
  <2> HIDE DEF block, post
  <2>4. table \in Tables /\ table.room = room /\ table.block = {block}
    BY <1>2, VarScopesAssumption DEF Table, Tables
  <2>5. scopes' = [scopes EXCEPT ![n] = top]
    BY <2>2, <2>3
  <2> HIDE DEF table
  <2>6. scopes[n] \in ScopeRecords /\ scopes[n].syms \in 0 .. MaxSyms
    BY <2>3, Parts DEF ScopeRecords, n
  <2> HIDE DEF n
  <2>7. top \in ScopeRecords /\ top.syms = scopes[n].syms + 1 /\ top.table = table
        /\ top.exposed = scopes[n].exposed
    <3>1. scopes[n].syms + 1 \in 0 .. MaxSyms
      BY <2>3, <2>6, VarScopesAssumption
    <3> DEFINE old == scopes[n]
               syms == old.syms + 1
    <3>2. top = [old EXCEPT !.syms = syms, !.table = table]
      OBVIOUS
    <3>3. old \in ScopeRecords /\ syms \in 0 .. MaxSyms /\ table \in Tables
      BY <2>4, <2>6, <3>1
    <3> HIDE DEF top, old, syms
    <3>4. top \in ScopeRecords /\ top.syms = syms /\ top.table = table
          /\ top.exposed = old.exposed
      BY ONLY <3>2, <3>3 DEF ScopeRecords
    <3>5. QED
      BY <3>4 DEF old, syms
  <2> HIDE DEF top
  <2>8. scopes' \in Seq(ScopeRecords) /\ Len(scopes') = n /\ DOMAIN scopes' = 1 .. n
        /\ scopes'[n] = top /\ \A i \in 1 .. n : i # n => scopes'[i] = scopes[i]
    <3>1. scopes \in Seq(ScopeRecords) /\ n = Len(scopes) /\ n \in 1 .. Len(scopes)
      BY <2>3, Parts DEF n
    <3>2. QED
      BY ONLY <2>5, <2>7, <3>1, Replace
  <2>9. TypeOK'
    <3>1. VarArena!TypeOK'
      BY <1>2, <1>3, <2>1 DEF VarArena!TypeOK, IInv, TypeOK
    <3>2. Len(marks') = n
      BY <1>3, Parts DEF n
    <3>3. ASSUME NEW i \in 1 .. n
          PROVE  /\ scopes'[i].syms \in 0 .. MaxSyms
                 /\ scopes'[i].table # NoTable => scopes'[i].syms <= scopes'[i].table.room
      <4>1. CASE i = n
        BY <4>1, <2>3, <2>4, <2>6, <2>7, <2>8, VarScopesAssumption
      <4>2. CASE i # n
        BY <4>2, <2>3, <2>8 DEF IInv, TypeOK
      <4>3. QED
        BY <4>1, <4>2
    <3>4. QED
      BY <2>8, <3>1, <3>2, <3>3 DEF TypeOK
  <2>10. ScopesTyped'
    <3>1. ASSUME NEW i \in 1 .. n
          PROVE  scopes'[i].table = NoTable \/ scopes'[i].table.room > 0
      BY <2>3, <2>4, <2>7, <2>8 DEF IInv, ScopesTyped
    <3>2. QED
      BY <2>8, <3>1 DEF ScopesTyped
  <2>11. pos <= pos' /\ pos' \in Nat
    BY <1>1, <1>2, <2>1
  <2>12. MarksOrdered'
    <3>1. HeaderSize \in Nat /\ HeaderSize <= pos /\ \A i \in DOMAIN marks :
            marks[i].pos \in Nat /\ HeaderSize <= marks[i].pos /\ marks[i].pos <= pos
      BY Parts, VarScopesAssumption DEF IInv, MarksOrdered
    <3>2. QED
      BY <1>1, <1>3, <2>11, <3>1 DEF MarksOrdered, IInv
  <2>13. LiveBelow'
    <3>1. \A b \in live : b.hi \in Nat /\ b.hi <= pos
      BY Parts DEF IInv, LiveBelow
    <3>2. QED
      BY <1>1, <1>2, <2>1, <2>11, <3>1 DEF LiveBelow
  <2>14. Unexposed' = Unexposed /\ Unexposed \subseteq 1 .. n
    <3>1. \A i \in 1 .. n : scopes'[i].exposed = scopes[i].exposed
      BY <2>7, <2>8
    <3>2. QED
      BY <2>3, <2>8, <3>1 DEF Unexposed
  <2>15. \A i \in Unexposed : \/ i = n /\ scopes'[i].table.block = {block}
                              \/ i # n /\ scopes'[i] = scopes[i]
    BY <2>4, <2>7, <2>8, <2>14
  <2>16. TableBelow'
    <3> SUFFICES ASSUME NEW i \in Unexposed, NEW b \in scopes'[i].table.block,
                        NEW j \in 1 .. n, j > i
                 PROVE  b.hi <= marks[j].pos
      BY <1>3, <2>3, <2>14 DEF TableBelow
    <3>1. i # n
      BY <2>3, <2>14
    <3>2. b \in scopes[i].table.block
      BY <3>1, <2>15
    <3>3. QED
      BY <2>3, <3>2 DEF IInv, TableBelow
  <2>17. TablesLive'
    BY <2>1, <2>14, <2>15 DEF TablesLive, IInv
  <2>18. TablesDisjoint'
    <3>1. ASSUME NEW i \in Unexposed, NEW p \in scopes[i].table.block
          PROVE  p.hi <= block.lo
      <4>1. p \in live /\ p.hi <= pos /\ p.hi \in Nat
        BY Parts DEF IInv, TablesLive, LiveBelow
      <4>2. QED
        BY <4>1, <1>1, <1>2
    <3> SUFFICES ASSUME NEW i \in Unexposed, NEW j \in Unexposed, i # j,
                        NEW p \in scopes'[i].table.block, NEW q \in scopes'[j].table.block
                 PROVE  p.hi <= q.lo \/ q.hi <= p.lo
      BY <2>14 DEF TablesDisjoint, Disjoint
    <3>2. CASE i = n
      BY <3>1, <3>2, <2>15
    <3>3. CASE j = n
      BY <3>1, <3>3, <2>15
    <3>4. CASE i # n /\ j # n
      BY <3>4, <2>15 DEF IInv, TablesDisjoint, Disjoint
    <3>5. QED
      BY <3>2, <3>3, <3>4
  <2>19. QED
    BY <2>9, <2>10, <2>12, <2>13, <2>16, <2>17, <2>18 DEF IInv
<1>6. QED
  BY <1>4, <1>5

\* The first table has room for the symbols that outgrew the flat array.
LEMMA SymNewRehashesStep ==
    ASSUME IInv, SymNewRehashes
    PROVE  IInv'
<1>1. Room \in 1 .. Room + 2 * MaxSyms /\ Top(scopes).syms + 1 <= Room
  BY VarScopesAssumption DEF SymNewRehashes
<1>2. QED
  BY <1>1, SymNewAllocatesStep DEF SymNewRehashes

\* A table that is full is not empty: twice its room is enough for one symbol more.
LEMMA SymNewGrowsStep ==
    ASSUME IInv, SymNewGrows
    PROVE  IInv'
<1> DEFINE n == Len(scopes)
<1>1. n \in DOMAIN scopes
  BY Parts DEF SymNewGrows
<1>2. scopes[n].table.room > 0 /\ scopes[n].syms = scopes[n].table.room
      /\ scopes[n].syms < MaxSyms /\ scopes[n].syms \in Nat
  BY <1>1 DEF SymNewGrows, Top, IInv, ScopesTyped, TypeOK
<1> DEFINE room == 2 * scopes[n].table.room
<1>3. room \in 1 .. Room + 2 * MaxSyms /\ scopes[n].syms + 1 <= room
  <2>1. /\ scopes[n].table.room \in Nat \ {0} /\ scopes[n].table.room < MaxSyms
        /\ Room \in Nat /\ MaxSyms \in Nat
    BY <1>2, VarScopesAssumption
  <2>2. QED
    BY <1>2, <2>1
<1>4. SymNewAllocates(room) /\ scopes # <<>>
  BY DEF SymNewGrows, Top
<1> HIDE DEF room
<1>5. QED
  BY <1>2, <1>3, <1>4, SymNewAllocatesStep DEF Top

\* leave_scope pops to where the scope that is left began, or, when it was nested, to
\* where the function around it began, whose own table is exposed then.
LEMMA LeaveStep ==
    ASSUME IInv, Leave
    PROVE  IInv'
<1> DEFINE n == Len(scopes)
           last == n - 1
<1>1. n \in Nat /\ n > 0 /\ DOMAIN scopes = 1 .. n /\ DOMAIN marks = 1 .. n
      /\ marks \in Seq(VarArena!Marks) /\ Len(marks) = n /\ scopes \in Seq(ScopeRecords)
  BY Parts DEF Leave
<1>2. PICK m \in 1 .. n : /\ m = LeaveMark
                          /\ pos' = VarArena!PopTarget(marks[m].pos)
                          /\ last <= m /\ (m = last => last > 1)
  BY <1>1 DEF Leave, LeaveMark
<1>3. pos \in Nat /\ marks[m].pos \in Nat /\ HeaderSize \in Nat
      /\ HeaderSize <= marks[m].pos /\ marks[m].pos <= pos
  BY <1>1, Parts, VarScopesAssumption DEF IInv, MarksOrdered
<1>4. pos' = marks[m].pos
  BY <1>2, <1>3 DEF VarArena!PopTarget, VarArena!Larger
<1>5. live' = {b \in live : b.hi <= pos'} /\ marks' = SubSeq(marks, 1, last)
      /\ commit' = commit /\ trapped' = trapped
  BY <1>1 DEF Leave
<1> DEFINE stays(i) == IF i > 1 /\ i = last THEN [scopes[i] EXCEPT !.exposed = TRUE]
                                            ELSE scopes[i]
<1>6. scopes' = [i \in 1 .. last |-> stays(i)]
  BY DEF Leave
<1> HIDE DEF n
<1>7. last \in Nat
  BY <1>1
<1>8. /\ marks' \in Seq(VarArena!Marks) /\ Len(marks') = last /\ DOMAIN marks' = 1 .. last
      /\ \A i \in 1 .. last : marks'[i] = marks[i]
  BY <1>1, <1>5, <1>7
<1>9. ASSUME NEW i \in 1 .. last
      PROVE  /\ stays(i) \in ScopeRecords /\ stays(i).syms = scopes[i].syms
             /\ stays(i).table = scopes[i].table
             /\ (i > 1 /\ i = last => stays(i).exposed)
             /\ (i = 1 \/ i # last => stays(i) = scopes[i])
  <2>1. i \in 1 .. n /\ scopes[i] \in ScopeRecords
    BY <1>1, <1>7
  <2>2. CASE i > 1 /\ i = last
    <3>1. stays(i) = [scopes[i] EXCEPT !.exposed = TRUE]
      BY <2>2
    <3> HIDE DEF stays
    <3>2. QED
      BY <2>1, <2>2, <3>1, <1>7, ExposedScope
  <2>3. CASE ~(i > 1 /\ i = last)
    <3>1. stays(i) = scopes[i]
      BY <2>3
    <3> HIDE DEF stays
    <3>2. QED
      BY <2>1, <2>3, <3>1, <1>7
  <2>4. QED
    BY <2>2, <2>3
<1> HIDE DEF stays
<1>10. /\ scopes' \in Seq(ScopeRecords) /\ Len(scopes') = last /\ DOMAIN scopes' = 1 .. last
       /\ \A i \in 1 .. last : scopes'[i] = stays(i)
  BY <1>6, <1>7, <1>9
<1> HIDE DEF last
<1>11. 1 .. last \subseteq 1 .. n
  BY <1>1, <1>7 DEF last
<1>12. TypeOK'
  <2>1. VarArena!TypeOK'
    BY <1>3, <1>4, <1>5, <1>8 DEF VarArena!TypeOK, IInv, TypeOK
  <2>2. ASSUME NEW i \in 1 .. last
        PROVE  /\ scopes'[i].syms \in 0 .. MaxSyms
               /\ scopes'[i].table # NoTable => scopes'[i].syms <= scopes'[i].table.room
    BY <1>1, <1>9, <1>10, <1>11 DEF IInv, TypeOK
  <2>3. QED
    BY <1>8, <1>10, <2>1, <2>2 DEF TypeOK
<1>13. ScopesTyped'
  BY <1>1, <1>9, <1>10, <1>11 DEF ScopesTyped, IInv
<1>14. MarksOrdered'
  <2>1. ASSUME NEW i \in 1 .. last
        PROVE  HeaderSize <= marks'[i].pos /\ marks'[i].pos <= pos'
    <3>1. i <= m /\ i \in 1 .. n
      BY <1>2, <1>7, <1>11
    <3>2. QED
      BY <3>1, <1>1, <1>4, <1>8 DEF IInv, MarksOrdered
  <2>2. ASSUME NEW i \in 1 .. last, NEW j \in 1 .. last, i <= j
        PROVE  marks'[i].pos <= marks'[j].pos
    BY <2>2, <1>1, <1>8, <1>11 DEF IInv, MarksOrdered
  <2>3. QED
    BY <1>3, <1>4, <1>8, <2>1, <2>2 DEF MarksOrdered
<1>15. LiveBelow'
  BY <1>5 DEF LiveBelow
<1>16. ASSUME NEW i \in Unexposed'
       PROVE  /\ i \in 1 .. last /\ i \in Unexposed /\ i < m
              /\ scopes'[i].table = scopes[i].table
  <2>1. i \in 1 .. last /\ ~scopes'[i].exposed
    BY <1>10 DEF Unexposed
  <2>2. i = 1 \/ i # last
    BY <2>1, <1>9, <1>10
  <2>3. scopes'[i] = scopes[i] /\ i \in 1 .. n
    BY <2>1, <2>2, <1>9, <1>10, <1>11
  <2>4. i < m
    BY <2>1, <2>2, <1>2, <1>7
  <2>5. QED
    BY <2>1, <2>3, <2>4, <1>1 DEF Unexposed
<1>17. TableBelow'
  BY <1>1, <1>8, <1>11, <1>16 DEF TableBelow, IInv
<1>18. TablesLive'
  <2> SUFFICES ASSUME NEW i \in Unexposed', NEW b \in scopes'[i].table.block
               PROVE  b \in live'
    BY DEF TablesLive
  <2>1. i \in Unexposed /\ b \in scopes[i].table.block /\ i < m
    BY <1>16
  <2>2. b \in live /\ b.hi <= marks[m].pos
    BY <2>1, <1>1 DEF IInv, TablesLive, TableBelow
  <2>3. QED
    BY <2>2, <1>4, <1>5
<1>19. TablesDisjoint'
  BY <1>16 DEF TablesDisjoint, Disjoint, IInv
<1>20. QED
  BY <1>12, <1>13, <1>14, <1>15, <1>17, <1>18, <1>19 DEF IInv

----------------------------------------------------------------------------
(* The theorems *)

\* Whatever is called and returned from, and wherever the tables grow, a scope that no
\* nested function has been left in keeps its table below the positions saved after it.
THEOREM VarScopesInvariant == Spec => []IInv
<1>1. IInv /\ [Next]_vars => IInv'
  <2> SUFFICES ASSUME IInv, [Next]_vars PROVE IInv'
    OBVIOUS
  <2>1. CASE UNCHANGED vars
    <3>1. pos' = pos /\ commit' = commit /\ trapped' = trapped /\ live' = live
          /\ marks' = marks /\ scopes' = scopes
      BY <2>1 DEF vars
    <3>2. Unexposed' = Unexposed
      BY <3>1 DEF Unexposed
    <3>3. QED
      BY <3>1, <3>2
         DEF IInv, TypeOK, VarArena!TypeOK, ScopesTyped, MarksOrdered, LiveBelow, TableBelow,
             TablesLive, TablesDisjoint, Disjoint
  <2>2. QED
    BY <2>1, EnterFunctionStep, SymNewFitsStep, SymNewRehashesStep, SymNewGrowsStep, LeaveStep
       DEF Next
<1>2. QED
  BY <1>1, InitIInv, PTL DEF Spec

\* The positions and the open scopes stay in step, and no scope has more symbols than
\* its table has room for.
THEOREM VarScopesTypeCorrect == Spec => []TypeOK
<1>1. IInv => TypeOK
  BY DEF IInv
<1>2. QED
  BY <1>1, VarScopesInvariant, PTL

\* leave_scope never gives back the memory of a table that a scope still uses, as long
\* as no function nested in the scope has been left.
THEOREM VarScopesTablesLive == Spec => []TablesLive
<1>1. IInv => TablesLive
  BY DEF IInv
<1>2. QED
  BY <1>1, VarScopesInvariant, PTL

\* Nor do the tables of two such scopes share memory.
THEOREM VarScopesTablesDisjoint == Spec => []TablesDisjoint
<1>1. IInv => TablesDisjoint
  BY DEF IInv
<1>2. QED
  BY <1>1, VarScopesInvariant, PTL
============================================================================
