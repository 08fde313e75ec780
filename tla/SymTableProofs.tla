--------------------------- MODULE SymTableProofs ---------------------------
(* Proofs about SymTable, for every set of names, every length of the flat  *)
(* array and every number of declarations.                                  *)
EXTENDS SymTable, WellFoundedInduction, TLAPS

----------------------------------------------------------------------------
(* The ends of a set of numbers *)

\* A set of natural numbers that has one has a least one.
LEMMA Least ==
    ASSUME NEW S, S \subseteq Nat, S # {}
    PROVE  \E m \in S : \A k \in S : m <= k
<1>1. PICK R : IsWellFoundedOn(R, Nat) /\ \A k, m \in Nat : k < m => <<k, m>> \in R
  BY NatLessThanWellFounded DEF OpToRel
<1>2. IsWellFoundedOn(R, Nat)
  BY <1>1
<1>3. \E m \in S : \A k \in S : ~ (<<k, m>> \in R)
  BY <1>2, WFMin, Zenon
<1>4. PICK m \in S : \A k \in S : ~ (<<k, m>> \in R)
  BY <1>3
<1>5. \A k \in S : k \in Nat /\ m \in Nat /\ ~(k < m)
  BY <1>1, <1>4
<1>6. \A k \in S : m <= k
  BY <1>5
<1>7. QED
  BY <1>6

\* A set of numbers below a bound that has one has a greatest one.
LEMMA Greatest ==
    ASSUME NEW n \in Nat, NEW S, S \subseteq 1 .. n, S # {}
    PROVE  \E m \in S : \A k \in S : k <= m
<1> DEFINE T == {n - k : k \in S}
<1>1. T \subseteq Nat /\ T # {}
  <2>1. PICK k \in S : TRUE
    OBVIOUS
  <2>2. n - k \in T
    OBVIOUS
  <2>3. ASSUME NEW j \in S PROVE n - j \in Nat
    OBVIOUS
  <2>4. QED
    BY <2>2, <2>3
<1>2. PICK t \in T : \A k \in T : t <= k
  <2> HIDE DEF T
  <2>1. QED
    BY <1>1, Least
<1>3. PICK m \in S : t = n - m
  BY <1>2
<1>4. \A k \in S : n - m <= n - k /\ k \in Int /\ m \in Int
  BY <1>2, <1>3
<1>5. QED
  BY <1>4

----------------------------------------------------------------------------
(* The invariant *)

\* The parts of a symbol.
LEMMA SymFields ==
    ASSUME NEW type, NEW ref
    PROVE  /\ Sym(type, ref).type = type /\ Sym(type, ref).ref = ref
           /\ \A t, r : Sym(type, ref) = Sym(t, r) => type = t /\ ref = r
BY DEF Sym

\* The array holds a faithful symbol for each declaration, in their order, and the
\* table is empty until the array is moved.
ArrayFaithful ==
    \/ /\ ~isFullDict
       /\ Len(flat) = count
       /\ \A d \in 1 .. count : flat[d] = [name |-> owner[d], sym |-> Sym(d, d)]
       /\ symDict = EmptyDict
    \/ isFullDict /\ flat = << >>

\* The table knows the names that were declared, each by declarations of its own.
TableOwn ==
    isFullDict =>
        \A n \in Names :
            \/ Mine(n) = {} /\ symDict[n] = NoSym
            \/ symDict[n].type \in Mine(n) /\ symDict[n].ref \in Mine(n)

\* No name in the table has been declared twice, unless that is allowed.
TableOnce ==
    isFullDict /\ ~Redeclare =>
        \A n \in Names : \A d, e \in Mine(n) : d = e

IInv == TypeOK /\ ArrayFaithful /\ TableOwn /\ TableOnce

\* The declarations of a name in the array are the places it has there.
LEMMA ArrayPlaces ==
    ASSUME IInv, ~isFullDict, NEW n \in Names
    PROVE  /\ {i \in DOMAIN flat : flat[i].name = n} = Mine(n)
           /\ Mine(n) \subseteq 1 .. count
           /\ count \in Nat
           /\ \A d \in Mine(n) : flat[d].sym = Sym(d, d)
<1>1. DOMAIN flat = 1 .. count /\ DOMAIN owner = 1 .. count /\ count \in Nat
  BY DEF IInv, TypeOK, ArrayFaithful
<1>2. \A d \in 1 .. count : flat[d].name = owner[d] /\ flat[d].sym = Sym(d, d)
  <2> SUFFICES ASSUME NEW d \in 1 .. count
               PROVE  flat[d].name = owner[d] /\ flat[d].sym = Sym(d, d)
    OBVIOUS
  <2>1. flat[d] = [name |-> owner[d], sym |-> Sym(d, d)]
    BY DEF IInv, ArrayFaithful
  <2>2. QED
    BY <2>1
<1>3. QED
  BY <1>1, <1>2 DEF Mine

\* What the array says of a name: its last declaration.
LEMMA ArrayFind ==
    ASSUME IInv, ~isFullDict, NEW n \in Names
    PROVE  \/ Mine(n) = {} /\ Find(n) = NoSym
           \/ \E d \in Mine(n) : Find(n) = Sym(d, d) /\ \A e \in Mine(n) : e <= d
<1>1. CASE Mine(n) = {}
  BY <1>1, ArrayPlaces DEF Find
<1>2. CASE Mine(n) # {}
  <2> DEFINE last == CHOOSE i \in Mine(n) : \A j \in Mine(n) : j <= i
  <2>1. \E i \in Mine(n) : \A j \in Mine(n) : j <= i
    BY <1>2, ArrayPlaces, Greatest
  <2>2. last \in Mine(n) /\ \A j \in Mine(n) : j <= last
    BY <2>1
  <2>3. Find(n) = flat[last].sym
    BY <1>2, ArrayPlaces DEF Find
  <2>4. QED
    BY <2>2, <2>3, ArrayPlaces
<1>3. QED
  BY <1>1, <1>2

\* What the table would say of it: its first declaration.
LEMMA RehashedFirst ==
    ASSUME IInv, ~isFullDict, NEW n \in Names
    PROVE  \/ Mine(n) = {} /\ Rehashed[n] = NoSym
           \/ \E d \in Mine(n) : Rehashed[n] = Sym(d, d) /\ \A e \in Mine(n) : d <= e
<1>1. CASE Mine(n) = {}
  BY <1>1, ArrayPlaces DEF Rehashed
<1>2. CASE Mine(n) # {}
  <2> DEFINE first == CHOOSE i \in Mine(n) : \A j \in Mine(n) : i <= j
  <2>1. Mine(n) \subseteq Nat
    BY ArrayPlaces
  <2>2. \E i \in Mine(n) : \A j \in Mine(n) : i <= j
    BY <1>2, <2>1, Least
  <2>3. first \in Mine(n) /\ \A j \in Mine(n) : first <= j
    BY <2>2
  <2>4. Rehashed[n] = flat[first].sym
    BY <1>2, ArrayPlaces DEF Rehashed
  <2>5. QED
    BY <2>3, <2>4, ArrayPlaces
<1>3. QED
  BY <1>1, <1>2

----------------------------------------------------------------------------
(* Declarations *)

LEMMA InitIInv == Init => IInv
<1> SUFFICES ASSUME Init PROVE IInv
  OBVIOUS
<1>1. \A n \in Names : Mine(n) = {}
  BY DEF Init, Mine
<1>2. TypeOK
  BY SymTableAssumption DEF Init, TypeOK, EmptyDict, NoSym, Sym, Syms, NoDecl
<1>3. ArrayFaithful /\ TableOwn /\ TableOnce
  BY <1>1 DEF Init, ArrayFaithful, TableOwn, TableOnce, EmptyDict
<1>4. QED
  BY <1>2, <1>3 DEF IInv

\* A declaration joins those of its name.
LEMMA MineGrows ==
    ASSUME IInv, NEW m \in Names, SymNew(m), NEW n \in Names
    PROVE  /\ Mine(n)' = IF n = m THEN Mine(n) \cup {count + 1} ELSE Mine(n)
           /\ Mine(n) \subseteq 1 .. count
           /\ count \in Nat
           /\ count + 1 \in Decls
<1>1. owner \in Seq(Names) /\ Len(owner) = count /\ count \in 0 .. MaxDecls
  BY DEF IInv, TypeOK
<1>2. owner' = Append(owner, m) /\ count < MaxDecls
  BY DEF SymNew
<1>3. DOMAIN owner = 1 .. count /\ DOMAIN owner' = 1 .. count + 1
  BY <1>1, <1>2
<1>4. owner'[count + 1] = m /\ \A d \in 1 .. count : owner'[d] = owner[d]
  BY <1>1, <1>2
<1>5. QED
  BY <1>1, <1>2, <1>3, <1>4, SymTableAssumption DEF Mine, Decls

\* What is in the table of a name that is found, or has just been moved into it, is kept
\* apart from what the insertion of a name does.
LEMMA InsertedOwn ==
    ASSUME NEW dict \in [Names -> Syms], NEW m \in Names, NEW d \in Decls
    PROVE  /\ WithRef(Inserted(dict, m, Sym(d, NoDecl)), m, d) \in [Names -> Syms]
           /\ \A n \in Names \ {m} :
                WithRef(Inserted(dict, m, Sym(d, NoDecl)), m, d)[n] = dict[n]
           /\ WithRef(Inserted(dict, m, Sym(d, NoDecl)), m, d)[m] =
                IF dict[m] = NoSym THEN Sym(d, d) ELSE Sym(dict[m].type, d)
<1> DEFINE new == Sym(d, NoDecl)
<1>1. new \in Syms
  BY DEF Sym, Syms
<1>2. CASE dict[m] = NoSym
  <2>1. Inserted(dict, m, new) = [dict EXCEPT ![m] = new]
    BY <1>2 DEF Inserted
  <2>2. Inserted(dict, m, new) \in [Names -> Syms] /\ Inserted(dict, m, new)[m] = new
    BY <2>1, <1>1
  <2>3. QED
    BY <1>2, <2>1, <2>2 DEF WithRef, Sym, Syms
<1>3. CASE dict[m] # NoSym
  <2>1. Inserted(dict, m, new) = dict
    BY <1>3 DEF Inserted
  <2>2. QED
    BY <1>3, <2>1 DEF WithRef, Sym, Syms
<1>4. QED
  BY <1>2, <1>3

\* The table the array is moved into says of each name what it says of it at first.
LEMMA RehashedType ==
    ASSUME IInv, ~isFullDict
    PROVE  Rehashed \in [Names -> Syms]
<1>1. \A n \in Names : Rehashed[n] \in Syms
  <2> SUFFICES ASSUME NEW n \in Names PROVE Rehashed[n] \in Syms
    OBVIOUS
  <2>1. CASE Mine(n) = {} /\ Rehashed[n] = NoSym
    BY <2>1 DEF NoSym, Sym, Syms
  <2>2. CASE \E d \in Mine(n) : Rehashed[n] = Sym(d, d) /\ \A e \in Mine(n) : d <= e
    <3>1. Mine(n) \subseteq 1 .. count
      BY ArrayPlaces
    <3>2. count \in 0 .. MaxDecls
      BY DEF IInv, TypeOK
    <3>3. Mine(n) \subseteq Decls
      BY <3>1, <3>2, SymTableAssumption DEF Decls
    <3>4. QED
      BY <2>2, <3>3 DEF Sym, Syms
  <2>3. QED
    BY <2>1, <2>2, RehashedFirst
<1>2. QED
  BY <1>1 DEF Rehashed

\* A declaration in the array, and one in the table that it is moved into first or that
\* was there already.
InArray(m) ==
    /\ ~isFullDict /\ ~Full
    /\ flat' = Append(flat, [name |-> m, sym |-> Sym(count + 1, count + 1)])
    /\ UNCHANGED <<isFullDict, symDict>>

InTable(m, dict) ==
    /\ isFullDict' /\ flat' = << >>
    /\ symDict' = WithRef(Inserted(dict, m, Sym(count + 1, NoDecl)), m, count + 1)

\* What sym_new does is one of these, and the table has of each name a declaration of its
\* own, the only one where names are not declared again.
LEMMA SymNewCases ==
    ASSUME IInv, NEW m \in Names, SymNew(m)
    PROVE  \/ InArray(m)
           \/ \E dict \in [Names -> Syms] :
                /\ InTable(m, dict)
                /\ \A n \in Names :
                     \/ Mine(n) = {} /\ dict[n] = NoSym
                     \/ dict[n].type \in Mine(n) /\ dict[n].ref \in Mine(n)
                /\ ~Redeclare => /\ Find(m) = NoSym /\ dict[m] = NoSym
                                 /\ \A n \in Names : \A d, e \in Mine(n) : d = e
                                 /\ \A n \in Names : Find(n) = dict[n]
<1>1. CASE ~isFullDict /\ ~Full
  BY <1>1 DEF SymNew, InArray
<1>2. CASE ~isFullDict /\ Full
  <2>1. InTable(m, Rehashed) /\ Rehashed \in [Names -> Syms]
    BY <1>2, RehashedType DEF SymNew, InTable
  <2>2. ASSUME NEW n \in Names
        PROVE  \/ Mine(n) = {} /\ Rehashed[n] = NoSym
               \/ Rehashed[n].type \in Mine(n) /\ Rehashed[n].ref \in Mine(n)
    <3>1. CASE Mine(n) = {} /\ Rehashed[n] = NoSym
      BY <3>1
    <3>2. ASSUME NEW d \in Mine(n), Rehashed[n] = Sym(d, d)
          PROVE  Rehashed[n].type \in Mine(n) /\ Rehashed[n].ref \in Mine(n)
      BY <3>2, SymFields
    <3>3. QED
      BY <1>2, <3>1, <3>2, RehashedFirst
  <2>3. ASSUME ~Redeclare
        PROVE  /\ Find(m) = NoSym
               /\ \A n \in Names : \A d, e \in Mine(n) : d = e
               /\ \A n \in Names : Find(n) = Rehashed[n]
    <3>1. Find(m) = NoSym /\ \A i, j \in DOMAIN flat : flat[i].name = flat[j].name => i = j
      BY <1>2, <2>3 DEF SymNew, MovesOnce
    <3>2. \A n \in Names : \A d, e \in Mine(n) : d = e
      BY <1>2, <3>1, ArrayPlaces
    <3>3. ASSUME NEW n \in Names PROVE Find(n) = Rehashed[n]
      BY <1>2, <3>2, ArrayFind, RehashedFirst
    <3>4. QED
      BY <3>1, <3>2, <3>3
  <2>4. QED
    BY <2>1, <2>2, <2>3
<1>3. CASE isFullDict
  <2>1. InTable(m, symDict) /\ symDict \in [Names -> Syms]
    BY <1>3 DEF SymNew, InTable, IInv, TypeOK, ArrayFaithful
  <2>2. \A n \in Names :
            \/ Mine(n) = {} /\ symDict[n] = NoSym
            \/ symDict[n].type \in Mine(n) /\ symDict[n].ref \in Mine(n)
    BY <1>3 DEF IInv, TableOwn
  <2>3. \A n \in Names : Find(n) = symDict[n]
    BY <1>3 DEF Find
  <2>4. ~Redeclare => Find(m) = NoSym /\ \A n \in Names : \A d, e \in Mine(n) : d = e
    BY <1>3 DEF SymNew, MovesOnce, IInv, TableOnce
  <2>5. QED
    BY <2>1, <2>2, <2>3, <2>4
<1>4. QED
  BY <1>1, <1>2, <1>3 DEF IInv, TypeOK

LEMMA StepTypeOK ==
    ASSUME IInv, NEW m \in Names, SymNew(m)
    PROVE  TypeOK'
<1>1. count' = count + 1 /\ owner' = Append(owner, m) /\ count < MaxDecls
  BY DEF SymNew
<1>2. count' \in 0 .. MaxDecls /\ owner' \in Seq(Names) /\ Len(owner') = count'
  BY <1>1, SymTableAssumption DEF IInv, TypeOK
<1>3. Sym(count + 1, count + 1) \in Syms
  BY MineGrows DEF Sym, Syms
<1>4. CASE InArray(m)
  <2>1. Len(flat) < FlatSize /\ flat \in Seq([name : Names, sym : Syms])
    BY <1>4, SymTableAssumption DEF InArray, Full, IInv, TypeOK
  <2>2. [name |-> m, sym |-> Sym(count + 1, count + 1)] \in [name : Names, sym : Syms]
    BY <1>3
  <2>3. flat' \in Seq([name : Names, sym : Syms]) /\ Len(flat') <= FlatSize
    BY <1>4, <2>1, <2>2, SymTableAssumption DEF InArray
  <2>4. QED
    BY <1>2, <1>4, <2>3 DEF InArray, IInv, TypeOK
<1>5. ASSUME NEW dict \in [Names -> Syms], InTable(m, dict)
      PROVE  TypeOK'
  <2>1. symDict' \in [Names -> Syms]
    BY <1>5, MineGrows, InsertedOwn DEF InTable
  <2>2. QED
    BY <1>2, <1>5, <2>1, SymTableAssumption DEF InTable, TypeOK
<1>6. QED
  BY <1>4, <1>5, SymNewCases

LEMMA StepIInv ==
    ASSUME IInv, [Next]_vars
    PROVE  IInv'
<1>1. CASE UNCHANGED vars
  BY <1>1 DEF vars, IInv, TypeOK, ArrayFaithful, TableOwn, TableOnce, Mine
<1>2. ASSUME NEW m \in Names, SymNew(m)
      PROVE  IInv'
  <2>1. TypeOK'
    BY <1>2, StepTypeOK
  <2>2. CASE InArray(m)
    <3>1. flat \in Seq([name : Names, sym : Syms]) /\ Len(flat) = count /\ symDict = EmptyDict
          /\ owner \in Seq(Names) /\ Len(owner) = count /\ count \in Nat
      BY <2>2, SymTableAssumption DEF InArray, IInv, TypeOK, ArrayFaithful
    <3>2. \A d \in 1 .. count : flat[d] = [name |-> owner[d], sym |-> Sym(d, d)]
      BY <2>2 DEF InArray, IInv, ArrayFaithful
    <3>3. count' = count + 1 /\ owner' = Append(owner, m)
          /\ flat' = Append(flat, [name |-> m, sym |-> Sym(count + 1, count + 1)])
          /\ ~isFullDict' /\ symDict' = EmptyDict
      BY <1>2, <2>2, <3>1 DEF SymNew, InArray
    <3>4. Len(flat') = count'
      BY <3>1, <3>3
    <3>5. \A d \in 1 .. count' : flat'[d] = [name |-> owner'[d], sym |-> Sym(d, d)]
      <4> SUFFICES ASSUME NEW d \in 1 .. count + 1
                   PROVE  flat'[d] = [name |-> owner'[d], sym |-> Sym(d, d)]
        BY <3>3
      <4>1. CASE d = count + 1
        BY <3>1, <3>3, <4>1
      <4>2. CASE d \in 1 .. count
        <5>1. flat'[d] = flat[d] /\ owner'[d] = owner[d]
          BY <3>1, <3>3, <4>2
        <5>2. QED
          BY <3>2, <4>2, <5>1
      <4>3. QED
        BY <3>1, <4>1, <4>2
    <3>6. EmptyDict' = EmptyDict
      BY DEF EmptyDict, NoSym, Sym
    <3>7. QED
      BY <2>1, <3>3, <3>4, <3>5, <3>6 DEF IInv, ArrayFaithful, TableOwn, TableOnce
  <2>3. ASSUME NEW dict \in [Names -> Syms], InTable(m, dict),
               \A n \in Names :
                    \/ Mine(n) = {} /\ dict[n] = NoSym
                    \/ dict[n].type \in Mine(n) /\ dict[n].ref \in Mine(n),
               ~Redeclare => /\ dict[m] = NoSym
                             /\ \A n \in Names : \A d, e \in Mine(n) : d = e
        PROVE  IInv'
    <3>1. symDict' = WithRef(Inserted(dict, m, Sym(count + 1, NoDecl)), m, count + 1)
      BY <2>3 DEF InTable
    <3>2. TableOwn'
      <4> SUFFICES ASSUME NEW n \in Names
                   PROVE  \/ Mine(n)' = {} /\ symDict'[n] = NoSym
                          \/ symDict'[n].type \in Mine(n)' /\ symDict'[n].ref \in Mine(n)'
        BY DEF TableOwn, NoSym
      <4>1. CASE n # m
        <5>1. symDict'[n] = dict[n] /\ Mine(n)' = Mine(n)
          BY <1>2, <3>1, <4>1, MineGrows, InsertedOwn
        <5>2. QED
          BY <2>3, <5>1
      <4>2. CASE n = m
        <5>1. Mine(m)' = Mine(m) \cup {count + 1}
          BY <1>2, MineGrows
        <5>2. CASE dict[m] = NoSym
          <6>1. symDict'[m] = Sym(count + 1, count + 1)
            BY <1>2, <3>1, <5>2, MineGrows, InsertedOwn
          <6>2. QED
            BY <4>2, <5>1, <6>1, SymFields
        <5>3. CASE dict[m] # NoSym
          <6>1. symDict'[m] = Sym(dict[m].type, count + 1) /\ dict[m].type \in Mine(m)
            BY <1>2, <2>3, <3>1, <5>3, MineGrows, InsertedOwn
          <6>2. QED
            BY <4>2, <5>1, <6>1, SymFields
        <5>4. QED
          BY <5>2, <5>3
      <4>3. QED
        BY <4>1, <4>2
    <3>3. TableOnce'
      <4> SUFFICES ASSUME ~Redeclare, NEW n \in Names
                   PROVE  \A d, e \in Mine(n)' : d = e
        BY DEF TableOnce
      <4>1. Mine(m) = {}
        <5>1. NoSym.type = 0
          BY SymFields DEF NoSym, NoDecl
        <5>2. 0 \notin Mine(m)
          BY <1>2, MineGrows
        <5>3. QED
          BY <2>3, <5>1, <5>2
      <4>2. Mine(n)' = IF n = m THEN {count + 1} ELSE Mine(n)
        BY <1>2, <4>1, MineGrows
      <4>3. QED
        BY <2>3, <4>2
    <3>4. QED
      BY <2>1, <2>3, <3>2, <3>3 DEF IInv, ArrayFaithful, InTable
  <2>4. QED
    BY <1>2, <2>2, <2>3, SymNewCases
<1>3. QED
  BY <1>1, <1>2 DEF Next

\* The invariant holds in every behaviour of a scope.
THEOREM SymTableInvariant == Spec => []IInv
BY InitIInv, StepIInv, PTL DEF Spec

\* What a scope says of a name, where no name is declared again or all are in the array.
NewestUnlessMoved == ~isFullDict \/ ~Redeclare => NewestFound

LEMMA InvNewest == IInv => NewestUnlessMoved
<1> SUFFICES ASSUME IInv, ~isFullDict \/ ~Redeclare, NEW n \in Names, Mine(n) # {}
             PROVE  \E d \in Mine(n) : Find(n) = Sym(d, d) /\ \A e \in Mine(n) : e <= d
  BY DEF NewestUnlessMoved, NewestFound
<1>1. CASE ~isFullDict
  BY <1>1, ArrayFind
<1>2. CASE isFullDict
  <2>1. Find(n) = symDict[n] /\ symDict[n] \in Syms
    BY <1>2 DEF Find, IInv, TypeOK
  <2>2. \A d, e \in Mine(n) : d = e
    BY <1>2 DEF IInv, TableOnce
  <2>3. PICK d \in Mine(n) : symDict[n].type = d /\ symDict[n].ref = d
    BY <1>2, <2>2 DEF IInv, TableOwn
  <2>4. symDict[n] = Sym(d, d)
    BY <2>1, <2>3 DEF Syms, Sym
  <2>5. d \in Nat
    BY <2>3 DEF Mine, IInv, TypeOK
  <2>6. QED
    BY <2>1, <2>2, <2>3, <2>4, <2>5
<1>3. QED
  BY <1>1, <1>2

LEMMA InvNamesKept == IInv => NamesKept
<1> SUFFICES ASSUME IInv, NEW n \in Names
             PROVE  \/ Mine(n) = {} /\ Find(n) = NoSym
                    \/ Find(n).type \in Mine(n) /\ Find(n).ref \in Mine(n)
  BY DEF NamesKept
<1>1. CASE isFullDict
  BY <1>1 DEF Find, IInv, TableOwn
<1>2. CASE ~isFullDict
  <2>1. ASSUME NEW d \in Mine(n), Find(n) = Sym(d, d)
        PROVE  Find(n).type \in Mine(n) /\ Find(n).ref \in Mine(n)
    BY <2>1, SymFields
  <2>2. QED
    BY <1>2, <2>1, ArrayFind
<1>3. QED
  BY <1>1, <1>2

\* The array, the table and the history keep their types.
THEOREM SymTableTypeCorrect == Spec => []TypeOK
<1>1. IInv => TypeOK
  BY DEF IInv
<1>2. QED
  BY <1>1, SymTableInvariant, PTL

\* sym_new and the move of the array into the table lose no name and mix up none.
THEOREM SymTableNamesKept == Spec => []NamesKept
BY InvNamesKept, SymTableInvariant, PTL

\* A name stands for its last declaration as long as the scope is an array, and for good
\* where no name is declared again once it is to be in a table.
THEOREM SymTableNewestUnlessMoved == Spec => []NewestUnlessMoved
BY InvNewest, SymTableInvariant, PTL

\* Where no name that stands twice in the array is moved into a table, find_in_scope
\* finds the last declaration.
THEOREM SymTableNewestFound ==
    ASSUME ~Redeclare
    PROVE  Spec => []NewestFound
<1>1. NewestUnlessMoved => NewestFound
  BY DEF NewestUnlessMoved
<1>2. QED
  BY <1>1, SymTableNewestUnlessMoved, PTL

----------------------------------------------------------------------------
(* The refinement of Env *)

\* A name stands for the last of its declarations.
StandingRight ==
    \A n \in Names :
        \/ Mine(n) = {} /\ Standing(n) = NoDecl
        \/ Standing(n) \in Mine(n) /\ \A e \in Mine(n) : e <= Standing(n)

LEMMA InvStanding == IInv /\ ~Redeclare => StandingRight
<1> SUFFICES ASSUME IInv, ~Redeclare, NEW n \in Names
             PROVE  \/ Mine(n) = {} /\ Standing(n) = NoDecl
                    \/ Standing(n) \in Mine(n) /\ \A e \in Mine(n) : e <= Standing(n)
  BY DEF StandingRight
<1>1. CASE Mine(n) = {}
  <2>1. Find(n) = NoSym
    BY <1>1, InvNamesKept DEF NamesKept
  <2>2. QED
    BY <1>1, <2>1, SymFields DEF Standing, NoSym
<1>2. CASE Mine(n) # {}
  <2>1. PICK d \in Mine(n) : Find(n) = Sym(d, d) /\ \A e \in Mine(n) : e <= d
    BY <1>2, InvNewest DEF NewestUnlessMoved, NewestFound
  <2>2. Standing(n) = d
    BY <2>1, SymFields DEF Standing
  <2>3. QED
    BY <2>1, <2>2
<1>3. QED
  BY <1>1, <1>2

\* sym_new makes its name stand for the new declaration, and no other stand for another.
LEMMA StepStanding ==
    ASSUME IInv, NEW m \in Names, SymNew(m), StandingRight, StandingRight', NEW n \in Names
    PROVE  Standing(n)' = IF n = m THEN count + 1 ELSE Standing(n)
<1>1. Mine(n) \subseteq 1 .. count /\ count \in Nat
      /\ Mine(n)' = IF n = m THEN Mine(n) \cup {count + 1} ELSE Mine(n)
  BY MineGrows
<1>2. \/ Mine(n) = {} /\ Standing(n) = NoDecl
      \/ Standing(n) \in Mine(n) /\ \A e \in Mine(n) : e <= Standing(n)
  BY DEF StandingRight
<1>3. \/ Mine(n)' = {} /\ Standing(n)' = NoDecl
      \/ Standing(n)' \in Mine(n)' /\ \A e \in Mine(n)' : e <= Standing(n)'
  BY DEF StandingRight, NoDecl
<1>4. QED
  BY <1>1, <1>2, <1>3

\* The scope is the environment that Env promises, where no name is declared again
\* once it is to be in a table.
THEOREM SymTableImplementsEnv ==
    ASSUME ~Redeclare
    PROVE  Spec => ImplementsEnv
<1> DEFINE env == [n \in Names |-> Standing(n)]
<1>1. IInv => StandingRight
  BY InvStanding
<1>2. Init => Environment!Init
  <2> SUFFICES ASSUME Init PROVE env = [n \in Names |-> NoDecl]
    BY DEF Environment!Init
  <2>1. \A n \in Names : Mine(n) = {}
    BY DEF Init, Mine
  <2>2. StandingRight
    BY InitIInv, <1>1
  <2>3. QED
    BY <2>1, <2>2 DEF StandingRight
<1>3. IInv /\ StandingRight /\ StandingRight' /\ [Next]_vars
      => [Environment!Next]_env
  <2> SUFFICES ASSUME IInv, StandingRight, StandingRight', [Next]_vars
               PROVE  Environment!Next \/ env' = env
    OBVIOUS
  <2>1. ASSUME NEW m \in Names, SymNew(m)
        PROVE  Environment!Next
    <3>1. \A n \in Names : Standing(n)' = IF n = m THEN count + 1 ELSE Standing(n)
      BY <2>1, StepStanding
    <3>2. env' = [n \in Names |-> IF n = m THEN count + 1 ELSE Standing(n)]
      BY <3>1
    <3>3. env' = [env EXCEPT ![m] = count + 1]
      BY <3>2
    <3>4. count + 1 \in Decls
      BY <2>1, MineGrows
    <3>5. QED
      BY <3>3, <3>4 DEF Environment!Next, Environment!Declare
  <2>2. CASE UNCHANGED vars
    BY <2>2 DEF vars, Standing, Find
  <2>3. QED
    BY <2>1, <2>2 DEF Next
<1>4. QED
  BY <1>1, <1>2, <1>3, SymTableInvariant, PTL DEF Spec, ImplementsEnv, Environment!Spec
============================================================================
