---------------------------- MODULE UpvalsProofs ----------------------------
(* Proofs about Upvals, for every set of names, every number of open scopes, *)
(* of upvalues of a function and of declarations of a name.                  *)
EXTENDS Upvals, WellFoundedInduction, TLAPS

----------------------------------------------------------------------------
(* The invariant *)

\* A declared name has a declaration that is counted.
VersionsCounted ==
    \A l \in 1 .. Cur : \A n \in Names :
        Declared(l, n) => scopes[l].syms[n].version # 0

\* An upvalue that is forwarded is of a function further out than the parent, and the
\* parent has an upvalue of its name.
Forwarded ==
    \A l \in 1 .. Cur : \A i \in DOMAIN scopes[l].upvals :
        LET uv == scopes[l].upvals[i]
        IN  uv.source = "upvalue" => uv.level < l - 1 /\ HasUpval(l - 1, uv.name)

IInv == TypeOK /\ VersionsCounted /\ UpvalsLexical /\ RefsOfParent /\ Forwarded

\* A set of natural numbers that has one has a least one.
LEMMA Least ==
    ASSUME NEW S, S \subseteq Nat, S # {}
    PROVE  \E m \in S : \A k \in S : m <= k
<1>1. PICK R : IsWellFoundedOn(R, Nat) /\ \A k, m \in Nat : k < m => <<k, m>> \in R
  BY NatLessThanWellFounded DEF OpToRel
<1>2. IsWellFoundedOn(R, Nat)
  BY <1>1
<1>3. \E m \in S : \A k \in S : ~ (<<k, m>> \in R)
  BY <1>2, WFMin, Zenon
<1>4. PICK m \in S : \A k \in S : ~ (<<k, m>> \in R)
  BY <1>3
<1>5. \A k \in S : k \in Nat /\ m \in Nat /\ ~(k < m)
  BY <1>1, <1>4
<1>6. \A k \in S : m <= k
  BY <1>5
<1>7. QED
  BY <1>6

\* A function of the numbers up to n is a sequence.
LEMMA FunctionIsSeq ==
    ASSUME NEW n \in Nat, NEW S, NEW f \in [1 .. n -> S]
    PROVE  f \in Seq(S) /\ Len(f) = n
OBVIOUS

\* The parts of the open scopes.
LEMMA ScopeParts ==
    ASSUME TypeOK, NEW l \in 1 .. Cur
    PROVE  /\ scopes[l] \in Scopes
           /\ scopes[l].syms \in [Names -> Syms]
           /\ scopes[l].upvals \in Seq(UpvalRecords)
           /\ DOMAIN scopes[l].upvals = 1 .. Len(scopes[l].upvals)
           /\ Len(scopes[l].upvals) \in Nat
           /\ \A i \in DOMAIN scopes[l].upvals : scopes[l].upvals[i] \in UpvalRecords
<1>1. scopes[l] \in Scopes
  BY DEF TypeOK, Cur
<1>2. scopes[l].syms \in [Names -> Syms] /\ scopes[l].upvals \in Seq(UpvalRecords)
  BY <1>1 DEF Scopes
<1>3. QED
  BY <1>1, <1>2

\* What a new scope is made of.
LEMMA NewScopeType ==
    ASSUME NEW params \in SUBSET Names, 1 <= MaxDecls
    PROVE  /\ NewScope(params) \in Scopes
           /\ NewScope(params).upvals = << >>
           /\ \A n \in Names : NewScope(params).syms[n].kind # "none"
                => NewScope(params).syms[n].version # 0
<1> DEFINE syms == [n \in Names |-> IF n \in params THEN [kind |-> "param", version |-> 1]
                                                    ELSE Undeclared]
<1>1. syms \in [Names -> Syms]
  BY UpvalsAssumption DEF Syms, Kinds, Undeclared
<1>2. NewScope(params) = [syms |-> syms, upvals |-> << >>]
  BY DEF NewScope
<1>3. << >> \in Seq(UpvalRecords)
  OBVIOUS
<1>4. \A n \in Names : syms[n].kind # "none" => syms[n].version # 0
  BY DEF Undeclared
<1>5. QED
  BY <1>1, <1>2, <1>3, <1>4 DEF Scopes

LEMMA InitIInv == Init => IInv
<1> SUFFICES ASSUME Init PROVE IInv
  OBVIOUS
<1>1. scopes = <<NewScope({})>> /\ stopped = "no"
  BY DEF Init
<1> DEFINE syms == [n \in Names |-> Undeclared]
<1>2. NewScope({}) = [syms |-> syms, upvals |-> << >>]
  BY DEF NewScope
<1>3. syms \in [Names -> Syms]
  BY UpvalsAssumption DEF Syms, Kinds, Undeclared
<1>4. NewScope({}) \in Scopes
  <2> HIDE DEF syms
  <2>1. << >> \in Seq(UpvalRecords)
    OBVIOUS
  <2>2. [syms |-> syms, upvals |-> << >>] \in Scopes
    BY <1>3, <2>1 DEF Scopes
  <2>3. QED
    BY <1>2, <2>2
<1>5. Cur = 1 /\ scopes[1].upvals = << >> /\ scopes[1].syms = syms /\ scopes \in Seq(Scopes)
  BY <1>1, <1>2, <1>4 DEF Cur
<1>6. TypeOK
  BY <1>1, <1>5, UpvalsAssumption DEF TypeOK
<1>7. VersionsCounted
  BY <1>5 DEF VersionsCounted, Declared, Undeclared
<1>8. UpvalsLexical /\ RefsOfParent /\ Forwarded
  BY <1>5 DEF UpvalsLexical, RefsOfParent, Forwarded
<1>9. QED
  BY <1>6, <1>7, <1>8 DEF IInv

----------------------------------------------------------------------------
(* Declarations, and functions entered and left *)

\* The scopes that Declare makes.
Declaring(n, kind) ==
    [scopes EXCEPT ![Cur].syms[n] = [kind |-> kind, version |-> @.version + 1]]

\* A declaration touches the symbols of the innermost scope only.
LEMMA DeclareEffect ==
    ASSUME TypeOK, VersionsCounted, NEW n \in Names, NEW kind \in Kinds, MayDeclare(n)
    PROVE  /\ Declaring(n, kind) \in Seq(Scopes)
           /\ Len(Declaring(n, kind)) = Cur
           /\ \A l \in 1 .. Cur : Declaring(n, kind)[l].upvals = scopes[l].upvals
           /\ \A l \in 1 .. Cur - 1 : Declaring(n, kind)[l].syms = scopes[l].syms
           /\ \A m \in Names : Declaring(n, kind)[Cur].syms[m].kind # "none"
                => Declaring(n, kind)[Cur].syms[m].version # 0
<1> DEFINE after == Declaring(n, kind)
<1>0. after = [scopes EXCEPT ![Cur].syms[n] = [kind |-> kind, version |-> @.version + 1]]
  BY DEF Declaring
<1> HIDE DEF after
<1>1. Cur \in 1 .. MaxScopes /\ scopes \in Seq(Scopes) /\ Len(scopes) = Cur
  BY DEF TypeOK, Cur
<1>2. Cur \in 1 .. Cur
  BY <1>1, UpvalsAssumption
<1> DEFINE here == scopes[Cur]
           sym == [kind |-> kind, version |-> here.syms[n].version + 1]
           new == [here EXCEPT !.syms = [@ EXCEPT ![n] = sym]]
<1>3. here \in Scopes /\ here.syms \in [Names -> Syms]
  BY <1>2, ScopeParts
<1>4. sym \in Syms /\ sym.version # 0
  <2>1. here.syms[n].version \in 0 .. MaxDecls /\ here.syms[n].version < MaxDecls
    BY <1>3 DEF MayDeclare, Syms
  <2>2. QED
    BY <2>1, UpvalsAssumption DEF Syms
<1>5. new \in Scopes /\ new.upvals = here.upvals /\ new.syms = [here.syms EXCEPT ![n] = sym]
  <2>1. [here.syms EXCEPT ![n] = sym] \in [Names -> Syms]
    BY <1>3, <1>4
  <2>2. QED
    BY <1>3, <2>1 DEF Scopes
<1>6. after = [scopes EXCEPT ![Cur] = new]
  BY <1>0, <1>1, <1>2
<1>7. \A m \in Names : here.syms[m].kind # "none" => here.syms[m].version # 0
  BY <1>2 DEF VersionsCounted, Declared
<1>8. \A m \in Names : new.syms[m].kind # "none" => new.syms[m].version # 0
  BY <1>3, <1>4, <1>5, <1>7
<1> HIDE DEF here, new
<1>9. after \in Seq(Scopes) /\ Len(after) = Cur /\ after[Cur] = new
      /\ \A l \in 1 .. Cur : l # Cur => after[l] = scopes[l]
  BY <1>1, <1>2, <1>5, <1>6
<1>10. /\ after \in Seq(Scopes) /\ Len(after) = Cur
       /\ \A l \in 1 .. Cur : after[l].upvals = scopes[l].upvals
       /\ \A l \in 1 .. Cur - 1 : after[l].syms = scopes[l].syms
       /\ \A m \in Names : after[Cur].syms[m].kind # "none"
            => after[Cur].syms[m].version # 0
  <2>1. \A l \in 1 .. Cur : after[l].upvals = scopes[l].upvals
    <3> SUFFICES ASSUME NEW l \in 1 .. Cur PROVE after[l].upvals = scopes[l].upvals
      OBVIOUS
    <3>1. CASE l = Cur
      BY <1>5, <1>9, <3>1 DEF here
    <3>2. CASE l # Cur
      BY <1>9, <3>2
    <3>3. QED
      BY <3>1, <3>2
  <2>2. \A l \in 1 .. Cur - 1 : l \in 1 .. Cur /\ l # Cur
    BY <1>1
  <2>3. \A l \in 1 .. Cur - 1 : after[l].syms = scopes[l].syms
    BY <1>9, <2>2
  <2>4. QED
    BY <1>8, <1>9, <2>1, <2>3
<1>11. QED
  BY <1>10 DEF after

\* An upvalue that stays says what it said, if the symbols further out do.
LEMMA LexicalKept ==
    ASSUME NEW l \in Nat, NEW i, Lexical(l, i), scopes[l].upvals[i] \in UpvalRecords,
           scopes'[l].upvals[i] = scopes[l].upvals[i],
           \A k \in 1 .. l - 1 : scopes'[k].syms = scopes[k].syms
    PROVE  Lexical(l, i)'
<1> DEFINE uv == scopes[l].upvals[i]
<1>1. uv.level \in Nat \ {0}
  BY DEF UpvalRecords
<1>2. /\ uv.level < l /\ Declared(uv.level, uv.name)
      /\ uv.version = scopes[uv.level].syms[uv.name].version
      /\ \A k \in uv.level + 1 .. l - 1 : ~Declared(k, uv.name)
  BY DEF Lexical
<1> DEFINE level == uv.level
           name == uv.name
           version == uv.version
<1> HIDE DEF level, name, version
<1>3. \A k \in level .. l - 1 : scopes'[k].syms[name] = scopes[k].syms[name]
  <2>1. level \in Nat \ {0}
    BY <1>1 DEF level
  <2>2. \A k \in level .. l - 1 : k \in 1 .. l - 1
    BY <2>1
  <2>3. QED
    BY <2>2
<1>5. level \in level .. l - 1 /\ level < l
      /\ \A k \in level + 1 .. l - 1 : k \in level .. l - 1
  <2>1. level \in Nat /\ level < l
    BY <1>1, <1>2 DEF level
  <2>2. QED
    BY <2>1
<1>6. /\ level < l /\ scopes'[level].syms[name].kind # "none"
      /\ version = scopes'[level].syms[name].version
      /\ \A k \in level + 1 .. l - 1 : scopes'[k].syms[name].kind = "none"
  <2>1. /\ scopes[level].syms[name].kind # "none"
        /\ version = scopes[level].syms[name].version
        /\ \A k \in level + 1 .. l - 1 : scopes[k].syms[name].kind = "none"
    BY <1>2 DEF level, name, version, Declared
  <2>2. /\ scopes'[level].syms[name].kind # "none"
        /\ version = scopes'[level].syms[name].version
    BY <1>3, <1>5, <2>1
  <2>3. \A k \in level + 1 .. l - 1 : scopes'[k].syms[name].kind = "none"
    BY <1>3, <1>5, <2>1
  <2>4. QED
    BY <1>5, <2>2, <2>3
<1>7. QED
  BY <1>6 DEF Lexical, Declared, level, name, version

\* An upvalue speaks of symbols further out than its function: what happens to the
\* symbols of the innermost scope that stays, and behind it, is no matter.
LEMMA OuterKept ==
    ASSUME IInv, TypeOK', VersionsCounted', NEW d \in 0 .. Cur, d <= Cur',
           \A l \in 1 .. d : scopes'[l].upvals = scopes[l].upvals,
           \A l \in 1 .. d - 1 : scopes'[l].syms = scopes[l].syms,
           \A l \in d + 1 .. Cur' : scopes'[l].upvals = << >>
    PROVE  IInv'
<1>1. Cur \in Nat /\ Cur' \in Nat /\ d \in Nat
  BY UpvalsAssumption DEF IInv, TypeOK
<1>2. ASSUME NEW l \in 1 .. Cur', NEW i \in DOMAIN scopes'[l].upvals
      PROVE  /\ l \in 1 .. d /\ l \in 1 .. Cur
             /\ i \in DOMAIN scopes[l].upvals
             /\ scopes'[l].upvals[i] = scopes[l].upvals[i]
             /\ scopes[l].upvals[i] \in UpvalRecords
             /\ scopes'[l].upvals = scopes[l].upvals
  <2>1. l \in 1 .. d
    <3>1. CASE l \in d + 1 .. Cur'
      BY <1>2, <3>1
    <3>2. QED
      BY <1>1, <3>1
  <2>2. l \in 1 .. Cur /\ scopes'[l].upvals = scopes[l].upvals
    BY <1>1, <2>1
  <2>3. QED
    BY <1>2, <2>1, <2>2, ScopeParts DEF IInv
<1>3. UpvalsLexical'
  <2> SUFFICES ASSUME NEW l \in 1 .. Cur', NEW i \in DOMAIN scopes'[l].upvals
               PROVE  Lexical(l, i)'
    BY DEF UpvalsLexical
  <2>1. /\ Lexical(l, i) /\ scopes[l].upvals[i] \in UpvalRecords
        /\ scopes'[l].upvals[i] = scopes[l].upvals[i]
    BY <1>2 DEF IInv, UpvalsLexical
  <2>2. l \in Nat /\ \A k \in 1 .. l - 1 : k \in 1 .. d - 1
    <3>1. l \in 1 .. d
      BY <1>2
    <3>2. QED
      BY <1>1, <3>1
  <2>3. \A k \in 1 .. l - 1 : scopes'[k].syms = scopes[k].syms
    BY <2>2
  <2>4. QED
    BY <2>1, <2>2, <2>3, LexicalKept
<1>4. RefsOfParent'
  <2> SUFFICES ASSUME NEW l \in 2 .. Cur', NEW i \in DOMAIN scopes'[l].upvals,
                      scopes'[l].upvals[i].source # "upvalue"
               PROVE  /\ scopes'[l].upvals[i].level = l - 1
                      /\ scopes'[l - 1].syms[scopes'[l].upvals[i].name].kind
                            = scopes'[l].upvals[i].source
    BY DEF RefsOfParent
  <2>1. l \in 1 .. Cur'
    BY <1>1
  <2>2. scopes'[l].upvals[i] = scopes[l].upvals[i] /\ l \in 2 .. Cur /\ l \in 1 .. d
        /\ i \in DOMAIN scopes[l].upvals
    BY <1>1, <1>2, <2>1
  <2>3. scopes'[l - 1].syms = scopes[l - 1].syms
    BY <1>1, <2>2
  <2>4. QED
    BY <2>2, <2>3 DEF IInv, RefsOfParent
<1>5. Forwarded'
  <2> SUFFICES ASSUME NEW l \in 1 .. Cur', NEW i \in DOMAIN scopes'[l].upvals,
                      scopes'[l].upvals[i].source = "upvalue"
               PROVE  /\ scopes'[l].upvals[i].level < l - 1
                      /\ HasUpval(l - 1, scopes[l].upvals[i].name)'
                      /\ scopes'[l].upvals[i] = scopes[l].upvals[i]
    BY DEF Forwarded
  <2> DEFINE uv == scopes[l].upvals[i]
  <2>1. scopes'[l].upvals[i] = uv /\ l \in 1 .. Cur /\ l \in 1 .. d
        /\ i \in DOMAIN scopes[l].upvals /\ uv \in UpvalRecords
    BY <1>2
  <2>2. uv.level < l - 1 /\ HasUpval(l - 1, uv.name)
    BY <2>1 DEF IInv, Forwarded
  <2>3. l - 1 \in 1 .. d
    BY <1>1, <2>1, <2>2 DEF UpvalRecords
  <2>4. QED
    BY <2>1, <2>2, <2>3 DEF HasUpval
<1>6. QED
  BY <1>3, <1>4, <1>5 DEF IInv

LEMMA DeclareKeeps ==
    ASSUME IInv, NEW n \in Names, NEW kind \in Kinds, MayDeclare(n), Declare(n, kind),
           UNCHANGED stopped
    PROVE  IInv'
<1>1. scopes' = [scopes EXCEPT ![Cur].syms[n] = [kind |-> kind, version |-> @.version + 1]]
  BY DEF Declare
<1>2. /\ scopes' \in Seq(Scopes) /\ Len(scopes') = Cur
      /\ \A l \in 1 .. Cur : scopes'[l].upvals = scopes[l].upvals
      /\ \A l \in 1 .. Cur - 1 : scopes'[l].syms = scopes[l].syms
      /\ \A m \in Names : scopes'[Cur].syms[m].kind # "none"
            => scopes'[Cur].syms[m].version # 0
  <2>1. TypeOK /\ VersionsCounted /\ scopes' = Declaring(n, kind)
    BY <1>1 DEF IInv, Declaring
  <2>2. QED
    BY <2>1, DeclareEffect
<1>3. Cur' = Cur /\ Cur \in Nat
  BY <1>2, UpvalsAssumption DEF Cur, IInv, TypeOK
<1>4. TypeOK'
  BY <1>2, <1>3 DEF IInv, TypeOK
<1>5. VersionsCounted'
  <2> SUFFICES ASSUME NEW l \in 1 .. Cur, NEW m \in Names, scopes'[l].syms[m].kind # "none"
               PROVE  scopes'[l].syms[m].version # 0
    BY <1>3 DEF VersionsCounted, Declared
  <2>1. CASE l = Cur
    BY <1>2, <2>1
  <2>2. CASE l \in 1 .. Cur - 1
    BY <1>2, <2>2 DEF IInv, VersionsCounted, Declared
  <2>3. QED
    BY <1>3, <2>1, <2>2
<1>6. QED
  <2>1. Cur \in 0 .. Cur /\ Cur <= Cur' /\ Cur + 1 .. Cur' = {}
    BY <1>3
  <2>2. QED
    BY <1>2, <1>4, <1>5, <2>1, OuterKept

LEMMA EnterKeeps ==
    ASSUME IInv, NEW n \in Names, NEW params \in SUBSET Names, EnterFunction(n, params)
    PROVE  IInv'
<1> DEFINE kind == IF Cur = 1 THEN "global" ELSE "func"
           outer == [scopes EXCEPT ![Cur].syms[n] =
                        [kind |-> kind, version |-> @.version + 1]]
           new == NewScope(params)
<1>1. scopes' = Append(outer, new) /\ MayDeclare(n) /\ Cur < MaxScopes /\ UNCHANGED stopped
  BY DEF EnterFunction
<1>2. kind \in Kinds
  BY DEF Kinds
<1>3. /\ outer \in Seq(Scopes) /\ Len(outer) = Cur
      /\ \A l \in 1 .. Cur : outer[l].upvals = scopes[l].upvals
      /\ \A l \in 1 .. Cur - 1 : outer[l].syms = scopes[l].syms
      /\ \A m \in Names : outer[Cur].syms[m].kind # "none" => outer[Cur].syms[m].version # 0
  <2> HIDE DEF kind
  <2>1. outer = Declaring(n, kind)
    BY DEF Declaring
  <2> HIDE DEF outer
  <2>2. TypeOK /\ VersionsCounted /\ MayDeclare(n)
    BY <1>1 DEF IInv
  <2>3. QED
    BY <1>2, <2>1, <2>2, DeclareEffect
<1>4. 1 <= MaxDecls
  <2>1. Cur \in 1 .. Cur
    BY UpvalsAssumption DEF IInv, TypeOK
  <2>2. scopes[Cur].syms[n].version \in 0 .. MaxDecls
    BY <2>1, ScopeParts DEF IInv, Syms
  <2>3. QED
    BY <1>1, <2>2, UpvalsAssumption DEF MayDeclare
<1>5. /\ new \in Scopes /\ new.upvals = << >>
      /\ \A m \in Names : new.syms[m].kind # "none" => new.syms[m].version # 0
  BY <1>4, NewScopeType
<1> HIDE DEF outer, new
<1>6. Cur \in Nat /\ Cur' = Cur + 1 /\ scopes' \in Seq(Scopes)
      /\ scopes'[Cur + 1] = new /\ \A l \in 1 .. Cur : scopes'[l] = outer[l]
  BY <1>1, <1>3, <1>5, UpvalsAssumption DEF Cur, IInv, TypeOK
<1>7. TypeOK'
  <2>1. Cur' \in 1 .. MaxScopes
    BY <1>1, <1>6, UpvalsAssumption
  <2>2. \A l \in 1 .. Cur' : Len(scopes'[l].upvals) <= MaxUpvals
    <3>1. Len(new.upvals) <= MaxUpvals
      BY <1>5, UpvalsAssumption
    <3>2. \A l \in 1 .. Cur : Len(outer[l].upvals) <= MaxUpvals
      BY <1>3 DEF IInv, TypeOK
    <3>3. QED
      BY <1>6, <3>1, <3>2
  <2>3. QED
    BY <1>1, <1>6, <2>1, <2>2 DEF IInv, TypeOK
<1>8. VersionsCounted'
  <2> SUFFICES ASSUME NEW l \in 1 .. Cur + 1, NEW m \in Names,
                      scopes'[l].syms[m].kind # "none"
               PROVE  scopes'[l].syms[m].version # 0
    BY <1>6 DEF VersionsCounted, Declared
  <2>1. CASE l = Cur + 1
    BY <1>5, <1>6, <2>1
  <2>2. CASE l = Cur
    BY <1>3, <1>6, <2>2
  <2>3. CASE l \in 1 .. Cur - 1
    BY <1>3, <1>6, <2>3 DEF IInv, VersionsCounted, Declared
  <2>4. QED
    BY <1>6, <2>1, <2>2, <2>3
<1>9. QED
  <2>1. Cur \in 0 .. Cur /\ Cur <= Cur'
    BY <1>6
  <2>2. \A l \in 1 .. Cur : scopes'[l].upvals = scopes[l].upvals
    BY <1>3, <1>6
  <2>3. \A l \in 1 .. Cur - 1 : l \in 1 .. Cur
    BY <1>6
  <2>4. \A l \in 1 .. Cur - 1 : scopes'[l].syms = scopes[l].syms
    BY <1>3, <1>6, <2>3
  <2>5. \A l \in Cur + 1 .. Cur' : scopes'[l].upvals = << >>
    <3>1. \A l \in Cur + 1 .. Cur' : l = Cur + 1
      BY <1>6
    <3>2. QED
      BY <1>5, <1>6, <3>1
  <2>6. QED
    BY <1>7, <1>8, <2>1, <2>2, <2>4, <2>5, OuterKept

LEMMA LeaveKeeps ==
    ASSUME IInv, LeaveFunction
    PROVE  IInv'
<1>1. Cur \in 2 .. MaxScopes /\ scopes \in Seq(Scopes) /\ Len(scopes) = Cur
      /\ scopes' = SubSeq(scopes, 1, Cur - 1) /\ UNCHANGED stopped
  BY UpvalsAssumption DEF LeaveFunction, IInv, TypeOK, Cur
<1>2. Len(scopes') = Cur - 1 /\ scopes' \in Seq(Scopes)
      /\ \A l \in 1 .. Cur - 1 : scopes'[l] = scopes[l]
  BY <1>1, UpvalsAssumption
<1>3. Cur' = Cur - 1
  BY <1>2 DEF Cur
<1>4. TypeOK' /\ VersionsCounted'
  BY <1>1, <1>2, <1>3, UpvalsAssumption DEF IInv, TypeOK, VersionsCounted, Declared
<1> DEFINE d == Cur - 1
<1>5. d \in 0 .. Cur /\ d <= Cur' /\ d + 1 .. Cur' = {}
  BY <1>1, <1>3, UpvalsAssumption
<1>6. /\ \A l \in 1 .. d : scopes'[l].upvals = scopes[l].upvals
      /\ \A l \in 1 .. d - 1 : scopes'[l].syms = scopes[l].syms
  BY <1>1, <1>2, UpvalsAssumption
<1>7. QED
  <2> HIDE DEF d
  <2>1. QED
    BY <1>4, <1>5, <1>6, OuterKept

----------------------------------------------------------------------------
(* A variable captured *)

\* Where the value of an upvalue comes from, and what is recorded of it.
LEMMA UpvalParts ==
    ASSUME IInv, NEW n \in Names, NEW home \in Home(n), 1 < home, home < Cur,
           scopes[home].syms[n].kind \in {"local", "param"}, NEW l \in Capturing(home)
    PROVE  /\ Upval(l, home, n) \in UpvalRecords
           /\ Upval(l, home, n).name = n /\ Upval(l, home, n).level = home
           /\ Upval(l, home, n).version = scopes[home].syms[n].version
           /\ Upval(l, home, n).source = "upvalue" <=> home < l - 1
           /\ Upval(l, home, n).source # "upvalue"
                => home = l - 1 /\ scopes[home].syms[n].kind = Upval(l, home, n).source
<1>1. Cur \in 1 .. MaxScopes /\ home \in 1 .. Cur /\ l \in home + 1 .. Cur /\ Declared(home, n)
  BY UpvalsAssumption DEF Home, Capturing, IInv, TypeOK
<1>2. scopes[home].syms[n] \in Syms /\ scopes[home].syms[n].version # 0
  BY <1>1, ScopeParts DEF IInv, VersionsCounted
<1>3. Source(l, home, n) \in Sources
      /\ (Source(l, home, n) = "upvalue" <=> home < l - 1)
      /\ (Source(l, home, n) # "upvalue"
            => home = l - 1 /\ scopes[home].syms[n].kind = Source(l, home, n))
  <2>1. home \in Int /\ l \in Int /\ l > home
    BY <1>1, UpvalsAssumption
  <2>2. QED
    BY <2>1 DEF Source, Sources
<1>4. scopes[home].syms[n].version \in 1 .. MaxDecls /\ home \in 1 .. MaxScopes
  BY <1>1, <1>2, UpvalsAssumption DEF Syms
<1>5. QED
  BY <1>3, <1>4 DEF Upval, UpvalRecords

\* The functions between the variable and its use get an upvalue each; nothing else changes.
LEMMA LoadEffect ==
    ASSUME IInv, NEW n \in Names, NEW home \in Home(n), 1 < home, home < Cur,
           scopes[home].syms[n].kind \in {"local", "param"},
           \A l \in Capturing(home) : ~Full(l),
           scopes' = [l \in DOMAIN scopes |->
               IF l \in Capturing(home)
               THEN [scopes[l] EXCEPT !.upvals = Append(@, Upval(l, home, n))]
               ELSE scopes[l]],
           UNCHANGED stopped
    PROVE  /\ TypeOK' /\ Cur' = Cur
           /\ \A l \in 1 .. Cur : scopes'[l].syms = scopes[l].syms
           /\ \A l \in 1 .. Cur : scopes'[l].upvals =
                IF l \in Capturing(home) THEN Append(scopes[l].upvals, Upval(l, home, n))
                                         ELSE scopes[l].upvals
<1>1. Cur \in 1 .. MaxScopes /\ DOMAIN scopes = 1 .. Cur /\ Cur \in Nat /\ scopes \in Seq(Scopes)
  BY UpvalsAssumption DEF IInv, TypeOK, Cur
<1> DEFINE uv(l) == Upval(l, home, n)
<1>2. ASSUME NEW l \in 1 .. Cur, l \in Capturing(home)
      PROVE  /\ scopes'[l] \in Scopes /\ scopes'[l].syms = scopes[l].syms
             /\ scopes'[l].upvals = Append(scopes[l].upvals, uv(l))
             /\ Len(scopes'[l].upvals) <= MaxUpvals
  <2>1. uv(l) \in UpvalRecords
    BY <1>2, UpvalParts
  <2>2. scopes[l] \in Scopes /\ scopes[l].upvals \in Seq(UpvalRecords)
        /\ scopes[l].syms \in [Names -> Syms]
    BY ScopeParts DEF IInv
  <2> HIDE DEF uv
  <2>3. Append(scopes[l].upvals, uv(l)) \in Seq(UpvalRecords)
        /\ Len(Append(scopes[l].upvals, uv(l))) = Len(scopes[l].upvals) + 1
    BY <2>1, <2>2
  <2>4. scopes'[l] = [scopes[l] EXCEPT !.upvals = Append(@, uv(l))]
    BY <1>1, <1>2 DEF uv
  <2>5. scopes'[l].syms = scopes[l].syms /\ scopes'[l].upvals = Append(scopes[l].upvals, uv(l))
        /\ scopes'[l] \in Scopes
    BY <2>2, <2>3, <2>4 DEF Scopes
  <2>6. Len(scopes[l].upvals) < MaxUpvals
    BY <1>2, <2>2, UpvalsAssumption DEF Full
  <2>7. Len(scopes'[l].upvals) <= MaxUpvals
    <3>1. Len(scopes[l].upvals) \in Nat
      BY <2>2
    <3>2. Len(scopes'[l].upvals) = Len(scopes[l].upvals) + 1
      BY <2>3, <2>5
    <3>3. QED
      BY <2>6, <3>1, <3>2, UpvalsAssumption
  <2>8. QED
    BY <2>5, <2>7
<1>3. ASSUME NEW l \in 1 .. Cur, l \notin Capturing(home)
      PROVE  scopes'[l] = scopes[l]
  BY <1>1, <1>3
<1>4. \A l \in 1 .. Cur : scopes'[l] \in Scopes /\ Len(scopes'[l].upvals) <= MaxUpvals
  BY <1>1, <1>2, <1>3, ScopeParts DEF IInv, TypeOK
<1>5. Cur' = Cur /\ scopes' \in Seq(Scopes)
  <2> DEFINE new(l) == IF l \in Capturing(home)
                       THEN [scopes[l] EXCEPT !.upvals = Append(@, Upval(l, home, n))]
                       ELSE scopes[l]
  <2>1. scopes' = [l \in 1 .. Cur |-> new(l)]
    BY <1>1
  <2> HIDE DEF new
  <2>2. \A l \in 1 .. Cur : new(l) \in Scopes
    BY <1>4, <2>1
  <2>3. scopes' \in Seq(Scopes) /\ Len(scopes') = Cur
    <3>1. scopes' \in [1 .. Cur -> Scopes]
      BY <2>1, <2>2
    <3>2. QED
      BY <1>1, <3>1, FunctionIsSeq
  <2>4. QED
    BY <2>3 DEF Cur
<1>6. TypeOK'
  BY <1>1, <1>4, <1>5 DEF IInv, TypeOK
<1>7. ASSUME NEW l \in 1 .. Cur
      PROVE  /\ scopes'[l].syms = scopes[l].syms
             /\ scopes'[l].upvals =
                  IF l \in Capturing(home) THEN Append(scopes[l].upvals, Upval(l, home, n))
                                           ELSE scopes[l].upvals
  <2>1. CASE l \in Capturing(home)
    BY <1>2, <2>1
  <2>2. CASE l \notin Capturing(home)
    <3> HIDE DEF uv
    <3>1. scopes'[l] = scopes[l]
      BY <1>3, <2>2
    <3>2. QED
      BY <2>2, <3>1
  <2>3. QED
    BY <2>1, <2>2
<1>8. QED
  BY <1>5, <1>6, <1>7

\* An upvalue after a capture is one that was there, or the new one of its function.
LEMMA LoadIndex ==
    ASSUME IInv, NEW n \in Names, NEW home \in Home(n), NEW l \in 1 .. Cur,
           1 < home, home < Cur, scopes[home].syms[n].kind \in {"local", "param"},
           scopes'[l].upvals =
              IF l \in Capturing(home) THEN Append(scopes[l].upvals, Upval(l, home, n))
                                       ELSE scopes[l].upvals,
           NEW i \in DOMAIN scopes'[l].upvals
    PROVE  \/ i \in DOMAIN scopes[l].upvals /\ scopes'[l].upvals[i] = scopes[l].upvals[i]
           \/ l \in Capturing(home) /\ scopes'[l].upvals[i] = Upval(l, home, n)
<1>1. scopes[l].upvals \in Seq(UpvalRecords)
  BY ScopeParts DEF IInv
<1>2. CASE l \in Capturing(home)
  <2>1. Upval(l, home, n) \in UpvalRecords
    BY <1>2, UpvalParts
  <2>2. scopes'[l].upvals = Append(scopes[l].upvals, Upval(l, home, n))
    BY <1>2
  <2>3. QED
    BY <1>1, <1>2, <2>1, <2>2
<1>3. CASE l \notin Capturing(home)
  BY <1>3
<1>4. QED
  BY <1>2, <1>3

LEMMA LoadKeeps ==
    ASSUME IInv, NEW n \in Names, LoadUpvalue(n)
    PROVE  IInv'
<1>1. PICK home \in Home(n) :
          /\ 1 < home /\ home < Cur
          /\ scopes[home].syms[n].kind \in {"local", "param"}
          /\ \A l \in Capturing(home) : ~Full(l)
          /\ scopes' = [l \in DOMAIN scopes |->
                 IF l \in Capturing(home)
                 THEN [scopes[l] EXCEPT !.upvals = Append(@, Upval(l, home, n))]
                 ELSE scopes[l]]
  BY DEF LoadUpvalue
<1>2. UNCHANGED stopped
  BY DEF LoadUpvalue
<1>3. /\ TypeOK' /\ Cur' = Cur
      /\ \A l \in 1 .. Cur : scopes'[l].syms = scopes[l].syms
      /\ \A l \in 1 .. Cur : scopes'[l].upvals =
           IF l \in Capturing(home) THEN Append(scopes[l].upvals, Upval(l, home, n))
                                    ELSE scopes[l].upvals
  BY <1>1, <1>2, LoadEffect
<1>4. Cur \in Nat /\ home \in 1 .. Cur /\ Declared(home, n)
      /\ (\A k \in home + 1 .. Cur : ~Declared(k, n)) /\ Capturing(home) = home + 1 .. Cur
  BY UpvalsAssumption DEF Home, Capturing, IInv, TypeOK
<1>5. ASSUME NEW l \in 1 .. Cur, NEW i \in DOMAIN scopes'[l].upvals
      PROVE  \/ i \in DOMAIN scopes[l].upvals /\ scopes'[l].upvals[i] = scopes[l].upvals[i]
             \/ l \in Capturing(home) /\ scopes'[l].upvals[i] = Upval(l, home, n)
  BY <1>1, <1>3, LoadIndex
<1>6. \A l \in 1 .. Cur, m \in Names : Declared(l, m)' <=> Declared(l, m)
  BY <1>3 DEF Declared
<1>7. VersionsCounted'
  BY <1>3 DEF IInv, VersionsCounted, Declared
<1>8. UpvalsLexical'
  <2> SUFFICES ASSUME NEW l \in 1 .. Cur, NEW i \in DOMAIN scopes'[l].upvals
               PROVE  Lexical(l, i)'
    BY <1>3 DEF UpvalsLexical
  <2>1. CASE i \in DOMAIN scopes[l].upvals /\ scopes'[l].upvals[i] = scopes[l].upvals[i]
    <3>1. Lexical(l, i) /\ scopes[l].upvals[i] \in UpvalRecords
      BY <2>1, ScopeParts DEF IInv, UpvalsLexical
    <3>2. l \in Nat /\ \A k \in 1 .. l - 1 : scopes'[k].syms = scopes[k].syms
      <4>1. l \in Nat /\ 1 .. l - 1 \subseteq 1 .. Cur
        BY <1>4
      <4>2. QED
        BY <1>3, <4>1
    <3>3. QED
      BY <2>1, <3>1, <3>2, LexicalKept
  <2>2. CASE l \in Capturing(home) /\ scopes'[l].upvals[i] = Upval(l, home, n)
    <3>1. scopes'[l].upvals[i].name = n /\ scopes'[l].upvals[i].level = home
          /\ scopes'[l].upvals[i].version = scopes'[home].syms[n].version
      <4>1. /\ Upval(l, home, n).name = n /\ Upval(l, home, n).level = home
            /\ Upval(l, home, n).version = scopes[home].syms[n].version
        BY <1>1, <2>2, UpvalParts
      <4>2. scopes'[home].syms = scopes[home].syms
        BY <1>3, <1>4
      <4>3. QED
        BY <2>2, <4>1, <4>2
    <3>2. home < l /\ Declared(home, n)' /\ \A k \in home + 1 .. l - 1 : ~Declared(k, n)'
      BY <1>4, <1>6, <2>2
    <3>3. QED
      BY <3>1, <3>2 DEF Lexical
  <2>3. QED
    BY <1>5, <2>1, <2>2
<1>9. RefsOfParent'
  <2> SUFFICES ASSUME NEW l \in 2 .. Cur, NEW i \in DOMAIN scopes'[l].upvals,
                      scopes'[l].upvals[i].source # "upvalue"
               PROVE  /\ scopes'[l].upvals[i].level = l - 1
                      /\ scopes'[l - 1].syms[scopes'[l].upvals[i].name].kind
                            = scopes'[l].upvals[i].source
    BY <1>3 DEF RefsOfParent
  <2>1. l \in 1 .. Cur /\ l - 1 \in 1 .. Cur
    BY <1>4
  <2>2. scopes'[l - 1].syms = scopes[l - 1].syms
    BY <1>3, <2>1
  <2>3. CASE i \in DOMAIN scopes[l].upvals /\ scopes'[l].upvals[i] = scopes[l].upvals[i]
    BY <2>2, <2>3 DEF IInv, RefsOfParent
  <2>4. CASE l \in Capturing(home) /\ scopes'[l].upvals[i] = Upval(l, home, n)
    <3>1. Upval(l, home, n).source # "upvalue"
      BY <2>4
    <3>2. /\ Upval(l, home, n).level = l - 1 /\ Upval(l, home, n).name = n
          /\ scopes[l - 1].syms[n].kind = Upval(l, home, n).source
      BY <1>1, <2>4, <3>1, UpvalParts
    <3>3. QED
      BY <2>2, <2>4, <3>2
  <2>5. QED
    BY <1>5, <2>1, <2>3, <2>4
<1>10. Forwarded'
  <2> SUFFICES ASSUME NEW l \in 1 .. Cur, NEW i \in DOMAIN scopes'[l].upvals,
                      scopes'[l].upvals[i].source = "upvalue"
               PROVE  /\ scopes'[l].upvals[i].level < l - 1
                      /\ \E j \in DOMAIN scopes'[l - 1].upvals :
                            scopes'[l - 1].upvals[j].name = scopes'[l].upvals[i].name
    BY <1>3 DEF Forwarded, HasUpval
  <2>1. CASE i \in DOMAIN scopes[l].upvals /\ scopes'[l].upvals[i] = scopes[l].upvals[i]
    <3> DEFINE uv == scopes[l].upvals[i]
    <3>1. uv.level < l - 1 /\ uv \in UpvalRecords /\ HasUpval(l - 1, uv.name)
      BY <2>1, ScopeParts DEF IInv, Forwarded
    <3>2. l - 1 \in 1 .. Cur
      BY <1>4, <3>1 DEF UpvalRecords
    <3>3. PICK j \in DOMAIN scopes[l - 1].upvals : scopes[l - 1].upvals[j].name = uv.name
      BY <3>1 DEF HasUpval
    <3>4. j \in DOMAIN scopes'[l - 1].upvals /\ scopes'[l - 1].upvals[j] = scopes[l - 1].upvals[j]
      <4>1. scopes[l - 1].upvals \in Seq(UpvalRecords)
        BY <3>2, ScopeParts DEF IInv
      <4>2. CASE l - 1 \in Capturing(home)
        <5>1. Upval(l - 1, home, n) \in UpvalRecords
          BY <1>1, <4>2, UpvalParts
        <5>2. scopes'[l - 1].upvals = Append(scopes[l - 1].upvals, Upval(l - 1, home, n))
          BY <1>3, <3>2, <4>2
        <5>3. QED
          BY <3>3, <4>1, <5>1, <5>2
      <4>3. CASE l - 1 \notin Capturing(home)
        BY <1>3, <3>2, <3>3, <4>3
      <4>4. QED
        BY <4>2, <4>3
    <3>5. QED
      BY <2>1, <3>1, <3>3, <3>4
  <2>2. CASE l \in Capturing(home) /\ scopes'[l].upvals[i] = Upval(l, home, n)
    <3>1. home < l - 1 /\ scopes'[l].upvals[i].name = n /\ scopes'[l].upvals[i].level = home
      BY <1>1, <2>2, UpvalParts
    <3>2. l - 1 \in 1 .. Cur /\ l - 1 \in Capturing(home)
      BY <1>4, <3>1
    <3>3. scopes'[l - 1].upvals = Append(scopes[l - 1].upvals, Upval(l - 1, home, n))
          /\ scopes[l - 1].upvals \in Seq(UpvalRecords)
          /\ Upval(l - 1, home, n) \in UpvalRecords /\ Upval(l - 1, home, n).name = n
      <4>1. scopes'[l - 1].upvals = Append(scopes[l - 1].upvals, Upval(l - 1, home, n))
        BY <1>3, <3>2
      <4>2. scopes[l - 1].upvals \in Seq(UpvalRecords)
        BY <3>2, ScopeParts DEF IInv
      <4>3. Upval(l - 1, home, n) \in UpvalRecords /\ Upval(l - 1, home, n).name = n
        BY <1>1, <3>2, UpvalParts
      <4>4. QED
        BY <4>1, <4>2, <4>3
    <3> DEFINE j == Len(scopes[l - 1].upvals) + 1
    <3>4. j \in DOMAIN scopes'[l - 1].upvals
          /\ scopes'[l - 1].upvals[j] = Upval(l - 1, home, n)
      BY <3>3
    <3>5. QED
      BY <3>1, <3>3, <3>4
  <2>3. QED
    BY <1>5, <2>1, <2>2
<1>11. QED
  BY <1>3, <1>7, <1>8, <1>9, <1>10 DEF IInv

----------------------------------------------------------------------------
(* Theorems *)

LEMMA StepIInv ==
    ASSUME IInv, [Next]_vars
    PROVE  IInv'
<1>1. ASSUME NEW n \in Names, ModuleVariable(n) \/ LocalVariable(n) \/ GlobalStatement(n)
      PROVE  IInv'
  <2>1. PICK kind \in Kinds : MayDeclare(n) /\ Declare(n, kind) /\ UNCHANGED stopped
    BY <1>1 DEF ModuleVariable, LocalVariable, GlobalStatement, Kinds
  <2>2. QED
    BY <2>1, DeclareKeeps
<1>2. ASSUME NEW n \in Names, CallUpvalue(n) \/ LookUpCrossing(n)
      PROVE  IInv'
  <2>1. UNCHANGED scopes /\ stopped' \in {"no", "op_has_ref2", "crossed_function"}
    BY <1>2 DEF CallUpvalue, LookUpCrossing
  <2>2. QED
    BY <2>1 DEF IInv, TypeOK, VersionsCounted, UpvalsLexical, RefsOfParent, Forwarded, Lexical,
                Declared, HasUpval, Cur
<1>3. CASE UNCHANGED vars
  BY <1>3 DEF vars, IInv, TypeOK, VersionsCounted, UpvalsLexical, RefsOfParent, Forwarded,
              Lexical, Declared, HasUpval, Cur
<1>4. QED
  BY <1>1, <1>2, <1>3, EnterKeeps, LeaveKeeps, LoadKeeps DEF Next

\* The invariant holds in every behaviour of the names of a program.
THEOREM UpvalsInvariant == Spec => []IInv
BY InitIInv, StepIInv, PTL DEF Spec

\* leave_function finds the upvalue it forwards: the parent's are of the declaration that
\* is nearest there, so any of the name is the right one, and the oldest exists.
LEMMA InvForwardsFound == IInv => ForwardsFound
<1> SUFFICES ASSUME IInv, NEW l \in 2 .. Cur, NEW i \in DOMAIN scopes[l].upvals,
                    scopes[l].upvals[i].source = "upvalue"
             PROVE  LET uv == scopes[l].upvals[i]
                        mine == {j \in DOMAIN scopes[l - 1].upvals :
                                    scopes[l - 1].upvals[j].name = uv.name}
                    IN  \E j \in mine : /\ \A k \in mine : j <= k
                                        /\ scopes[l - 1].upvals[j].level = uv.level
                                        /\ scopes[l - 1].upvals[j].version = uv.version
  BY DEF ForwardsFound
<1> DEFINE uv == scopes[l].upvals[i]
           mine == {j \in DOMAIN scopes[l - 1].upvals :
                       scopes[l - 1].upvals[j].name = uv.name}
<1>1. Cur \in Nat /\ l \in 1 .. Cur /\ l - 1 \in 1 .. Cur
  BY UpvalsAssumption DEF IInv, TypeOK
<1>2. uv \in UpvalRecords /\ Lexical(l, i) /\ uv.level < l - 1 /\ HasUpval(l - 1, uv.name)
  BY <1>1, ScopeParts DEF IInv, UpvalsLexical, Forwarded
<1>3. mine \subseteq Nat /\ mine # {}
  <2>1. DOMAIN scopes[l - 1].upvals \subseteq Nat
    BY <1>1, ScopeParts DEF IInv
  <2>2. QED
    BY <1>2, <2>1 DEF HasUpval
<1>4. PICK j \in mine : \A k \in mine : j <= k
  <2> HIDE DEF mine
  <2>1. QED
    BY <1>3, Least
<1> DEFINE found == scopes[l - 1].upvals[j]
<1>5. found \in UpvalRecords /\ Lexical(l - 1, j) /\ found.name = uv.name
  BY <1>1, <1>4, ScopeParts DEF IInv, UpvalsLexical
<1>6. /\ found.level \in Nat /\ found.level < l - 1 /\ Declared(found.level, uv.name)
      /\ \A k \in found.level + 1 .. l - 2 : ~Declared(k, uv.name)
      /\ found.version = scopes[found.level].syms[uv.name].version
  <2>1. found.level \in Nat
    BY <1>5 DEF UpvalRecords
  <2>2. /\ found.level < l - 1 /\ Declared(found.level, found.name)
        /\ \A k \in found.level + 1 .. (l - 1) - 1 : ~Declared(k, found.name)
        /\ found.version = scopes[found.level].syms[found.name].version
    BY <1>5 DEF Lexical
  <2>3. (l - 1) - 1 = l - 2
    BY <1>1
  <2> HIDE DEF found, uv
  <2>4. QED
    BY <1>5, <2>1, <2>2, <2>3
<1>7. /\ uv.level \in Nat /\ Declared(uv.level, uv.name)
      /\ \A k \in uv.level + 1 .. l - 1 : ~Declared(k, uv.name)
      /\ uv.version = scopes[uv.level].syms[uv.name].version
  <2>1. uv.level \in Nat
    BY <1>2 DEF UpvalRecords
  <2>2. QED
    BY <1>2, <2>1 DEF Lexical
<1>8. found.level = uv.level
  <2> HIDE DEF found, uv
  <2>1. QED
    BY <1>1, <1>2, <1>6, <1>7
<1>9. QED
  BY <1>4, <1>6, <1>7, <1>8

\* The scopes keep their type, and no UpvalMap is written past its end.
THEOREM UpvalsTypeCorrect == Spec => []TypeOK
<1>1. IInv => TypeOK
  BY DEF IInv
<1>2. QED
  BY <1>1, UpvalsInvariant, PTL

\* A captured variable is the one its name stands for where it is used.
THEOREM UpvalsAreLexical == Spec => []UpvalsLexical
<1>1. IInv => UpvalsLexical
  BY DEF IInv
<1>2. QED
  BY <1>1, UpvalsInvariant, PTL

\* An upvalue's reference is of a variable or parameter of the parent.
THEOREM UpvalsRefsOfParent == Spec => []RefsOfParent
<1>1. IInv => RefsOfParent
  BY DEF IInv
<1>2. QED
  BY <1>1, UpvalsInvariant, PTL

\* What a parent forwards by name is of the declaration the nested function captured.
THEOREM UpvalsForwardsFound == Spec => []ForwardsFound
BY InvForwardsFound, UpvalsInvariant, PTL
============================================================================
