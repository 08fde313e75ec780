------------------------------ MODULE SymTable ------------------------------
(***************************************************************************)
(* The symbols of one Scope of src/src/parse.c: sym_new and find_in_scope. *)
(* A function's scope starts as a flat array that is searched from the     *)
(* newest entry back and is moved into a hash table when it is full; the   *)
(* module's scope is a hash table from the start.  The table is a function *)
(* here; dict_insert leaves an entry that exists as it is.                 *)
(*                                                                         *)
(* A declaration is a number.  The caller of sym_new gives the type before *)
(* and the reference (the VAR, PARAM or address) after the symbol is made, *)
(* so the two are kept apart: a symbol is faithful if both are of the same *)
(* declaration.                                                            *)
(***************************************************************************)
EXTENDS Integers, Sequences

CONSTANTS Names,       (* the names a program declares                     *)
          FlatSize,    (* length of SmallFlatNameSymMap.names              *)
          MaxDecls,    (* bound: declarations in one scope                 *)
          Modules,     (* the values of is_module of the scopes looked at  *)
          Redeclare    (* names declared twice may be moved into a table   *)

ASSUME SymTableAssumption ==
    /\ FlatSize \in Nat \ {0}
    /\ MaxDecls \in Nat
    /\ Modules \subseteq BOOLEAN
    /\ Redeclare \in BOOLEAN

NoDecl == 0
Decls == 1 .. MaxDecls

VARIABLES isFullDict,  \* is_full_dict
          flat,        \* flat_map, oldest entry first
          symDict,     \* sym_dict; NoSym where a name has no entry
          count,       \* declarations so far
          owner        \* history: the name of each declaration

vars == <<isFullDict, flat, symDict, count, owner>>

Sym(type, ref) == [type |-> type, ref |-> ref]
NoSym == Sym(NoDecl, NoDecl)
EmptyDict == [n \in Names |-> NoSym]

----------------------------------------------------------------------------
(* Helpers *)

\* dict_insert, which returns the entry a name has already.
Inserted(dict, n, sym) == IF dict[n] = NoSym THEN [dict EXCEPT ![n] = sym] ELSE dict

\* Mutant: the first entry of the flat array is not moved.
RehashedSkipFirst ==
    [n \in Names |->
        LET mine == {i \in 2 .. Len(flat) : flat[i].name = n}
        IN  IF mine = {} THEN NoSym
            ELSE flat[CHOOSE i \in mine : \A j \in mine : i <= j].sym]

\* The table the flat array is moved into, entry by entry from the oldest.
Rehashed ==
    [n \in Names |->
        LET mine == {i \in DOMAIN flat : flat[i].name = n}
        IN  IF mine = {} THEN NoSym
            ELSE flat[CHOOSE i \in mine : \A j \in mine : i <= j].sym]

\* Mutant: the array is searched from the oldest entry on.
FindOldest(n) ==
    IF isFullDict THEN symDict[n]
    ELSE LET mine == {i \in DOMAIN flat : flat[i].name = n}
         IN  IF mine = {} THEN NoSym
             ELSE flat[CHOOSE i \in mine : \A j \in mine : j >= i].sym

\* find_in_scope.
Find(n) ==
    IF isFullDict THEN symDict[n]
    ELSE LET mine == {i \in DOMAIN flat : flat[i].name = n}
         IN  IF mine = {} THEN NoSym
             ELSE flat[CHOOSE i \in mine : \A j \in mine : j <= i].sym

\* Mutant: the array is found full one entry too late.
FullLate == Len(flat) > FlatSize

Full == Len(flat) = FlatSize

\* A scope in which no name that is declared twice gets into a table.
MovesOnce(n) ==
    \/ ~isFullDict /\ ~Full
    \/ /\ Find(n) = NoSym
       /\ \A i, j \in DOMAIN flat : flat[i].name = flat[j].name => i = j

\* What the callers of sym_new do with the symbol it returns: set its reference.
WithRef(dict, n, d) == [dict EXCEPT ![n].ref = d]

----------------------------------------------------------------------------
(* Operations *)

\* A function's scope or the module's.
Init ==
    /\ isFullDict \in Modules
    /\ flat = <<>>
    /\ symDict = EmptyDict
    /\ count = 0
    /\ owner = <<>>

\* sym_new, and the reference its caller sets.
SymNew(n) ==
    LET d == count + 1
    IN  /\ count < MaxDecls
        /\ Redeclare \/ MovesOnce(n)
        /\ count' = d
        /\ owner' = Append(owner, n)
        /\ \/ /\ ~isFullDict /\ ~Full
              /\ flat' = Append(flat, [name |-> n, sym |-> Sym(d, d)])
              /\ UNCHANGED <<isFullDict, symDict>>
           \/ /\ ~isFullDict /\ Full
              /\ isFullDict' = TRUE
              /\ symDict' = WithRef(Inserted(Rehashed, n, Sym(d, NoDecl)), n, d)
              /\ flat' = <<>>      \* the union now holds the table
           \/ /\ isFullDict
              /\ symDict' = WithRef(Inserted(symDict, n, Sym(d, NoDecl)), n, d)
              /\ UNCHANGED <<isFullDict, flat>>

Next == \E n \in Names : SymNew(n)

Spec == Init /\ [][Next]_vars

----------------------------------------------------------------------------
(* Properties *)

Syms == [type : Decls \cup {NoDecl}, ref : Decls \cup {NoDecl}]

\* The state is of the right type.
TypeOK ==
    /\ isFullDict \in BOOLEAN
    /\ flat \in Seq([name : Names, sym : Syms])
    /\ Len(flat) <= FlatSize
    /\ symDict \in [Names -> Syms]
    /\ count \in 0 .. MaxDecls
    /\ owner \in Seq(Names) /\ Len(owner) = count

\* The declarations of a name.
Mine(n) == {d \in DOMAIN owner : owner[d] = n}

\* No symbol is lost or mixed up with another name's when the array is moved
\* into the table, and none appears: a name is found exactly if it was declared,
\* with a type and a reference of its own declarations.
NamesKept ==
    \A n \in Names :
        \/ Mine(n) = {} /\ Find(n) = NoSym
        \/ Find(n).type \in Mine(n) /\ Find(n).ref \in Mine(n)

\* A name stands for its last declaration, in the array and in the table ("flat_map
\* is full, 'rehash' into full dict", sym_new).
NewestFound ==
    \A n \in Names : Mine(n) # {} =>
        \E d \in Mine(n) : Find(n) = Sym(d, d) /\ \A e \in Mine(n) : e <= d

\* What a name stands for, if its symbol is faithful.
Standing(n) == IF Find(n).type = Find(n).ref THEN Find(n).ref ELSE NoDecl

\* The two representations are one environment: every sym_new declares its name
\* and leaves the others alone, also when it moves the array into the table.
Environment == INSTANCE Env WITH env <- [n \in Names |-> Standing(n)]
ImplementsEnv == Environment!Spec
============================================================================
