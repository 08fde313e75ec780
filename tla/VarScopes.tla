----------------------------- MODULE VarScopes -----------------------------
(***************************************************************************)
(* Where the symbol tables of the open scopes live: enter_scope,           *)
(* leave_scope, enter_function, leave_function and the allocations of      *)
(* sym_new in src/src/parse.c, composed with the arena they allocate from  *)
(* (Parser.var_scope_arena).  A scope remembers the arena's position on    *)
(* entry and pops to it on exit; a function's symbols are in the Scope     *)
(* itself until they outgrow the flat array, and a hash table that is full *)
(* is moved to a larger one.                                               *)
(***************************************************************************)
EXTENDS Integers, Sequences

CONSTANTS PageSize, HeaderSize, ProvidedReserve, ProvidedCommit, Sizes, Aligns,
          MaxMarks,      (* as in Arena; each open scope is one mark        *)
          FlatSize,      (* length of SmallFlatNameSymMap.names             *)
          Room,          (* symbols a function's first table has room for   *)
          TableAlign,    (* the alignment of a table                        *)
          TableSize(_),  (* the size of a table with room for so many       *)
          MaxSyms        (* bound: symbols in one scope                     *)

ASSUME VarScopesAssumption ==
    /\ PageSize \in Nat \ {0} /\ HeaderSize \in Nat
    /\ ProvidedReserve \in Nat /\ ProvidedCommit \in Nat \ {0}
    /\ TableAlign \in Aligns /\ Aligns \subseteq Nat \ {0}
    /\ FlatSize \in Nat \ {0}
    /\ Room \in Nat /\ Room > FlatSize
    /\ MaxMarks \in Nat \ {0}
    /\ MaxSyms \in Nat \ {0}
    /\ \A room \in 1 .. Room + 2 * MaxSyms : TableSize(room) \in Nat \ {0}

VARIABLES pos, commit, trapped, live, marks,   \* the arena
          scopes   \* Parser.scopes up to num_scopes: symbols and table of each

arenaVars == <<pos, commit, trapped, live, marks>>
vars == <<pos, commit, trapped, live, marks, scopes>>

VarArena == INSTANCE Arena

NoTable == [room |-> 0, block |-> {}]
\* Mutant: the symbol that makes the table grow has no room in it.
TableShort(room, block) == [room |-> room - 1, block |-> {block}]

\* A table of dict_new or dict_resize.
Table(room, block) == [room |-> room, block |-> {block}]

\* exposed, of an open scope, is for the properties: a function nested in it has
\* been left.
NewScope == [syms |-> 0, table |-> NoTable, exposed |-> FALSE]

Top(s) == s[Len(s)]

----------------------------------------------------------------------------
(* Helpers *)

\* The block dict_new or dict_resize allocates for a table.
NewBlock(room) ==
    VarArena!Block(VarArena!AlignUp(pos, TableAlign), TableSize(room), TableAlign)

\* Mutant: the function around the module's functions counts as nested too.
LeaveMarkEarly == IF Len(scopes) > 1 THEN Len(scopes) - 1 ELSE Len(scopes)

\* The scope whose position leave_scope pops to: leave_function has made the
\* parent of a nested function current before it calls leave_scope.
LeaveMark == IF Len(scopes) > 2 THEN Len(scopes) - 1 ELSE Len(scopes)

----------------------------------------------------------------------------
(* Operations *)

\* parse_impl has entered the module's scope, whose table is made at once.
Init ==
    LET first == VarArena!Block(VarArena!AlignUp(HeaderSize, TableAlign),
                                TableSize(MaxSyms), TableAlign)
    IN  /\ marks = <<[pos |-> HeaderSize, live |-> {}]>>
        /\ pos = first.hi
        /\ commit = VarArena!initialCommit
        /\ trapped = FALSE
        /\ live = {first}
        /\ scopes = <<[NewScope EXCEPT !.table = Table(MaxSyms, first)]>>

\* enter_function.
EnterFunction ==
    /\ scopes # <<>>
    /\ VarArena!SavePos
    /\ scopes' = Append(scopes, NewScope)

\* sym_new where the symbol fits.
SymNewFits ==
    /\ scopes # <<>> /\ ~trapped
    /\ Top(scopes).syms < MaxSyms
    /\ Top(scopes).syms # FlatSize \/ Top(scopes).table # NoTable
    /\ Top(scopes).table = NoTable \/ Top(scopes).syms < Top(scopes).table.room
    /\ scopes' = [scopes EXCEPT ![Len(scopes)].syms = @ + 1]
    /\ UNCHANGED arenaVars

\* sym_new that needs a table of its own, or a larger one.
SymNewAllocates(room) ==
    /\ VarArena!Push(TableSize(room), TableAlign)
    /\ scopes' = IF trapped' THEN scopes
                 ELSE [scopes EXCEPT
                          ![Len(scopes)].syms = @ + 1,
                          ![Len(scopes)].table = Table(room, NewBlock(room))]

SymNewRehashes ==
    /\ scopes # <<>> /\ Top(scopes).syms < MaxSyms
    /\ Top(scopes).table = NoTable /\ Top(scopes).syms = FlatSize
    /\ SymNewAllocates(Room)

SymNewGrows ==
    /\ scopes # <<>> /\ Top(scopes).syms < MaxSyms
    /\ Top(scopes).table # NoTable /\ Top(scopes).syms = Top(scopes).table.room
    /\ SymNewAllocates(2 * Top(scopes).table.room)

\* leave_function, and at the end of parse_impl leave_scope for the module.  The
\* positions of the scopes that stay open stay saved.
Leave ==
    /\ scopes # <<>> /\ ~trapped
    /\ pos' = VarArena!PopTarget(marks[LeaveMark].pos)
    /\ live' = {b \in live : b.hi <= pos'}
    /\ marks' = SubSeq(marks, 1, Len(marks) - 1)
    /\ scopes' = [i \in 1 .. Len(scopes) - 1 |->
                     IF i > 1 /\ i = Len(scopes) - 1
                     THEN [scopes[i] EXCEPT !.exposed = TRUE] ELSE scopes[i]]
    /\ UNCHANGED <<commit, trapped>>

Next == EnterFunction \/ SymNewFits \/ SymNewRehashes \/ SymNewGrows \/ Leave

Spec == Init /\ [][Next]_vars

----------------------------------------------------------------------------
(* Properties *)

\* The state is of the right type, and each open scope has its saved position.
TypeOK ==
    /\ VarArena!TypeOK
    /\ Len(marks) = Len(scopes)
    /\ \A i \in DOMAIN scopes :
          /\ scopes[i].syms \in 0 .. MaxSyms
          /\ scopes[i].table # NoTable => scopes[i].syms <= scopes[i].table.room

Unexposed == {i \in DOMAIN scopes : ~scopes[i].exposed}

\* The table of an open scope is in memory the arena still holds, unless a function
\* nested in the scope has been left; the module's always is.
TablesLive == \A i \in Unexposed : scopes[i].table.block \subseteq live

Disjoint(i, j) ==
    \A p \in scopes[i].table.block, q \in scopes[j].table.block :
        p.hi <= q.lo \/ q.hi <= p.lo

\* Nor do the tables of two such scopes overlay each other, whatever was freed and
\* allocated again in the functions they nest.
TablesDisjoint == \A i, j \in Unexposed : i # j => Disjoint(i, j)

\* A table that is made for one open scope never overlays another's: what leave_scope
\* pops belongs to the scope that is left (leave_function).
AllTablesDisjoint == \A i, j \in DOMAIN scopes : i # j => Disjoint(i, j)
============================================================================
