------------------------------- MODULE Upvals -------------------------------
(***************************************************************************)
(* Names and captured variables of src/src/parse.c: scope_lookup_single,   *)
(* scope_lookup_recursive, find_or_create_upval, create_upval, load_value, *)
(* global_statement, and the captures leave_function makes.                *)
(*                                                                         *)
(* A nested function reads a variable of an outer one through $up, a block *)
(* of values its parent fills in when the nested function ends.  Each      *)
(* function between the two has an upvalue of that name, too, from which   *)
(* the next one inwards is filled in.                                      *)
(*                                                                         *)
(* An upvalue has a name and a source; which declaration it was made for   *)
(* is kept beside, for the properties only.                                *)
(***************************************************************************)
EXTENDS Integers, Sequences, FiniteSets

CONSTANTS Names,      (* the names a program uses                          *)
          MaxScopes,  (* bound: scopes open at once, the module's included *)
          MaxUpvals,  (* MAX_UPVALS                                        *)
          MaxDecls    (* bound: declarations of a name in one scope        *)

ASSUME UpvalsAssumption ==
    /\ MaxScopes \in Nat \ {0}
    /\ MaxUpvals \in Nat
    /\ MaxDecls \in Nat

VARIABLES scopes,   \* the open scopes, the module's first: the symbol of each
                    \* name and the UpvalMap
          stopped   \* "no", or the ASSERT that failed

vars == <<scopes, stopped>>

Kinds == {"none",     \* not declared in this scope
          "global",   \* a variable or function of the module
          "local",    \* SSD_DECLARED_LOCAL
          "func",     \* the same, of a nested function
          "param",    \* SSD_DECLARED_PARAMETER
          "crossing"} \* SSD_DECLARED_GLOBAL in a function: `global name'

Sources == {"local", "param", "upvalue"}

----------------------------------------------------------------------------
(* Helpers *)

Undeclared == [kind |-> "none", version |-> 0]
Cur == Len(scopes)
Declared(l, n) == scopes[l].syms[n].kind # "none"

\* sym_new: the newest symbol of a name is the one that is found.
Declare(n, kind) ==
    scopes' = [scopes EXCEPT ![Cur].syms[n] =
                  [kind |-> kind, version |-> @.version + 1]]

MayDeclare(n) == scopes[Cur].syms[n].version < MaxDecls

\* Mutant: the outermost scope that declares the name.
HomeOutermost(n) == {l \in 1 .. Cur : Declared(l, n) /\ \A k \in 1 .. l - 1 : ~Declared(k, n)}

\* scope_lookup_recursive: the innermost scope that declares the name.
Home(n) == {l \in 1 .. Cur : Declared(l, n) /\ \A k \in l + 1 .. Cur : ~Declared(k, n)}

\* Mutant: the functions in between are not given the upvalue.
CapturingInnermost(home) == {Cur}

\* The functions create_upval gives an upvalue, when it is called for the current
\* one: it goes up until the parent is the one that declares the name.
Capturing(home) == home + 1 .. Cur

\* Mutant: the symbol's own reference is taken in every function.
SourceDirect(l, home, n) == IF scopes[home].syms[n].kind = "param" THEN "param" ELSE "local"

\* Where the parent of the function at l takes the value from.
Source(l, home, n) == IF l > home + 1 THEN "upvalue"
                      ELSE IF scopes[home].syms[n].kind = "param" THEN "param" ELSE "local"

\* Mutant: "Too many upvals." comes one too late.
FullLate(l) == Len(scopes[l].upvals) > MaxUpvals

Full(l) == Len(scopes[l].upvals) >= MaxUpvals

Upval(l, home, n) ==
    [name |-> n, source |-> Source(l, home, n), level |-> home,
     version |-> scopes[home].syms[n].version]

HasUpval(l, n) == \E i \in DOMAIN scopes[l].upvals : scopes[l].upvals[i].name = n

----------------------------------------------------------------------------
(* Operations *)

NewScope(params) ==
    [syms |-> [n \in Names |-> IF n \in params THEN [kind |-> "param", version |-> 1]
                                               ELSE Undeclared],
     upvals |-> <<>>]

Init == scopes = <<NewScope({})>> /\ stopped = "no"

\* make_global: a variable of the module, which cannot be initialized again.
ModuleVariable(n) ==
    /\ stopped = "no" /\ Cur = 1
    /\ ~Declared(1, n) /\ MayDeclare(n)
    /\ Declare(n, "global")
    /\ UNCHANGED stopped

\* def_statement and enter_function.
EnterFunction(n, params) ==
    /\ stopped = "no" /\ Cur < MaxScopes /\ MayDeclare(n)
    /\ scopes' = Append([scopes EXCEPT ![Cur].syms[n] =
                            [kind |-> IF Cur = 1 THEN "global" ELSE "func",
                             version |-> @.version + 1]],
                        NewScope(params))
    /\ UNCHANGED stopped

\* leave_function: the parent fills in $up from its locals, its parameters and
\* its own upvalues.
LeaveFunction ==
    /\ stopped = "no" /\ Cur > 1
    /\ scopes' = SubSeq(scopes, 1, Cur - 1)
    /\ UNCHANGED stopped

\* make_local_and_alloc, of a variable declared with its type or, where the name
\* is not declared or is the module's, assigned to.
LocalVariable(n) ==
    /\ stopped = "no" /\ Cur > 1 /\ MayDeclare(n)
    /\ Declare(n, "local")
    /\ UNCHANGED stopped

\* global_statement, of a name the module has declared.
GlobalStatement(n) ==
    /\ stopped = "no" /\ Cur > 1 /\ MayDeclare(n)
    /\ Declared(1, n)
    /\ Declare(n, "crossing")
    /\ UNCHANGED stopped

\* load_value of a variable of an outer function.
LoadUpvalue(n) ==
    /\ stopped = "no"
    /\ ~HasUpval(Cur, n)
    /\ \E home \in Home(n) :
          /\ 1 < home /\ home < Cur
          /\ scopes[home].syms[n].kind \in {"local", "param"}
          /\ \A l \in Capturing(home) : ~Full(l)
          /\ scopes' = [l \in DOMAIN scopes |->
                 IF l \in Capturing(home)
                 THEN [scopes[l] EXCEPT !.upvals = Append(@, Upval(l, home, n))]
                 ELSE scopes[l]]
    /\ UNCHANGED stopped

\* parse_call of a function that is declared in an outer function, the current
\* function itself being one: an upvalue has no $up to call it with.
CallUpvalue(n) ==
    /\ stopped = "no"
    /\ \E home \in Home(n) : 1 < home /\ home < Cur /\ scopes[home].syms[n].kind = "func"
    /\ stopped' = "op_has_ref2"
    /\ UNCHANGED scopes

\* The name is one an outer function has declared with `global': scope_lookup_single
\* fails ASSERT(scope->is_function && !crossed_function).
LookUpCrossing(n) ==
    /\ stopped = "no"
    /\ \E home \in Home(n) : home < Cur /\ scopes[home].syms[n].kind = "crossing"
    /\ stopped' = "crossed_function"
    /\ UNCHANGED scopes

Next ==
    \/ \E n \in Names : ModuleVariable(n)
    \/ \E n \in Names, params \in SUBSET Names : EnterFunction(n, params)
    \/ LeaveFunction
    \/ \E n \in Names : LocalVariable(n)
    \/ \E n \in Names : GlobalStatement(n)
    \/ \E n \in Names : LoadUpvalue(n)
    \/ \E n \in Names : CallUpvalue(n)
    \/ \E n \in Names : LookUpCrossing(n)

Spec == Init /\ [][Next]_vars

----------------------------------------------------------------------------
(* Properties *)

Syms == [kind : Kinds, version : 0 .. MaxDecls]
UpvalRecords == [name : Names, source : Sources, level : 1 .. MaxScopes,
                 version : 1 .. MaxDecls]
Scopes == [syms : [Names -> Syms], upvals : Seq(UpvalRecords)]

\* The state is of the right type, and no UpvalMap is written past its end.
TypeOK ==
    /\ scopes \in Seq(Scopes)
    /\ Cur \in 1 .. MaxScopes
    /\ \A l \in 1 .. Cur : Len(scopes[l].upvals) <= MaxUpvals
    /\ stopped \in {"no", "op_has_ref2", "crossed_function"}

\* The upvalue of the function at l with index i is of the declaration the name
\* has in the nearest function around.
Lexical(l, i) ==
    LET uv == scopes[l].upvals[i]
    IN  /\ uv.level < l
        /\ Declared(uv.level, uv.name)
        /\ uv.version = scopes[uv.level].syms[uv.name].version
        /\ \A k \in uv.level + 1 .. l - 1 : ~Declared(k, uv.name)

\* A captured variable is the one the name stands for where it is used, whatever
\* the functions in between declare before and after, and however many upvalues
\* of a name a function has collected (find_or_create_upval takes the newest).
UpvalsLexical == \A l \in 1 .. Cur : \A i \in DOMAIN scopes[l].upvals : Lexical(l, i)

\* leave_function finds an upvalue that is forwarded among the parent's, by name
\* and from the oldest on, and the one it finds is of the same declaration.
ForwardsFound ==
    \A l \in 2 .. Cur : \A i \in DOMAIN scopes[l].upvals :
        LET uv == scopes[l].upvals[i]
            mine == {j \in DOMAIN scopes[l - 1].upvals :
                        scopes[l - 1].upvals[j].name = uv.name}
        IN  uv.source = "upvalue" =>
                \E j \in mine : /\ \A k \in mine : j <= k
                                /\ scopes[l - 1].upvals[j].level = uv.level
                                /\ scopes[l - 1].upvals[j].version = uv.version

\* An Upval's ref is used in the function it belongs to only, the parent (the
\* comment on Upval.ref): it is of a variable or parameter declared there.
RefsOfParent ==
    \A l \in 2 .. Cur : \A i \in DOMAIN scopes[l].upvals :
        LET uv == scopes[l].upvals[i]
        IN  uv.source # "upvalue" =>
                uv.level = l - 1 /\ scopes[l - 1].syms[uv.name].kind = uv.source
============================================================================
