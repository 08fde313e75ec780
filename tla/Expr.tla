-------------------------------- MODULE Expr --------------------------------
(***************************************************************************)
(* Expressions of src/src/parse.c: parse_precedence and the functions its  *)
(* rule table names, on a text that is a sequence of tokens.  An operand   *)
(* is a kind, a type and, of a constant, a value; what the functions emit  *)
(* is left out, and a tree records which operator got which operands.      *)
(*                                                                         *)
(* The cursor, the bracket level of the categorizer and the names in scope *)
(* are passed along (st): a comprehension is read twice, and puts back the *)
(* cursor but neither of the others.  Assignments, compound literals,      *)
(* members, strings, slices and newlines are left out.                     *)
(***************************************************************************)
EXTENDS ConstFold, SequencesExt

CONSTANTS Texts,      (* the token sequences that are parsed                *)
          Literals,   (* token -> [base, digits, suffix]                    *)
          Vars,       (* name -> type, of the variables in scope            *)
          Names,      (* identifiers, in scope or not                       *)
          ShortData   (* length of OpVec.short_data, scaled                 *)

ASSUME ExprAssumption ==
    /\ \A t \in Texts : t \in Seq(STRING)
    /\ DOMAIN Vars \subseteq Names
    /\ ShortData \in Nat \ {0}

VARIABLES text,   \* the expression
          result  \* what parse_expression makes of it

vars == <<text, result>>

----------------------------------------------------------------------------
(* Operands and types: a type is a tuple that begins with its kind *)

Basic(t) == <<t>>
Bool == <<"bool">>
Ptr(t) == <<"ptr", t>>
Array(t, n) == <<"array", t, n>>
None == <<"none">>

IsInteger(type) == type[1] \in IntegerTypes        \* and type_is_arithmetic
IsCondition(type) == type[1] \in {"bool", "ptr"}

ConstOperand(c, tree) ==
    [kind |-> "const", type |-> Basic(c.type), const |-> c, tree |-> tree]
Rvalue(type, tree) == [kind |-> "rval", type |-> type, tree |-> tree]
Local(type, tree) == [kind |-> "addr", type |-> type, tree |-> tree]
BoolConst(tree) == [kind |-> "const", type |-> Bool, tree |-> tree]
Null(tree) == [kind |-> "null", type |-> None, tree |-> tree]

\* A parse that went on to st with an operand, and one that stopped.
Parsed(st, op) == [ok |-> TRUE, st |-> st, op |-> op]
Error == [ok |-> FALSE]

\* cast_operand between integers: of a constant its value is converted.
CastOperand(op, type) ==
    IF op.type = type THEN op
    ELSE IF op.kind # "const" THEN Rvalue(type, op.tree)
    ELSE LET c == Cast(op.const, type[1])
         IN  IF c.ok THEN ConstOperand(c, op.tree) ELSE Null(op.tree)

\* is_convertible.
IsConvertible(op, type) ==
    op.type = type \/ (IsInteger(op.type) /\ IsInteger(type))

----------------------------------------------------------------------------
(* Binary operators *)

\* promote_small_integers.
Promoted(op) ==
    CASE op.type \in {Basic("i8"), Basic("i16")} -> CastOperand(op, Basic("i32"))
      [] op.type \in {Basic("u8"), Basic("u16")} -> CastOperand(op, Basic("u32"))
      [] OTHER -> op

\* The type unify_arithmetic_operands gives two promoted operands, if it has one: its
\* last ASSERT fails on two variables of one size and different signs.
UnifiedType(l, r) ==
    LET lt == l.type[1]
        rt == r.type[1]
        larger == IF SizeOf[lt] <= SizeOf[rt] THEN rt ELSE lt
    IN  CASE (lt \in Signed) = (rt \in Signed) -> {larger}
          [] lt \in Signed /\ rt \in Unsigned /\ l.kind = "const" /\ SizeOf[rt] >= SizeOf[lt] -> {rt}
          [] rt \in Signed /\ lt \in Unsigned /\ r.kind = "const" /\ SizeOf[lt] >= SizeOf[rt] -> {lt}
          [] lt \in Signed /\ rt \in Unsigned /\ SizeOf[lt] > SizeOf[rt] -> {lt}
          [] rt \in Signed /\ lt \in Unsigned /\ SizeOf[rt] > SizeOf[lt] -> {rt}
          [] OTHER -> {}

Comparisons == {"==", "!=", "<", "<=", ">", ">="}
Arithmetic == {"+", "-", "*", "/", "%", "|", "&", "^", "<<"}

\* parse_binary once it has its operands, with resolve_binary_op and resolve_cmp_op: a
\* comparison that is folded has the type of its operands, and >> asks nothing of them
\* but that they have values.
Binary(tok, left, right) ==
    LET tree == <<tok, left.tree, right.tree>>
        l == Promoted(left)
        r == Promoted(right)
        unified == UnifiedType(l, r)
        type == Basic(CHOOSE t \in unified : TRUE)
        lu == CastOperand(l, type)
        ru == CastOperand(r, type)
        sameSign == (left.type[1] \in Signed) = (right.type[1] \in Signed)
        folded == Fold(tok, lu.const, ru.const)
    IN  IF tok = ">>"
        THEN IF {left.kind, right.kind} \cap {"null"} = {} /\ left.type[1] # "func"
             THEN Rvalue(left.type, tree) ELSE Null(tree)
        ELSE IF \/ ~IsInteger(left.type) \/ ~IsInteger(right.type)
                \/ tok \in Comparisons /\ ~sameSign
                \/ unified = {} \/ Null(l.tree) = lu \/ Null(r.tree) = ru
        THEN Null(tree)
        ELSE IF lu.kind = "const" /\ ru.kind = "const"
        THEN IF folded.ok THEN ConstOperand(folded, tree) ELSE Null(tree)
        ELSE Rvalue(IF tok \in Comparisons THEN Bool ELSE type, tree)

\* parse_unary once it has its operand.
Unary(tok, e) ==
    LET tree == <<tok, e.tree>>
        negated == Negate(e.const)
    IN  CASE tok = "-" /\ e.kind = "const" ->
                IF IsInteger(e.type) /\ negated.ok THEN ConstOperand(negated, tree) ELSE Null(tree)
          [] tok = "-" /\ e.kind # "const" -> Rvalue(e.type, tree)
          [] tok = "not" -> IF IsCondition(e.type) THEN Rvalue(e.type, tree) ELSE Null(tree)
          [] tok = "&" -> Rvalue(Ptr(e.type), tree)

----------------------------------------------------------------------------
(* The cursor *)

TokenAt(i) == IF i \in DOMAIN text THEN text[i] ELSE "end"
Cur(st) == TokenAt(st.at)

\* What the categorizer does to the bracket level when it gets to a token.
Step(tok) == CASE tok \in {"[", "("} -> 1 [] tok \in {"]", ")"} -> -1 [] OTHER -> 0

\* advance: the token after the next one is categorized.
Advance(st) == [st EXCEPT !.at = @ + 1, !.level = @ + Step(TokenAt(st.at + 1))]

Start == [at |-> 1, level |-> Step(TokenAt(1)), names |-> Vars]

\* scan_to_determine_if_comprehension, from behind the bracket: where the first for is,
\* of this list or of one in it, or the end of the list.
RECURSIVE Scan(_, _)
Scan(st, brackets) ==
    LET tok == Cur(st)
        open == IF tok \in {"[", "]"} THEN brackets + Step(tok) ELSE brackets
    IN  IF tok \in {"for", "end"} \/ open = 0 THEN st ELSE Scan(Advance(st), open)

----------------------------------------------------------------------------
(* The parser *)

PREC_LOWEST == 1
PREC_OR == 3
PREC_UNARY == 12

\* Mutant: the rules of + and << are swapped.
InfixSwapped(tok) ==
    CASE tok = "or" -> PREC_OR
      [] tok = "and" -> 4
      [] tok \in {"==", "!="} -> 5
      [] tok \in {"<", "<=", ">", ">=", "in", "not"} -> 6
      [] tok \in {"<<", ">>"} -> 8
      [] tok \in {"&", "|", "^"} -> 9
      [] tok \in {"+", "-"} -> 10
      [] tok \in {"*", "/", "%"} -> 11
      [] tok \in {"(", "["} -> 13
      [] OTHER -> 0

\* prec_for_infix of the rules.
InfixPrec(tok) ==
    CASE tok = "or" -> PREC_OR
      [] tok = "and" -> 4
      [] tok \in {"==", "!="} -> 5
      [] tok \in {"<", "<=", ">", ">=", "in", "not"} -> 6
      [] tok \in {"+", "-"} -> 8
      [] tok \in {"&", "|", "^"} -> 9
      [] tok \in {"<<", ">>"} -> 10
      [] tok \in {"*", "/", "%"} -> 11
      [] tok \in {"(", "["} -> 13
      [] OTHER -> 0

\* The result of a rule that has made its operand: an error is Null.
Checked(st, op) == IF op.kind = "null" THEN Error ELSE Parsed(st, op)

\* consume.
Consume(r, tok) ==
    IF r.ok /\ Cur(r.st) = tok THEN Parsed(Advance(r.st), r.op) ELSE Error

RECURSIVE ParsePrecedence(_, _), Infixes(_, _), Elements(_, _), Arguments(_, _, _)

\* parse_list_literal's loop; from the element after ShortData on, the stores of OpVec
\* go through a pointer that was never set.
Elements(st, elems) ==
    IF Cur(st) = "]" THEN [ok |-> TRUE, st |-> st, elems |-> elems]
    ELSE LET e == ParsePrecedence(PREC_LOWEST, st)
         IN  IF ~e.ok \/ Len(elems) = ShortData THEN Error
             ELSE IF Cur(e.st) = "," THEN Elements(Advance(e.st), Append(elems, e.op))
             ELSE [ok |-> TRUE, st |-> e.st, elems |-> Append(elems, e.op)]

\* parse_list_literal: an array of the first element's type.
ListLiteral(st) ==
    LET list == Elements(st, << >>)
        first == list.elems[1].type
        n == Len(list.elems)
        converted(i) ==
            IsConvertible(list.elems[i], first) /\ CastOperand(list.elems[i], first).kind # "null"
    IN  IF list.ok /\ n > 0 /\ \A i \in 1 .. n : list.elems[i].kind # "null" /\ converted(i)
        THEN Parsed(list.st, Rvalue(Array(first, n),
                        <<"list">> \o [i \in 1 .. n |-> list.elems[i].tree]))
        ELSE Error

\* parse_list_comprehension: the clauses from the for on, then the element from behind
\* the bracket, with the iterator in scope; the cursor is put back behind the clauses.
Comprehension(st, for) ==
    LET name == Cur(Advance(for))
        over == ParsePrecedence(PREC_LOWEST, Advance(Advance(Advance(for))))
        again == [over.st EXCEPT !.at = st.at, !.names = (name :> over.op.type[2]) @@ @]
        elem == ParsePrecedence(PREC_LOWEST, again)
    IN  IF /\ name \in Names /\ TokenAt(for.at + 2) = "in"
           /\ over.ok /\ Cur(over.st) \notin {"for", "if"}
           /\ over.op.type[1] = "array"
           /\ elem.ok
        THEN Parsed([elem.st EXCEPT !.at = over.st.at],
                    Null(<<"compr", elem.op.tree, over.op.tree>>))
        ELSE Error

\* Mutant: the bracket level is not put back after the scan.
ListNoRestore(st) ==
    LET scanned == Scan(st, 1)
    IN  CASE Cur(scanned) = "for" -> Consume(Comprehension(st, scanned), "]")
          [] Cur(scanned) = "]" -> Consume(ListLiteral([st EXCEPT !.level = scanned.level]), "]")
          [] OTHER -> Error

\* parse_list_literal_or_compr.
List(st) ==
    LET scanned == Scan(st, 1)
    IN  CASE Cur(scanned) = "for" -> Consume(Comprehension(st, scanned), "]")
          [] Cur(scanned) = "]" -> Consume(ListLiteral(st), "]")
          [] OTHER -> Error

\* parse_len.
LenOf(st) ==
    LET e == ParsePrecedence(PREC_OR, Advance(st))
        r == Consume(e, ")")
        n == e.op.type[3]
    IN  IF Cur(st) = "(" /\ r.ok /\ e.op.type[1] = "array"
        THEN Parsed(r.st, ConstOperand(Const("u64", n, n, TRUE), <<"len", e.op.tree>>))
        ELSE Error

\* The prefix rules.
Prefix(st) ==
    LET tok == Cur(st)
        next == Advance(st)
        literal == IntLiteral(Literals[tok])
        e == ParsePrecedence(PREC_UNARY, next)
    IN  CASE tok \in DOMAIN Literals ->
                IF literal.ok THEN Parsed(next, ConstOperand(literal, <<tok>>)) ELSE Error
          [] tok \in Names ->
                IF tok \in DOMAIN st.names THEN Parsed(next, Local(st.names[tok], <<tok>>))
                ELSE Error
          [] tok \in {"true", "false"} -> Parsed(next, BoolConst(<<tok>>))
          [] tok \in {"-", "not", "&"} ->
                IF e.ok THEN Checked(e.st, Unary(tok, e.op)) ELSE Error
          [] tok = "[" -> List(next)
          [] tok = "len" -> LenOf(next)
          [] OTHER -> Error

\* parse_and and parse_or: the right side is parsed as what an or may have.
Junction(tok, left, st) ==
    LET r == ParsePrecedence(PREC_OR, st)
    IN  IF IsCondition(left.type) /\ r.ok /\ IsCondition(r.op.type)
        THEN Parsed(r.st, Rvalue(Bool, <<tok, left.tree, r.op.tree>>))
        ELSE Error

\* parse_subscript: of a pointer, or of an array in a local variable.
Subscript(left, st) ==
    LET e == ParsePrecedence(PREC_LOWEST, st)
        element == Rvalue(left.type[2], <<"index", left.tree, e.op.tree>>)
    IN  IF \/ left.type[1] = "ptr"
           \/ left.type[1] = "array" /\ left.kind = "addr"
        THEN IF e.ok /\ IsInteger(e.op.type) THEN Consume(Parsed(e.st, element), "]") ELSE Error
        ELSE Error

\* The loop of parse_call over the arguments, each converted to its parameter.
Arguments(st, params, trees) ==
    LET n == Len(trees) + 1
        e == ParsePrecedence(PREC_OR, st)
    IN  IF n > Len(params) \/ ~e.ok \/ ~IsConvertible(e.op, params[n])
           \/ CastOperand(e.op, params[n]).kind = "null"
        THEN Error
        ELSE IF Cur(e.st) = "," THEN Arguments(Advance(e.st), params, Append(trees, e.op.tree))
        ELSE [ok |-> TRUE, st |-> e.st, trees |-> Append(trees, e.op.tree)]

\* parse_call.
Call(left, st) ==
    LET args == IF Cur(st) = ")" THEN [ok |-> TRUE, st |-> st, trees |-> << >>]
                ELSE Arguments(st, left.type[2], << >>)
    IN  IF left.type[1] = "func" /\ args.ok /\ Len(args.trees) = Len(left.type[2])
        THEN Consume(Parsed(args.st, Rvalue(left.type[3], <<"call", left.tree>> \o args.trees)), ")")
        ELSE Error

\* The infix rules, behind the operator; parse_in_or_not_in is not implemented.
Infix(tok, left, st) ==
    LET right == ParsePrecedence(InfixPrec(tok) + 1, st)
    IN  CASE tok \in {"and", "or"} -> Junction(tok, left, st)
          [] tok = "[" -> Subscript(left, st)
          [] tok = "(" -> Call(left, st)
          [] tok \in {"in", "not"} -> Error
          [] OTHER -> IF right.ok THEN Checked(right.st, Binary(tok, left, right.op)) ELSE Error

\* The loop of parse_precedence: infix operators that bind as tightly at least.
Infixes(precedence, r) ==
    LET tok == Cur(r.st)
    IN  IF ~r.ok THEN Error
        ELSE IF precedence > InfixPrec(tok) THEN r
        ELSE Infixes(precedence, Infix(tok, r.op, Advance(r.st)))

\* parse_precedence.
ParsePrecedence(precedence, st) == Infixes(precedence, Prefix(st))

----------------------------------------------------------------------------

Unparsed == [ok |-> FALSE, pending |-> TRUE]

Init == text \in Texts /\ result = Unparsed

\* parse_expression.
ParseExpression ==
    /\ result = Unparsed
    /\ result' = ParsePrecedence(PREC_LOWEST, Start)
    /\ UNCHANGED text

Next == ParseExpression

Spec == Init /\ [][Next]_vars

----------------------------------------------------------------------------
(* Properties *)

\* The operators as the comments of the enum Precedence list them, the loosest first.
Levels == << {"or"}, {"and"}, {"==", "!="}, {"<", ">", "<=", ">="}, {"+", "-"},
             {"^", "|", "&"}, {"<<", ">>"}, {"*", "/", "%"} >>
Operators == UNION Range(Levels)
Brackets == {"[", "]", "(", ")"}

\* The operators of lo .. hi that have an operand before them.
InfixesIn(lo, hi) ==
    {i \in lo + 1 .. hi - 1 :
        text[i] \in Operators /\ text[i - 1] \notin Operators \cup {"not"}}

\* The tree of a text without brackets under an order of the operators: split at the one
\* that binds least, the last of several; of or and and, the first.
RECURSIVE TreeOf(_, _, _)
TreeOf(levels, lo, hi) ==
    LET level(i) == CHOOSE n \in DOMAIN levels : text[i] \in levels[n]
        loosest == Min({level(i) : i \in InfixesIn(lo, hi)})
        candidates == {i \in InfixesIn(lo, hi) : level(i) = loosest}
        split == IF levels[loosest] \subseteq {"or", "and"} THEN Min(candidates)
                                                          ELSE Max(candidates)
    IN  IF InfixesIn(lo, hi) # {}
        THEN <<text[split], TreeOf(levels, lo, split - 1), TreeOf(levels, split + 1, hi)>>
        ELSE IF lo < hi THEN <<text[lo], TreeOf(levels, lo + 1, hi)>>
        ELSE <<text[lo]>>

\* An or behind an and: parse_and takes it into its right side.
OrInAnd == \E i, j \in DOMAIN text : i < j /\ text[i] = "and" /\ text[j] = "or"

\* An expression that is accepted is read to its end.  Operators bind as the enum
\* Precedence orders them ("or", "and", "== !=" ...), the first of equals first, save
\* that or and and are one level, read from the right: a and b or c is a and (b or c),
\* and is what the enum orders only where no or comes behind an and.
ParsesByPrecedence ==
    result.ok /\ (\A i \in DOMAIN text : text[i] \notin Brackets) =>
        LET tree(levels) == TreeOf(levels, 1, Len(text))
        IN  /\ result.st.at = Len(text) + 1
            /\ result.op.tree = tree(<<{"or", "and"}>> \o SubSeq(Levels, 3, Len(Levels)))
            /\ result.op.tree = tree(Levels) <=> ~OrInAnd

\* A folded constant is the value exact arithmetic gives, so none overflows unnoticed,
\* where the code checks at all (tame); and it fits its type.
FoldsExactly ==
    result.ok /\ result.op.kind = "const" /\ result.op.type # Bool =>
        LET c == result.op.const
        IN  /\ c.val \in MinOf(c.type) .. MaxOf(c.type)
            /\ c.tame => c.val = c.exact

\* The bracket that closes the one at i.
Closing(i) ==
    LET depth(j) == Len(SelectSeq(SubSeq(text, i, j), LAMBDA t : t = "["))
                    - Len(SelectSeq(SubSeq(text, i, j), LAMBDA t : t = "]"))
    IN  Min({j \in i .. Len(text) : depth(j) = 0})

\* The for of a list within the list at i comes before its own, if it has one.
InnerFor(i) ==
    \E j, k \in i + 1 .. Closing(i) :
        /\ text[j] = "[" /\ text[k] = "for" /\ j < k /\ k < Closing(j)
        /\ \A m \in i + 1 .. k - 1 : text[m] # "for"

\* A comprehension whose element begins with a bracket.
BracketFirst == TokenAt(2) = "[" /\ "for" \in Range(text)

\* A list is read up to its own bracket, for all that it is scanned first and that a
\* comprehension's element is read after its clauses, unless it holds a list whose for is
\* taken for its own: then it never is.  The bracket level is then what it was before,
\* but one lower behind an element that begins with a bracket, which is counted once and
\* its end twice.
ListsEnd ==
    result.ok /\ text[1] = "[" /\ Closing(1) = Len(text) =>
        /\ result.st.at = Len(text) + 1 <=> ~InnerFor(1)
        /\ ~InnerFor(1) => result.st.level = IF BracketFirst THEN -1 ELSE 0
============================================================================
