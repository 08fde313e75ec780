------------------------------- MODULE MCExpr -------------------------------
(* A model instance of Expr.  Its texts: chains of operators over variables,  *)
(* chains of operators over literals at the limits of their types, and lists  *)
(* in lists with calls and comprehensions.                                    *)
EXTENDS Expr

MCBits == (8 :> 2) @@ (16 :> 3) @@ (32 :> 4) @@ (64 :> 6)

Literal(digits, suffix) == [base |-> 10, digits |-> digits, suffix |-> suffix]
MCLiterals ==
    ("0" :> Literal(<<0>>, "")) @@ ("1" :> Literal(<<1>>, "")) @@ ("3" :> Literal(<<3>>, ""))
    @@ ("7" :> Literal(<<7>>, "")) @@ ("8" :> Literal(<<8>>, ""))
    @@ ("31" :> Literal(<<3, 1>>, "")) @@ ("63" :> Literal(<<6, 3>>, ""))
    @@ ("64" :> Literal(<<6, 4>>, "")) @@ ("1i8" :> Literal(<<1>>, "i8"))
    @@ ("2u8" :> Literal(<<2>>, "u8")) @@ ("5i64" :> Literal(<<5>>, "i64"))

MCVars ==
    ("i" :> <<"i32">>) @@ ("u" :> <<"u32">>) @@ ("c" :> <<"bool">>)
    @@ ("a" :> <<"array", <<"i32">>, 2>>) @@ ("f" :> <<"func", << <<"i32">>, <<"u8">> >>, <<"i32">> >>)

\* n operands with operators between them.
Chains(operands, operators, n) ==
    LET chain[m \in 1 .. n] ==
            IF m = 1 THEN operands
            ELSE {c \o <<op>> \o o : c \in chain[m - 1], op \in operators, o \in operands}
    IN  chain[n]

One(toks) == {<<t>> : t \in toks}
With(prefixes, toks) == {<<p, t>> : p \in prefixes, t \in toks}

ByLevel == {"or", "and", "==", "<", "+", "&", "<<", ">>", "*"}
Precedences ==
    Chains(One({"i", "c"}), ByLevel, 4)
    \cup Chains(One({"i", "c"}) \cup With({"-"}, {"i"}) \cup With({"not", "&"}, {"c"}), ByLevel, 3)
    \cup Chains(One({"i", "c", "a"}), {"in", "not", "or", "+"}, 3)

Foldings ==
    LET limits == {"0", "1", "3", "7", "8", "31", "63", "64", "1i8", "2u8", "5i64"}
        some == One({"1", "7", "5i64"}) \cup With({"-"}, {"7", "31"})
    IN  Chains(One(limits \cup {"u", "i"}) \cup With({"-"}, limits), Arithmetic \cup {"<", "==", ">>"}, 2)
        \cup Chains(some, {"+", "-", "*", "/", "%", "<<", "<"}, 3)

Lists ==
    LET atoms == One({"1", "x", "a", "c"})
        list(elems) ==
            {<<"[">> \o e \o <<"]">> : e \in elems}
            \cup {<<"[">> \o d \o <<",">> \o e \o <<"]">> : d \in elems, e \in elems}
            \cup {<<"[">> \o e \o <<"for", "x", "in">> \o o \o <<"]">> :
                    e \in elems, o \in elems}
        calls == {<<"len", "(", "a", ")">>, <<"f", "(", "1", ",", "2u8", ")">>,
                  <<"f", "(", "x", ",", "2u8", ")">>}
        some == atoms \cup calls \cup list(One({"1", "x", "a"}) \cup calls)
    IN  list(some) \cup {<<"[", "1", ",", "1", ",", "1", ",", "1", "]">>}
        \cup {<<"a", "[">> \o e \o <<"]">> : e \in some}
        \cup {<<"len", "(">> \o e \o <<")", "+", "1">> : e \in some}
        \cup {<<"f", "(">> \o d \o <<",">> \o e \o <<")">> : d \in atoms, e \in atoms}
        \cup {<<"f", "(", ")">>}

MCTexts == Precedences \cup Foldings \cup Lists
MCNames == {"i", "u", "c", "a", "f", "x"}
============================================================================
