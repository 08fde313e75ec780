----------------------------- MODULE ConstFold -----------------------------
(***************************************************************************)
(* Integer literals and constant folding of src/src/parse.c.  An integer   *)
(* type is named as in the source; Bits gives it a width, so the limits    *)
(* are near.                                                               *)
(*                                                                         *)
(* A constant carries two values besides the code's own: what exact        *)
(* arithmetic makes of the expression (exact), and whether the folding     *)
(* stayed where the code checks its range (tame): it checks casts against  *)
(* the largest value of a type and not against the least.                  *)
(***************************************************************************)
EXTENDS Integers, Sequences, FiniteSetsExt

CONSTANT Bits  (* the width of 8, 16, 32 and 64 bits, scaled *)

ASSUME ConstFoldAssumption ==
    /\ \A b \in {8, 16, 32, 64} : Bits[b] \in 2 .. 15
    /\ Bits[8] < Bits[16] /\ Bits[16] < Bits[32] /\ Bits[32] < Bits[64]

Signed == {"i8", "i16", "i32", "i64"}
Unsigned == {"u8", "u16", "u32", "u64"}
IntegerTypes == Signed \cup Unsigned

\* type_size, in bits.
SizeOf == [i8 |-> 8, u8 |-> 8, i16 |-> 16, u16 |-> 16,
           i32 |-> 32, u32 |-> 32, i64 |-> 64, u64 |-> 64]
Width(t) == Bits[SizeOf[t]]

MinOf(t) == IF t \in Signed THEN -(2 ^ (Width(t) - 1)) ELSE 0
MaxOf(t) == IF t \in Signed THEN 2 ^ (Width(t) - 1) - 1 ELSE 2 ^ Width(t) - 1

\* A value stored in an integer of a type.
Wrapped(v, t) == ((v - MinOf(t)) % (2 ^ Width(t))) + MinOf(t)

\* A constant, or what stopped the compiler.
Const(t, v, exact, tame) == [ok |-> TRUE, type |-> t, val |-> v, exact |-> exact, tame |-> tame]
NoConst == [ok |-> FALSE]

----------------------------------------------------------------------------
(* cast_operand *)

\* Mutant: the largest value is compared one off.
CastCheckedLate(v, t) ==
    CASE t = "u64" -> TRUE
      [] t = "u32" -> Wrapped(v, "i64") <= MaxOf("u32")
      [] OTHER -> v <= MaxOf(t) + 1

\* The overflow checks of CASE: only upwards, none for u64, and u32's on an i64.
CastChecked(v, t) ==
    CASE t = "u64" -> TRUE
      [] t = "u32" -> Wrapped(v, "i64") <= MaxOf("u32")
      [] OTHER -> v <= MaxOf(t)

\* The conversion of a constant to another integer type.
Cast(c, t) ==
    IF c.type = t THEN c
    ELSE IF ~CastChecked(c.val, t) THEN NoConst
    ELSE Const(t, Wrapped(c.val, t), c.exact,
               c.tame /\ c.exact >= MinOf(t) /\ (t = "u32" => c.exact <= MaxOf("i64")))

----------------------------------------------------------------------------
(* scan_int and parse_int_literal *)

\* The value of the digits, or -1 if it is larger than a u64.
ScanInt(base, digits) ==
    LET val[n \in 0 .. Len(digits)] ==
            IF n = 0 THEN 0
            ELSE LET before == val[n - 1]
                     digit == digits[n]
                 IN  IF before < 0 \/ before > (MaxOf("u64") - digit) \div base THEN -1
                     ELSE before * base + digit
    IN  val[Len(digits)]

\* The type of a literal without a suffix: the first that holds it.
Unsuffixed(v) ==
    CASE v <= MaxOf("i32") -> "i32"
      [] v > MaxOf("i32") /\ v <= MaxOf("u32") -> "u32"
      [] v > MaxOf("u32") /\ v <= MaxOf("i64") -> "i64"
      [] OTHER -> "u64"

\* parse_int_literal; a literal is [base, digits, suffix].
IntLiteral(literal) ==
    LET v == ScanInt(literal.base, literal.digits)
        t == IF literal.suffix = "" THEN Unsuffixed(v) ELSE literal.suffix
    IN  IF v < 0 \/ v > MaxOf(t) THEN NoConst
        ELSE Cast(Const("u64", v, v, TRUE), t)

----------------------------------------------------------------------------
(* eval_binary_op and eval_unary_op *)

Sign(v) == IF v < 0 THEN -1 ELSE 1
Quotient(a, b) == Sign(a) * Sign(b) * ((Sign(a) * a) \div (Sign(b) * b))
Remainder(a, b) == a - b * Quotient(a, b)

\* An i64 as the set of its bits, and back.
BitsOf(v) == {n \in 0 .. Width("i64") - 1 : (v \div 2 ^ n) % 2 = 1}
FromBits(set) == Wrapped(MapThenSumSet(LAMBDA n : 2 ^ n, set), "i64")

Truth(holds) == IF holds THEN 1 ELSE 0

\* What an operator means on exact integers; the divisor is not zero, and a count not
\* negative.
Exactly(op, a, b) ==
    CASE op = "+" -> a + b
      [] op = "-" -> a - b
      [] op = "*" -> a * b
      [] op = "/" -> Quotient(a, b)
      [] op = "%" -> Remainder(a, b)
      [] op = "&" -> FromBits(BitsOf(a) \cap BitsOf(b))
      [] op = "|" -> FromBits(BitsOf(a) \cup BitsOf(b))
      [] op = "^" -> FromBits((BitsOf(a) \cup BitsOf(b)) \ (BitsOf(a) \cap BitsOf(b)))
      [] op = "<<" -> a * 2 ^ b
      [] op = "==" -> Truth(a = b)
      [] op = "!=" -> Truth(a # b)
      [] op = "<" -> Truth(a < b)
      [] op = "<=" -> Truth(a <= b)
      [] op = ">" -> Truth(a > b)
      [] op = ">=" -> Truth(a >= b)

\* highest_bit_set of an i64.
HighestBitSet(v) ==
    IF v < 0 THEN Width("i64") - 1
    ELSE IF v = 0 THEN 0
    ELSE Max({n \in 0 .. Width("i64") - 1 : 2 ^ n <= v})

\* Whether eval_binary_op_ll has a result: an overflow of an i64 and a division by zero
\* are errors, and the least i64 divided by -1 stops the compiler.
HasResult(op, a, b) ==
    CASE op \in {"+", "-", "*"} -> Exactly(op, a, b) \in MinOf("i64") .. MaxOf("i64")
      [] op \in {"/", "%"} -> b # 0 /\ ~(a = MinOf("i64") /\ b = -1)
      [] op = "<<" -> HighestBitSet(a) + b + 1 <= Width("i64")
      [] OTHER -> TRUE

\* The result; the machine takes a shift's count modulo the width.
Result(op, a, b) ==
    IF op = "<<" THEN Wrapped(a * 2 ^ (b % Width("i64")), "i64") ELSE Exactly(op, a, b)

\* A shift into the sign bit or by a negative count is not checked.
ShiftTame(op, a, b) == op = "<<" => b >= 0 /\ a * 2 ^ b <= MaxOf("i64")

\* eval_binary_op of two constants of one type: unsigned constants are still to do.
Fold(op, l, r) ==
    IF l.type \in Unsigned \/ ~HasResult(op, l.val, r.val) THEN NoConst
    ELSE LET tame == l.tame /\ r.tame /\ ShiftTame(op, l.exact, r.exact)
         IN  Cast(Const("i64", Result(op, l.val, r.val),
                        IF tame THEN Exactly(op, l.exact, r.exact) ELSE 0, tame), l.type)

\* eval_unary_op of minus.
Negate(c) ==
    IF c.type \in Unsigned THEN NoConst
    ELSE Cast(Const("i64", Wrapped(-c.val, "i64"), -c.exact,
                    c.tame /\ -c.exact <= MaxOf("i64")), c.type)
============================================================================
