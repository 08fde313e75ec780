------------------------------ MODULE LexIndex ------------------------------
(***************************************************************************)
(* The lexer of src/src/lex.c: an index of the places at which tokens      *)
(* start.  lex_indexer_simd takes a block of characters at a time, as bit  *)
(* masks, and carries what is open at its end into the next block;         *)
(* lex_indexer_fallback goes from token to token.  A mask is the set of    *)
(* its bits here, and a character its class: "ident" stands for letters,   *)
(* digits, _, @ and the backtick.                                          *)
(*                                                                         *)
(* The file is padded with zeros, one block of them at least, and a zero   *)
(* is a token, the end of the file.  Both indexers write one offset per    *)
(* token; the parser stops at the first end.                               *)
(***************************************************************************)
EXTENDS Integers, Sequences, FiniteSets, FiniteSetsExt

CONSTANTS Alphabets,  (* sets of characters a text is made of               *)
          MaxText,    (* bound: characters of a text                        *)
          Widths      (* characters of a block; 64 in the code, even here   *)

Chars == {"ident", "space", "newline", "quote", "backslash", "hash",
          "lt", "gt", "eq", "bang", "nul"}

ASSUME LexIndexAssumption ==
    /\ \A a \in Alphabets : a \subseteq Chars \ {"nul"}
    /\ MaxText \in Nat
    /\ \A w \in Widths : w \in Nat /\ w > 0 /\ w % 2 = 0

VARIABLES indexer,  \* "simd" or "fallback"
          width,    \* characters of a block
          text,     \* the padded text
          at,       \* offset, or i of the fallback
          carry,    \* state_*: what lex_indexer_simd takes into the next block
          out       \* token_offsets

lexVars == <<indexer, width, text, at, carry, out>>

Size == Cardinality(DOMAIN text)

\* The members of a finite set of numbers in order.
Ascending(S) ==
    [n \in 1 .. Cardinality(S) |-> CHOOSE x \in S : Cardinality({y \in S : y <= x}) = n]

----------------------------------------------------------------------------
(* Bit masks of one block *)

Bits == 0 .. width - 1
Shifted(mask) == {b + 1 : b \in mask} \cap Bits
FlipIn(mask, other) == (mask \cup other) \ (mask \cap other)
Lowest(mask) == IF mask = {} THEN {} ELSE {Min(mask)}

\* -x - x of a bit x: the bits after it.
After(bit) == {b \in Bits : \E c \in bit : b > c}

\* The difference of two masks as numbers, modulo 2^width: from bit to bit, with the borrow.
Minus(mask, other) ==
    LET bit(m, b) == IF b \in m THEN 1 ELSE 0
        borrow[b \in 0 .. width] ==
            IF b = 0 THEN 0
            ELSE IF bit(mask, b - 1) < bit(other, b - 1) + borrow[b - 1] THEN 1 ELSE 0
    IN  {b \in Bits : (bit(mask, b) + bit(other, b) + borrow[b]) % 2 = 1}

\* prefix_xor.
PrefixXor(mask) == {b \in Bits : Cardinality({c \in mask : c <= b}) % 2 = 1}

\* A state of all ones or all zeros, flipped by a mask.
FlippedBy(state, mask) == IF state THEN Bits \ mask ELSE mask

\* next_escape_and_terminal_code.
NextEscape(mask) ==
    LET odd == {b \in Bits : b % 2 = 1}
    IN  FlipIn(Minus(Shifted(mask) \cup odd, mask), odd)

\* The characters that take the next one with them: lex_indexer_simd has a mask and a
\* state of each.
Escaping == {"backslash", "lt", "gt", "eq", "bang"}

\* Mutant: an escape at the end of a block is forgotten.
EscapesNoCarry(mask, first) ==
    LET carried == IF first THEN {0} ELSE {}
        code == NextEscape(mask \ carried)
    IN  [bits |-> FlipIn(code, mask \cup carried), first |-> FALSE]

\* escapes_next_block: what the odd characters of every run escape.
Escapes(mask, first) ==
    LET carried == IF first THEN {0} ELSE {}
        code == NextEscape(mask \ carried)
    IN  IF mask = {} THEN [bits |-> carried, first |-> FALSE]
        ELSE [bits |-> FlipIn(code, mask \cup carried),
              first |-> width - 1 \in code \cap mask]

\* find_delimiters: the quotes and hashes that open something, and what closes them.
Delimiters(quotes, hashes, newlines, inQuoted, inComment) ==
    LET first == Lowest((IF inComment THEN newlines ELSE {})
                        \cup (IF inQuoted THEN quotes ELSE {}))
        starts == quotes \cup hashes
        from[s \in SUBSET Bits] ==
            IF s = {} THEN {}
            ELSE LET start == {Min(s)}
                     end == Lowest(After(start) \cap
                                (IF start \subseteq hashes THEN newlines ELSE quotes))
                 IN  start \cup end \cup from[s \cap After(end)]
    IN  first \cup from[IF inQuoted \/ inComment THEN starts \cap After(first) ELSE starts]

----------------------------------------------------------------------------
(* lex_indexer_simd *)

At(c) == {b \in Bits : text[at + b] = c}

\* The quotes that delimit strings, the characters in strings and in comments.
Regions(escaped) ==
    LET found == At("quote") \ escaped
        hashes == At("hash") \ escaped
        delimiters == Delimiters(found, hashes, At("newline"), carry.quoted, carry.comment)
        quotes == IF carry.comment \/ hashes # {} THEN delimiters \cap found ELSE found
    IN  [quotes |-> quotes,
         strings |-> FlippedBy(carry.quoted, PrefixXor(quotes)),
         comments |-> IF carry.comment \/ hashes # {}
                      THEN FlippedBy(carry.comment, PrefixXor(delimiters \ quotes))
                      ELSE {}]

\* The tokens of two characters.
Pairs == {<<"lt", "lt">>, <<"lt", "eq">>, <<"gt", "gt">>, <<"gt", "eq">>,
          <<"bang", "eq">>, <<"eq", "eq">>}

\* double_mask: the second characters of those tokens.
Doubles(escapes) ==
    UNION {escapes[p[1]].bits \cap At(p[2]) : p \in Pairs}

\* One block.  An offset is written when the next one is known, so the last is not.
SimdBlock ==
    /\ indexer = "simd" /\ at < Size
    /\ LET escapes == [c \in Escaping |-> Escapes(At(c), carry.escape[c])]
           regions == Regions(escapes["backslash"].bits)
           code == Bits \ (regions.strings \cup regions.comments)
           punct == Bits \ (At("ident") \cup At("space"))
           separators == (punct \cap code) \cup regions.quotes
           breaks == separators \cup At("space")
           follow == Shifted(breaks) \cup (IF carry.structural THEN {0} ELSE {})
           starts == separators \cup ((follow \ At("space")) \cap code)
           closing == regions.quotes \ regions.strings
           indexes == (starts \ closing) \ Doubles(escapes)
           \* trailing_zeros of no bits is what tzcnt gives, the width of a block
           offsets == Ascending(
               IF carry.start # 0 THEN {carry.start} \cup indexes
               ELSE IF indexes = {} THEN {width} ELSE indexes)
       IN  /\ out' = out \o [n \in 1 .. Len(offsets) - 1 |-> at + offsets[n]]
           /\ carry' = [quoted |-> width - 1 \in regions.strings,
                        comment |-> width - 1 \in regions.comments,
                        structural |-> width - 1 \in breaks,
                        start |-> offsets[Len(offsets)] - width,
                        escape |-> [c \in Escaping |-> escapes[c].first]]
    /\ at' = at + width
    /\ UNCHANGED <<indexer, width, text>>

----------------------------------------------------------------------------
(* lex_indexer_fallback *)

\* The first place from i on that has a character; the end of the text if there is none
\* (the code reads on).
NextOf(c, i) == Min({j \in i .. Size - 1 : text[j] = c} \cup {Size})

\* Where the loop over a string ends.  After an escaped quote it has skipped one
\* character too many: i += 2 stands behind the quote, and ++i goes on.
ClosingQuote(i) ==
    LET from[j \in Nat] ==
            IF j >= Size THEN Size
            ELSE IF text[j] = "backslash" /\ j + 1 < Size /\ text[j + 1] = "quote"
                 THEN from[j + 3]
            ELSE IF text[j] = "quote" THEN j
            ELSE from[j + 1]
    IN  from[i]

\* The end of the token that starts at i.
AfterToken(i) ==
    CASE text[i] = "quote" -> ClosingQuote(i + 1) + 1
      [] text[i] = "ident" -> Min({j \in i .. Size - 1 : text[j] # "ident"})
      [] <<text[i], text[i + 1]>> \in Pairs -> i + 2
      [] OTHER -> i + 1

\* One round of the loop; a comment is followed by the newline that ends it.
FallbackToken ==
    /\ indexer = "fallback" /\ at < Size /\ text[at] # "nul"
    /\ LET i == IF text[at] = "hash" THEN NextOf("newline", at) ELSE at
       IN  IF text[at] = "space" THEN at' = at + 1 /\ UNCHANGED out
           ELSE IF i = Size THEN at' = Size /\ UNCHANGED out
           ELSE at' = AfterToken(i) /\ out' = Append(out, i)
    /\ UNCHANGED <<indexer, width, text, carry>>

\* The end of the file is the last token.
FallbackEnd ==
    /\ indexer = "fallback" /\ at < Size /\ text[at] = "nul"
    /\ out' = Append(out, at)
    /\ at' = Size
    /\ UNCHANGED <<indexer, width, text, carry>>

----------------------------------------------------------------------------

NoCarry ==
    [quoted |-> FALSE, comment |-> FALSE, structural |-> TRUE, start |-> 0,
     escape |-> [c \in Escaping |-> FALSE]]

\* A text, padded as base_read_file pads it: by a block and to a whole one.
Padded(t, w) ==
    LET size == ((Len(t) + w + w - 1) \div w) * w
    IN  [i \in 0 .. size - 1 |-> IF i < Len(t) THEN t[i + 1] ELSE "nul"]

LexInit ==
    /\ indexer \in {"simd", "fallback"}
    /\ width \in Widths
    /\ indexer = "fallback" => width = Max(Widths)
    /\ \E alphabet \in Alphabets, n \in 0 .. MaxText :
        \E t \in [1 .. n -> alphabet] : text = Padded(t, width)
    /\ at = 0
    /\ carry = NoCarry
    /\ out = << >>

LexNext == SimdBlock \/ FallbackToken \/ FallbackEnd

LexSpec == LexInit /\ [][LexNext]_lexVars

----------------------------------------------------------------------------
(* Properties *)

\* What a character is part of, from the one before: code, a string, a string just after
\* a backslash, or a comment.
Part ==
    LET part[i \in 0 .. Size] ==
            IF i = 0 THEN "code"
            ELSE LET p == part[i - 1]
                     c == text[i - 1]
                 IN  CASE p = "code" /\ c = "quote" -> "string"
                       [] p = "code" /\ c = "hash" -> "comment"
                       [] p = "string" /\ c = "quote" -> "code"
                       [] p = "string" /\ c = "backslash" -> "escape"
                       [] p = "escape" -> "string"
                       [] p = "comment" /\ c = "newline" -> "code"
                       [] OTHER -> p
    IN  part

\* The characters at which a token starts: the newline that ends a comment is one.
Starts ==
    LET part == Part
        inCode(i) == part[i] = "code" \/ (part[i] = "comment" /\ text[i] = "newline")
        plain(i) == i \in DOMAIN text /\ part[i] = "code"
        second[i \in DOMAIN text] ==
            /\ plain(i) /\ plain(i - 1)
            /\ <<text[i - 1], text[i]>> \in Pairs
            /\ ~second[i - 1]
    IN  {i \in DOMAIN text :
            /\ inCode(i) /\ text[i] \notin {"space", "hash"}
            /\ ~second[i]
            /\ ~(text[i] = "ident" /\ plain(i - 1) /\ text[i - 1] = "ident")}

\* Texts whose strings and comments are closed, with backslashes and lone ! only in them.
Lexical ==
    LET part == Part
        code == {i \in DOMAIN text : part[i] = "code"}
    IN  /\ part[Size] = "code"
        /\ \A i \in code : text[i] # "backslash"
        /\ \A i \in code : text[i] = "bang" => i + 1 \in code /\ text[i + 1] = "eq"

\* Where the indexers are known to differ: the block indexer takes <==, >== and !== for
\* one token, the fallback loses its way at a quote behind a backslash.
SimdExcepted ==
    \E i \in {j \in Starts : text[j] \in {"lt", "gt", "bang"}} :
        text[i + 1] = "eq" /\ text[i + 2] = "eq"
FallbackExcepted ==
    LET part == Part
    IN  \E i \in DOMAIN text :
            /\ text[i] = "backslash" /\ text[i + 1] = "quote"
            /\ part[i] \in {"string", "escape"}

\* The offsets up to the first end of the file.
Indexed ==
    LET ends == {n \in DOMAIN out : text[out[n]] = "nul"}
    IN  IF ends = {} THEN << >> ELSE SubSeq(out, 1, Min(ends))

\* An indexer finds the tokens of a text and its end, whatever its blocks cut through: an
\* identifier, a string, a comment, an escape, a token of two characters.
FindsTokens ==
    at >= Size /\ Lexical
    /\ (indexer = "simd" => ~SimdExcepted) /\ (indexer = "fallback" => ~FallbackExcepted) =>
        LET end == Min({i \in DOMAIN text : text[i] = "nul"})
        IN  Indexed = Ascending(Starts \cap 0 .. end)
============================================================================
