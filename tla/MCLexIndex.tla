---------------------------- MODULE MCLexIndex -----------------------------
(* A model instance of LexIndex: blocks of two and of four characters under   *)
(* texts of five, with strings and comments or with operators.                *)
EXTENDS LexIndex

MCAlphabets == {{"ident", "newline", "quote", "backslash", "hash"},
                {"ident", "space", "quote", "hash", "newline"},
                {"ident", "lt", "gt", "eq", "bang"}}
=============================================================================
