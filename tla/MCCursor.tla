------------------------------ MODULE MCCursor ------------------------------
(* Cursor with the sizes of the code: eleven indentations, the 12 slots of   *)
(* indent_levels, the 16 of token_buffer and 32 scopes.                      *)
EXTENDS Cursor
============================================================================
