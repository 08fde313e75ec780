---------------------------- MODULE MCVarScopes ----------------------------
(* A model instance of VarScopes: the flat array holds two symbols, the first *)
(* table three; a table takes two units for a symbol.                         *)
EXTENDS VarScopes

MCTableSize(room) == 2 * room
MCSizes == {6, 12}
MCAligns == {2}
============================================================================
