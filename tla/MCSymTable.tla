----------------------------- MODULE MCSymTable -----------------------------
(* A model instance of SymTable: the array holds three of five names, so that *)
(* a program fills it, moves it and goes on in the table.                     *)
EXTENDS SymTable

CONSTANTS v1, v2, v3, v4, v5

MCNames == {v1, v2, v3, v4, v5}
============================================================================
