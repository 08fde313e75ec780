----------------------------- MODULE MCControl -----------------------------
(* A model instance of Control: two functions, one nested in the other, and  *)
(* enough references that an END never has to wait for one.                 *)
EXTENDS Control

MCRefs == 1 .. 4
============================================================================
