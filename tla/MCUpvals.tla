------------------------------ MODULE MCUpvals ------------------------------
(* A model instance of Upvals: two names, the module and three functions one *)
(* in the other.  Upvalues and declarations are few, so that both limits     *)
(* are met.                                                                  *)
EXTENDS Upvals

CONSTANTS x, y
MCNames == {x, y}
============================================================================
