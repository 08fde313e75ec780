-------------------------------- MODULE Env --------------------------------
(***************************************************************************)
(* What the names of one scope promise: a name stands for the symbol that  *)
(* was declared with it last, and declaring a name changes no other.       *)
(***************************************************************************)
CONSTANTS Names,  (* the names a program declares                          *)
          Decls,  (* its declarations                                      *)
          NoDecl  (* what a name stands for before it is declared          *)

VARIABLE env      \* the declaration each name stands for

Init == env = [n \in Names |-> NoDecl]

Declare(n, d) == env' = [env EXCEPT ![n] = d]

Next == \E n \in Names, d \in Decls : Declare(n, d)

Spec == Init /\ [][Next]_env
============================================================================
