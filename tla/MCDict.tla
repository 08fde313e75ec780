------------------------------- MODULE MCDict -------------------------------
(* A model instance of Dict: groups of four and a load of three quarters for  *)
(* groups of eight and a load of seven eighths, so that a table of two groups *)
(* fills, loses keys, is rehashed in place and grows.                         *)
EXTENDS Dict, Bitwise

MCHashes == {[h1 |-> 0, h2 |-> 0], [h1 |-> 3, h2 |-> 1]}
MCXor == [h1 \in {h.h1 : h \in Hashes}, seed \in Seeds |-> h1 ^^ seed]
MCMixed(h1, seed) == MCXor[h1, seed]
============================================================================
