------------------------------- MODULE KeySet -------------------------------
(***************************************************************************)
(* What a hash table promises: a set of keys that one insertion adds to,   *)
(* one erasure takes from, and that nothing else changes.                  *)
(***************************************************************************)
EXTENDS FiniteSets

CONSTANT Key   (* the keys there are *)

VARIABLE keys  \* the keys that are in

Init == keys = {}

Add == keys \subseteq keys' /\ Cardinality(keys' \ keys) = 1

Remove == keys' \subseteq keys /\ Cardinality(keys \ keys') = 1

Clear == keys' = {}

Next == keys' \subseteq Key /\ (Add \/ Remove \/ Clear)

Spec == Init /\ [][Next]_keys
============================================================================
