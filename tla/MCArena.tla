------------------------------ MODULE MCArena ------------------------------
(* A model instance of Arena: offsets are in units of 64 bytes, so that the  *)
(* 128-byte header is two units and a page is four.                         *)
EXTENDS Arena

MCSizes == {1, 3}
MCAligns == {1, 2}
============================================================================
