---------------------------- MODULE MCTypeTable ----------------------------
(* A model instance of TypeTable: i32, arrays of 16 and of more than there   *)
(* can be, structs of two fields, and functions of one parameter and of      *)
(* five, one more than fit in a block.  Two arrays of 16 wrap a size.        *)
EXTENDS TypeTable

MCBasics == {8}
MCParamLists == {<<8, 8, 8, 8, 8>>}
============================================================================
