------------------------------ MODULE MCSymbolicList ------------------------------
(***************************************************************************)
(* Lists of up to two elements over {0, 7}: 0 is also an index, 7 is none. *)
(***************************************************************************)
EXTENDS SymbolicList

MCVal == {0, 7}
=================================================================================
