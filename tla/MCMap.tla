------------------------------- MODULE MCMap -------------------------------
(***************************************************************************)
(* Map on a board that is higher than wide, and wider than high.           *)
(***************************************************************************)
EXTENDS Map

MCSizes == {[x |-> 2, y |-> 3], [x |-> 3, y |-> 2]}
=============================================================================
