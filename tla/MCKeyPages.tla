------------------------------ MODULE MCKeyPages ------------------------------
(* Keys are only compared. *)
EXTENDS KeyPages, TLC

Symmetries == Permutations(Key)
=============================================================================
