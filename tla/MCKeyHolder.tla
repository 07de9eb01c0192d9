----------------------------- MODULE MCKeyHolder -----------------------------
(* Keys are only compared. *)
EXTENDS KeyHolder, TLC

Symmetries == Permutations(Key)
=============================================================================
