---------------------------- MODULE MCTokenStore -----------------------------
(* Calls are told apart only by what they have done. *)
EXTENDS TokenStore, TLC

Symmetries == Permutations(Call) \cup Permutations(Client)
=============================================================================
