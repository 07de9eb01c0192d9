---------------------------- MODULE MCSigningKey -----------------------------
(* Keys and ids are told apart only by equality.                            *)
EXTENDS SigningKey, TLC

Symmetries == Permutations(Key) \cup Permutations(KeyID)
=============================================================================
