----------------------------- MODULE MCAuthFlow ------------------------------
(* Users with different emails, who may all complete the same request. *)
EXTENDS AuthFlow, TLC

MCEmailOf == [s \in Subject |-> <<"email of", s>>]

\* Ids, codes, users and the requests that present codes are only compared.
Symmetries ==
  Permutations(ReqID) \cup Permutations(Code) \cup Permutations(Exchange)
    \cup Permutations(Subject)
=============================================================================
