------------------------------ MODULE MCBridge -------------------------------
(* Two users, who may sign in to the same requests over one connection.     *)
EXTENDS Bridge, TLC

CONSTANTS h1, a1, t1, t2, k1, k2, m1, m2

MCRemoteAddr == [h \in Handler |-> a1]
NoUsers == [t \in {} |-> None]
MCEnvUsers == [t \in {t1, t2} |-> IF t = t1 THEN [key |-> k1, email |-> m1]
                                            ELSE [key |-> k2, email |-> m2]]

\* The time of the first challenge, near and 2^63 seconds off, and a later one.
MCStamp == {-Half, 0, 1}

\* The users may be exchanged for each other, with their keys and emails.
Swap == (t1 :> t2) @@ (t2 :> t1) @@ (k1 :> k2) @@ (k2 :> k1) @@ (m1 :> m2) @@ (m2 :> m1)

Symmetries ==
  Permutations(ReqID) \cup Permutations(Code) \cup Permutations(Exchange)
    \cup {Swap}
=============================================================================
