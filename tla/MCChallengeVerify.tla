------------------------- MODULE MCChallengeVerify --------------------------
(* Two connections and one user, built in and overridden by BRIDGE_USERS. *)
EXTENDS ChallengeVerify

CONSTANTS h1, h2, a1, a2, t0, k0, k1, e0

MCRemoteAddr == [h \in Handler |-> IF h = h1 THEN a1 ELSE a2]

\* The times of the clock, and the one that lies 2^63 before time 1.
MCStamp == Time \cup {1 - Half}

MCTestUsers == [t \in {t0} |-> [key |-> k1, email |-> e0]]
MCEnvUsers == [t \in {t0} |-> [key |-> k0, email |-> e0]]
=============================================================================
