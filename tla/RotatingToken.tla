---------------------------- MODULE RotatingToken ----------------------------
(***************************************************************************)
(* What refresh tokens promise.  A sign-in opens a family of refresh       *)
(* tokens.  A family has one valid token at a time; a renewal replaces it, *)
(* and whatever is replaced or taken away stays invalid.  A family that    *)
(* was closed never opens again.                                           *)
(***************************************************************************)
CONSTANTS Token, Family

VARIABLES
  valid,    \* the valid tokens of each family: one or none
  retired   \* the tokens that were valid once

vars == <<valid, retired>>

Init ==
  /\ valid = [f \in Family |-> {}]
  /\ retired = {}

Live == {f \in Family : valid[f] # {}}
Unused == {t \in Token : t \notin retired /\ \A f \in Live : t \notin valid[f]}

\* The tokens of a family are named after its first one.
Open(f) ==
  /\ UNCHANGED retired
  /\ f \in Unused \ Live
  /\ valid' = [valid EXCEPT ![f] = {f}]

\* The token of a live family is replaced.
Rotate(f) ==
  /\ retired' = retired \cup valid[f]
  /\ \E t \in Unused : valid' = [valid EXCEPT ![f] = {t}]

\* Several families may be closed at once.
Close(F) ==
  /\ retired' = retired \cup UNION {valid[f] : f \in F}
  /\ valid' = [f \in Family |-> IF f \in F THEN {} ELSE valid[f]]

Next ==
  \/ \E f \in Family : Open(f)
  \/ \E f \in Live : Rotate(f)
  \/ \E F \in SUBSET Live : Close(F)

Spec == Init /\ [][Next]_vars
=============================================================================
