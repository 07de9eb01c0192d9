---------------------------- MODULE OneTimeNonce ----------------------------
(***************************************************************************)
(* What the challenge store promises, with no store in it: the life of a   *)
(* nonce only ever goes forward.  A nonce is issued once; it is claimed by *)
(* at most one attempt to sign in, however the attempt ends; and it is     *)
(* redeemed at most once.  One step may move several nonces: a new         *)
(* challenge voids the one it replaces, a restart voids all of them.       *)
(***************************************************************************)
EXTENDS Naturals

CONSTANT Nonce

VARIABLES
  state,  \* where each nonce is in its life
  uses    \* how many sign-ins each nonce has served

vars == <<state, uses>>

TypeOK ==
  /\ state \in [Nonce -> {"fresh", "outstanding", "claimed", "spent"}]
  /\ uses \in [Nonce -> 0 .. 1]

Init ==
  /\ state = [n \in Nonce |-> "fresh"]
  /\ uses = [n \in Nonce |-> 0]

Successors(s) ==
  CASE s = "fresh" -> {"outstanding"}
    [] s = "outstanding" -> {"claimed", "spent"}
    [] s = "claimed" -> {"spent"}
    [] OTHER -> {}

\* Any nonces move on, and none of them is redeemed.
Advance ==
  /\ state' \in [Nonce -> {"fresh", "outstanding", "claimed", "spent"}]
  /\ \A n \in Nonce : state'[n] \in {state[n]} \cup Successors(state[n])
  /\ UNCHANGED uses

\* The attempt that claimed a nonce succeeds.
Redeem(n) ==
  /\ state[n] = "claimed"
  /\ state' = [state EXCEPT ![n] = "spent"]
  /\ uses' = [uses EXCEPT ![n] = 1]

Next == Advance \/ \E n \in Nonce : Redeem(n)

Spec == Init /\ [][Next]_vars
=============================================================================
