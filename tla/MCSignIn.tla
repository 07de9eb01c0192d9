------------------------------ MODULE MCSignIn -------------------------------
(* One page, with a registered key and another one.                        *)
EXTENDS SignIn

CONSTANTS good, other
=============================================================================
