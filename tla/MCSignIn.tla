------------------------------ MODULE MCSignIn ------------------------------
(* Two machines a tick apart, two nonces, two requests.                    *)
EXTENDS SignIn, TLC

CONSTANTS m1, m2, r1, r2, n1, n2

Alike == Permutations({r1, r2}) \cup Permutations({m1, m2}) \cup Permutations({n1, n2})
=============================================================================
