------------------------------ MODULE MCSignIn ------------------------------
(* SignIn with named flows: what each of them asks for.                   *)
EXTENDS SignIn, TLC

CONSTANTS r1, r2, u1, u2, s1, s2, f1, f2, f3

\* One flow that asks for the profile.
OneFlowAsks == [f \in Flows |-> {"profile"}]

\* openid alone, the profile, the profile and the address.
ThreeFlowsAsk == [f \in Flows |-> CASE f = f1 -> {}
                                    [] f = f2 -> {"profile"}
                                    [] f = f3 -> {"profile", "email"}]

\* In both runs the users have the same authenticators.
Symmetry == Permutations(Requests) \cup Permutations(Sids) \cup Permutations(Users)
=============================================================================
