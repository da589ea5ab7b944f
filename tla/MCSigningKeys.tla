--------------------------- MODULE MCSigningKeys ---------------------------
(* SigningKeys for TLC.  With <<6, 2>> a successor has room to take over;  *)
(* with <<2, 3>> its lead is longer than what the signer has left.         *)
EXTENDS SigningKeys, TLC

MCSettings == {<<6, 2>>, <<2, 3>>}
Symmetry == Permutations(Admins)
=============================================================================
