---- MODULE MCAccount ----
(***************************************************************************)
(* Two requests at once and five in all on one account, with two links,    *)
(* two passkeys, two stops and one fault.                                  *)
(***************************************************************************)
EXTENDS Account, TLC

Symmetric == Permutations(Calls) \cup Permutations(Links) \cup Permutations(Passkeys)
====
