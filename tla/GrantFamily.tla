----------------------------- MODULE GrantFamily -----------------------------
(***************************************************************************)
(* What the token endpoint promises about one grant, without its tables,   *)
(* statements or requests: a family of refresh tokens is a baton.  It is   *)
(* an issued code, then alternately in the hands of one request and in one *)
(* usable token, and once it is dead it stays dead.                        *)
(***************************************************************************)
CONSTANTS Fresh,     \* grants that begin with an authorization code
          Inherited  \* grants whose first token predates the model

VARIABLE fam

Grants == Fresh \cup Inherited

States == {"unissued", "issued", "held", "live", "dead"}

Init == fam = [g \in Grants |-> IF g \in Inherited THEN "live" ELSE "unissued"]

\* A login issues the code.
Issue(g) == fam[g] = "unissued" /\ fam' = [fam EXCEPT ![g] = "issued"]

\* One request takes the code or the live token out of use.
Take(g) == fam[g] \in {"issued", "live"} /\ fam' = [fam EXCEPT ![g] = "held"]

\* The same request puts the next token into use.
Pass(g) == fam[g] = "held" /\ fam' = [fam EXCEPT ![g] = "live"]

\* Any number of families end at once (a revocation, expiry, a failed request).
End(S) ==
    /\ \A g \in S : fam[g] # "unissued"
    /\ fam' = [g \in Grants |-> IF g \in S THEN "dead" ELSE fam[g]]

Next ==
    \/ \E g \in Grants : Issue(g) \/ Take(g) \/ Pass(g)
    \/ \E S \in SUBSET Grants : End(S)

Spec == Init /\ [][Next]_fam

=============================================================================
