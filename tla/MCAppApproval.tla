--------------------------- MODULE MCAppApproval ---------------------------
(* AppApproval for TLC.                                                    *)
EXTENDS AppApproval, TLC

Symmetry == Permutations(Users) \cup Permutations(Enrollments)
            \cup Permutations(PublicKeys) \cup Permutations(Keys)
            \cup Permutations(Requests) \cup Permutations(Sessions)
            \cup Permutations(Calls)
=============================================================================
