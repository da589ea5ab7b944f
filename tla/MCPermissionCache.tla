------------------------ MODULE MCPermissionCache ------------------------
(* One administrator to begin with and one who may become one. *)
EXTENDS PermissionCache

CONSTANTS u1, u2, r1, r2

MCUsers == {u1, u2}
MCFirstAdmins == {u1}
MCRequests == {r1, r2}
=============================================================================
