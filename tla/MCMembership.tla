---------------------------- MODULE MCMembership ----------------------------
(* One guest, invited any number of times.  Memberships of different users *)
(* touch no common row, so a second user adds interleavings and no case.   *)
EXTENDS Membership

CONSTANTS u1, r1, r2, r3

MCUsers == {u1}
MCRequests == {r1, r2, r3}
=============================================================================
