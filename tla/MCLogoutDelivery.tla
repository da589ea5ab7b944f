-------------------------- MODULE MCLogoutDelivery --------------------------
(* Two relying parties, one with a refused address, and two loops.        *)
EXTENDS LogoutDelivery, TLC

CONSTANTS stop, c1, c2, w1, w2

MCStops == {stop}
MCClients == {c1, c2}
MCInternal == {c2}
MCWorkers == {w1, w2}
=============================================================================
