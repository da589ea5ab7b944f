--------------------------- MODULE MCReplayGuard ---------------------------
(* Two statements share a primary key (a client reusing a jti with a later *)
(* expiry) and a third has its own.                                        *)
EXTENDS ReplayGuard

CONSTANTS s1, s2, s3, k1, k2

MCStatements == {s1, s2, s3}
MCKeyOf == [s \in MCStatements |-> IF s = s3 THEN k2 ELSE k1]
MCUntil == [s \in MCStatements |-> IF s = s1 THEN 1 ELSE IF s = s2 THEN 2 ELSE 3]
=============================================================================
