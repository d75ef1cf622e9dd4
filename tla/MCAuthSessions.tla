--------------------------- MODULE MCAuthSessions ---------------------------
(* Instances of AuthSessions for TLC.                                       *)
EXTENDS AuthSessions, TLC

CONSTANTS r1, r2

RequestSymmetry == Permutations(Requests)
=============================================================================
