---------------------------- MODULE MCLoginSteps ----------------------------
(* Instances of LoginSteps for TLC.                                         *)
EXTENDS LoginSteps, TLC

CONSTANTS r1, r2, t1, t2, ip1, ip2

LoginSymmetry == Permutations(Requests) \cup Permutations(Tokens) \cup Permutations(Ips)
=============================================================================
