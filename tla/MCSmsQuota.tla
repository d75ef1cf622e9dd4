----------------------------- MODULE MCSmsQuota -----------------------------
(* Instances of SmsQuota for TLC: quotas of up to two SMS a month stand  *)
(* for the catalogue's, so that every request decides something.           *)
EXTENDS SmsQuota, TLC

CONSTANTS u1, u2, b1, b2, free, basic, pro

SmallIncluded == (free :> 0) @@ (basic :> 1) @@ (pro :> 2)
Cheaper       == {<<basic, free>>, <<pro, free>>, <<pro, basic>>}

Symmetry == Permutations(Users) \cup Permutations(Billers)
=============================================================================
