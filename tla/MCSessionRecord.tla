-------------------------- MODULE MCSessionRecord --------------------------
(* Instances of SessionRecord for TLC.                                     *)
EXTENDS SessionRecord, TLC
CONSTANTS r1, r2, a, b, d, k1, k2, v, ann, bob

HomeOf == [q \in Requests |-> IF q = b THEN r2 ELSE r1]

SymmetricKeys == Permutations({k1, k2})
=============================================================================
