------------------------- MODULE MCSessionMediator -------------------------
(* Instances of SessionMediator for TLC.                                   *)
EXTENDS SessionMediator, TLC
CONSTANTS r1, r2, a, b, c, g, s1, s2

SymmetricHandlers == Permutations({a, c})

HomeOf == [q \in Requests |-> IF q = b THEN r2 ELSE r1]
=============================================================================
