--------------------------- MODULE MCAuthStrategy ---------------------------
EXTENDS AuthStrategy, TLC

CONSTANTS q1, q2, i1, i2, i3, i4

Symmetric == Permutations(Requests) \cup Permutations(Ids)
=============================================================================
