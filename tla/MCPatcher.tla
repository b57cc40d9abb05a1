----------------------------- MODULE MCPatcher -----------------------------
EXTENDS Patcher, TLC

CONSTANTS n1, n2, n3, n4, a, b

ThreeNodes == {n1, n2, n3}
Third == {n3}
Nobody == {}
FourNodes == {n1, n2, n3, n4}
Perms == Permutations(ThreeNodes)
=============================================================================
