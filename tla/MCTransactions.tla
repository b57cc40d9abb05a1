--------------------------- MODULE MCTransactions ---------------------------
EXTENDS Transactions, TLC

CONSTANTS n1, n2, r1, r2, r3, r4, r5, a, b, t0, t1, t2, t9

None == {}
OneTx == {t1}
TwoTxs == {t1, t2}
OneNode == {n1}
TwoNodes == {n1, n2}
FourRemote == {r1, r2, r3, r4}
FiveRemote == {r1, r2, r3, r4, r5}
OnlyT0 == {t0}
T0AndT9 == {t0, t9}
Stamps == (t0 :> 1) @@ (t1 :> 2) @@ (t2 :> 3) @@ (t9 :> 9)

OnA == [t \in Tx |-> {a}]
AThenAB == (t1 :> {a}) @@ (t2 :> {a, b})
AllExecute == [t \in Tx |-> Node \cup Remote]
ElsewhereThenHere == (t1 :> Remote) @@ (t2 :> Remote \cup {n1})
AllStore == [n \in Node |-> Account]

HoldsT0 == {[x \in Account |-> {t0}]}
BMayBeNewer == {[x \in Account |-> IF x = b THEN {t0} \cup later ELSE {t0}] : later \in {{}, {t9}}}
OneMissed == {{}} \cup {{<<n, x>>} : n \in Node, x \in Account}

Perms == Permutations(TwoNodes) \cup Permutations(FourRemote)
=============================================================================
