------------------------ MODULE GlobalReceiptsProofs ------------------------
(***************************************************************************)
(* The three properties of GlobalReceipts for any network, group, bound    *)
(* and any of the faults.  Once per hash: for each time a node has put the *)
(* change it has marked another hash as gossiped, and the marks are        *)
(* forgotten only when put refuses the change anyway.  All or none: as     *)
(* long as put accepts it, who has not put a change that somebody put has  *)
(* its gossip still to come, if all expect one state.  Complete: when the  *)
(* messages of ten seconds have come, a member has the signatures of all   *)
(* who called, and nobody puts anything before a majority called.          *)
(***************************************************************************)
EXTENDS GlobalReceipts, TLAPS, FiniteSetTheorems

NodeState ==
  [receipt : Receipt, gossiped : SUBSET Tx,
   timer : {"none", "set", "due", "cleared", "expired"},
   promise : {"none", "pending", "resolved"},
   lastClean : Nat \cup {-CleanEvery},
   state : {"none", "queued", "waiting", "committed"},
   since : Nat, times : Nat, sent : SUBSET Tx]

StateOK ==
  /\ clock \in Nat /\ expects \in [Group -> Tx]
  /\ called \subseteq Group /\ tells \subseteq called \X Group
  /\ gossip \subseteq Tx /\ unheard \subseteq Node \X Tx
  /\ node \in [Node -> NodeState] /\ \A n \in Node : node[n].sent = {}
  /\ forwarded \in [Node -> SUBSET Receipt]

(* Members expect different states only if one of them is out of date.     *)
OneTransaction == fault # "stale" => \A m \in Group : expects[m] = Expected

Asked == {expects[m] : m \in called}

(* For each time a node has put the change it has marked another hash as   *)
(* gossiped, one of those in A, which are asked for.  The marks are        *)
(* forgotten only when it is too late to put the change again.             *)
PutOnce(l, A) ==
  /\ l.gossiped \subseteq A /\ l.times <= Cardinality(A)
  /\ clock <= KeepFor => l.times <= Cardinality(l.gossiped)
  /\ l.state = "none" <=> l.times = 0
  /\ l.state = "queued" => l.since <= clock /\ l.since <= GlobalExpire
  /\ l.state # "none" => l.lastClean >= 0
  /\ fault # "stale" =>
       /\ l.gossiped \subseteq {Expected} /\ l.receipt.tx = Expected
       /\ clock <= KeepFor /\ l.times > 0 => Expected \in l.gossiped

OnceInv ==
  /\ StateOK /\ OneTransaction /\ gossip \subseteq Asked
  /\ fault # "stale" => gossip \subseteq {Expected}
  /\ \A n \in Node : PutOnce(node[n], Asked)

-----------------------------------------------------------------------------
SignOf(m) == [owner |-> m, tx |-> expects[m]]
SignsOf(S) == {SignOf(m) : m \in S}

Spreads ==
  fault # "stale" =>
    /\ \A n \in Node : clock <= GlobalExpire /\ Expected \in node[n].gossiped => node[n].times > 0
    /\ clock <= GlobalExpire /\ (Expected \in gossip \/ \E n \in Node : node[n].times > 0) =>
         \A n \in Node : node[n].times > 0 \/ <<n, Expected>> \in unheard
    /\ clock > GlobalExpire /\ (\E n \in Node : node[n].times > 0) =>
         \A n \in Node : node[n].times > 0

SignsKnown == \A n \in Node : node[n].receipt.signs \subseteq SignsOf(called)

SpreadInv == OnceInv /\ SignsKnown /\ Spreads

-----------------------------------------------------------------------------
Uncleaned(l) == clock <= KeepFor \/ (l.state # "none" /\ clock < CleanEvery)

Collected ==
  /\ clock > CallBy => tells = {}
  /\ \A n \in Node \ Group : node[n].receipt = NoReceipt
  /\ \A n \in Group : Uncleaned(node[n]) =>
       \A m \in called : SignOf(m) \in node[n].receipt.signs \/ <<m, n>> \in tells

MajorityCalled ==
  gossip # {} \/ (\E n \in Node : node[n].state # "none") => IsMajority(SignsOf(called))

MayForward(l) == l.state = "waiting" \/ (l.state = "queued" /\ l.since < clock)

ForwardsMajority ==
  \A n \in Node :
    /\ MayForward(node[n]) =>
         /\ node[n].receipt # NoReceipt => IsMajority(node[n].receipt.signs)
         /\ n \in Group /\ clock < CleanEvery => IsMajority(node[n].receipt.signs)
    /\ \A r \in forwarded[n] : IsMajority(r.signs)

(* Without lost messages.                                                  *)
Complete == Collected /\ MajorityCalled /\ ForwardsMajority

CompleteInv == OnceInv /\ SignsKnown /\ (fault # "loss" => Complete)
-----------------------------------------------------------------------------
(* What the operators do to the fields that the invariants read.           *)
SameEntry(l, r) == r.state = l.state /\ r.since = l.since /\ r.times = l.times

Same(l, r) == SameEntry(l, r) /\ r.gossiped = l.gossiped /\ r.lastClean = l.lastClean

Refused(l) == l.state = "queued" \/ clock > GlobalExpire

PutInto(l, r) == r.state = "queued" /\ r.since = clock /\ r.times = l.times + 1

(* A node with the receipt rc has cleaned up, or not.                      *)
Cleans(rc, l, r) ==
  /\ r \in NodeState /\ r.receipt \in {rc, NoReceipt}
  /\ clock <= KeepFor \/ clock - l.lastClean < CleanEvery => r.receipt = rc

(* It took part in transaction t.                                          *)
Processes(l, r, t) ==
  /\ t \notin l.gossiped /\ r.lastClean >= 0
  /\ r.gossiped \subseteq l.gossiped \cup {t}
  /\ clock <= KeepFor => r.gossiped = l.gossiped \cup {t}
  /\ IF Refused(l) THEN SameEntry(l, r) ELSE PutInto(l, r)

LEMMA NoReceiptType == NoReceipt \in Receipt /\ NoReceipt.signs = {} /\ NoReceipt.tx = Expected
BY DEF NoReceipt, Receipt, Tx

LEMMA PutFields ==
  ASSUME clock \in Nat, NEW l \in NodeState
  PROVE  /\ Put(l) \in NodeState /\ Put(l).receipt = l.receipt /\ Put(l).gossiped = l.gossiped
         /\ Put(l).lastClean = l.lastClean /\ Put(l).timer = l.timer /\ Put(l).sent = l.sent
         /\ IF Refused(l) THEN SameEntry(l, Put(l)) ELSE PutInto(l, Put(l))
<1>1. CASE Refused(l)
  <2>1. Put(l) = l
    BY <1>1 DEF Put, Refused, When, GlobalExpire
  <2> QED BY <2>1, <1>1 DEF SameEntry
<1>2. CASE ~Refused(l)
  <2>1. Put(l) = [l EXCEPT !.state = "queued", !.since = clock, !.times = @ + 1]
    BY <1>2 DEF Put, Refused, When, GlobalExpire
  <2>2. l.times + 1 \in Nat /\ "queued" \in {"none", "queued", "waiting", "committed"}
    BY DEF NodeState
  <2>3. /\ Put(l) \in NodeState /\ Put(l).receipt = l.receipt /\ Put(l).gossiped = l.gossiped
        /\ Put(l).lastClean = l.lastClean /\ Put(l).timer = l.timer /\ Put(l).sent = l.sent
    BY <2>1, <2>2 DEF NodeState
  <2>4. PutInto(l, Put(l))
    BY <2>1 DEF NodeState, PutInto
  <2> QED BY <2>3, <2>4, <1>2
<1> QED BY <1>1, <1>2

LEMMA CleanedFields ==
  ASSUME clock \in Nat, NEW l \in NodeState
  PROVE  LET r == Cleaned(l) IN
         /\ Cleans(l.receipt, l, r) /\ SameEntry(l, r)
         /\ r.timer = l.timer /\ r.sent = l.sent
         /\ r.lastClean >= 0 /\ (l.lastClean >= 0 => r.lastClean >= l.lastClean \/ r.lastClean = clock)
         /\ r.gossiped \subseteq l.gossiped /\ (clock <= KeepFor => r.gossiped = l.gossiped)
<1> USE DEF Expired, KeepFor, CleanEvery, When
<1>1. CASE clock - l.lastClean < CleanEvery
  <2>1. Cleaned(l) = l
    BY <1>1 DEF Cleaned
  <2>2. l.lastClean \in Nat
    BY <1>1 DEF NodeState
  <2> QED BY <2>1, <2>2, <1>1 DEF Cleans, SameEntry
<1>2. CASE clock - l.lastClean >= CleanEvery /\ clock <= KeepFor
  <2>1. Cleaned(l) = [l EXCEPT !.lastClean = clock]
    BY <1>2 DEF Cleaned, NodeState
  <2> QED BY <2>1, <1>2 DEF NodeState, Cleans, SameEntry
<1>3. CASE clock - l.lastClean >= CleanEvery /\ clock > KeepFor
  <2>1. Cleaned(l) = [l EXCEPT !.lastClean = clock, !.receipt = NoReceipt, !.gossiped = {}, !.promise = "none"]
    BY <1>3 DEF Cleaned, NodeState
  <2>2. Cleaned(l) \in NodeState
    BY <2>1, NoReceiptType DEF NodeState
  <2>3. /\ Cleaned(l).receipt = NoReceipt /\ Cleaned(l).lastClean = clock /\ Cleaned(l).gossiped = {}
        /\ Cleaned(l).timer = l.timer /\ Cleaned(l).sent = l.sent /\ SameEntry(l, Cleaned(l))
    BY <2>1 DEF NodeState, SameEntry
  <2>4. l.lastClean \in Int
    BY DEF NodeState
  <2> QED BY <2>2, <2>3, <2>4, <1>3 DEF Cleans
<1> QED BY <1>1, <1>2, <1>3 DEF NodeState

LEMMA ProcessReceiptFields ==
  ASSUME clock \in Nat, NEW l \in NodeState, NEW t \in Tx
  PROVE  LET r == ProcessReceipt(l, t) IN
         /\ Cleans(l.receipt, l, r) /\ r.timer = l.timer /\ r.sent = l.sent
         /\ IF t \in l.gossiped THEN r = l ELSE Processes(l, r, t)
<1>1. CASE t \in l.gossiped
  BY <1>1 DEF ProcessReceipt, Cleans
<1>2. CASE t \notin l.gossiped
  <2> DEFINE p == Put(l)
             q == [p EXCEPT !.gossiped = @ \cup {t}]
  <2>1. p \in NodeState
    BY PutFields
  <2> HIDE DEF p
  <2>2. q \in NodeState /\ q.receipt = p.receipt /\ q.timer = p.timer /\ q.sent = p.sent
        /\ q.gossiped = p.gossiped \cup {t} /\ q.lastClean = p.lastClean /\ SameEntry(p, q)
    BY <2>1 DEF NodeState, SameEntry
  <2> HIDE DEF q
  <2>3. ProcessReceipt(l, t) = Cleaned(q)
    BY <1>2 DEF ProcessReceipt, p, q
  <2>4. /\ p.receipt = l.receipt /\ p.gossiped = l.gossiped
        /\ p.lastClean = l.lastClean /\ p.timer = l.timer /\ p.sent = l.sent
        /\ IF Refused(l) THEN SameEntry(l, p) ELSE PutInto(l, p)
    BY PutFields DEF p
  <2>5. Cleans(l.receipt, l, Cleaned(q))
    BY <2>2, <2>4, CleanedFields DEF Cleans
  <2>6. IF Refused(l) THEN SameEntry(l, Cleaned(q)) ELSE PutInto(l, Cleaned(q))
    BY <2>2, <2>4, CleanedFields DEF SameEntry, PutInto
  <2>7. Processes(l, Cleaned(q), t)
    BY <1>2, <2>2, <2>4, <2>6, CleanedFields DEF Processes
  <2> QED BY <1>2, <2>2, <2>3, <2>4, <2>5, <2>7, CleanedFields
<1> QED BY <1>1, <1>2


LEMMA OnReceiptFields ==
  ASSUME clock \in Nat, NEW l \in NodeState, l.sent = {}, NEW g \in Receipt, g = l.receipt
  PROVE  LET r == OnReceipt(l, g) IN
         /\ Cleans(g, l, r)
         /\ \/ Same(l, r) /\ r.sent = {}
            \/ Processes(l, r, g.tx) /\ r.sent = IF Valid(g) THEN {g.tx} ELSE {}
<1>1. CASE l.timer \in {"none", "expired"}
  <2>1. OnReceipt(l, g) = l
    BY <1>1 DEF OnReceipt
  <2> QED BY <2>1 DEF Same, SameEntry, Cleans
<1>2. CASE l.timer \notin {"none", "expired"}
  <2> DEFINE p == ProcessReceipt(l, g.tx)
             s == IF Valid(g) /\ g.tx \notin l.gossiped THEN {g.tx} ELSE {}
             r == [p EXCEPT !.timer = "cleared", !.sent = s]
  <2>1. g.tx \in Tx /\ s \in SUBSET Tx
    BY DEF Receipt
  <2>2. /\ Cleans(g, l, p)
        /\ IF g.tx \in l.gossiped THEN p = l ELSE Processes(l, p, g.tx)
    BY <2>1, ProcessReceiptFields
  <2>3. p \in NodeState
    BY <2>2 DEF Cleans
  <2>4. OnReceipt(l, g) = r
    BY <1>2 DEF OnReceipt
  <2> HIDE DEF p, s
  <2>5. r \in NodeState /\ r.sent = s /\ Same(p, r) /\ r.receipt = p.receipt
    BY <2>1, <2>3 DEF NodeState, Same, SameEntry
  <2> HIDE DEF r
  <2>6. Cleans(g, l, r)
    BY <2>2, <2>5 DEF Cleans
  <2>7. CASE g.tx \in l.gossiped
    BY <2>2, <2>4, <2>5, <2>6, <2>7 DEF s
  <2>8. CASE g.tx \notin l.gossiped
    <3>1. Processes(l, r, g.tx)
      BY <2>2, <2>5, <2>8 DEF Processes, Same, SameEntry, PutInto
    <3> QED BY <2>4, <2>5, <2>6, <2>8, <3>1 DEF s
  <2> QED BY <2>7, <2>8
<1> QED BY <1>1, <1>2

(* What a node does with the signature of a member.                        *)
Collects(n, l, r, s) ==
  LET g == WithSign(l.receipt, s) IN
  /\ Cleans(g, l, r)
  /\ \/ Same(l, r) /\ r.sent = {}
     \/ /\ IsMajority(g.signs) /\ Processes(l, r, s.tx)
        /\ r.sent = IF Valid(g) THEN {s.tx} ELSE {}

LEMMA MakeReceiptFields ==
  ASSUME clock \in Nat, NEW n, NEW l \in NodeState, l.sent = {}, NEW s \in Sign
  PROVE  Collects(n, l, MakeReceipt(n, l, s), s)
<1> DEFINE g == WithSign(l.receipt, s)
           p == Promised(n, l, s)
           q == Signed(p, s)
<1>1. g \in Receipt /\ g.tx = s.tx
  BY DEF WithSign, NodeState, Receipt, Sign
<1>2. p \in NodeState /\ p.receipt = l.receipt /\ p.timer = l.timer /\ p.sent = {} /\ Same(l, p)
  BY DEF Promised, NodeState, Same, SameEntry
<1> HIDE DEF p
<1>3. q = [p EXCEPT !.receipt = g]
  BY <1>2 DEF Signed, NodeState
<1> HIDE DEF g
<1>4. q \in NodeState /\ q.receipt = g /\ q.timer = l.timer /\ q.sent = {} /\ Same(p, q)
  BY <1>1, <1>2, <1>3 DEF NodeState, Same, SameEntry
<1>5. Same(l, q)
  BY <1>2, <1>4 DEF Same, SameEntry
<1> HIDE DEF q
<1>6. MakeReceipt(n, l, s) = IF IsMajority(g.signs) THEN Resolved(OnReceipt(q, g)) ELSE q
  BY <1>4 DEF MakeReceipt, p, q
<1>7. CASE ~IsMajority(g.signs)
  BY <1>4, <1>5, <1>6, <1>7 DEF Collects, Cleans, g
<1>8. CASE IsMajority(g.signs)
  <2> DEFINE o == OnReceipt(q, g)
             r == Resolved(o)
  <2>1. /\ Cleans(g, q, o)
        /\ \/ Same(q, o) /\ o.sent = {}
           \/ Processes(q, o, g.tx) /\ o.sent = IF Valid(g) THEN {g.tx} ELSE {}
    BY <1>1, <1>4, OnReceiptFields
  <2> HIDE DEF o
  <2>2. o \in NodeState
    BY <2>1 DEF Cleans
  <2>3. r \in NodeState /\ Same(o, r) /\ r.receipt = o.receipt /\ r.sent = o.sent
    BY <2>2 DEF Resolved, NodeState, Same, SameEntry
  <2> HIDE DEF r
  <2>4. Cleans(g, l, r)
    BY <1>5, <2>1, <2>3 DEF Cleans, Same, SameEntry
  <2>5. CASE Same(q, o) /\ o.sent = {}
    <3>1. Same(l, r) /\ r.sent = {}
      BY <1>5, <2>3, <2>5 DEF Same, SameEntry
    <3> QED BY <1>6, <1>8, <2>4, <3>1 DEF Collects, g, r, o
  <2>6. CASE Processes(q, o, g.tx) /\ o.sent = IF Valid(g) THEN {g.tx} ELSE {}
    <3>1. Processes(l, r, s.tx)
      BY <1>1, <1>5, <2>3, <2>6 DEF Processes, Same, SameEntry, PutInto, Refused
    <3>2. r.sent = IF Valid(g) THEN {s.tx} ELSE {}
      BY <1>1, <2>3, <2>6
    <3> QED BY <1>6, <1>8, <2>4, <3>1, <3>2 DEF Collects, g, r, o
  <2> QED BY <2>1, <2>5, <2>6
<1> QED BY <1>7, <1>8

-----------------------------------------------------------------------------
(* Both ways to come by a signature: one's own, and that of another.       *)
Contribute(m, n) ==
  \E r \in NodeState : Collects(n, node[n], r, SignOf(m)) /\ Become(n, r) /\ SendGossip(n, r)

LEMMA Contributed ==
  ASSUME StateOK, NEW n \in Node, NEW m \in Group, (m = n /\ SetGlobal(n)) \/ ReceiveTell(m, n)
  PROVE  Contribute(m, n)
<1>1. SignOf(m) \in Sign
  BY DEF SignOf, Sign, StateOK
<1>2. node[n] \in NodeState /\ node[n].sent = {} /\ clock \in Nat
  BY DEF StateOK
<1>3. CASE m = n /\ SetGlobal(n)
  <2> DEFINE l == [node[n] EXCEPT !.timer = "set"]
             r == MakeReceipt(n, l, SignOf(m))
  <2>1. Become(n, r) /\ SendGossip(n, r)
    BY <1>3 DEF SetGlobal, SignOf
  <2>2. l \in NodeState /\ l.sent = {} /\ Same(node[n], l) /\ l.receipt = node[n].receipt
    BY <1>2 DEF NodeState, Same, SameEntry
  <2> HIDE DEF l
  <2>3. Collects(n, l, r, SignOf(m))
    BY <1>1, <1>2, <2>2, MakeReceiptFields
  <2> HIDE DEF r
  <2>4. Collects(n, node[n], r, SignOf(m))
    BY <2>2, <2>3 DEF Collects, Cleans, Same, SameEntry, Processes, PutInto, Refused
  <2>5. r \in NodeState
    BY <2>3 DEF Collects, Cleans
  <2> QED BY <2>1, <2>4, <2>5 DEF Contribute
<1>4. CASE ReceiveTell(m, n)
  <2> DEFINE r == MakeReceipt(n, node[n], SignOf(m))
  <2>1. Become(n, r) /\ SendGossip(n, r)
    BY <1>4 DEF ReceiveTell, SignOf
  <2>2. Collects(n, node[n], r, SignOf(m))
    BY <1>1, <1>2, MakeReceiptFields
  <2> HIDE DEF r
  <2> QED BY <2>1, <2>2 DEF Contribute, Collects, Cleans
<1> QED BY <1>3, <1>4

LEMMA BecomeFields ==
  ASSUME StateOK, NEW n \in Node, NEW r \in NodeState, Become(n, r)
  PROVE  /\ node' \in [Node -> NodeState] /\ \A k \in Node : node'[k].sent = {}
         /\ \A k \in Node : k # n => node'[k] = node[k]
         /\ Same(r, node'[n]) /\ node'[n].receipt = r.receipt
         /\ node'[n].promise = r.promise /\ node'[n].timer = r.timer
<1> DEFINE q == [r EXCEPT !.sent = {}]
<1>1. /\ q \in NodeState /\ q.sent = {} /\ Same(r, q) /\ q.receipt = r.receipt
      /\ q.promise = r.promise /\ q.timer = r.timer
  BY DEF NodeState, Same, SameEntry
<1>2. node' = [node EXCEPT ![n] = q]
  BY DEF Become
<1> HIDE DEF q
<1> QED BY <1>1, <1>2 DEF StateOK

(* A node cleans up and does nothing else.                                 *)
LEMMA Tidied ==
  ASSUME StateOK, NEW n \in Node, Timeout(n) \/ OtherChange(n)
  PROVE  \E r \in NodeState :
           /\ Become(n, r) /\ Cleans(node[n].receipt, node[n], r) /\ SameEntry(node[n], r)
           /\ r.lastClean >= 0
           /\ r.gossiped \subseteq node[n].gossiped
           /\ clock <= KeepFor => r.gossiped = node[n].gossiped
<1>1. node[n] \in NodeState /\ clock \in Nat
  BY DEF StateOK
<1>2. CASE Timeout(n)
  <2> DEFINE l == [node[n] EXCEPT !.timer = "expired"]
  <2>1. l \in NodeState /\ Same(node[n], l) /\ l.receipt = node[n].receipt
    BY <1>1 DEF NodeState, Same, SameEntry
  <2>2. Become(n, Cleaned(l))
    BY <1>2 DEF Timeout
  <2> HIDE DEF l
  <2> DEFINE r == Cleaned(l)
  <2>3. /\ Cleans(l.receipt, l, r) /\ SameEntry(l, r) /\ r.lastClean >= 0
        /\ r.gossiped \subseteq l.gossiped /\ (clock <= KeepFor => r.gossiped = l.gossiped)
    BY <1>1, <2>1, CleanedFields
  <2> HIDE DEF r
  <2>4. Cleans(node[n].receipt, node[n], r) /\ SameEntry(node[n], r)
    BY <2>1, <2>3 DEF Cleans, Same, SameEntry
  <2>5. /\ r \in NodeState /\ r.lastClean >= 0
        /\ r.gossiped \subseteq node[n].gossiped
        /\ clock <= KeepFor => r.gossiped = node[n].gossiped
    BY <2>1, <2>3 DEF Cleans, Same
  <2> QED BY <2>2, <2>4, <2>5 DEF r
<1>3. CASE OtherChange(n)
  <2>1. Become(n, Cleaned(node[n]))
    BY <1>3 DEF OtherChange
  <2> QED BY <1>1, <2>1, CleanedFields DEF Cleans
<1> QED BY <1>2, <1>3

-----------------------------------------------------------------------------
LEMMA SomeTx ==
  ASSUME StateOK
  PROVE  /\ Asked \subseteq Tx /\ IsFiniteSet(Tx)
         /\ \A S, T \in SUBSET Tx : S \subseteq T => Cardinality(S) <= Cardinality(T)
         /\ \A S \in SUBSET Tx : Cardinality(S) \in Nat
         /\ \A S \in SUBSET Tx : \A t \in Tx \ S : Cardinality(S \cup {t}) = Cardinality(S) + 1
<1>1. Asked \subseteq Tx
  BY DEF StateOK, Asked
<1>2. IsFiniteSet(Tx)
  <2>1. IsFiniteSet({Expected})
    BY FS_Singleton
  <2>2. IsFiniteSet({Expected} \cup {Outdated})
    BY <2>1, FS_AddElement
  <2>3. Tx = {Expected} \cup {Outdated}
    BY DEF Tx
  <2> QED BY <2>2, <2>3
<1>3. \A S \in SUBSET Tx : IsFiniteSet(S) /\ Cardinality(S) \in Nat
  BY <1>2, FS_Subset, FS_CardinalityType
<1>4. \A S, T \in SUBSET Tx : S \subseteq T => Cardinality(S) <= Cardinality(T)
  BY <1>3, FS_Subset
<1>5. \A S \in SUBSET Tx : \A t \in Tx \ S : Cardinality(S \cup {t}) = Cardinality(S) + 1
  BY <1>3, FS_AddElement
<1> QED BY <1>1, <1>2, <1>3, <1>4, <1>5

LEMMA PutOnceKept ==
  ASSUME StateOK, NEW l \in NodeState, NEW A \in SUBSET Tx, PutOnce(l, A), NEW r \in NodeState,
         NEW B \in SUBSET Tx, A \subseteq B,
         fault # "stale" => r.receipt.tx = Expected,
         \/ /\ SameEntry(l, r) /\ (l.lastClean >= 0 => r.lastClean >= 0)
            /\ r.gossiped \subseteq l.gossiped
            /\ clock <= KeepFor => r.gossiped = l.gossiped
         \/ \E t \in B : Processes(l, r, t) /\ (fault # "stale" => t = Expected)
  PROVE  PutOnce(r, B)
<1>0. /\ clock \in Nat /\ l.times \in Nat /\ l.gossiped \in SUBSET Tx /\ r.gossiped \in SUBSET Tx
      /\ Cardinality(A) \in Nat /\ Cardinality(B) \in Nat /\ Cardinality(A) <= Cardinality(B)
      /\ Cardinality(l.gossiped) \in Nat /\ Cardinality(r.gossiped) \in Nat
  BY SomeTx DEF StateOK, NodeState
<1>1. CASE /\ SameEntry(l, r) /\ (l.lastClean >= 0 => r.lastClean >= 0)
           /\ r.gossiped \subseteq l.gossiped
           /\ clock <= KeepFor => r.gossiped = l.gossiped
  BY <1>0, <1>1 DEF PutOnce, SameEntry
<1>2. ASSUME NEW t \in B, Processes(l, r, t), fault # "stale" => t = Expected
      PROVE  PutOnce(r, B)
  <2>1. CASE Refused(l)
    <3>1. clock <= KeepFor => Cardinality(l.gossiped) <= Cardinality(r.gossiped)
      BY <1>0, <1>2, SomeTx DEF Processes
    <3> QED BY <1>0, <1>2, <2>1, <3>1 DEF PutOnce, Processes, SameEntry
  <2>2. CASE ~Refused(l)
    <3>1. clock <= GlobalExpire /\ clock <= KeepFor /\ r.gossiped = l.gossiped \cup {t}
      BY <1>0, <1>2, <2>2 DEF Processes, Refused, GlobalExpire, KeepFor
    <3>2. r.times = l.times + 1 /\ r.state = "queued" /\ r.since = clock
      BY <1>2, <2>2 DEF Processes, PutInto
    <3>3. Cardinality(r.gossiped) = Cardinality(l.gossiped) + 1
      BY <1>0, <1>2, <3>1, SomeTx DEF Processes
    <3>4. r.gossiped \subseteq B /\ Cardinality(r.gossiped) <= Cardinality(B)
      BY <1>0, <1>2, <3>1, SomeTx DEF PutOnce
    <3>5. r.times <= Cardinality(r.gossiped) /\ r.times > 0
      BY <1>0, <3>1, <3>2, <3>3 DEF PutOnce
    <3> QED BY <1>0, <1>2, <3>1, <3>2, <3>4, <3>5 DEF PutOnce, Processes
  <2> QED BY <2>1, <2>2
<1> QED BY <1>1, <1>2

LEMMA OthersPutOnce ==
  ASSUME OnceInv, NEW n \in Node, NEW r \in NodeState, Become(n, r), PutOnce(r, Asked'),
         Asked \subseteq Asked', Asked' \subseteq Tx, UNCHANGED <<clock, fault>>
  PROVE  \A k \in Node : PutOnce(node[k], Asked)'
<1>1. SUFFICES ASSUME NEW k \in Node PROVE PutOnce(node[k], Asked)'
  OBVIOUS
<1>2. StateOK
  BY DEF OnceInv
<1>3. CASE k = n
  BY <1>2, <1>3, BecomeFields DEF PutOnce, Same, SameEntry
<1>4. CASE k # n
  <2>1. PutOnce(node[k], Asked) /\ node[k] \in NodeState /\ Asked \subseteq Tx
    BY <1>2, SomeTx DEF OnceInv, StateOK
  <2>2. PutOnce(node[k], Asked')
    BY <1>2, <2>1, PutOnceKept DEF SameEntry, PutOnce
  <2> QED BY <1>2, <1>4, <2>2, BecomeFields DEF PutOnce
<1> QED BY <1>3, <1>4

(* The steps one by one; first those that may put the change.              *)
LEMMA ContributeOnce ==
  ASSUME OnceInv, NEW n \in Node, NEW m \in Group, Contribute(m, n),
         called \subseteq called', called' \subseteq Group, m \in called',
         UNCHANGED <<clock, fault, expects>>
  PROVE  /\ node' \in [Node -> NodeState] /\ \A k \in Node : node'[k].sent = {}
         /\ \A k \in Node : PutOnce(node[k], Asked)'
         /\ gossip' \subseteq Asked' /\ unheard' \subseteq Node \X Tx
         /\ fault # "stale" => gossip' \subseteq {Expected}
<1>1. PICK r \in NodeState : Collects(n, node[n], r, SignOf(m)) /\ Become(n, r) /\ SendGossip(n, r)
  BY DEF Contribute
<1>2. StateOK /\ node[n] \in NodeState /\ PutOnce(node[n], Asked) /\ Asked \subseteq Tx
  BY SomeTx DEF OnceInv, StateOK
<1>3. /\ SignOf(m).tx \in Asked' /\ (fault # "stale" => SignOf(m).tx = Expected)
      /\ Asked \subseteq Asked' /\ Asked' \subseteq Tx
  BY <1>2 DEF OnceInv, OneTransaction, SignOf, StateOK, Asked
<1>4. fault # "stale" => r.receipt.tx = Expected
  BY <1>1, <1>3, NoReceiptType DEF Collects, Cleans, WithSign
<1>5. r.sent \subseteq Asked' /\ (fault # "stale" => r.sent \subseteq {Expected})
  BY <1>1, <1>3 DEF Collects
<1>6. PutOnce(r, Asked')
  <2>1. CASE Same(node[n], r)
    BY <1>2, <1>3, <1>4, <2>1, PutOnceKept DEF Same
  <2>2. CASE Processes(node[n], r, SignOf(m).tx)
    BY <1>2, <1>3, <1>4, <2>2, PutOnceKept
  <2> QED BY <1>1, <2>1, <2>2 DEF Collects
<1>7. \A k \in Node : PutOnce(node[k], Asked)'
  BY <1>1, <1>3, <1>6, OthersPutOnce
<1>8. node' \in [Node -> NodeState] /\ \A k \in Node : node'[k].sent = {}
  BY <1>1, <1>2, BecomeFields
<1>9. /\ gossip' \subseteq Asked' /\ unheard' \subseteq Node \X Tx
      /\ fault # "stale" => gossip' \subseteq {Expected}
  BY <1>1, <1>2, <1>3, <1>5 DEF SendGossip, OnceInv, StateOK
<1> QED BY <1>7, <1>8, <1>9

LEMMA GossipOnce ==
  ASSUME OnceInv, NEW n \in Node, NEW t \in gossip, ReceiveGossip(n, t)
  PROVE  OnceInv'
<1> DEFINE r == ProcessReceipt(node[n], t)
<1>1. StateOK /\ clock \in Nat /\ node[n] \in NodeState /\ PutOnce(node[n], Asked) /\ t \in Tx
  BY DEF OnceInv, StateOK
<1>2. t \in Asked /\ Asked \subseteq Tx /\ (fault # "stale" => t = Expected)
  BY <1>1, SomeTx DEF OnceInv
<1>3. /\ Cleans(node[n].receipt, node[n], r)
      /\ IF t \in node[n].gossiped THEN r = node[n] ELSE Processes(node[n], r, t)
  BY <1>1, ProcessReceiptFields
<1>4. Become(n, r)
  BY DEF ReceiveGossip
<1> HIDE DEF r
<1>5. r \in NodeState /\ (fault # "stale" => r.receipt.tx = Expected)
  BY <1>1, <1>3, NoReceiptType DEF Cleans, PutOnce
<1>6. PutOnce(r, Asked)
  <2>1. CASE t \in node[n].gossiped
    BY <1>1, <1>3, <2>1
  <2>2. CASE t \notin node[n].gossiped
    <3>1. Processes(node[n], r, t)
      BY <1>3, <2>2
    <3> QED BY <1>1, <1>2, <1>5, <3>1, PutOnceKept
  <2> QED BY <2>1, <2>2
<1>7. UNCHANGED <<clock, fault, expects, called, tells, gossip, forwarded>>
  BY DEF ReceiveGossip
<1>0. Asked' = Asked
  BY <1>7 DEF Asked
<1>8. \A k \in Node : PutOnce(node[k], Asked)'
  BY <1>0, <1>2, <1>4, <1>5, <1>6, <1>7, OthersPutOnce
<1>9. node' \in [Node -> NodeState] /\ \A k \in Node : node'[k].sent = {}
  BY <1>1, <1>4, <1>5, BecomeFields
<1>10. StateOK'
  BY <1>1, <1>7, <1>9 DEF ReceiveGossip, StateOK
<1>11. (OneTransaction /\ gossip \subseteq Asked)' /\ (fault' # "stale" => gossip' \subseteq {Expected})
  BY <1>7 DEF OnceInv, OneTransaction, Asked
<1> QED BY <1>8, <1>10, <1>11 DEF OnceInv

LEMMA TidyOnce ==
  ASSUME OnceInv, NEW n \in Node, Timeout(n) \/ OtherChange(n)
  PROVE  OnceInv'
<1>1. StateOK /\ clock \in Nat /\ node[n] \in NodeState /\ PutOnce(node[n], Asked)
  BY DEF OnceInv, StateOK
<1>2. PICK r \in NodeState :
           /\ Become(n, r) /\ Cleans(node[n].receipt, node[n], r) /\ SameEntry(node[n], r)
           /\ r.lastClean >= 0
           /\ r.gossiped \subseteq node[n].gossiped
           /\ clock <= KeepFor => r.gossiped = node[n].gossiped
  BY <1>1, Tidied
<1>3. PutOnce(r, Asked)
  <2>1. fault # "stale" => r.receipt.tx = Expected
    BY <1>1, <1>2, NoReceiptType DEF Cleans, PutOnce
  <2> QED BY <1>1, <1>2, <2>1, SomeTx, PutOnceKept
<1>4. UNCHANGED <<clock, fault, expects, called, tells, gossip, unheard, forwarded>>
  BY DEF Timeout, OtherChange
<1>0. Asked' = Asked /\ Asked \subseteq Tx
  BY <1>1, <1>4, SomeTx DEF Asked
<1>5. \A k \in Node : PutOnce(node[k], Asked)'
  BY <1>0, <1>2, <1>3, <1>4, OthersPutOnce
<1>6. StateOK'
  BY <1>1, <1>2, <1>4, BecomeFields DEF StateOK
<1>7. (OneTransaction /\ gossip \subseteq Asked)' /\ (fault' # "stale" => gossip' \subseteq {Expected})
  BY <1>4 DEF OnceInv, OneTransaction, Asked
<1> QED BY <1>5, <1>6, <1>7 DEF OnceInv

(* The entry of a node leaves the queue, or waits for the receipt.         *)
Moves(l, r) ==
  /\ r \in NodeState /\ r.receipt = l.receipt /\ r.gossiped = l.gossiped
  /\ r.lastClean = l.lastClean /\ r.times = l.times
  /\ r.state \in {"waiting", "committed"} /\ (r.state = "waiting" => r.since = clock)

LEMMA Moved ==
  ASSUME StateOK, NEW n \in Node, Commit(n) \/ Awaited(n) \/ AwaitTimesOut(n)
  PROVE  /\ node[n].state = "waiting" \/ (node[n].state = "queued" /\ node[n].since < clock)
         /\ \E r \in NodeState : Become(n, r) /\ Moves(node[n], r)
         /\ \/ UNCHANGED forwarded
            \/ forwarded' = [forwarded EXCEPT ![n] = @ \cup ({node[n].receipt} \ {NoReceipt})]
         /\ UNCHANGED <<clock, fault, expects, called, tells, gossip, unheard>>
<1> DEFINE w == [node[n] EXCEPT !.state = "waiting", !.since = clock]
           c == [node[n] EXCEPT !.state = "committed", !.promise = "none"]
<1>1. clock \in Nat /\ node[n] \in NodeState
  BY DEF StateOK
<1>2. "waiting" \in {"none", "queued", "waiting", "committed"}
      /\ "committed" \in {"none", "queued", "waiting", "committed"}
      /\ "none" \in {"none", "pending", "resolved"}
  OBVIOUS
<1>3. w \in NodeState /\ c \in NodeState
  BY <1>1, <1>2 DEF NodeState
<1>4. Moves(node[n], w) /\ Moves(node[n], c)
  <2>1. w.state = "waiting" /\ c.state = "committed" /\ w.since = clock
    BY <1>1 DEF NodeState
  <2>2. /\ w.receipt = node[n].receipt /\ w.gossiped = node[n].gossiped
        /\ w.lastClean = node[n].lastClean /\ w.times = node[n].times
        /\ c.receipt = node[n].receipt /\ c.gossiped = node[n].gossiped
        /\ c.lastClean = node[n].lastClean /\ c.times = node[n].times
    BY <1>1 DEF NodeState
  <2> HIDE DEF w, c
  <2> QED BY <1>3, <2>1, <2>2 DEF Moves
<1>5. Become(n, w) \/ Become(n, c)
  BY DEF Commit, Awaited, AwaitTimesOut, Forward
<1> HIDE DEF w, c
<1>6. \E r \in NodeState : Become(n, r) /\ Moves(node[n], r)
  BY <1>3, <1>4, <1>5
<1>7. \/ UNCHANGED forwarded
      \/ forwarded' = [forwarded EXCEPT ![n] = @ \cup ({node[n].receipt} \ {NoReceipt})]
  BY DEF Commit, Awaited, AwaitTimesOut, Forward
<1>8. /\ node[n].state = "waiting" \/ (node[n].state = "queued" /\ node[n].since < clock)
      /\ UNCHANGED <<clock, fault, expects, called, tells, gossip, unheard>>
  BY DEF Commit, Awaited, AwaitTimesOut
<1> QED BY <1>6, <1>7, <1>8

LEMMA MoveOnce ==
  ASSUME OnceInv, NEW n \in Node, Commit(n) \/ Awaited(n) \/ AwaitTimesOut(n)
  PROVE  OnceInv'
<1>1. StateOK /\ clock \in Nat /\ node[n] \in NodeState /\ PutOnce(node[n], Asked)
  BY DEF OnceInv, StateOK
<1>2. PICK r \in NodeState : Become(n, r) /\ Moves(node[n], r)
  BY <1>1, Moved
<1>3. PutOnce(r, Asked)
  <2>1. node[n].state = "waiting" \/ (node[n].state = "queued" /\ node[n].since < clock)
    BY <1>1, Moved
  <2>2. node[n].times # 0
    BY <1>1, <2>1 DEF PutOnce, NodeState
  <2> QED BY <1>1, <1>2, <2>1, <2>2 DEF PutOnce, Moves
<1>4. UNCHANGED <<clock, fault, expects, called, tells, gossip, unheard>>
  BY <1>1, Moved
<1>0. Asked' = Asked /\ Asked \subseteq Tx
  BY <1>1, <1>4, SomeTx DEF Asked
<1>5. \A k \in Node : PutOnce(node[k], Asked)'
  BY <1>0, <1>2, <1>3, <1>4, OthersPutOnce
<1>6. node' \in [Node -> NodeState] /\ \A k \in Node : node'[k].sent = {}
  BY <1>1, <1>2, BecomeFields
<1>7. forwarded' \in [Node -> SUBSET Receipt]
  <2>1. node[n].receipt \in Receipt /\ forwarded \in [Node -> SUBSET Receipt]
    BY <1>1 DEF NodeState, StateOK
  <2>2. \/ UNCHANGED forwarded
        \/ forwarded' = [forwarded EXCEPT ![n] = @ \cup ({node[n].receipt} \ {NoReceipt})]
    BY <1>1, Moved
  <2> QED BY <2>1, <2>2
<1>8. StateOK'
  BY <1>1, <1>4, <1>6, <1>7 DEF StateOK
<1>9. (OneTransaction /\ gossip \subseteq Asked)' /\ (fault' # "stale" => gossip' \subseteq {Expected})
  BY <1>4 DEF OnceInv, OneTransaction, Asked
<1> QED BY <1>5, <1>8, <1>9 DEF OnceInv

LEMMA CallOnce ==
  ASSUME OnceInv, NEW n \in Node, SetGlobal(n)
  PROVE  OnceInv'
<1>1. /\ n \in Group \ called /\ called' = called \cup {n}
      /\ tells' = tells \cup {<<n, m>> : m \in Group \ {n}}
      /\ UNCHANGED <<clock, fault, expects, forwarded>>
  BY DEF SetGlobal
<1>2. StateOK /\ clock \in Nat
  BY DEF OnceInv, StateOK
<1>3. called \subseteq called' /\ called' \subseteq Group /\ n \in called'
  BY <1>1, <1>2 DEF StateOK
<1>4. /\ node' \in [Node -> NodeState] /\ \A k \in Node : node'[k].sent = {}
      /\ \A k \in Node : PutOnce(node[k], Asked)'
      /\ gossip' \subseteq Asked' /\ unheard' \subseteq Node \X Tx
      /\ fault # "stale" => gossip' \subseteq {Expected}
  BY <1>1, <1>2, <1>3, Contributed, ContributeOnce
<1>5. StateOK'
  <2>1. Asked' \subseteq Tx
    BY <1>1, <1>2, <1>3 DEF Asked, StateOK
  <2> QED BY <1>1, <1>2, <1>4, <2>1 DEF StateOK
<1>6. OneTransaction'
  BY <1>1 DEF OnceInv, OneTransaction
<1> QED BY <1>1, <1>4, <1>5, <1>6 DEF OnceInv

LEMMA TellOnce ==
  ASSUME OnceInv, NEW n \in Node, NEW m \in Group, ReceiveTell(m, n)
  PROVE  OnceInv'
<1>1. /\ <<m, n>> \in tells /\ tells' = tells \ {<<m, n>>}
      /\ UNCHANGED <<clock, fault, expects, called, forwarded>>
  BY DEF ReceiveTell
<1>2. StateOK /\ clock \in Nat
  BY DEF OnceInv, StateOK
<1>3. m \in called /\ called' = called /\ called' \subseteq Group
  BY <1>1, <1>2 DEF StateOK
<1>4. /\ node' \in [Node -> NodeState] /\ \A k \in Node : node'[k].sent = {}
      /\ \A k \in Node : PutOnce(node[k], Asked)'
      /\ gossip' \subseteq Asked' /\ unheard' \subseteq Node \X Tx
      /\ fault # "stale" => gossip' \subseteq {Expected}
  BY <1>1, <1>2, <1>3, Contributed, ContributeOnce
<1>5. StateOK'
  <2>1. Asked' \subseteq Tx
    BY <1>1, <1>2, <1>3 DEF Asked, StateOK
  <2> QED BY <1>1, <1>2, <1>4, <2>1 DEF StateOK
<1>6. OneTransaction'
  BY <1>1 DEF OnceInv, OneTransaction
<1> QED BY <1>1, <1>4, <1>5, <1>6 DEF OnceInv

LEMMA LoseOnce ==
  ASSUME OnceInv, NEW n \in Node, NEW m \in Group, LoseTell(m, n)
  PROVE  OnceInv'
BY DEF OnceInv, LoseTell, StateOK, OneTransaction, Asked, PutOnce

(* Time passes: no field but the timer changes.                            *)
LEMMA TickFields ==
  ASSUME StateOK, Tick
  PROVE  /\ node' \in [Node -> NodeState]
         /\ \A n \in Node : Same(node[n], node'[n]) /\ node'[n].receipt = node[n].receipt
                           /\ node'[n].sent = {}
<1>1. SUFFICES ASSUME NEW n \in Node
               PROVE  /\ node'[n] \in NodeState /\ Same(node[n], node'[n])
                      /\ node'[n].receipt = node[n].receipt /\ node'[n].sent = {}
  BY DEF Tick
<1>2. node[n] \in NodeState /\ node[n].sent = {}
  BY DEF StateOK
<1>3. node'[n] = IF node[n].timer = "set" THEN [node[n] EXCEPT !.timer = "due"] ELSE node[n]
  BY DEF Tick
<1> QED BY <1>2, <1>3 DEF NodeState, Same, SameEntry

LEMMA TickOnce ==
  ASSUME OnceInv, Tick
  PROVE  OnceInv'
<1>1. StateOK /\ clock \in Nat
  BY DEF OnceInv, StateOK
<1>2. /\ clock' = clock + 1 /\ gossip' = {} /\ tells = {}
      /\ UNCHANGED <<fault, expects, called, tells, unheard, forwarded>>
  BY DEF Tick, Settled
<1>3. StateOK'
  BY <1>1, <1>2, TickFields DEF StateOK
<1>4. ASSUME NEW n \in Node PROVE PutOnce(node[n], Asked)'
  <2>1. PutOnce(node[n], Asked) /\ node[n] \in NodeState
    BY DEF OnceInv, StateOK
  <2>2. Same(node[n], node'[n]) /\ node'[n].receipt = node[n].receipt
    BY <1>1, TickFields
  <2>3. node[n].since \in Nat
    BY <2>1 DEF NodeState
  <2>4. Asked' = Asked
    BY <1>2 DEF Asked
  <2> QED BY <1>1, <1>2, <2>1, <2>2, <2>3, <2>4 DEF PutOnce, Same, SameEntry, KeepFor
<1>5. OneTransaction'
  BY <1>2 DEF OnceInv, OneTransaction
<1> QED BY <1>2, <1>3, <1>4, <1>5 DEF OnceInv

LEMMA InitOnce ==
  ASSUME Init
  PROVE  OnceInv
<1>1. Fresh \in NodeState /\ Fresh.sent = {} /\ Fresh.times = 0 /\ Fresh.state = "none"
      /\ Fresh.gossiped = {} /\ Fresh.receipt = NoReceipt
  BY NoReceiptType DEF Fresh, NodeState
<1>2. StateOK
  BY <1>1 DEF Init, StateOK
<1>3. OneTransaction
  <2>1. SUFFICES ASSUME fault # "stale" PROVE \A m \in Group : expects[m] = Expected
    BY DEF OneTransaction
  <2> DEFINE S == {m \in Group : expects[m] = Outdated}
  <2>2. Cardinality(S) = 0 /\ expects \in [Group -> Tx]
    BY <2>1 DEF Init
  <2>3. IsFiniteSet(S)
    BY GroupAssumption, FS_Subset
  <2>4. S = {}
    BY <2>2, <2>3, FS_EmptySet
  <2> QED BY <2>2, <2>4 DEF Tx
<1>4. \A n \in Node : PutOnce(node[n], Asked)
  <2>1. Asked = {} /\ Cardinality({}) = 0
    BY FS_EmptySet DEF Init, Asked
  <2> QED BY <1>1, <2>1, NoReceiptType DEF Init, PutOnce
<1> QED BY <1>2, <1>3, <1>4 DEF OnceInv, Init

LEMMA NextOnce ==
  ASSUME OnceInv, [Next]_vars
  PROVE  OnceInv'
<1>1. CASE Tick
  BY <1>1, TickOnce
<1>2. ASSUME NEW n \in Node, SetGlobal(n) PROVE OnceInv'
  BY <1>2, CallOnce
<1>3. ASSUME NEW n \in Node, Timeout(n) \/ OtherChange(n) PROVE OnceInv'
  BY <1>3, TidyOnce
<1>4. ASSUME NEW n \in Node, Commit(n) \/ Awaited(n) \/ AwaitTimesOut(n) PROVE OnceInv'
  BY <1>4, MoveOnce
<1>5. ASSUME NEW n \in Node, NEW t \in gossip, ReceiveGossip(n, t) PROVE OnceInv'
  BY <1>5, GossipOnce
<1>6. ASSUME NEW n \in Node, NEW m \in Group, ReceiveTell(m, n) PROVE OnceInv'
  BY <1>6, TellOnce
<1>7. ASSUME NEW n \in Node, NEW m \in Group, LoseTell(m, n) PROVE OnceInv'
  BY <1>7, LoseOnce
<1>8. CASE UNCHANGED vars
  BY <1>8 DEF vars, OnceInv, StateOK, OneTransaction, Asked, PutOnce
<1> QED BY <1>1, <1>2, <1>3, <1>4, <1>5, <1>6, <1>7, <1>8 DEF Next

LEMMA OnceInvariant == Spec => []OnceInv
BY InitOnce, NextOnce, PTL DEF Spec

(* A node puts a change into its queue at most once for each state that    *)
(* those who called setGlobal expect, whoever is late or out of date and   *)
(* whatever is lost: processReceipt takes the receipt of a hash once, and  *)
(* attemptCleanup forgets the hash when put refuses the change anyway.     *)
THEOREM ChangeOncePerHash == Spec => []OncePerHash
<1>1. OnceInv => OncePerHash
  BY DEF OnceInv, PutOnce, OncePerHash, Asked
<1> QED BY <1>1, OnceInvariant, PTL

-----------------------------------------------------------------------------
(* Every signature in a receipt is that of a member that called.           *)
LEMMA ContributeKnown ==
  ASSUME OnceInv, SignsKnown, NEW n \in Node, NEW m \in Group, NEW r \in NodeState,
         Collects(n, node[n], r, SignOf(m)), Become(n, r),
         called \subseteq called', m \in called', UNCHANGED expects
  PROVE  /\ SignsKnown'
         /\ WithSign(node[n].receipt, SignOf(m)).signs \subseteq SignsOf(called')
<1> DEFINE g == WithSign(node[n].receipt, SignOf(m))
<1>1. StateOK
  BY DEF OnceInv
<1>2. SignsOf(called) \subseteq SignsOf(called') /\ SignOf(m) \in SignsOf(called')
  BY DEF SignsOf
<1>3. SignsOf(called)' = SignsOf(called')
  BY DEF SignsOf, SignOf
<1>4. g.signs \subseteq SignsOf(called')
  BY <1>2 DEF SignsKnown, WithSign
<1> HIDE DEF g
<1>5. r.receipt.signs \subseteq SignsOf(called')
  BY <1>4, NoReceiptType DEF Collects, Cleans, g
<1>6. ASSUME NEW k \in Node PROVE node'[k].receipt.signs \subseteq SignsOf(called')
  <2>1. CASE k = n
    BY <1>1, <1>5, <2>1, BecomeFields
  <2>2. CASE k # n
    BY <1>1, <1>2, <2>2, BecomeFields DEF SignsKnown
  <2> QED BY <2>1, <2>2
<1> QED BY <1>3, <1>4, <1>6 DEF SignsKnown, g

(* The receipt of a node stays or is deleted.                              *)
LEMMA ReceiptsKept ==
  ASSUME SignsKnown, UNCHANGED <<expects, called>>,
         \A k \in Node : node'[k].receipt \in {node[k].receipt, NoReceipt}
  PROVE  SignsKnown'
<1>1. SignsOf(called)' = SignsOf(called)
  BY DEF SignsOf, SignOf
<1> QED BY <1>1, NoReceiptType DEF SignsKnown

(* All other steps but that of the clock.                                  *)
LEMMA OtherKnown ==
  ASSUME OnceInv, SignsKnown, NEW n \in Node,
         \/ Timeout(n) \/ OtherChange(n) \/ Commit(n) \/ Awaited(n) \/ AwaitTimesOut(n)
         \/ \E t \in gossip : ReceiveGossip(n, t)
         \/ \E m \in Group : LoseTell(m, n)
  PROVE  SignsKnown'
<1>1. StateOK /\ clock \in Nat /\ node[n] \in NodeState
  BY DEF OnceInv, StateOK
<1>2. CASE Timeout(n) \/ OtherChange(n)
  <2>1. UNCHANGED <<expects, called>>
    BY <1>2 DEF Timeout, OtherChange
  <2>2. PICK r \in NodeState : Become(n, r) /\ Cleans(node[n].receipt, node[n], r)
    BY <1>1, <1>2, Tidied
  <2> QED BY <1>1, <2>1, <2>2, BecomeFields, ReceiptsKept DEF Cleans
<1>3. CASE Commit(n) \/ Awaited(n) \/ AwaitTimesOut(n)
  <2>1. UNCHANGED <<expects, called>>
    BY <1>1, <1>3, Moved
  <2>2. PICK r \in NodeState : Become(n, r) /\ Moves(node[n], r)
    BY <1>1, <1>3, Moved
  <2> QED BY <1>1, <2>1, <2>2, BecomeFields, ReceiptsKept DEF Moves
<1>4. ASSUME NEW t \in gossip, ReceiveGossip(n, t) PROVE SignsKnown'
  <2> DEFINE r == ProcessReceipt(node[n], t)
  <2>1. Become(n, r) /\ UNCHANGED <<expects, called>>
    BY <1>4 DEF ReceiveGossip
  <2>2. Cleans(node[n].receipt, node[n], r)
    BY <1>1, ProcessReceiptFields DEF StateOK
  <2> HIDE DEF r
  <2> QED BY <1>1, <2>1, <2>2, BecomeFields, ReceiptsKept DEF Cleans
<1>5. ASSUME NEW m \in Group, LoseTell(m, n) PROVE SignsKnown'
  BY <1>5, ReceiptsKept DEF LoseTell
<1> QED BY <1>2, <1>3, <1>4, <1>5

LEMMA SpreadsKept ==
  ASSUME OnceInv, Spreads, NEW n \in Node, NEW r \in NodeState, Become(n, r),
         UNCHANGED <<clock, fault>>,
         \/ /\ r.times = node[n].times /\ (clock <= GlobalExpire => r.gossiped = node[n].gossiped)
            /\ UNCHANGED <<gossip, unheard>>
         \/ /\ IF clock <= GlobalExpire THEN r.times > 0 ELSE r.times = node[n].times
            /\ \A k \in Node \ {n} : <<k, Expected>> \in unheard => <<k, Expected>> \in unheard'
            /\ Expected \in gossip \/ \A k \in Node \ {n} : <<k, Expected>> \in unheard'
  PROVE  Spreads'
<1>1. SUFFICES ASSUME fault # "stale" PROVE Spreads'
  BY DEF Spreads
<1>2. /\ \A k \in Node : k # n => node'[k] = node[k]
      /\ node'[n].times = r.times /\ node'[n].gossiped = r.gossiped
  BY BecomeFields DEF OnceInv, Same, SameEntry
<1>3. clock \in Nat
  BY DEF OnceInv, StateOK
<1>4. CASE /\ r.times = node[n].times /\ (clock <= GlobalExpire => r.gossiped = node[n].gossiped)
           /\ UNCHANGED <<gossip, unheard>>
  <2>1. \A k \in Node : /\ node'[k].times = node[k].times
                        /\ clock <= GlobalExpire => node'[k].gossiped = node[k].gossiped
    BY <1>2, <1>4
  <2> QED BY <1>1, <1>4, <2>1 DEF Spreads
<1>5. CASE /\ IF clock <= GlobalExpire THEN r.times > 0 ELSE r.times = node[n].times
           /\ \A k \in Node \ {n} : <<k, Expected>> \in unheard => <<k, Expected>> \in unheard'
           /\ Expected \in gossip \/ \A k \in Node \ {n} : <<k, Expected>> \in unheard'
  <2>1. CASE clock <= GlobalExpire
    <3>1. \A k \in Node : node'[k].times > 0 \/ <<k, Expected>> \in unheard'
      BY <1>1, <1>2, <1>5, <2>1 DEF Spreads
    <3>2. \A k \in Node : Expected \in node'[k].gossiped => node'[k].times > 0
      BY <1>1, <1>2, <1>5, <2>1 DEF Spreads
    <3> QED BY <1>3, <2>1, <3>1, <3>2 DEF Spreads, GlobalExpire
  <2>2. CASE clock > GlobalExpire
    <3>1. \A k \in Node : node'[k].times = node[k].times
      BY <1>2, <1>3, <1>5, <2>2 DEF GlobalExpire
    <3> QED BY <1>1, <1>3, <2>2, <3>1 DEF Spreads, GlobalExpire
  <2> QED BY <1>3, <2>1, <2>2 DEF GlobalExpire
<1> QED BY <1>4, <1>5

(* Who has not marked a change has not put it, so it does when it still    *)
(* can.                                                                    *)
LEMMA ProcessesTimes ==
  ASSUME OnceInv, fault # "stale", NEW n \in Node, NEW r \in NodeState,
         Processes(node[n], r, Expected)
  PROVE  IF clock <= GlobalExpire THEN r.times > 0 ELSE r.times = node[n].times
<1>1. PutOnce(node[n], Asked) /\ clock \in Nat /\ node[n].times \in Nat
  BY DEF OnceInv, StateOK, NodeState
<1>2. CASE clock <= GlobalExpire
  <2>1. node[n].times = 0 /\ ~Refused(node[n])
    BY <1>1, <1>2 DEF PutOnce, Processes, Refused, GlobalExpire, KeepFor
  <2> QED BY <1>2, <2>1 DEF Processes, PutInto
<1>3. CASE clock > GlobalExpire
  BY <1>1, <1>3 DEF Processes, Refused, SameEntry, GlobalExpire
<1> QED BY <1>1, <1>2, <1>3 DEF GlobalExpire

(* If nobody expects another state a majority of signatures is valid.      *)
LEMMA MajorityValid ==
  ASSUME OnceInv, fault # "stale", NEW S \in SUBSET Group, NEW g \in Receipt,
         g.signs \subseteq SignsOf(S), g.tx = Expected, IsMajority(g.signs)
  PROVE  Valid(g)
<1>1. \A s \in g.signs : s.tx = Expected
  BY DEF SignsOf, SignOf, OnceInv, OneTransaction
<1>2. SignsFor(g) = g.signs
  BY <1>1 DEF SignsFor
<1> QED BY <1>2 DEF Valid

LEMMA ContributeSpreads ==
  ASSUME SpreadInv, NEW n \in Node, NEW m \in Group, NEW r \in NodeState,
         Collects(n, node[n], r, SignOf(m)), Become(n, r), SendGossip(n, r),
         called' \subseteq Group, called \subseteq called', m \in called',
         UNCHANGED <<clock, fault, expects>>
  PROVE  Spreads'
<1> DEFINE g == WithSign(node[n].receipt, SignOf(m))
<1>1. SUFFICES ASSUME fault # "stale" PROVE Spreads'
  BY DEF Spreads
<1>2. OnceInv /\ SignsKnown /\ Spreads /\ node[n] \in NodeState
  BY DEF SpreadInv, OnceInv, StateOK
<1>3. SignOf(m).tx = Expected
  BY <1>1, <1>2 DEF OnceInv, OneTransaction, SignOf
<1>4. g \in Receipt /\ g.tx = Expected
  BY <1>2, <1>3 DEF WithSign, NodeState, Receipt, Sign, SignOf, OnceInv, StateOK
<1>5. g.signs \subseteq SignsOf(called')
  BY <1>2, ContributeKnown
<1> HIDE DEF g
<1>6. CASE Same(node[n], r) /\ r.sent = {}
  <2>1. UNCHANGED <<gossip, unheard>>
    BY <1>6 DEF SendGossip
  <2> QED BY <1>2, <1>6, <2>1, SpreadsKept DEF Same, SameEntry
<1>7. CASE /\ IsMajority(g.signs) /\ Processes(node[n], r, SignOf(m).tx)
           /\ r.sent = IF Valid(g) THEN {SignOf(m).tx} ELSE {}
  <2>1. Valid(g)
    BY <1>1, <1>2, <1>4, <1>5, <1>7, MajorityValid
  <2>2. r.sent = {Expected}
    BY <1>3, <1>7, <2>1
  <2>3. /\ unheard \subseteq unheard'
        /\ Expected \in gossip \/ \A k \in Node \ {n} : <<k, Expected>> \in unheard'
    BY <2>2 DEF SendGossip
  <2>4. IF clock <= GlobalExpire THEN r.times > 0 ELSE r.times = node[n].times
    BY <1>1, <1>2, <1>3, <1>7, ProcessesTimes
  <2> QED BY <1>2, <2>3, <2>4, SpreadsKept
<1> QED BY <1>6, <1>7 DEF Collects, g

LEMMA GossipSpreads ==
  ASSUME SpreadInv, NEW n \in Node, NEW t \in gossip, ReceiveGossip(n, t)
  PROVE  Spreads'
<1> DEFINE r == ProcessReceipt(node[n], t)
<1>1. UNCHANGED <<clock, fault, gossip>> /\ Become(n, r) /\ unheard' = unheard \ {<<n, t>>}
  BY DEF ReceiveGossip
<1>2. SUFFICES ASSUME fault # "stale" PROVE Spreads'
  BY <1>1 DEF Spreads
<1>3. OnceInv /\ Spreads /\ node[n] \in NodeState /\ t = Expected /\ t \in Tx /\ clock \in Nat
  BY <1>2 DEF SpreadInv, OnceInv, StateOK
<1>4. /\ Cleans(node[n].receipt, node[n], r)
      /\ IF t \in node[n].gossiped THEN r = node[n] ELSE Processes(node[n], r, t)
  BY <1>3, ProcessReceiptFields
<1> HIDE DEF r
<1>5. IF clock <= GlobalExpire THEN r.times > 0 ELSE r.times = node[n].times
  <2>1. CASE t \in node[n].gossiped
    BY <1>2, <1>3, <1>4, <2>1 DEF Spreads
  <2>2. CASE t \notin node[n].gossiped
    BY <1>2, <1>3, <1>4, <2>2, ProcessesTimes DEF Cleans
  <2> QED BY <2>1, <2>2
<1>6. r \in NodeState /\ \A k \in Node \ {n} : <<k, Expected>> \in unheard => <<k, Expected>> \in unheard'
  BY <1>1, <1>4 DEF Cleans
<1> QED BY <1>1, <1>3, <1>5, <1>6, SpreadsKept

LEMMA NextSpreads ==
  ASSUME SpreadInv, [Next]_vars
  PROVE  SpreadInv'
<1>1. OnceInv /\ SignsKnown /\ Spreads /\ StateOK /\ clock \in Nat
  BY DEF SpreadInv, OnceInv, StateOK
<1>2. OnceInv'
  BY <1>1, NextOnce
<1>3. CASE Tick
  <2>1. \A k \in Node : Same(node[k], node'[k]) /\ node'[k].receipt = node[k].receipt
    BY <1>1, <1>3, TickFields
  <2>2. /\ clock' = clock + 1 /\ gossip' = {} /\ unheard = {}
        /\ UNCHANGED <<fault, expects, called, unheard>>
    BY <1>3 DEF Tick, Settled
  <2>3. SignsKnown'
    BY <1>1, <2>1, <2>2, ReceiptsKept
  <2>4. Spreads'
    BY <1>1, <2>1, <2>2 DEF Spreads, Same, SameEntry, GlobalExpire
  <2> QED BY <1>2, <2>3, <2>4 DEF SpreadInv
<1>4. ASSUME NEW n \in Node, NEW m \in Group, (m = n /\ SetGlobal(n)) \/ ReceiveTell(m, n)
      PROVE  SpreadInv'
  <2>1. UNCHANGED <<clock, fault, expects>> /\ called' \subseteq Group
        /\ called \subseteq called' /\ m \in called'
    BY <1>1, <1>4 DEF SetGlobal, ReceiveTell, StateOK
  <2>2. PICK r \in NodeState : Collects(n, node[n], r, SignOf(m)) /\ Become(n, r) /\ SendGossip(n, r)
    BY <1>1, <1>4, Contributed DEF Contribute
  <2>3. SignsKnown'
    BY <1>1, <2>1, <2>2, ContributeKnown
  <2>4. Spreads'
    BY <2>1, <2>2, ContributeSpreads
  <2> QED BY <1>2, <2>3, <2>4 DEF SpreadInv
<1>5. ASSUME NEW n \in Node, NEW t \in gossip, ReceiveGossip(n, t) PROVE SpreadInv'
  BY <1>1, <1>2, <1>5, OtherKnown, GossipSpreads DEF SpreadInv
<1>6. ASSUME NEW n \in Node, Timeout(n) \/ OtherChange(n) PROVE SpreadInv'
  <2>1. PICK r \in NodeState :
          /\ Become(n, r) /\ Cleans(node[n].receipt, node[n], r) /\ SameEntry(node[n], r)
          /\ r.lastClean >= 0
          /\ r.gossiped \subseteq node[n].gossiped
          /\ clock <= KeepFor => r.gossiped = node[n].gossiped
    BY <1>1, <1>6, Tidied
  <2>2. UNCHANGED <<clock, fault, gossip, unheard>>
    BY <1>6 DEF Timeout, OtherChange
  <2>3. r.times = node[n].times /\ (clock <= GlobalExpire => r.gossiped = node[n].gossiped)
    BY <1>1, <2>1 DEF SameEntry, GlobalExpire, KeepFor
  <2>4. Spreads'
    BY <1>1, <2>1, <2>2, <2>3, SpreadsKept
  <2> QED BY <1>1, <1>2, <1>6, <2>4, OtherKnown DEF SpreadInv
<1>7. ASSUME NEW n \in Node, Commit(n) \/ Awaited(n) \/ AwaitTimesOut(n) PROVE SpreadInv'
  <2>1. PICK r \in NodeState : Become(n, r) /\ Moves(node[n], r)
    BY <1>1, <1>7, Moved
  <2>2. UNCHANGED <<clock, fault, gossip, unheard>>
    BY <1>1, <1>7, Moved
  <2>3. Spreads'
    BY <1>1, <2>1, <2>2, SpreadsKept DEF Moves
  <2> QED BY <1>1, <1>2, <1>7, <2>3, OtherKnown DEF SpreadInv
<1>8. ASSUME NEW n \in Node, NEW m \in Group, LoseTell(m, n) PROVE SpreadInv'
  BY <1>1, <1>2, <1>8, OtherKnown DEF SpreadInv, LoseTell, Spreads
<1>9. CASE UNCHANGED vars
  BY <1>1, <1>2, <1>9 DEF SpreadInv, SignsKnown, SignsOf, SignOf, Spreads, vars
<1>10. ASSUME NEW n \in Node, SetGlobal(n) PROVE SpreadInv'
  BY <1>4, <1>10 DEF SetGlobal
<1>11. ASSUME NEW n \in Node, NEW m \in Group, ReceiveTell(m, n) PROVE SpreadInv'
  BY <1>4, <1>11
<1> QED BY <1>3, <1>5, <1>6, <1>7, <1>8, <1>9, <1>10, <1>11 DEF Next

LEMMA SpreadInvariant == Spec => []SpreadInv
<1>1. Init => SpreadInv
  <2>1. SUFFICES ASSUME Init PROVE SignsKnown /\ Spreads
    BY InitOnce DEF SpreadInv
  <2>2. \A n \in Node : node[n].receipt = NoReceipt /\ node[n].gossiped = {} /\ node[n].times = 0
    BY <2>1 DEF Init, Fresh
  <2> QED BY <2>1, <2>2, NoReceiptType DEF SignsKnown, Spreads, Init
<1> QED BY <1>1, NextSpreads, PTL DEF Spec

(* A receipt that one node has put into its queue (processReceipt) was     *)
(* gossiped to all, so all nodes put it once the messages have come, if no *)
(* member of the group called setGlobal over old data.                     *)
THEOREM ChangeOnAllOrNone == Spec => []AllOrNone
<1>1. SpreadInv => AllOrNone
  <2>1. SUFFICES ASSUME SpreadInv, Settled, fault # "stale", \E n \in Node : node[n].times > 0
                 PROVE  \A n \in Node : node[n].times > 0
    BY DEF AllOrNone
  <2>2. clock \in Nat /\ unheard = {}
    BY <2>1 DEF SpreadInv, OnceInv, StateOK, Settled
  <2> QED BY <2>1, <2>2 DEF SpreadInv, Spreads, GlobalExpire
<1> QED BY <1>1, SpreadInvariant, PTL

-----------------------------------------------------------------------------
LEMMA MoreSigns ==
  ASSUME NEW S, NEW T, S \subseteq T, IsFiniteSet(T), IsMajority(S)
  PROVE  IsMajority(T)
<1>1. Cardinality(S) \in Nat /\ Cardinality(T) \in Nat /\ Cardinality(Group) \in Nat
  BY GroupAssumption, FS_Subset, FS_CardinalityType
<1>2. Cardinality(S) <= Cardinality(T)
  BY FS_Subset
<1> QED BY <1>1, <1>2 DEF IsMajority

LEMMA NoMajority == ~IsMajority({})
<1>1. Cardinality({}) = 0 /\ Cardinality(Group) \in Nat /\ Cardinality(Group) # 0
  BY GroupAssumption, FS_Subset, FS_CardinalityType, FS_EmptySet
<1> QED BY <1>1 DEF IsMajority

LEMMA SignsFinite ==
  ASSUME NEW S \in SUBSET Group
  PROVE  IsFiniteSet(SignsOf(S))
<1> DEFINE f == [m \in S |-> SignOf(m)]
<1>1. IsFiniteSet(S)
  BY GroupAssumption, FS_Subset
<1>2. f \in Surjection(S, SignsOf(S))
  BY DEF SignsOf, Surjection
<1> QED BY <1>1, <1>2, FS_Surjection

(* A node that put the change cleaned up then and does not for a minute,   *)
(* nor does a node before it can.                                          *)
LEMMA StaysUncleaned ==
  ASSUME StateOK, NEW n \in Node, PutOnce(node[n], Asked), NEW rc, NEW r,
         Cleans(rc, node[n], r), Uncleaned(node[n])
  PROVE  r.receipt = rc
<1>1. clock \in Nat /\ node[n] \in NodeState
  BY DEF StateOK
<1>2. node[n].lastClean \in Int
  BY <1>1 DEF NodeState, CleanEvery
<1> QED BY <1>1, <1>2 DEF Cleans, Uncleaned, PutOnce, CleanEvery

LEMMA PutEarly ==
  ASSUME clock \in Nat, NEW l \in NodeState, NEW r, NEW k,
         SameEntry(l, r) \/ (~Refused(l) /\ PutInto(l, r)), Uncleaned(r)
  PROVE  Uncleaned(l)
BY DEF SameEntry, PutInto, Refused, Uncleaned, KeepFor, GlobalExpire

LEMMA ContributeCollected ==
  ASSUME OnceInv, Collected, NEW n \in Group, NEW m \in Group, NEW r \in NodeState,
         Collects(n, node[n], r, SignOf(m)), Become(n, r),
         called' = called \cup {m},
         tells \subseteq tells' \cup {<<m, n>>}, m \notin called => \A k \in Group \ {n} : <<m, k>> \in tells',
         clock > CallBy => tells' = {},
         UNCHANGED <<clock, fault, expects>>
  PROVE  Collected'
<1>1. StateOK /\ clock \in Nat /\ n \in Node /\ node[n] \in NodeState /\ PutOnce(node[n], Asked)
  BY GroupAssumption DEF OnceInv, StateOK
<1>2. /\ \A k \in Node : k # n => node'[k] = node[k]
      /\ Same(r, node'[n]) /\ node'[n].receipt = r.receipt
  BY <1>1, BecomeFields
<1>3. \A k \in Node \ Group : node'[k].receipt = NoReceipt
  BY <1>2 DEF Collected
<1>4. \A k : SignOf(k)' = SignOf(k)
  BY DEF SignOf
<1>5. ASSUME NEW k \in Group \ {n}, Uncleaned(node[k])', NEW j \in called'
      PROVE  SignOf(j)' \in node'[k].receipt.signs \/ <<j, k>> \in tells'
  <2>1. k \in Node /\ node'[k] = node[k] /\ Uncleaned(node[k])
    BY <1>2, <1>5, GroupAssumption DEF Uncleaned
  <2>2. CASE j \in called
    BY <1>4, <2>1, <2>2 DEF Collected
  <2>3. CASE j \notin called
    BY <1>5, <2>3
  <2> QED BY <2>2, <2>3
<1>6. ASSUME Uncleaned(node[n])', NEW j \in called'
      PROVE  SignOf(j)' \in node'[n].receipt.signs \/ <<j, n>> \in tells'
  <2> DEFINE g == WithSign(node[n].receipt, SignOf(m))
  <2>1. Uncleaned(r)
    BY <1>2, <1>6 DEF Uncleaned, Same, SameEntry
  <2>2. SameEntry(node[n], r) \/ (~Refused(node[n]) /\ PutInto(node[n], r))
    BY DEF Collects, Same, Processes
  <2>3. Uncleaned(node[n])
    BY <1>1, <2>1, <2>2, PutEarly
  <2>4. Cleans(g, node[n], r)
    BY DEF Collects
  <2>5. r.receipt = g
    BY <1>1, <2>3, <2>4, StaysUncleaned
  <2>6. g.signs = node[n].receipt.signs \cup {SignOf(m)}
    BY DEF WithSign
  <2> HIDE DEF g
  <2>7. CASE j = m
    BY <1>2, <1>4, <2>5, <2>6, <2>7
  <2>8. CASE j # m
    <3>1. SignOf(j) \in node[n].receipt.signs \/ <<j, n>> \in tells
      BY <2>3, <2>8 DEF Collected
    <3> QED BY <1>2, <1>4, <2>5, <2>6, <2>8, <3>1
  <2> QED BY <2>7, <2>8
<1> QED BY <1>3, <1>5, <1>6 DEF Collected

(* The steps of the other kinds keep the receipt while it matters.         *)
LEMMA OtherCollected ==
  ASSUME OnceInv, Collected, NEW n \in Node, NEW r \in NodeState, Become(n, r),
         \/ Cleans(node[n].receipt, node[n], r)
         \/ Moves(node[n], r) /\ node[n].state # "none",
         Uncleaned(r) => Uncleaned(node[n]),
         UNCHANGED <<clock, expects, called, tells>>
  PROVE  Collected'
<1>1. StateOK /\ PutOnce(node[n], Asked)
  BY DEF OnceInv
<1>2. /\ \A k \in Node : k # n => node'[k] = node[k]
      /\ Same(r, node'[n]) /\ node'[n].receipt = r.receipt
  BY <1>1, BecomeFields
<1>3. r.receipt \in {node[n].receipt, NoReceipt} /\ (Uncleaned(r) => r.receipt = node[n].receipt)
  <2>1. CASE Cleans(node[n].receipt, node[n], r)
    BY <1>1, <2>1, StaysUncleaned DEF Cleans
  <2>2. CASE Moves(node[n], r)
    BY <2>2 DEF Moves
  <2> QED BY <2>1, <2>2
<1>4. \A k : SignOf(k)' = SignOf(k)
  BY DEF SignOf
<1>5. \A k \in Node \ Group : node'[k].receipt = NoReceipt
  BY <1>2, <1>3 DEF Collected
<1>6. ASSUME NEW k \in Group, Uncleaned(node[k])', NEW j \in called'
      PROVE  SignOf(j)' \in node'[k].receipt.signs \/ <<j, k>> \in tells'
  <2>1. k \in Node
    BY GroupAssumption
  <2>2. node'[k].receipt = node[k].receipt /\ Uncleaned(node[k])
    BY <1>2, <1>3, <1>6, <2>1 DEF Uncleaned, Same, SameEntry
  <2> QED BY <1>4, <2>2 DEF Collected
<1> QED BY <1>5, <1>6 DEF Collected

LEMMA MajorityStays ==
  ASSUME MajorityCalled, called' \subseteq Group, called \subseteq called', UNCHANGED expects,
         \/ IsMajority(SignsOf(called'))
         \/ /\ gossip' \subseteq gossip
            /\ \A k \in Node : node'[k].state # "none" => gossip # {} \/ node[k].state # "none"
  PROVE  MajorityCalled'
<1>1. SignsOf(called)' = SignsOf(called') /\ SignsOf(called) \subseteq SignsOf(called')
  BY DEF SignsOf, SignOf
<1>2. IsFiniteSet(SignsOf(called'))
  BY SignsFinite
<1>3. \A S : IsMajority(S)' = IsMajority(S)
  BY DEF IsMajority
<1>4. CASE IsMajority(SignsOf(called'))
  BY <1>1, <1>3, <1>4 DEF MajorityCalled
<1>5. CASE /\ gossip' \subseteq gossip
           /\ \A k \in Node : node'[k].state # "none" => gossip # {} \/ node[k].state # "none"
  <2>1. SUFFICES ASSUME gossip' # {} \/ \E k \in Node : node'[k].state # "none"
                 PROVE  IsMajority(SignsOf(called'))
    BY <1>1, <1>3 DEF MajorityCalled
  <2>2. IsMajority(SignsOf(called))
    BY <1>5, <2>1 DEF MajorityCalled
  <2> QED BY <1>1, <1>2, <2>2, MoreSigns
<1> QED BY <1>4, <1>5

(* What a node may forward is ready for it.                                *)
Ready(n, l) ==
  MayForward(l) =>
    /\ l.receipt # NoReceipt => IsMajority(l.receipt.signs)
    /\ n \in Group /\ clock < CleanEvery => IsMajority(l.receipt.signs)

LEMMA ReadyStays ==
  ASSUME OnceInv, ForwardsMajority, NEW n \in Node, NEW r \in NodeState, Become(n, r),
         Ready(n, r), UNCHANGED clock,
         \A k \in Node : \A x \in forwarded'[k] \ forwarded[k] : IsMajority(x.signs)
  PROVE  ForwardsMajority'
<1>1. /\ \A k \in Node : k # n => node'[k] = node[k]
      /\ Same(r, node'[n]) /\ node'[n].receipt = r.receipt
  BY BecomeFields DEF OnceInv
<1>2. \A S : IsMajority(S)' = IsMajority(S)
  BY DEF IsMajority
<1>3. ASSUME NEW k \in Node PROVE Ready(k, node[k])'
  <2>1. CASE k = n
    BY <1>1, <1>2, <2>1 DEF Ready, MayForward, Same, SameEntry
  <2>2. CASE k # n
    BY <1>1, <1>2, <2>2 DEF Ready, MayForward, ForwardsMajority
  <2> QED BY <2>1, <2>2
<1>4. ASSUME NEW k \in Node, NEW x \in forwarded'[k] PROVE IsMajority(x.signs)'
  BY <1>2 DEF ForwardsMajority
<1> QED BY <1>3, <1>4 DEF ForwardsMajority, Ready

(* A node that cleans up after whatever it did deletes no receipt that a   *)
(* member may still have to complete.                                      *)
LEMMA CleansReady ==
  ASSUME StateOK, NEW n \in Node, PutOnce(node[n], Asked), Ready(n, node[n]), NEW rc \in Receipt, NEW r \in NodeState,
         Cleans(rc, node[n], r),
         SameEntry(node[n], r) \/ PutInto(node[n], r),
         \/ rc = node[n].receipt
         \/ /\ clock < CleanEvery /\ n \in Group /\ IsFiniteSet(rc.signs)
            /\ node[n].receipt.signs \subseteq rc.signs
  PROVE  Ready(n, r)
<1>1. clock \in Nat /\ node[n] \in NodeState
  BY DEF StateOK
<1>2. node[n].lastClean \in Int
  BY <1>1 DEF NodeState, CleanEvery
<1>3. SUFFICES ASSUME MayForward(r) PROVE Ready(n, r)
  BY DEF Ready
<1>4. SameEntry(node[n], r) /\ MayForward(node[n])
  BY <1>1, <1>3 DEF MayForward, PutInto, SameEntry
<1>5. clock < CleanEvery => r.receipt = rc
  BY <1>1, <1>2, <1>4 DEF MayForward, PutOnce, Cleans, CleanEvery
<1>6. CASE rc = node[n].receipt
  BY <1>4, <1>5, <1>6 DEF Ready, Cleans
<1>7. CASE /\ clock < CleanEvery /\ n \in Group /\ IsFiniteSet(rc.signs)
           /\ node[n].receipt.signs \subseteq rc.signs
  <2>1. IsMajority(node[n].receipt.signs)
    BY <1>4, <1>7 DEF Ready
  <2>2. IsMajority(rc.signs)
    BY <1>7, <2>1, MoreSigns
  <2> QED BY <1>5, <1>7, <2>2 DEF Ready
<1> QED BY <1>6, <1>7

LEMMA ContributeComplete ==
  ASSUME CallBy < CleanEvery, OnceInv, SignsKnown, Complete, fault # "loss",
         NEW n \in Node, NEW m \in Group, (m = n /\ SetGlobal(n)) \/ ReceiveTell(m, n)
  PROVE  Complete'
<1>1. StateOK /\ clock \in Nat /\ node[n] \in NodeState /\ PutOnce(node[n], Asked) /\ CallBy \in Nat
  BY TimeAssumption DEF OnceInv, StateOK
<1>2. /\ n \in Group /\ clock <= CallBy /\ called' = called \cup {m} /\ called' \subseteq Group
      /\ UNCHANGED <<clock, fault, expects, forwarded>>
  <2>1. CASE m = n /\ SetGlobal(n)
    BY <1>1, <2>1 DEF SetGlobal, MayCall, StateOK
  <2>2. CASE ReceiveTell(m, n)
    BY <1>1, <2>2 DEF ReceiveTell, StateOK, Complete, Collected
  <2> QED BY <2>1, <2>2
<1>3. PICK r \in NodeState : Collects(n, node[n], r, SignOf(m)) /\ Become(n, r) /\ SendGossip(n, r)
  BY <1>1, Contributed DEF Contribute
<1> DEFINE g == WithSign(node[n].receipt, SignOf(m))
<1>4. g.signs \subseteq SignsOf(called') /\ g.signs = node[n].receipt.signs \cup {SignOf(m)} /\ g \in Receipt
  <2>1. g.signs \subseteq SignsOf(called')
    BY <1>2, <1>3, ContributeKnown
  <2>2. SignOf(m) \in Sign
    BY <1>1 DEF SignOf, Sign, StateOK
  <2>3. node[n].receipt \in Receipt
    BY <1>1 DEF NodeState
  <2> QED BY <2>1, <2>2, <2>3 DEF WithSign, Receipt, Sign
<1>5. IsFiniteSet(SignsOf(called')) /\ IsFiniteSet(g.signs)
  BY <1>2, <1>4, SignsFinite, FS_Subset
<1>6. Collected'
  <2>1. /\ tells \subseteq tells' \cup {<<m, n>>}
        /\ m \notin called => \A k \in Group \ {n} : <<m, k>> \in tells'
    <3>1. CASE m = n /\ SetGlobal(n)
      BY <3>1 DEF SetGlobal
    <3>2. CASE ReceiveTell(m, n)
      BY <1>1, <3>2 DEF ReceiveTell, StateOK
    <3> QED BY <3>1, <3>2
  <2> QED BY <1>1, <1>2, <1>3, <2>1, ContributeCollected DEF Complete
<1> HIDE DEF g
<1>7. MajorityCalled'
  <2>1. CASE IsMajority(g.signs)
    <3>1. IsMajority(SignsOf(called'))
      BY <1>4, <1>5, <2>1, MoreSigns
    <3> QED BY <1>2, <3>1, MajorityStays DEF Complete
  <2>2. CASE ~IsMajority(g.signs)
    <3>1. Same(node[n], r) /\ r.sent = {}
      BY <1>3, <2>2 DEF Collects, g
    <3>2. gossip' = gossip
      BY <1>3, <3>1 DEF SendGossip
    <3>3. \A k \in Node : node'[k].state = node[k].state
      BY <1>1, <1>3, <3>1, BecomeFields DEF Same, SameEntry
    <3> QED BY <1>2, <3>2, <3>3, MajorityStays DEF Complete
  <2> QED BY <2>1, <2>2
<1>8. ForwardsMajority'
  <2>1. SameEntry(node[n], r) \/ PutInto(node[n], r)
    BY <1>3 DEF Collects, Same, Processes
  <2>2. Cleans(g, node[n], r) /\ clock < CleanEvery /\ Ready(n, node[n])
    BY <1>1, <1>2, <1>3 DEF Collects, g, Ready, Complete, ForwardsMajority, CleanEvery
  <2>3. Ready(n, r)
    BY <1>1, <1>2, <1>4, <1>5, <2>1, <2>2, CleansReady
  <2> QED BY <1>2, <1>3, <2>3, ReadyStays DEF Complete
<1> QED BY <1>6, <1>7, <1>8 DEF Complete

(* A step of one node in which it makes no new receipt.                    *)
LEMMA QuietComplete ==
  ASSUME OnceInv, Complete, NEW n \in Node, NEW r \in NodeState, Become(n, r),
         Cleans(node[n].receipt, node[n], r),
         SameEntry(node[n], r) \/ (gossip # {} /\ ~Refused(node[n]) /\ PutInto(node[n], r)),
         UNCHANGED <<clock, expects, called, tells, gossip, forwarded>>
  PROVE  Complete'
<1>1. StateOK /\ clock \in Nat /\ node[n] \in NodeState /\ PutOnce(node[n], Asked) /\ called \subseteq Group
  BY DEF OnceInv, StateOK
<1>2. Uncleaned(r) => Uncleaned(node[n])
  BY <1>1, PutEarly
<1>3. Collected'
  BY <1>2, OtherCollected DEF Complete
<1>4. MajorityCalled'
  <2>1. \A k \in Node : node'[k].state # "none" => gossip # {} \/ node[k].state # "none"
    BY <1>1, BecomeFields DEF Same, SameEntry
  <2> QED BY <1>1, <2>1, MajorityStays DEF Complete
<1>5. ForwardsMajority'
  <2>1. Ready(n, node[n]) /\ node[n].receipt \in Receipt
    BY <1>1 DEF Ready, Complete, ForwardsMajority, NodeState
  <2>2. Ready(n, r)
    BY <1>1, <2>1, CleansReady
  <2> QED BY <2>2, ReadyStays DEF Complete
<1> QED BY <1>3, <1>4, <1>5 DEF Complete

LEMMA MoveComplete ==
  ASSUME OnceInv, Complete, NEW n \in Node, Commit(n) \/ Awaited(n) \/ AwaitTimesOut(n)
  PROVE  Complete'
<1>1. StateOK /\ clock \in Nat /\ node[n] \in NodeState /\ PutOnce(node[n], Asked) /\ called \subseteq Group
  BY DEF OnceInv, StateOK
<1>2. PICK r \in NodeState : Become(n, r) /\ Moves(node[n], r)
  BY <1>1, Moved
<1>3. MayForward(node[n]) /\ node[n].state # "none"
      /\ UNCHANGED <<clock, fault, expects, called, tells, gossip, unheard>>
      /\ \/ UNCHANGED forwarded
         \/ forwarded' = [forwarded EXCEPT ![n] = @ \cup ({node[n].receipt} \ {NoReceipt})]
  BY <1>1, Moved DEF MayForward
<1>4. Ready(n, node[n])
  BY DEF Ready, Complete, ForwardsMajority
<1>5. Collected'
  <2>1. Uncleaned(r) => Uncleaned(node[n])
    BY <1>3 DEF Uncleaned
  <2> QED BY <1>2, <1>3, <2>1, OtherCollected DEF Complete
<1>6. MajorityCalled'
  <2>1. \A k \in Node : node'[k].state # "none" => node[k].state # "none"
    BY <1>1, <1>2, <1>3, BecomeFields
  <2> QED BY <1>1, <1>3, <2>1, MajorityStays DEF Complete
<1>7. ForwardsMajority'
  <2>1. Ready(n, r)
    BY <1>2, <1>3, <1>4 DEF Ready, Moves
  <2>2. \A k \in Node : \A x \in forwarded'[k] \ forwarded[k] : IsMajority(x.signs)
    BY <1>1, <1>3, <1>4 DEF Ready, StateOK
  <2> QED BY <1>2, <1>3, <2>1, <2>2, ReadyStays DEF Complete
<1> QED BY <1>5, <1>6, <1>7 DEF Complete

LEMMA TickComplete ==
  ASSUME OnceInv, SignsKnown, Complete, Tick
  PROVE  Complete'
<1>1. StateOK /\ clock \in Nat /\ called \subseteq Group
  BY DEF OnceInv, StateOK
<1>2. \A k \in Node : Same(node[k], node'[k]) /\ node'[k].receipt = node[k].receipt
  BY <1>1, TickFields
<1>3. /\ clock' = clock + 1 /\ gossip' = {} /\ tells = {}
      /\ UNCHANGED <<fault, expects, called, tells, forwarded>>
  BY DEF Tick, Settled
<1>4. Collected'
  <2>1. \A k : SignOf(k)' = SignOf(k)
    BY <1>3 DEF SignOf
  <2>2. ASSUME NEW k \in Group, Uncleaned(node[k])' PROVE Uncleaned(node[k])
    BY <1>1, <1>2, <1>3, <2>2, GroupAssumption DEF Uncleaned, Same, SameEntry, KeepFor, CleanEvery
  <2>3. \A k \in Group : node'[k].receipt = node[k].receipt
    BY <1>2, GroupAssumption
  <2> QED BY <1>2, <1>3, <2>1, <2>2, <2>3 DEF Collected, Complete
<1>5. MajorityCalled'
  BY <1>1, <1>2, <1>3, MajorityStays DEF Complete, Same, SameEntry
<1>6. \A S : IsMajority(S)' = IsMajority(S)
  BY DEF IsMajority
<1>7. ASSUME NEW k \in Node, MayForward(node[k])'
      PROVE  /\ node[k].receipt # NoReceipt => IsMajority(node[k].receipt.signs)
             /\ k \in Group /\ clock + 1 < CleanEvery => IsMajority(node[k].receipt.signs)
  <2>1. PutOnce(node[k], Asked) /\ node[k].since \in Nat
    BY <1>1 DEF OnceInv, StateOK, NodeState
  <2>2. node'[k].state = node[k].state /\ node'[k].since = node[k].since
    BY <1>2 DEF Same, SameEntry
  <2>3. CASE MayForward(node[k])
    BY <1>1, <2>3 DEF Complete, ForwardsMajority, CleanEvery
  <2>4. CASE ~MayForward(node[k])
    <3>1. node[k].state = "queued" /\ node[k].since = clock /\ clock <= KeepFor
      BY <1>1, <1>3, <1>7, <2>1, <2>2, <2>4 DEF MayForward, PutOnce, GlobalExpire, KeepFor
    <3>2. CASE k \in Group
      <4>1. SignsOf(called) \subseteq node[k].receipt.signs
        BY <1>3, <3>1, <3>2 DEF SignsOf, Collected, Complete, Uncleaned
      <4>2. node[k].receipt.signs = SignsOf(called)
        BY <4>1 DEF SignsKnown
      <4>3. IsMajority(SignsOf(called))
        BY <3>1 DEF MajorityCalled, Complete
      <4> QED BY <4>2, <4>3
    <3>3. CASE k \notin Group
      BY <3>3 DEF Collected, Complete
    <3> QED BY <3>2, <3>3
  <2> QED BY <2>3, <2>4
<1>8. ForwardsMajority'
  BY <1>2, <1>3, <1>6, <1>7 DEF ForwardsMajority, Complete
<1> QED BY <1>4, <1>5, <1>8 DEF Complete

LEMMA NextComplete ==
  ASSUME CallBy < CleanEvery, CompleteInv, [Next]_vars
  PROVE  CompleteInv'
<1>1. OnceInv /\ SignsKnown /\ (fault # "loss" => Complete) /\ StateOK /\ clock \in Nat
  BY DEF CompleteInv, OnceInv, StateOK
<1>2. OnceInv'
  BY <1>1, NextOnce
<1>3. CASE Tick
  <2>1. \A k \in Node : node'[k].receipt = node[k].receipt
    BY <1>1, <1>3, TickFields
  <2>2. UNCHANGED <<fault, expects, called>>
    BY <1>3 DEF Tick
  <2>3. SignsKnown'
    BY <1>1, <2>1, <2>2, ReceiptsKept
  <2> QED BY <1>1, <1>2, <1>3, <2>2, <2>3, TickComplete DEF CompleteInv
<1>4. ASSUME NEW n \in Node, NEW m \in Group, (m = n /\ SetGlobal(n)) \/ ReceiveTell(m, n)
      PROVE  CompleteInv'
  <2>1. UNCHANGED <<fault, expects>> /\ called \subseteq called' /\ m \in called'
    BY <1>1, <1>4 DEF SetGlobal, ReceiveTell, StateOK
  <2>2. PICK r \in NodeState : Collects(n, node[n], r, SignOf(m)) /\ Become(n, r)
    BY <1>1, <1>4, Contributed DEF Contribute
  <2>3. SignsKnown'
    BY <1>1, <2>1, <2>2, ContributeKnown
  <2> QED BY <1>1, <1>2, <1>4, <2>1, <2>3, ContributeComplete DEF CompleteInv
<1>5. ASSUME NEW n \in Node, SetGlobal(n) PROVE CompleteInv'
  BY <1>4, <1>5 DEF SetGlobal
<1>6. ASSUME NEW n \in Node, NEW m \in Group, ReceiveTell(m, n) PROVE CompleteInv'
  BY <1>4, <1>6
<1>7. ASSUME NEW n \in Node, NEW t \in gossip, ReceiveGossip(n, t) PROVE CompleteInv'
  <2> DEFINE r == ProcessReceipt(node[n], t)
  <2>1. /\ UNCHANGED <<clock, fault, expects, called, tells, gossip, forwarded>>
        /\ Become(n, r) /\ gossip # {}
    BY <1>7 DEF ReceiveGossip
  <2>2. node[n] \in NodeState /\ t \in Tx
    BY <1>1 DEF StateOK
  <2>3. /\ Cleans(node[n].receipt, node[n], r)
        /\ IF t \in node[n].gossiped THEN r = node[n] ELSE Processes(node[n], r, t)
    BY <1>1, <2>2, ProcessReceiptFields
  <2> HIDE DEF r
  <2>4. r \in NodeState /\ (SameEntry(node[n], r) \/ (~Refused(node[n]) /\ PutInto(node[n], r)))
    BY <2>3 DEF Cleans, Processes, SameEntry
  <2>5. fault # "loss" => Complete'
    BY <1>1, <2>1, <2>3, <2>4, QuietComplete
  <2> QED BY <1>1, <1>2, <1>7, <2>1, <2>5, OtherKnown DEF CompleteInv
<1>8. ASSUME NEW n \in Node, Timeout(n) \/ OtherChange(n) PROVE CompleteInv'
  <2>1. PICK r \in NodeState :
          /\ Become(n, r) /\ Cleans(node[n].receipt, node[n], r) /\ SameEntry(node[n], r)
          /\ r.lastClean >= 0
          /\ r.gossiped \subseteq node[n].gossiped
          /\ clock <= KeepFor => r.gossiped = node[n].gossiped
    BY <1>1, <1>8, Tidied
  <2>2. UNCHANGED <<clock, fault, expects, called, tells, gossip, forwarded>>
    BY <1>8 DEF Timeout, OtherChange
  <2>3. fault # "loss" => Complete'
    BY <1>1, <2>1, <2>2, QuietComplete
  <2> QED BY <1>1, <1>2, <1>8, <2>2, <2>3, OtherKnown DEF CompleteInv
<1>9. ASSUME NEW n \in Node, Commit(n) \/ Awaited(n) \/ AwaitTimesOut(n) PROVE CompleteInv'
  <2>1. UNCHANGED fault
    BY <1>1, <1>9, Moved
  <2> QED BY <1>1, <1>2, <1>9, <2>1, OtherKnown, MoveComplete DEF CompleteInv
<1>10. ASSUME NEW n \in Node, NEW m \in Group, LoseTell(m, n) PROVE CompleteInv'
  <2>1. fault = "loss" /\ UNCHANGED fault
    BY <1>10 DEF LoseTell
  <2> QED BY <1>1, <1>2, <1>10, <2>1, OtherKnown DEF CompleteInv
<1>11. CASE UNCHANGED vars
  <2>1. SignsKnown'
    BY <1>1, <1>11, ReceiptsKept DEF vars
  <2>2. Complete <=> Complete'
    BY <1>11 DEF vars, Complete, Collected, MajorityCalled, ForwardsMajority, MayForward, Uncleaned,
                 SignsOf, SignOf, IsMajority
  <2> QED BY <1>1, <1>2, <1>11, <2>1, <2>2 DEF CompleteInv, vars
<1> QED BY <1>3, <1>5, <1>6, <1>7, <1>8, <1>9, <1>10, <1>11 DEF Next

(* If the members call setGlobal within a minute, each receipt that a node *)
(* keeps for the archivers (attemptCleanup) has the signatures of a        *)
(* majority, unless messages are lost.  A later call of setGlobal finds    *)
(* the receipt deleted by cleanup, and makes a new one.                    *)
THEOREM ForwardedComplete == CallBy < CleanEvery => (Spec => []ReceiptComplete)
<1>1. SUFFICES ASSUME CallBy < CleanEvery PROVE Spec => []ReceiptComplete
  OBVIOUS
<1>2. Init => CompleteInv
  <2>1. SUFFICES ASSUME Init PROVE SignsKnown /\ Complete
    BY InitOnce DEF CompleteInv
  <2>2. /\ \A n \in Node : node[n].receipt = NoReceipt /\ node[n].state = "none" /\ forwarded[n] = {}
        /\ called = {} /\ tells = {} /\ gossip = {}
    BY <2>1 DEF Init, Fresh
  <2> QED BY <2>2, NoReceiptType
          DEF SignsKnown, Complete, Collected, MajorityCalled, ForwardsMajority, MayForward
<1>3. CompleteInv /\ [Next]_vars => CompleteInv'
  BY <1>1, NextComplete
<1>4. CompleteInv => ReceiptComplete
  BY DEF CompleteInv, Complete, ForwardsMajority, ReceiptComplete
<1> QED BY <1>2, <1>3, <1>4, PTL DEF Spec

=============================================================================
