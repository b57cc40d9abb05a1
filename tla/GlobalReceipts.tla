--------------------------- MODULE GlobalReceipts ---------------------------
(***************************************************************************)
(* p2p/GlobalAccounts.ts: how one change of a global account gets into the *)
(* transaction queue of every node.  The application of each node in the   *)
(* consensus group of the change's source calls setGlobal when it has      *)
(* executed what asks for the change.  The members sign what they ask for  *)
(* and send it to each other (make-receipt); a member with the signatures  *)
(* of 60% of the group puts the change into its queue and gossips the      *)
(* signatures (set-global), which every node checks before it puts the     *)
(* change into its own.  When the change has been committed, each node     *)
(* forwards the receipt it has to the archivers.                           *)
(*                                                                         *)
(* A transaction is the state hash its member expects after the change     *)
(* (tx.afterStateHash); the value that is put is the same for all of them. *)
(* All times are in units of ten seconds.                                  *)
(***************************************************************************)
EXTENDS Integers, FiniteSets

CONSTANTS
  Node,      \* the active nodes
  Group,     \* the consensus group of the source, the same for all nodes
  Expected,  \* the state hash the members expect if their data is up to date
  Outdated,  \* the one a member expects whose copy is out of date
  Faults,    \* which of "none", "stale" and "loss" a behaviour may have
  CallBy,    \* the last time at which a member's application calls setGlobal
  MaxClock   \* bound: the last time explored

ASSUME GroupAssumption == Group \subseteq Node /\ IsFiniteSet(Node) /\ Group # {}
ASSUME TimeAssumption == CallBy \in Nat /\ MaxClock \in Nat /\ CallBy < MaxClock

Tx == {Expected, Outdated}
Sign == [owner : Group, tx : Tx]
Receipt == [signs : SUBSET Sign, tx : Tx]
NoReceipt == [signs |-> {}, tx |-> Expected]
When == 0          \* tx.when
SetGlobalTimeout == 1
KeepFor == 3       \* a tracker is kept for 30 s after tx.when
CleanEvery == 6
GlobalExpire == 2  \* txExpireTimeMs of a global transaction

VARIABLES
  clock,
  fault,      \* the fault of this behaviour
  expects,    \* the transaction a member asks for
  called,     \* the members whose application has called setGlobal
  tells,      \* make-receipt messages under way, <<from, to>>
  gossip,     \* transactions whose receipts are being gossiped
  unheard,    \* <<node, transaction>>: gossip that has still to come
  node,       \* what each node keeps, see Fresh
  forwarded   \* the receipts a node gave to the archivers

vars == <<clock, fault, expects, called, tells, gossip, unheard, node, forwarded>>

(* What a node keeps of the change: receipts (with the owners in its       *)
(* tracker); the transactions whose tracker says gossiped; the timer of    *)
(* setGlobal and its listener; localReceiptInitiationPromises with their   *)
(* resolvers; lastClean; and the change's entry in the transaction queue.  *)
Fresh == [receipt |-> NoReceipt, gossiped |-> {}, timer |-> "none", promise |-> "none",
          lastClean |-> -CleanEvery, state |-> "none", since |-> 0, times |-> 0, sent |-> {}]

IsMajority(signs) == 100 * Cardinality(signs) >= 60 * Cardinality(Group)
SignsFor(r) == {s \in r.signs : s.tx = r.tx}

(* A receiver that wants two thirds of the group instead of 60%.           *)
MutantValid(r) == IsMajority(r.signs) /\ 3 * Cardinality(SignsFor(r)) > 2 * Cardinality(Group)

(* validateReceipt: the signatures are checked against the transaction in  *)
(* the receipt.  All a receiver takes from a valid one is its transaction. *)
Valid(r) == IsMajority(r.signs) /\ IsMajority(SignsFor(r))

Init ==
  /\ clock = 0
  /\ fault \in Faults
  /\ expects \in {e \in [Group -> Tx] :
       Cardinality({m \in Group : e[m] = Outdated}) = IF fault = "stale" THEN 1 ELSE 0}
  /\ called = {} /\ tells = {} /\ gossip = {} /\ unheard = {}
  /\ node = [n \in Node |-> Fresh]
  /\ forwarded = [n \in Node |-> {}]

-----------------------------------------------------------------------------
(* The functions of the module take what a node keeps to what it keeps     *)
(* afterwards; "sent" is what they gossip.                                 *)

(* attemptCleanup, which any change of a global account calls              *)
Expired == clock - When > KeepFor

Cleaned(l) ==
  IF clock - l.lastClean < CleanEvery THEN l
  ELSE IF ~Expired THEN [l EXCEPT !.lastClean = clock]
  ELSE [l EXCEPT !.lastClean = clock, !.receipt = NoReceipt, !.gossiped = {}, !.promise = "none"]

(* Shardus.put refuses a transaction that is in the queue or whose         *)
(* timestamp is more than 20 s away; nobody hears that it did.             *)
Put(l) == IF l.state = "queued" \/ clock - When > GlobalExpire THEN l
          ELSE [l EXCEPT !.state = "queued", !.since = clock, !.times = @ + 1]

(* processReceipt: its tracker is that of the transaction's hash, not that *)
(* of the value's id under which makeReceipt collects signatures.          *)
MutantProcessReceipt(l, t) == Cleaned([Put(l) EXCEPT !.gossiped = @ \cup {t}])  \* whether gossiped or not

ProcessReceipt(l, t) ==
  IF t \in l.gossiped THEN l ELSE Cleaned([Put(l) EXCEPT !.gossiped = @ \cup {t}])

(* setGlobal's listener.  A receipt clears the timer that would remove it. *)
(* It is gossiped unchecked; only a valid one gets further.                *)
OnReceipt(l, r) ==
  IF l.timer \in {"none", "expired"} THEN l
  ELSE [ProcessReceipt(l, r.tx) EXCEPT
          !.timer = "cleared",
          !.sent = IF Valid(r) /\ r.tx \notin l.gossiped THEN {r.tx} ELSE {}]

(* Signatures of another transaction are dropped.                          *)
MutantWithSign(r, s) == [signs |-> {o \in r.signs : o.tx = s.tx} \cup {s}, tx |-> s.tx]

WithSign(r, s) == [signs |-> r.signs \cup {s}, tx |-> s.tx]

Signed(l, s) == [l EXCEPT !.receipt = WithSign(@, s)]

(* Only a member's own request that comes before those of the others makes *)
(* a promise that its receipt can be waited for.                           *)
Promises(n, l, s) == s.owner = n /\ l.receipt = NoReceipt /\ l.promise = "none"

Promised(n, l, s) == IF Promises(n, l, s) THEN [l EXCEPT !.promise = "pending"] ELSE l

Resolved(l) == IF l.promise = "pending" THEN [l EXCEPT !.promise = "resolved"] ELSE l

(* makeReceipt: once there is a majority, each further signature completes *)
(* the receipt again.  (No member sends its signature twice.)              *)
MakeReceipt(n, l, s) ==
  LET signed == Signed(Promised(n, l, s), s) IN
  IF IsMajority(signed.receipt.signs) THEN Resolved(OnReceipt(signed, signed.receipt)) ELSE signed

-----------------------------------------------------------------------------
Become(n, l) == node' = [node EXCEPT ![n] = [l EXCEPT !.sent = {}]]

SendGossip(n, l) ==
  /\ gossip' = gossip \cup l.sent
  /\ unheard' = unheard \cup ((Node \ {n}) \X (l.sent \ gossip))

(* The application of a member has executed what asks for the change.      *)
(* Some may be late or never do.                                           *)
MayCall == clock <= CallBy

SetGlobal(n) ==
  /\ n \in Group \ called /\ MayCall
  /\ called' = called \cup {n}
  /\ tells' = tells \cup {<<n, m>> : m \in Group \ {n}}
  /\ LET l == MakeReceipt(n, [node[n] EXCEPT !.timer = "set"], [owner |-> n, tx |-> expects[n]])
     IN Become(n, l) /\ SendGossip(n, l)
  /\ UNCHANGED <<clock, fault, expects, forwarded>>

(* makeReceiptBinaryHandler                                                *)
ReceiveTell(m, n) ==
  /\ <<m, n>> \in tells
  /\ tells' = tells \ {<<m, n>>}
  /\ LET l == MakeReceipt(n, node[n], [owner |-> m, tx |-> expects[m]])
     IN Become(n, l) /\ SendGossip(n, l)
  /\ UNCHANGED <<clock, fault, expects, called, forwarded>>

LoseTell(m, n) ==
  /\ fault = "loss" /\ <<m, n>> \in tells
  /\ tells' = tells \ {<<m, n>>}
  /\ UNCHANGED <<clock, fault, expects, called, gossip, unheard, node, forwarded>>

(* setGlobalGossipRoute; a node hears the same receipt from several others *)
(* and passes it on.                                                       *)
ReceiveGossip(n, t) ==
  /\ t \in gossip
  /\ Become(n, ProcessReceipt(node[n], t))
  /\ unheard' = unheard \ {<<n, t>>}
  /\ UNCHANGED <<clock, fault, expects, called, tells, gossip, forwarded>>

(* onTimeout                                                               *)
Timeout(n) ==
  /\ node[n].timer = "due"
  /\ Become(n, Cleaned([node[n] EXCEPT !.timer = "expired"]))
  /\ UNCHANGED <<clock, fault, expects, called, tells, gossip, unheard, forwarded>>

(* Another change of a global account is processed.                        *)
OtherChange(n) ==
  /\ Expired /\ Cleaned(node[n]) # node[n]
  /\ Become(n, Cleaned(node[n]))
  /\ UNCHANGED <<clock, fault, expects, called, tells, gossip, unheard, forwarded>>

-----------------------------------------------------------------------------
(* The change has been committed and the entry leaves the queue.  The      *)
(* receipt for the archivers is awaited if there is a promise.             *)
Forward(n, l) ==
  /\ Become(n, [l EXCEPT !.state = "committed", !.promise = "none"])
  /\ forwarded' = [forwarded EXCEPT ![n] = @ \cup ({l.receipt} \ {NoReceipt})]

Commit(n) ==
  /\ node[n].state = "queued" /\ node[n].since < clock
  /\ IF node[n].promise = "pending"
     THEN /\ Become(n, [node[n] EXCEPT !.state = "waiting", !.since = clock])
          /\ UNCHANGED forwarded
     ELSE Forward(n, node[n])
  /\ UNCHANGED <<clock, fault, expects, called, tells, gossip, unheard>>

Awaited(n) ==
  /\ node[n].state = "waiting" /\ node[n].promise = "resolved"
  /\ Forward(n, node[n])
  /\ UNCHANGED <<clock, fault, expects, called, tells, gossip, unheard>>

(* globalAccountsReceiptInitiationTimeout                                  *)
AwaitTimesOut(n) ==
  /\ node[n].state = "waiting"
  /\ Become(n, [node[n] EXCEPT !.state = "committed", !.promise = "none"])
  /\ UNCHANGED <<clock, fault, expects, called, tells, gossip, unheard, forwarded>>

(* Messages arrive and timers fire in time.                                *)
Settled ==
  /\ tells = {} /\ unheard = {}
  /\ \A n \in Node : node[n].timer # "due" /\ ~(node[n].state = "waiting" /\ node[n].since < clock)

Tick ==
  /\ clock < MaxClock /\ Settled
  /\ clock' = clock + 1
  /\ gossip' = {}
  /\ node' = [n \in Node |-> IF node[n].timer = "set" THEN [node[n] EXCEPT !.timer = "due"] ELSE node[n]]
  /\ UNCHANGED <<fault, expects, called, tells, unheard, forwarded>>

Next ==
  \/ Tick
  \/ \E n \in Node :
       \/ SetGlobal(n) \/ Timeout(n) \/ OtherChange(n)
       \/ Commit(n) \/ Awaited(n) \/ AwaitTimesOut(n)
       \/ \E t \in gossip : ReceiveGossip(n, t)
       \/ \E m \in Group : ReceiveTell(m, n) \/ LoseTell(m, n)

Spec == Init /\ [][Next]_vars

-----------------------------------------------------------------------------
(* Types; a receipt names a transaction somebody signed, and only a node   *)
(* that called setGlobal itself has something to wait for.                 *)
TypeOK ==
  /\ clock \in 0 .. MaxClock /\ fault \in Faults /\ expects \in [Group -> Tx]
  /\ called \subseteq Group /\ tells \subseteq called \X Group
  /\ gossip \subseteq Tx /\ unheard \subseteq Node \X gossip
  /\ \A n \in Node : LET l == node[n] IN
       /\ l.receipt \in Receipt /\ (l.receipt # NoReceipt => SignsFor(l.receipt) # {})
       /\ l.gossiped \subseteq Tx /\ l.sent = {}
       /\ l.timer \in {"none", "set", "due", "cleared", "expired"}
       /\ l.promise \in {"none", "pending", "resolved"}
       /\ l.state \in {"none", "queued", "waiting", "committed"}
       /\ (l.promise # "none" \/ l.timer # "none") => n \in called

(* A change enters the queue of a node at most once for each state that    *)
(* those who called setGlobal expect: once, if their data agree, however   *)
(* often its receipt is completed, gossiped or forgotten and however late  *)
(* its signatures come (GlobalAccounts.ts:406-432).                        *)
OncePerHash == \A n \in Node : node[n].times <= Cardinality({expects[m] : m \in called})

(* "When a majority (%60) is reached": a receipt that a node gives to the  *)
(* archivers has the signatures of a majority of the group, unless         *)
(* messages were lost.                                                     *)
ReceiptComplete ==
  fault # "loss" => \A n \in Node : \A r \in forwarded[n] : IsMajority(r.signs)

(* The same, for signatures of the transaction in the receipt.             *)
ReceiptValid == \A n \in Node : \A r \in forwarded[n] : Valid(r)

(* "Gossip receipt to every node in network to apply to global account": a *)
(* change that one node puts into its queue is in the queue of every node  *)
(* once all messages have come, if the members expect the same state.      *)
AllOrNone ==
  Settled /\ fault # "stale" /\ (\E n \in Node : node[n].times > 0)
    => \A n \in Node : node[n].times > 0
=============================================================================
