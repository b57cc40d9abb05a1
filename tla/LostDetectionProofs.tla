------------------------ MODULE LostDetectionProofs ------------------------
(***************************************************************************)
(* Proofs about module LostDetection: who works is never removed, and who  *)
(* is gone is removed in time.                                             *)
(*                                                                         *)
(* The heart of the first is Spread: until a node that is listed as lost   *)
(* has sent its refutation it owes one (Owes), and from then on every node *)
(* has it or will get it in this quarter.  The heart of the second is      *)
(* Knows: every node has, or is about to get, the proposal of a node that  *)
(* left, so all records made take it (MadeTakes).                          *)
(***************************************************************************)
EXTENDS LostDetection, TLAPS

(* Messages about a node that leaves.                                      *)
Leaves(m) == m.body.type \in {"apoptosize", "apoptosis"}
-----------------------------------------------------------------------------
(* What always holds, whatever is lost or late.                            *)

Domains ==
  /\ cycle \in Nat \ {0} /\ quarter \in 1 .. 3
  /\ DOMAIN status = Node /\ DOMAIN upGossip = Node /\ DOMAIN proposals = Node
  /\ sent \subseteq Node /\ nodes \subseteq Node

(* Only a node that has sent its requests in this cycle has refuted in it. *)
Refutations ==
  /\ \A m \in msgs : m.body.type = "up" => m.body.target \in sent /\ m.body.when = cycle
  /\ \A n \in Node : \A u \in upGossip[n] :
       /\ u.when \in Nat /\ u.when <= cycle
       /\ u.when = cycle => u.target \in sent

(* Only nodes that left are said to leave.                                 *)
Leavers ==
  /\ \A m \in msgs : Leaves(m) => m.body.target \in Node /\ status[m.body.target] = "left"
  /\ \A n \in Node : \A p \in proposals[n] :
       p.target \in Node /\ status[p.target] = "left" /\ p.target \in nodes

BaseInv == Domains /\ Refutations /\ Leavers /\ ListedIsRemoved
-----------------------------------------------------------------------------
(* What holds in addition while every message arrives in its quarter.      *)

(* Proposals are at most a cycle old; those told of in the end of a cycle  *)
(* were made in it.                                                        *)
Recently ==
  /\ \A m \in msgs : Leaves(m) => /\ m.body.when \in {cycle - 1, cycle}
                                  /\ quarter = 3 => m.body.when = cycle
  /\ \A n \in Node : \A p \in proposals[n] : p.when \in {cycle - 1, cycle}

Has(n, t) == \E p \in proposals[n] : p.target = t
Comes(n, t) == \E m \in msgs : m.to = n /\ m.body.type = "apoptosize" /\ m.body.target = t
Knows == \A t \in nodes : status[t] = "left" => \A n \in Up : Has(n, t) \/ Comes(n, t)

MadeTakes ==
  quarter = 3 =>
    \A n \in Node : \A p \in proposals[n] :
      p.when = cycle \/ \A k \in DOMAIN made : p.target \in made[k].apoptosized

TimelyInv == Recently /\ Knows /\ MadeTakes
-----------------------------------------------------------------------------
(* And what holds in addition when nobody is late either.                  *)

(* A node that works is on the list, and has to refute, and may, what the  *)
(* newest record says of it.                                               *)
Owes ==
  \A t \in Up : /\ t \in nodes
                /\ t \in record.lost => sendRefute[t] = cycle /\ stopReporting[t] # 0

Refuted(n, t) == [target |-> t, when |-> cycle] \in upGossip[n]
OnItsWay(n, t) == \E m \in msgs : m.to = n /\ m.body = UpMessage(t)
Spread ==
  /\ quarter \in {2, 3} => Up \subseteq sent
  /\ \A t \in Up \cap sent \cap record.lost :
       \A n \in Up : Refuted(n, t) \/ (quarter = 1 /\ OnItsWay(n, t))

MadeSpares == quarter = 3 => \A k \in DOMAIN made : \A t \in Up : t \notin made[k].apoptosized

LiveInv == NoLiveEviction /\ Owes /\ Spread /\ MadeSpares
-----------------------------------------------------------------------------
(* The messages of the operations.                                         *)

LEMMA GossipMeans ==
  ASSUME NEW n, NEW body, NEW first
  PROVE  /\ \A m \in Gossip(n, body, first) : m.body = body
         /\ \A k \in Up \ {n} : \E m \in Gossip(n, body, first) : m.to = k /\ m.body = body
<1>1. ASSUME NEW k \in Up \ {n}
      PROVE  \E m \in Gossip(n, body, first) : m.to = k /\ m.body = body
  <2> DEFINE m == [to |-> k, first |-> first, body |-> body]
  <2>1. m \in Gossip(n, body, first) /\ m.to = k /\ m.body = body
    BY DEF Gossip
  <2>2. QED
    BY <2>1
<1>2. QED
  BY <1>1 DEF Gossip

LEMMA ReportsMeans ==
  ASSUME NEW n, NEW m \in Reports(n)
  PROVE  m.body.type = "report"
<1>1. PICK t \in Asked(n) :
        m \in {[to |-> k, first |-> TRUE,
                body |-> [type |-> "report", target |-> t, cycle |-> cycle, reporter |-> n, checker |-> k]]
                 : k \in Checkers(t, cycle, n) \cap Up}
  BY DEF Reports
<1>2. QED
  BY <1>1

LEMMA DownsMeans ==
  ASSUME NEW n, NEW m \in Downs(n)
  PROVE  m.body.type = "down"
<1>1. PICK e : m \in Gossip(n, DownMessage(n, e), TRUE)
  BY DEF Downs
<1>2. m.body = DownMessage(n, e)
  BY <1>1 DEF Gossip
<1>3. QED
  BY <1>2 DEF DownMessage

LEMMA ProposalsMeans ==
  ASSUME NEW n, NEW m \in Proposals(n)
  PROVE  \E p \in proposals[n] : m.body = Proposal(p)
<1>1. PICK p \in {q \in proposals[n] : q.target \in nodes} : m \in Gossip(n, Proposal(p), TRUE)
  BY DEF Proposals
<1>2. QED
  BY <1>1 DEF Gossip

(* What sendRequests adds is a report, a finding, a proposal of its own    *)
(* list or, if one is due, its refutation.                                 *)
LEMMA RequestsMean ==
  ASSUME NEW n \in Node, SendRequests(n)
  PROVE  \A m \in msgs' :
           \/ m \in msgs
           \/ m.body.type \in {"report", "down"}
           \/ \E p \in proposals[n] : m.body = Proposal(p)
           \/ Refutes(n) /\ m.body = UpMessage(n)
<1> SUFFICES ASSUME NEW m \in msgs'
             PROVE  \/ m \in msgs
                    \/ m.body.type \in {"report", "down"}
                    \/ \E p \in proposals[n] : m.body = Proposal(p)
                    \/ Refutes(n) /\ m.body = UpMessage(n)
  OBVIOUS
<1>1. \/ m \in msgs \/ m \in Reports(n) \/ m \in Downs(n) \/ m \in Proposals(n)
      \/ Refutes(n) /\ m \in Gossip(n, UpMessage(n), TRUE)
  BY DEF SendRequests
<1>2. m \in Gossip(n, UpMessage(n), TRUE) => m.body = UpMessage(n)
  BY DEF Gossip
<1>3. QED
  BY <1>1, <1>2, ReportsMeans, DownsMeans, ProposalsMeans

(* Operations that have nothing to do with refuting or leaving.            *)
Quiet ==
  /\ UNCHANGED <<digested, upGossip, sendRefute, proposals, sent>>
  /\ \A m \in msgs' : m \in msgs \/ m.body.type \in {"report", "down"}
  /\ \A m \in msgs : m \in msgs' \/ m.body.type \in {"report", "down"}

LEMMA QuietSteps ==
  ASSUME Next
  PROVE  \/ Quiet
         \/ \E n \in Node : SendRequests(n) \/ Die(n) \/ ApoptosizeSelf(n)
         \/ \E m \in msgs : m.to \in Up /\ (ReceiveUp(m.to, m) \/ ReceiveApoptosis(m.to, m))
         \/ RunQ2 \/ RunQ3 \/ CycleCreator
<1>1. ASSUME NEW n \in Node, NEW t \in Node, ScheduleLostReport(n, t) PROVE Quiet
  BY <1>1 DEF ScheduleLostReport, Quiet
<1>2. ASSUME NEW n \in Node, NEW r \in checking[n], CheckAnswered(n, r) PROVE Quiet
  BY <1>2 DEF CheckAnswered, Quiet
<1>3. ASSUME NEW m \in msgs, ReceiveReport(m.to, m) PROVE Quiet
  BY <1>3 DEF ReceiveReport, Quiet
<1>4. ASSUME NEW m \in msgs, ReceiveDown(m.to, m) PROVE Quiet
  <2>1. \A k \in Gossip(m.to, m.body, FALSE) : k.body.type = "down"
    BY <1>4 DEF ReceiveDown, Gossip
  <2>2. QED
    BY <1>4, <2>1 DEF ReceiveDown, Quiet
<1>5. CASE EndOfRun
  BY <1>5 DEF EndOfRun, Quiet, vars
<1>6. QED
  BY <1>1, <1>2, <1>3, <1>4, <1>5 DEF Next, Receive
-----------------------------------------------------------------------------
(* What always holds.                                                      *)

LEMMA BaseInit ==
  ASSUME Init
  PROVE  BaseInv
  BY DEF Init, BaseInv, Domains, Refutations, Leavers, ListedIsRemoved, NoRecord

LEMMA BaseQuiet ==
  ASSUME BaseInv, Quiet
  PROVE  BaseInv'
<1>1. Domains' /\ ListedIsRemoved'
  BY DEF BaseInv, Quiet, digested, Domains, ListedIsRemoved
<1>2. Refutations'
  BY DEF BaseInv, Quiet, digested, Refutations
<1>3. Leavers'
  BY DEF BaseInv, Quiet, digested, Leavers, Leaves
<1>4. QED
  BY <1>1, <1>2, <1>3 DEF BaseInv

LEMMA BaseRequests ==
  ASSUME BaseInv, NEW n \in Node, SendRequests(n)
  PROVE  BaseInv'
<1> USE DEF BaseInv
<1>1. /\ sent' = sent \cup {n} /\ quarter = 1
      /\ UNCHANGED <<cycle, quarter, status, nodes, record, made, proposals>>
      /\ upGossip' = [upGossip EXCEPT ![n] =
                        IF Refutes(n) THEN @ \cup {[target |-> n, when |-> cycle]} ELSE @]
  BY DEF SendRequests, digested
<1>2. Domains'
  BY <1>1 DEF Domains
<1>3. ListedIsRemoved'
  BY <1>1 DEF ListedIsRemoved
<1>4. Refutations'
  <2>1. ASSUME NEW m \in msgs', m.body.type = "up"
        PROVE  m.body.target \in sent' /\ m.body.when = cycle'
    <3>1. \/ m \in msgs
          \/ \E p \in proposals[n] : m.body = Proposal(p)
          \/ m.body = UpMessage(n)
      BY <2>1, RequestsMean
    <3>2. ASSUME NEW p, m.body = Proposal(p) PROVE FALSE
      BY <2>1, <3>2 DEF Proposal
    <3>3. QED
      BY <1>1, <2>1, <3>1, <3>2 DEF Refutations, UpMessage
  <2>2. ASSUME NEW k \in Node, NEW u \in upGossip'[k]
        PROVE  u.when \in Nat /\ u.when <= cycle' /\ (u.when = cycle' => u.target \in sent')
    <3>1. u \in upGossip[k] \/ (u = [target |-> n, when |-> cycle] /\ k = n)
      BY <1>1, <2>2 DEF Domains
    <3>2. QED
      BY <1>1, <3>1 DEF Domains, Refutations
  <2>3. QED
    BY <2>1, <2>2 DEF Refutations
<1>5. Leavers'
  <2>1. ASSUME NEW m \in msgs', Leaves(m)
        PROVE  m.body.target \in Node /\ status'[m.body.target] = "left"
    <3>1. m \in msgs \/ \E p \in proposals[n] : m.body = Proposal(p)
      <4>1. m.body # UpMessage(n)
        BY <2>1 DEF Leaves, UpMessage
      <4>2. m.body.type \notin {"report", "down"}
        BY <2>1 DEF Leaves
      <4>3. QED
        BY <4>1, <4>2, RequestsMean
    <3>2. ASSUME NEW p \in proposals[n], m.body = Proposal(p)
          PROVE  m.body.target = p.target
      BY <3>2 DEF Proposal
    <3>3. QED
      BY <1>1, <2>1, <3>1, <3>2 DEF Leavers
  <2>2. QED
    BY <1>1, <2>1 DEF Leavers, Leaves
<1>6. QED
  BY <1>2, <1>3, <1>4, <1>5

LEMMA BaseUp ==
  ASSUME BaseInv, NEW mm \in msgs, mm.to \in Up, ReceiveUp(mm.to, mm)
  PROVE  BaseInv'
<1> DEFINE n == mm.to
           u == [target |-> mm.body.target, when |-> mm.body.when]
<1>1. /\ UNCHANGED <<digested, proposals, sent>> /\ mm.body.type = "up" /\ n \in Node
      /\ \A m \in msgs' : m \in msgs \/ m.body = mm.body
      /\ \A k \in Node : \A v \in upGossip'[k] : v \in upGossip[k] \/ v = u
      /\ DOMAIN upGossip' = DOMAIN upGossip
  <2>1. \A m \in Gossip(n, mm.body, FALSE) : m.body = mm.body
    BY DEF Gossip
  <2>2. QED
    BY <2>1 DEF ReceiveUp, BaseInv, Domains, Up
<1> HIDE DEF n
<1>2. Domains' /\ ListedIsRemoved'
  BY <1>1 DEF BaseInv, Domains, ListedIsRemoved, digested
<1>3. Refutations'
  <2>1. u.when \in Nat /\ u.when <= cycle /\ u.target \in sent
    BY <1>1 DEF BaseInv, Domains, Refutations
  <2> HIDE DEF u
  <2>2. QED
    BY <1>1, <2>1 DEF BaseInv, Domains, Refutations, digested
<1>4. Leavers'
  BY <1>1 DEF BaseInv, Leavers, Leaves, digested
<1>5. QED
  BY <1>2, <1>3, <1>4 DEF BaseInv

(* Receiving a proposal adds it to the list of one node at most.           *)
LEMMA ApoptosisAdds ==
  ASSUME BaseInv, NEW mm \in msgs, mm.to \in Up, ReceiveApoptosis(mm.to, mm)
  PROVE  LET n == mm.to
             p == [target |-> mm.body.target, when |-> mm.body.when]
             new == /\ mm.body.type = "apoptosize" \/ quarter \in {1, 2}
                    /\ WhenValid(p.when)
                    /\ p.target \in nodes
                    /\ ~Has(n, p.target)
         IN  /\ UNCHANGED <<digested, upGossip, sendRefute, sent>> /\ Leaves(mm) /\ n \in Node
             /\ DOMAIN proposals' = DOMAIN proposals
             /\ \A k \in Node : proposals'[k] = IF k = n /\ new THEN proposals[k] \cup {p} ELSE proposals[k]
             /\ \A m \in msgs' : \/ m \in msgs
                                 \/ m.body = Proposal(p) /\ new /\ quarter \in {1, 2}
             /\ msgs \ {mm} \subseteq msgs'
<1> DEFINE n == mm.to
           p == [target |-> mm.body.target, when |-> mm.body.when]
           own == mm.body.type = "apoptosize"
           new == /\ own \/ quarter \in {1, 2}
                  /\ WhenValid(p.when)
                  /\ p.target \in nodes
                  /\ \A q \in proposals[n] : q.target # p.target
<1>1. new <=> /\ own \/ quarter \in {1, 2}
              /\ WhenValid(p.when)
              /\ p.target \in nodes
              /\ ~Has(n, p.target)
  BY DEF Has
<1>2. /\ UNCHANGED <<digested, upGossip, sendRefute, sent>> /\ Leaves(mm) /\ n \in Node
      /\ proposals' = [proposals EXCEPT ![n] = IF new THEN @ \cup {p} ELSE @]
      /\ msgs' = (msgs \ {mm}) \cup
            (IF new /\ (own => quarter = 1) THEN Gossip(n, Proposal(p), FALSE) ELSE {})
  BY DEF ReceiveApoptosis, Leaves, Up
<1>3. \A m \in Gossip(n, Proposal(p), FALSE) : m.body = Proposal(p)
  BY DEF Gossip
<1>4. new /\ (own => quarter = 1) => quarter \in {1, 2}
  OBVIOUS
<1> HIDE DEF n, p, own, new
<1>5. \A m \in msgs' : m \in msgs \/ (m.body = Proposal(p) /\ new /\ quarter \in {1, 2})
  BY <1>2, <1>3, <1>4
<1>6. /\ DOMAIN proposals' = DOMAIN proposals
      /\ \A k \in Node : proposals'[k] = IF k = n /\ new THEN proposals[k] \cup {p} ELSE proposals[k]
  BY <1>2 DEF BaseInv, Domains
<1>7. msgs \ {mm} \subseteq msgs'
  BY <1>2
<1>8. QED
  BY <1>1, <1>2, <1>5, <1>6, <1>7 DEF n, p, own

LEMMA BaseApoptosis ==
  ASSUME BaseInv, NEW mm \in msgs, mm.to \in Up, ReceiveApoptosis(mm.to, mm)
  PROVE  BaseInv'
<1> DEFINE p == [target |-> mm.body.target, when |-> mm.body.when]
<1>1. /\ UNCHANGED <<digested, upGossip, sent>> /\ Leaves(mm)
      /\ DOMAIN proposals' = DOMAIN proposals
      /\ \A k \in Node : \A q \in proposals'[k] :
            q \in proposals[k] \/ (q = p /\ p.target \in nodes)
      /\ \A m \in msgs' : m \in msgs \/ m.body = Proposal(p)
  BY ZenonT(60), ApoptosisAdds
<1>2. Domains' /\ ListedIsRemoved'
  BY <1>1 DEF BaseInv, Domains, ListedIsRemoved, digested
<1>3. Refutations'
  <2>1. \A m \in msgs' : m.body.type = "up" => m \in msgs
    BY <1>1 DEF Proposal
  <2>2. QED
    BY <1>1, <2>1 DEF BaseInv, Refutations, digested
<1>4. Leavers'
  <2>1. p.target \in Node /\ status[p.target] = "left" /\ Proposal(p).target = p.target
    BY <1>1 DEF BaseInv, Leavers, Proposal
  <2> HIDE DEF p
  <2>2. QED
    BY <1>1, <2>1 DEF BaseInv, Leavers, Leaves, digested
<1>5. QED
  BY <1>2, <1>3, <1>4 DEF BaseInv

LEMMA BaseDie ==
  ASSUME BaseInv, NEW n \in Node, Die(n)
  PROVE  BaseInv'
<1>1. /\ UNCHANGED <<cycle, quarter, nodes, record, made, upGossip, proposals, sent>>
      /\ status' = [status EXCEPT ![n] = "dead"] /\ status[n] = "up" /\ msgs' \subseteq msgs
  BY DEF Die, Up
<1>2. Domains' /\ Refutations' /\ ListedIsRemoved'
  BY <1>1 DEF BaseInv, Domains, Refutations, ListedIsRemoved
<1>3. Leavers'
  BY <1>1 DEF BaseInv, Domains, Leavers, Leaves
<1>4. QED
  BY <1>2, <1>3 DEF BaseInv

LEMMA BaseLeave ==
  ASSUME BaseInv, NEW n \in Node, ApoptosizeSelf(n)
  PROVE  BaseInv'
<1> DEFINE body == [type |-> "apoptosize", target |-> n, when |-> cycle]
<1>1. /\ UNCHANGED <<cycle, quarter, nodes, record, made, upGossip, proposals, sent>>
      /\ status' = [status EXCEPT ![n] = "left"] /\ status[n] = "up"
      /\ \A m \in msgs' : m \in msgs \/ m.body = body
  <2>1. \A m \in Gossip(n, body, TRUE) : m.body = body
    BY DEF Gossip
  <2>2. QED
    BY <2>1 DEF ApoptosizeSelf, Up
<1>2. body.type # "up" /\ body.target = n
  OBVIOUS
<1> HIDE DEF body
<1>3. Domains' /\ Refutations' /\ ListedIsRemoved'
  BY <1>1, <1>2 DEF BaseInv, Domains, Refutations, ListedIsRemoved
<1>4. Leavers'
  BY <1>1, <1>2 DEF BaseInv, Domains, Leavers, Leaves
<1>5. QED
  BY <1>3, <1>4 DEF BaseInv

LEMMA BaseQ2 ==
  ASSUME BaseInv, RunQ2
  PROVE  BaseInv'
  BY DEF BaseInv, RunQ2, Domains, Refutations, Leavers, Leaves, ListedIsRemoved

(* A node that has not sent its requests has not refuted, so all records   *)
(* made remove it if the newest one lists it as lost.                      *)
LEMMA BaseQ3 ==
  ASSUME BaseInv, RunQ3
  PROVE  BaseInv'
<1>1. /\ UNCHANGED <<cycle, status, nodes, record, upGossip, proposals, sent, msgs>>
      /\ quarter' = 3 /\ made' = [n \in Up |-> MakeRecord(n)]
  BY DEF RunQ3
<1>2. Domains' /\ Refutations' /\ Leavers'
  BY <1>1 DEF BaseInv, Domains, Refutations, Leavers, Leaves
<1>3. ListedIsRemoved'
  <2> SUFFICES ASSUME NEW t \in (record.lost \cap nodes) \ sent, NEW n \in Up
               PROVE  t \in MakeRecord(n).apoptosized
    BY <1>1 DEF ListedIsRemoved
  <2>1. t \notin RefutedTxs(n)
    BY DEF RefutedTxs, BaseInv, Refutations, Up
  <2>2. QED
    BY <2>1 DEF MakeRecord, Unrefuted
<1>4. QED
  BY <1>2, <1>3 DEF BaseInv

LEMMA BaseDigest ==
  ASSUME BaseInv, CycleCreator
  PROVE  BaseInv'
<1>1. PICK k \in DOMAIN made : Digest(made[k])
  BY DEF CycleCreator
<1> DEFINE r == made[k]
<1> HIDE DEF r
<1>2. Digest(r)
  BY <1>1 DEF r
<1>3. /\ cycle' = cycle + 1 /\ quarter' = 1 /\ sent' = {} /\ nodes' = nodes \ r.apoptosized
      /\ status' = [n \in Node |-> IF n \in Up \cap r.apoptosized THEN "evicted" ELSE status[n]]
      /\ DOMAIN upGossip' = Node /\ \A n \in Node : upGossip'[n] \subseteq upGossip[n]
      /\ DOMAIN proposals' = Node
      /\ \A n \in Node : proposals'[n] = {p \in proposals[n] : p.target \in nodes'}
      /\ msgs' = {m \in msgs : m.body.type = "apoptosize" /\ m.body.when = cycle}
  BY <1>2 DEF Digest
<1>4. Domains' /\ ListedIsRemoved'
  BY <1>3 DEF BaseInv, Domains, ListedIsRemoved
<1>5. Refutations'
  <2>1. \A n \in Node : \A u \in upGossip'[n] : u.when \in Nat /\ u.when <= cycle
    BY <1>3 DEF BaseInv, Refutations
  <2>2. QED
    BY <1>3, <2>1 DEF BaseInv, Domains, Refutations
<1>6. Leavers'
  <2>1. \A t \in Node : status[t] = "left" => status'[t] = "left"
    BY <1>3 DEF Up
  <2>2. QED
    BY <1>3, <2>1 DEF BaseInv, Leavers, Leaves
<1>7. QED
  BY <1>4, <1>5, <1>6 DEF BaseInv

(* Whatever is lost or late, the requests of a cycle (sendRequests), what  *)
(* the others took of them (the gossip handlers) and the record made from  *)
(* that (getTxs, parseRecord) stay in step.                                *)
THEOREM BaseHolds == Spec => []BaseInv
<1>1. Init => BaseInv
  BY BaseInit
<1>2. BaseInv /\ [Next]_vars => BaseInv'
  <2>1. CASE Next
    BY <2>1, QuietSteps, BaseQuiet, BaseRequests, BaseUp, BaseApoptosis, BaseDie, BaseLeave,
       BaseQ2, BaseQ3, BaseDigest
  <2>2. CASE UNCHANGED vars
    BY <2>2, BaseQuiet DEF Quiet, vars
  <2>3. QED
    BY <2>1, <2>2
<1>3. QED
  BY <1>1, <1>2, PTL DEF Spec
-----------------------------------------------------------------------------
(* What holds in addition while no message is lost.                        *)

LEMMA TimelyInit ==
  ASSUME Init
  PROVE  TimelyInv
  BY DEF Init, TimelyInv, Recently, Knows, MadeTakes

LEMMA TimelyQuiet ==
  ASSUME TimelyInv, Quiet
  PROVE  TimelyInv'
<1>1. Recently' /\ MadeTakes'
  BY DEF TimelyInv, Quiet, digested, Recently, MadeTakes, Leaves
<1>2. Knows'
  <2> SUFFICES ASSUME NEW t \in nodes, status[t] = "left", NEW n \in Up
               PROVE  Has(n, t)' \/ Comes(n, t)'
    BY DEF Quiet, digested, Knows, Up
  <2>1. Has(n, t) \/ Comes(n, t)
    BY DEF TimelyInv, Knows
  <2>2. QED
    BY <2>1 DEF Quiet, Has, Comes
<1>3. QED
  BY <1>1, <1>2 DEF TimelyInv

LEMMA TimelyRequests ==
  ASSUME BaseInv, TimelyInv, NEW n \in Node, SendRequests(n)
  PROVE  TimelyInv'
<1>1. /\ quarter = 1 /\ UNCHANGED <<digested, proposals>> /\ msgs \subseteq msgs'
  BY DEF SendRequests
<1>2. Recently'
  <2>1. ASSUME NEW m \in msgs', Leaves(m)
        PROVE  m.body.when \in {cycle - 1, cycle}
    <3>1. m \in msgs \/ \E p \in proposals[n] : m.body = Proposal(p)
      <4>1. m.body # UpMessage(n)
        BY <2>1 DEF Leaves, UpMessage
      <4>2. m.body.type \notin {"report", "down"}
        BY <2>1 DEF Leaves
      <4>3. QED
        BY <4>1, <4>2, RequestsMean
    <3>2. ASSUME NEW p \in proposals[n], m.body = Proposal(p)
          PROVE  m.body.when = p.when
      BY <3>2 DEF Proposal
    <3>3. QED
      BY <2>1, <3>1, <3>2 DEF TimelyInv, Recently
  <2>2. QED
    BY <1>1, <2>1 DEF TimelyInv, Recently, Leaves, digested
<1>3. Knows'
  BY <1>1 DEF TimelyInv, Knows, Has, Comes, Up, digested
<1>4. MadeTakes'
  BY <1>1 DEF MadeTakes, digested
<1>5. QED
  BY <1>2, <1>3, <1>4 DEF TimelyInv

LEMMA TimelyUp ==
  ASSUME TimelyInv, NEW mm \in msgs, ReceiveUp(mm.to, mm)
  PROVE  TimelyInv'
<1>1. /\ UNCHANGED <<digested, proposals, sent>> /\ ~Leaves(mm)
      /\ \A m \in msgs' : m \in msgs \/ m.body = mm.body
      /\ \A m \in msgs : m \in msgs' \/ m = mm
  <2>1. \A m \in Gossip(mm.to, mm.body, FALSE) : m.body = mm.body
    BY DEF Gossip
  <2>2. QED
    BY <2>1 DEF ReceiveUp, Leaves
<1>2. Recently' /\ MadeTakes'
  BY <1>1 DEF TimelyInv, digested, Recently, MadeTakes, Leaves
<1>3. Knows'
  BY <1>1 DEF TimelyInv, Knows, Has, Comes, Up, Leaves, digested
<1>4. QED
  BY <1>2, <1>3 DEF TimelyInv

(* Who takes the proposal of a node that left has it; it was taken unless  *)
(* there was one already.                                                  *)
LEMMA TimelyApoptosis ==
  ASSUME BaseInv, TimelyInv, NEW mm \in msgs, mm.to \in Up, ReceiveApoptosis(mm.to, mm)
  PROVE  TimelyInv'
<1> DEFINE n == mm.to
           p == [target |-> mm.body.target, when |-> mm.body.when]
           new == /\ mm.body.type = "apoptosize" \/ quarter \in {1, 2}
                  /\ WhenValid(p.when)
                  /\ p.target \in nodes
                  /\ ~Has(n, p.target)
<1>1. /\ UNCHANGED <<digested, upGossip, sendRefute, sent>> /\ Leaves(mm) /\ n \in Node
      /\ \A k \in Node : proposals'[k] = IF k = n /\ new THEN proposals[k] \cup {p} ELSE proposals[k]
      /\ \A m \in msgs' : \/ m \in msgs
                          \/ m.body = Proposal(p) /\ new /\ quarter \in {1, 2}
      /\ msgs \ {mm} \subseteq msgs'
  BY ApoptosisAdds
<1>2. /\ p.when = mm.body.when /\ p.target = mm.body.target
      /\ Proposal(p).when = p.when
  BY DEF Proposal
<1>3. p.when \in {cycle - 1, cycle} /\ (quarter = 3 => p.when = cycle)
  BY <1>1, <1>2 DEF TimelyInv, Recently
<1>4. mm.body.type = "apoptosize" /\ p.target \in nodes /\ ~Has(n, p.target) => new
  BY <1>3 DEF WhenValid
<1> HIDE DEF n, p, new
<1>5. Recently'
  <2>1. \A m \in msgs' : Leaves(m) => /\ m.body.when \in {cycle - 1, cycle}
                                      /\ quarter = 3 => m.body.when = cycle
    BY <1>1, <1>2, <1>3 DEF TimelyInv, Recently
  <2>2. \A k \in Node : \A q \in proposals'[k] : q.when \in {cycle - 1, cycle}
    BY <1>1, <1>3 DEF TimelyInv, Recently
  <2>3. QED
    BY <1>1, <2>1, <2>2 DEF Recently, Leaves, digested
<1>6. MadeTakes'
  BY ZenonT(60), <1>1, <1>3 DEF TimelyInv, MadeTakes, digested
<1>7. Knows'
  <2> SUFFICES ASSUME NEW t \in nodes, status[t] = "left", NEW k \in Up
               PROVE  Has(k, t)' \/ Comes(k, t)'
    BY <1>1 DEF digested, Knows, Up
  <2>1. k \in Node
    BY DEF Up
  <2>2. Has(k, t) => Has(k, t)'
    BY <1>1, <2>1 DEF Has
  <2>3. CASE Has(k, t)
    BY <2>2, <2>3
  <2>4. CASE ~Has(k, t) /\ Comes(k, t)
    <3>1. PICK m \in msgs : m.to = k /\ m.body.type = "apoptosize" /\ m.body.target = t
      BY <2>4 DEF Comes
    <3>2. CASE m # mm
      BY <1>1, <3>1, <3>2 DEF Comes
    <3>3. CASE m = mm
      <4>1. k = n /\ p.target = t /\ new
        BY <1>2, <1>4, <2>4, <3>1, <3>3 DEF n
      <4>2. QED
        BY <1>1, <2>1, <4>1 DEF Has
    <3>4. QED
      BY <3>2, <3>3
  <2>5. QED
    BY <2>3, <2>4 DEF TimelyInv, Knows
<1>8. QED
  BY <1>5, <1>6, <1>7 DEF TimelyInv

LEMMA TimelyDie ==
  ASSUME BaseInv, TimelyInv, NEW n \in Node, Die(n)
  PROVE  TimelyInv'
<1>1. /\ UNCHANGED <<cycle, quarter, nodes, made, proposals>>
      /\ status' = [status EXCEPT ![n] = "dead"] /\ msgs' = {m \in msgs : m.to # n}
      /\ status[n] = "up"
  BY DEF Die, Up
<1>2. Recently' /\ MadeTakes'
  BY <1>1 DEF TimelyInv, Recently, MadeTakes, Leaves
<1>3. Up' = Up \ {n} /\ \A t \in Node : status'[t] = "left" <=> status[t] = "left"
  BY <1>1 DEF BaseInv, Domains, Up
<1>4. Knows'
  <2> SUFFICES ASSUME NEW t \in nodes, status'[t] = "left", NEW k \in Up \ {n}
               PROVE  Has(k, t)' \/ Comes(k, t)'
    BY <1>1, <1>3 DEF Knows
  <2>1. status[t] = "left"
    BY <1>1 DEF BaseInv, Domains
  <2>2. Has(k, t) \/ Comes(k, t)
    BY <2>1 DEF TimelyInv, Knows
  <2>3. QED
    BY <1>1, <2>2 DEF Has, Comes
<1>5. QED
  BY <1>2, <1>4 DEF TimelyInv

LEMMA TimelyLeave ==
  ASSUME BaseInv, TimelyInv, NEW n \in Node, ApoptosizeSelf(n)
  PROVE  TimelyInv'
<1> DEFINE body == [type |-> "apoptosize", target |-> n, when |-> cycle]
<1>1. /\ UNCHANGED <<cycle, quarter, nodes, made, proposals>>
      /\ status' = [status EXCEPT ![n] = "left"]
      /\ msgs' = {m \in msgs : m.to # n} \cup Gossip(n, body, TRUE)
  BY DEF ApoptosizeSelf
<1>2. \A m \in Gossip(n, body, TRUE) : m.body = body
  BY DEF Gossip
<1>3. \A k \in Up \ {n} : \E m \in Gossip(n, body, TRUE) : m.to = k /\ m.body = body
  <2> SUFFICES ASSUME NEW k \in Up \ {n}
               PROVE  \E m \in Gossip(n, body, TRUE) : m.to = k /\ m.body = body
    OBVIOUS
  <2> DEFINE m == [to |-> k, first |-> TRUE, body |-> body]
  <2>1. m \in Gossip(n, body, TRUE) /\ m.to = k /\ m.body = body
    BY DEF Gossip
  <2>2. QED
    BY <2>1
<1>4. body.type = "apoptosize" /\ body.target = n /\ body.when = cycle
  OBVIOUS
<1> DEFINE G == Gossip(n, body, TRUE)
<1> HIDE DEF body, G
<1>5. Recently' /\ MadeTakes'
  BY <1>1, <1>2, <1>4 DEF TimelyInv, Recently, MadeTakes, Leaves, G
<1>6. Knows'
  <2>1. Up' = Up \ {n}
    BY <1>1 DEF BaseInv, Domains, Up
  <2> SUFFICES ASSUME NEW t \in nodes, status'[t] = "left", NEW k \in Up \ {n}
               PROVE  Has(k, t)' \/ Comes(k, t)'
    BY <1>1, <2>1 DEF Knows
  <2>2. CASE t = n
    BY ZenonT(60), <1>1, <1>3, <1>4, <2>2 DEF Comes, G
  <2>3. CASE t # n
    <3>1. status[t] = "left"
      BY <1>1, <2>3 DEF BaseInv, Domains
    <3>2. Has(k, t) \/ Comes(k, t)
      BY <3>1 DEF TimelyInv, Knows
    <3>3. QED
      BY <1>1, <3>2 DEF Has, Comes
  <2>4. QED
    BY <2>2, <2>3
<1>7. QED
  BY <1>5, <1>6 DEF TimelyInv

LEMMA TimelyQ2 ==
  ASSUME TimelyInv, RunQ2
  PROVE  TimelyInv'
<1>1. UNCHANGED <<cycle, status, nodes, made, proposals, msgs>> /\ quarter' = 2
  BY DEF RunQ2
<1>2. QED
  BY <1>1 DEF TimelyInv, Recently, MadeTakes, Leaves, Knows, Has, Comes, Up

(* When the records are made, every node has the proposal of every node    *)
(* that left, so every record takes it.                                    *)
LEMMA TimelyQ3 ==
  ASSUME BaseInv, TimelyInv, ~Lossy, RunQ3
  PROVE  TimelyInv'
<1>1. /\ UNCHANGED <<cycle, status, nodes, proposals, msgs>>
      /\ quarter' = 3 /\ made' = [n \in Up |-> MakeRecord(n)] /\ msgs = {}
  BY DEF RunQ3, Arrived
<1>2. Recently' /\ Knows'
  BY <1>1 DEF TimelyInv, Recently, Leaves, Knows, Has, Comes, Up
<1>3. MadeTakes'
  <2> SUFFICES ASSUME NEW n \in Node, NEW p \in proposals[n], NEW k \in Up
               PROVE  p.target \in MakeRecord(k).apoptosized
    BY <1>1 DEF MadeTakes
  <2>1. p.target \in nodes /\ Has(k, p.target)
    BY <1>1 DEF BaseInv, Leavers, TimelyInv, Knows, Comes
  <2>2. PICK q \in proposals[k] : q.target = p.target
    BY <2>1 DEF Has
  <2>3. WhenValid(q.when)
    BY DEF TimelyInv, Recently, WhenValid, Up
  <2>4. p.target \in ApoptosisTxs(k)
    BY <2>1, <2>2, <2>3 DEF ApoptosisTxs
  <2>5. QED
    BY <2>4 DEF MakeRecord
<1>4. QED
  BY <1>2, <1>3 DEF TimelyInv

(* The digested record has removed whoever was proposed in an earlier      *)
(* cycle.                                                                  *)
LEMMA TimelyDigest ==
  ASSUME BaseInv, TimelyInv, ~Lossy, CycleCreator
  PROVE  TimelyInv'
<1>1. PICK i \in DOMAIN made : Digest(made[i])
  BY DEF CycleCreator
<1> DEFINE r == made[i]
<1> HIDE DEF r
<1>2. /\ msgs' = {} /\ cycle' = cycle + 1 /\ quarter' = 1 /\ nodes' = nodes \ r.apoptosized
      /\ status' = [n \in Node |-> IF n \in Up \cap r.apoptosized THEN "evicted" ELSE status[n]]
      /\ \A n \in Node : proposals'[n] = {p \in proposals[n] : p.target \in nodes'}
  BY <1>1 DEF CycleCreator, Arrived, Digest, r
<1>3. quarter = 3 /\ msgs = {}
  BY DEF CycleCreator, Arrived
<1>4. \A n \in Node : \A p \in proposals'[n] : p.when = cycle
  BY <1>1, <1>2, <1>3 DEF TimelyInv, MadeTakes, r
<1>5. Recently'
  BY <1>2, <1>4 DEF Recently, Leaves, BaseInv, Domains
<1>6. MadeTakes'
  BY <1>2 DEF MadeTakes
<1>7. Knows'
  <2> SUFFICES ASSUME NEW t \in nodes', status'[t] = "left", NEW n \in Up'
               PROVE  Has(n, t)'
    BY DEF Knows
  <2>1. n \in Up
    BY <1>2 DEF Up
  <2>2. t \in nodes /\ status[t] = "left"
    BY <1>2 DEF BaseInv, Domains
  <2>3. QED
    BY <1>2, <1>3, <2>1, <2>2 DEF TimelyInv, Knows, Has, Comes, Up
<1>8. QED
  BY <1>5, <1>6, <1>7 DEF TimelyInv
-----------------------------------------------------------------------------
(* What holds in addition while nobody is late either.                     *)

LEMMA LiveInit ==
  ASSUME Init
  PROVE  LiveInv
  BY DEF Init, LiveInv, NoLiveEviction, Owes, Spread, MadeSpares, NoRecord, Up

(* A step that leaves the cycle, the records and the refutations alone,    *)
(* and loses no refutation that is on its way to a node that works.        *)
LEMMA LiveKept ==
  ASSUME LiveInv, UNCHANGED <<cycle, quarter, nodes, record, stopReporting, made, sendRefute, sent>>,
         \A n \in Node : upGossip[n] \subseteq upGossip'[n],
         Up' \subseteq Up, \A n \in Node : status'[n] # "evicted",
         \A m \in msgs : m.to \in Up' => \/ m \in msgs' \/ m.body.type # "up"
                                         \/ quarter = 1 /\ Refuted(m.to, m.body.target)'
  PROVE  LiveInv'
<1>1. NoLiveEviction' /\ Owes' /\ MadeSpares'
  BY DEF LiveInv, NoLiveEviction, Owes, MadeSpares
<1>2. Spread'
  <2>1. quarter' \in {2, 3} => Up' \subseteq sent'
    BY DEF LiveInv, Spread
  <2> SUFFICES ASSUME NEW t \in Up' \cap sent \cap record.lost, NEW n \in Up'
               PROVE  Refuted(n, t)' \/ (quarter = 1 /\ OnItsWay(n, t)')
    BY <2>1 DEF Spread
  <2>2. Refuted(n, t) \/ (quarter = 1 /\ OnItsWay(n, t))
    BY DEF LiveInv, Spread
  <2>3. Refuted(n, t) => Refuted(n, t)'
    BY DEF Refuted, Up
  <2>4. CASE quarter = 1 /\ OnItsWay(n, t)
    <3>1. PICK m \in msgs : m.to = n /\ m.body = UpMessage(t)
      BY <2>4 DEF OnItsWay
    <3>2. m.body.type = "up" /\ m.body.target = t /\ UpMessage(t)' = UpMessage(t)
      BY <3>1 DEF UpMessage
    <3>3. QED
      BY <2>4, <3>1, <3>2 DEF OnItsWay
  <2>5. QED
    BY <2>2, <2>3, <2>4
<1>3. QED
  BY <1>1, <1>2 DEF LiveInv

LEMMA LiveQuiet ==
  ASSUME LiveInv, Quiet
  PROVE  LiveInv'
<1>1. /\ UNCHANGED <<digested, upGossip, sendRefute, sent>>
      /\ \A m \in msgs : m \in msgs' \/ m.body.type # "up"
  BY DEF Quiet
<1>2. Up' = Up /\ \A n \in Node : status'[n] # "evicted"
  BY <1>1 DEF digested, Up, LiveInv, NoLiveEviction
<1>3. QED
  BY <1>1, <1>2, LiveKept DEF digested

LEMMA LiveDie ==
  ASSUME BaseInv, LiveInv, NEW n \in Node, Die(n) \/ ApoptosizeSelf(n)
  PROVE  LiveInv'
<1>1. /\ UNCHANGED <<cycle, quarter, nodes, record, stopReporting, made, sendRefute, sent, upGossip>>
      /\ \E s \in {"dead", "left"} : status' = [status EXCEPT ![n] = s]
      /\ {m \in msgs : m.to # n} \subseteq msgs'
  BY DEF Die, ApoptosizeSelf
<1>2. Up' = Up \ {n} /\ \A k \in Node : status'[k] # "evicted"
  BY <1>1 DEF BaseInv, Domains, LiveInv, NoLiveEviction, Up
<1>3. QED
  BY <1>1, <1>2, LiveKept

(* Whoever is listed refutes with its requests of the next cycle.          *)
LEMMA LiveRequests ==
  ASSUME BaseInv, LiveInv, NEW n \in Node, SendRequests(n)
  PROVE  LiveInv'
<1>1. /\ n \in Up /\ quarter = 1 /\ sent' = sent \cup {n} /\ UNCHANGED <<digested, sendRefute>>
      /\ msgs \subseteq msgs'
      /\ Refutes(n) => Gossip(n, UpMessage(n), TRUE) \subseteq msgs'
      /\ upGossip' = [upGossip EXCEPT ![n] =
                        IF Refutes(n) THEN @ \cup {[target |-> n, when |-> cycle]} ELSE @]
  BY DEF SendRequests
<1>2. NoLiveEviction' /\ Owes' /\ MadeSpares'
  BY <1>1 DEF LiveInv, NoLiveEviction, Owes, MadeSpares, digested, Up
<1>3. \A k \in Node : upGossip[k] \subseteq upGossip'[k]
  BY <1>1 DEF BaseInv, Domains
<1>4. Spread'
  <2> SUFFICES ASSUME NEW t \in Up \cap sent' \cap record.lost, NEW k \in Up
               PROVE  Refuted(k, t)' \/ OnItsWay(k, t)'
    BY <1>1 DEF Spread, digested, Up
  <2>1. UpMessage(t)' = UpMessage(t) /\ cycle' = cycle
    BY <1>1 DEF UpMessage, digested
  <2>2. CASE t \in sent
    <3>1. Refuted(k, t) \/ OnItsWay(k, t)
      BY <2>2 DEF LiveInv, Spread
    <3>2. Refuted(k, t) => Refuted(k, t)'
      BY <1>3, <2>1 DEF Refuted, Up
    <3>3. OnItsWay(k, t) => OnItsWay(k, t)'
      BY <1>1, <2>1 DEF OnItsWay
    <3>4. QED
      BY <3>1, <3>2, <3>3
  <2>3. CASE t \notin sent
    <3>1. t = n /\ Refutes(n)
      BY <1>1, <2>3 DEF LiveInv, Owes, Refutes
    <3>2. CASE k = n
      BY <1>1, <2>1, <3>1, <3>2 DEF Refuted, BaseInv, Domains, Up
    <3>3. CASE k # n
      <4> DEFINE m == [to |-> k, first |-> TRUE, body |-> UpMessage(n)]
      <4>1. m \in Gossip(n, UpMessage(n), TRUE) /\ m.to = k /\ m.body = UpMessage(n)
        BY <3>3 DEF Gossip
      <4> HIDE DEF m
      <4>2. m \in msgs'
        BY <1>1, <3>1, <4>1
      <4>3. QED
        BY <2>1, <3>1, <4>1, <4>2 DEF OnItsWay
    <3>4. QED
      BY <3>2, <3>3
  <2>4. QED
    BY <2>2, <2>3
<1>5. QED
  BY <1>2, <1>4 DEF LiveInv

(* In Q1 a refutation of a listed node that works is always taken.         *)
LEMMA LiveUp ==
  ASSUME BaseInv, LiveInv, NEW mm \in msgs, mm.to \in Up, ReceiveUp(mm.to, mm)
  PROVE  LiveInv'
<1> DEFINE n == mm.to
           u == [target |-> mm.body.target, when |-> mm.body.when]
           new == stopReporting[u.target] # 0 /\ InTime(mm) /\ u \notin upGossip[n] /\ u.target \in nodes
<1>1. /\ UNCHANGED <<digested, sendRefute, proposals, sent>>
      /\ upGossip' = [upGossip EXCEPT ![n] = IF new THEN @ \cup {u} ELSE @]
      /\ \A m \in msgs : m \in msgs' \/ m = mm
  BY DEF ReceiveUp
<1>2. n \in Node /\ u.when = cycle /\ u.target = mm.body.target
  BY DEF BaseInv, Refutations, ReceiveUp, Up
<1>3. quarter = 1 => InTime(mm)
  BY DEF InTime
<1>4. new <=> stopReporting[u.target] # 0 /\ InTime(mm) /\ u \notin upGossip[n] /\ u.target \in nodes
  OBVIOUS
<1>5. u = [target |-> u.target, when |-> cycle]
  BY <1>2
<1> HIDE DEF n, u, new
<1>6. NoLiveEviction' /\ Owes' /\ MadeSpares'
  BY <1>1 DEF LiveInv, NoLiveEviction, Owes, MadeSpares, digested, Up
<1>7. \A k \in Node : upGossip[k] \subseteq upGossip'[k]
  BY <1>1 DEF BaseInv, Domains
<1>8. Spread'
  <2> SUFFICES ASSUME NEW t \in Up \cap sent \cap record.lost, NEW k \in Up
               PROVE  Refuted(k, t)' \/ (quarter = 1 /\ OnItsWay(k, t)')
    BY <1>1 DEF LiveInv, Spread, digested, Up
  <2>1. UpMessage(t)' = UpMessage(t) /\ cycle' = cycle
    BY <1>1 DEF UpMessage, digested
  <2>2. Refuted(k, t) \/ (quarter = 1 /\ OnItsWay(k, t))
    BY DEF LiveInv, Spread
  <2>3. Refuted(k, t) => Refuted(k, t)'
    BY <1>7, <2>1 DEF Refuted, Up
  <2>4. CASE quarter = 1 /\ OnItsWay(k, t)
    <3>1. PICK m \in msgs : m.to = k /\ m.body = UpMessage(t)
      BY <2>4 DEF OnItsWay
    <3>2. CASE m # mm
      BY <1>1, <2>1, <2>4, <3>1, <3>2 DEF OnItsWay
    <3>3. CASE m = mm
      <4>1. k = n /\ u.target = t
        BY <1>2, <3>1, <3>3 DEF n, UpMessage
      <4>2. t \in nodes /\ stopReporting[t] # 0
        BY DEF LiveInv, Owes
      <4>3. u \in upGossip'[n]
        BY <1>1, <1>2, <1>3, <1>4, <2>4, <4>1, <4>2 DEF BaseInv, Domains
      <4>4. QED
        BY <1>5, <2>1, <4>1, <4>3 DEF Refuted
    <3>4. QED
      BY <3>2, <3>3
  <2>5. QED
    BY <2>2, <2>3, <2>4
<1>9. QED
  BY <1>6, <1>8 DEF LiveInv

LEMMA LiveApoptosis ==
  ASSUME BaseInv, LiveInv, NEW mm \in msgs, mm.to \in Up, ReceiveApoptosis(mm.to, mm)
  PROVE  LiveInv'
<1>1. /\ UNCHANGED <<digested, upGossip, sendRefute, sent>> /\ Leaves(mm)
      /\ msgs \ {mm} \subseteq msgs'
  BY ApoptosisAdds
<1>2. \A m \in msgs : m \in msgs' \/ m.body.type # "up"
  BY <1>1 DEF Leaves
<1>3. Up' = Up /\ \A n \in Node : status'[n] # "evicted"
  BY <1>1 DEF digested, Up, LiveInv, NoLiveEviction
<1>4. QED
  BY <1>1, <1>2, <1>3, LiveKept DEF digested

(* When Q1 ends, everyone has sent its requests and everything has come.   *)
LEMMA LiveQ2 ==
  ASSUME LiveInv, ~Lossy, Late = {}, RunQ2
  PROVE  LiveInv'
<1>1. /\ UNCHANGED <<cycle, status, nodes, record, stopReporting, made, sendRefute, sent, upGossip, msgs>>
      /\ quarter' = 2 /\ Up \subseteq sent /\ msgs = {}
  BY DEF RunQ2, Arrived
<1>2. NoLiveEviction' /\ Owes' /\ MadeSpares'
  BY <1>1 DEF LiveInv, NoLiveEviction, Owes, MadeSpares, Up
<1>3. Spread'
  BY <1>1 DEF LiveInv, Spread, Refuted, OnItsWay, Up
<1>4. QED
  BY <1>2, <1>3 DEF LiveInv

LEMMA LiveQ3 ==
  ASSUME BaseInv, LiveInv, RunQ3
  PROVE  LiveInv'
<1>1. /\ UNCHANGED <<cycle, status, nodes, record, stopReporting, sendRefute, sent, upGossip, msgs>>
      /\ quarter = 2 /\ quarter' = 3 /\ made' = [n \in Up |-> MakeRecord(n)]
  BY DEF RunQ3
<1>2. NoLiveEviction' /\ Owes'
  BY <1>1 DEF LiveInv, NoLiveEviction, Owes, Up
<1>3. Spread'
  BY <1>1 DEF LiveInv, Spread, Refuted, Up
<1>4. MadeSpares'
  <2> SUFFICES ASSUME NEW k \in Up, NEW t \in Up
               PROVE  t \notin MakeRecord(k).apoptosized
    BY <1>1 DEF MadeSpares, Up
  <2>1. t \notin ApoptosisTxs(k)
    BY DEF ApoptosisTxs, BaseInv, Leavers, Up
  <2>2. t \in record.lost => t \in RefutedTxs(k)
    <3>1. t \in record.lost => Refuted(k, t) /\ t \in nodes
      BY <1>1 DEF LiveInv, Spread, Owes
    <3>2. QED
      BY <3>1 DEF Refuted, RefutedTxs
  <2>3. QED
    BY <2>1, <2>2 DEF MakeRecord, Unrefuted
<1>5. QED
  BY <1>2, <1>3, <1>4 DEF LiveInv

LEMMA LiveDigest ==
  ASSUME BaseInv, LiveInv, CycleCreator
  PROVE  LiveInv'
<1>1. PICK i \in DOMAIN made : Digest(made[i])
  BY DEF CycleCreator
<1> DEFINE r == made[i]
<1>2. \A t \in Up : t \notin r.apoptosized
  BY <1>1 DEF CycleCreator, LiveInv, MadeSpares
<1> HIDE DEF r
<1>3. Digest(r)
  BY <1>1 DEF r
<1>4. /\ cycle' = cycle + 1 /\ quarter' = 1 /\ nodes' = nodes \ r.apoptosized /\ sent' = {} /\ record' = r
      /\ status' = [n \in Node |-> IF n \in Up \cap r.apoptosized THEN "evicted" ELSE status[n]]
      /\ sendRefute' = [n \in Node |-> RefuteIn(n, r)]
      /\ stopReporting' = [t \in Node |-> Fresh(IF t \in r.lost THEN cycle ELSE stopReporting[t])]
  BY <1>3 DEF Digest
<1>5. Up' = Up /\ \A n \in Node : status'[n] # "evicted"
  BY <1>2, <1>4 DEF Up, LiveInv, NoLiveEviction
<1>6. Owes'
  <2> SUFFICES ASSUME NEW t \in Up
               PROVE  /\ t \in nodes'
                      /\ t \in r.lost => sendRefute'[t] = cycle + 1 /\ stopReporting'[t] # 0
    BY <1>4, <1>5 DEF Owes
  <2>1. t \in nodes'
    BY <1>2, <1>4 DEF LiveInv, Owes
  <2>2. Fresh(cycle) = cycle /\ cycle # 0
    BY LostAssumption DEF Fresh, Recent, BaseInv, Domains
  <2>3. QED
    BY <1>4, <2>1, <2>2 DEF RefuteIn, Up
<1>7. Spread' /\ MadeSpares' /\ NoLiveEviction'
  BY <1>4, <1>5 DEF Spread, MadeSpares, NoLiveEviction
<1>8. QED
  BY <1>6, <1>7 DEF LiveInv
-----------------------------------------------------------------------------
(* While no message is lost and no node skips the requests of a cycle,     *)
(* checks and requests may fail wrongly as often as they like: a node that *)
(* works is never removed, because it sees in the record that it is listed *)
(* as lost (parseRecord), refutes with the requests of the next cycle      *)
(* (sendRequests), and every node whose record may be digested has its     *)
(* refutation by then (updateRecord).                                      *)
THEOREM LiveStay == ~Lossy /\ Late = {} => (Spec => []NoLiveEviction)
<1> SUFFICES ASSUME ~Lossy, Late = {}
             PROVE  Spec => []NoLiveEviction
  OBVIOUS
<1>1. Init => LiveInv
  BY LiveInit
<1>2. BaseInv /\ LiveInv /\ [Next]_vars => LiveInv'
  <2> SUFFICES ASSUME BaseInv, LiveInv, [Next]_vars
               PROVE  LiveInv'
    OBVIOUS
  <2>1. CASE Next
    BY <2>1, QuietSteps, LiveQuiet, LiveRequests, LiveUp, LiveApoptosis, LiveDie, LiveQ2, LiveQ3,
       LiveDigest
  <2>2. CASE UNCHANGED vars
    BY <2>2, LiveQuiet DEF Quiet, vars
  <2>3. QED
    BY <2>1, <2>2
<1>3. LiveInv => NoLiveEviction
  BY DEF LiveInv
<1>4. QED
  BY <1>1, <1>2, <1>3, BaseHolds, PTL DEF Spec

(* While no message is lost, whoever is gone is removed in time: a node    *)
(* that was listed as lost and did not refute in this cycle, whatever it   *)
(* refuted before, is in all records made (updateRecord of Lost.ts), and   *)
(* no proposal to leave is older than the code accepts (isValidWhen of     *)
(* Apoptosis.ts), so none stays and hides its node from lost detection.    *)
THEOREM GoneLeave == ~Lossy => (Spec => []GoneInTime)
<1> SUFFICES ASSUME ~Lossy
             PROVE  Spec => []GoneInTime
  OBVIOUS
<1>1. Init => TimelyInv
  BY TimelyInit
<1>2. BaseInv /\ TimelyInv /\ [Next]_vars => TimelyInv'
  <2> SUFFICES ASSUME BaseInv, TimelyInv, [Next]_vars
               PROVE  TimelyInv'
    OBVIOUS
  <2>1. CASE Next
    BY <2>1, QuietSteps, TimelyQuiet, TimelyRequests, TimelyUp, TimelyApoptosis, TimelyDie,
       TimelyLeave, TimelyQ2, TimelyQ3, TimelyDigest
  <2>2. CASE UNCHANGED vars
    BY <2>2, TimelyQuiet DEF Quiet, vars
  <2>3. QED
    BY <2>1, <2>2
<1>3. BaseInv /\ TimelyInv => GoneInTime
  BY DEF BaseInv, TimelyInv, Recently, GoneInTime, ProposalsInTime, WhenValid, Up
<1>4. QED
  BY <1>1, <1>2, <1>3, BaseHolds, PTL DEF Spec
=============================================================================
