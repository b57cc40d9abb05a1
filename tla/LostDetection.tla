--------------------------- MODULE LostDetection ---------------------------
(***************************************************************************)
(* How the network removes nodes that stopped answering or are leaving:    *)
(* p2p/Lost.ts and p2p/Apoptosis.ts.                                       *)
(*                                                                         *)
(* A node that cannot reach a target asks a checker, picked by a hash, to  *)
(* look.  A checker that finds the target down gossips that in the next    *)
(* cycle, whose record lists the target as lost.  The target has the cycle *)
(* after that to refute; otherwise that cycle's record removes it.  A node *)
(* that leaves on purpose tells everyone, and the next record removes it.  *)
(*                                                                         *)
(* All nodes digest the same record at the same time, which is what module *)
(* CycleCert is about: here one of the records made is chosen.  What the   *)
(* digested records determine is therefore kept once (nodes, record,       *)
(* stopReporting).  The nodes of the model are all active.                 *)
(***************************************************************************)
EXTENDS Integers, SequencesExt, FiniteSetsExt

CONSTANTS
  Node,         \* the active nodes
  ById,         \* all of them in the order of their ids
  Offset,       \* Offset[t][c % 2]: the hash of target t and cycle c
  ReportDelay,  \* delayLostReportByNumOfCycles
  Prune,        \* isDownCachePruneCycles, stopReportingLostPruneCycles, lostMapPruneCycles
  Flaky,        \* nodes that requests may fail to reach although they are up
  Mortal,       \* nodes that may die
  Leaving,      \* nodes that may leave by apoptosizeSelf
  Late,         \* nodes whose runQ1 may be skipped
  Lossy,        \* may messages be lost or come too late?
  ReportIn,     \* bound: the cycles in which a failed request is noticed
  MaxCycle      \* bound: the run ends with this cycle

ASSUME LostAssumption ==
  /\ ById \in Seq(Node)
  /\ \A n \in Node : \E i \in DOMAIN ById : ById[i] = n
  /\ \A i, j \in DOMAIN ById : i # j => ById[i] # ById[j]
  /\ Offset \in [Node -> [0 .. 1 -> Nat]]
  /\ ReportDelay \in Nat
  /\ Prune \in Nat \ {0}
  /\ Lossy \in BOOLEAN
  /\ MaxCycle \in Nat

VARIABLES
  cycle, quarter,   \* quarter 3 stands for Q3 and Q4
  status,           \* up, dead, left, or evicted: removed although it was up
  nodes,            \* the node list
  record,           \* the newest cycle record
  stopReporting,    \* the cycle whose record listed a node as lost, or 0
  scheduled,        \* scheduledForLostReport
  lostReported,
  isDown, isUp,     \* the cycle of the last check that said so, or 0
  checking,         \* reports whose isDownCheck has not answered
  checked,          \* checkedLostRecordMap, in insertion order
  received,         \* receivedLostRecordMap: entries in order of arrival
  upGossip, sendRefute, proposals,
  sent,             \* the nodes whose runQ1 has sent its requests
  made,             \* the record each node made in Q3
  msgs

digested == <<cycle, quarter, status, nodes, record, stopReporting, made>>
vars == <<digested, scheduled, lostReported, isDown, isUp, checking, checked, received,
          upGossip, sendRefute, proposals, sent, msgs>>

Up == {n \in Node : status[n] = "up"}
Key(e) == <<e.target, e.cycle>>
HasKey(list, e) == \E i \in DOMAIN list : Key(list[i]) = Key(e)
-----------------------------------------------------------------------------
(* getMultipleCheckerNodes with numCheckerNodes = 1: from the index the    *)
(* hash picks, the first active node that is neither reporter nor target.  *)
Checkers(target, c, reporter) ==
  LET active == SelectSeq(ById, LAMBDA n : n \in nodes)
      At(k) == active[((Offset[target][c % 2] + k) % Len(active)) + 1]
      fit == {k \in 0 .. Len(active) - 1 : At(k) \notin {reporter, target}}
  IN  IF fit = {} THEN {} ELSE {At(Min(fit))}

(* checkReport on node n.                                                  *)
ReportValid(n, r, expectCycle) ==
  /\ r.target # n
  /\ expectCycle - r.cycle \in {0, 1}
  /\ {r.target, r.reporter, r.checker} \subseteq nodes
  /\ r.checker \in Checkers(r.target, r.cycle, r.reporter)

(* checkDownMsg.                                                           *)
DownValid(n, e) == e.when = cycle /\ ReportValid(n, e, cycle - 1)

(* checkQuarter: gossip is taken in Q1 and Q2, from its originator in Q1.  *)
InTime(m) == quarter = 1 \/ (quarter = 2 /\ ~m.first)

(* isValidWhen of Apoptosis.ts.                                            *)
WhenValid(when) == when \in {cycle - 1, cycle, cycle + 1}

Gossip(n, body, first) == {[to |-> m, first |-> first, body |-> body] : m \in Up \ {n}}
-----------------------------------------------------------------------------
NoRecord == [lost |-> {}, refuted |-> {}, apoptosized |-> {}]

Init ==
  /\ cycle = 1
  /\ quarter = 1
  /\ status = [n \in Node |-> "up"]
  /\ nodes = Node
  /\ record = NoRecord
  /\ stopReporting = [n \in Node |-> 0]
  /\ scheduled = [n \in Node |-> {}]
  /\ lostReported = [n \in Node |-> {}]
  /\ isDown = [n \in Node |-> [t \in Node |-> 0]]
  /\ isUp = [n \in Node |-> [t \in Node |-> 0]]
  /\ checking = [n \in Node |-> {}]
  /\ checked = [n \in Node |-> <<>>]
  /\ received = [n \in Node |-> <<>>]
  /\ upGossip = [n \in Node |-> {}]
  /\ sendRefute = [n \in Node |-> 0]
  /\ proposals = [n \in Node |-> {}]
  /\ sent = {}
  /\ made = <<>>
  /\ msgs = {}
-----------------------------------------------------------------------------
(* The network layer reports a timeout or an error, and scheduleLostReport *)
(* notes it.                                                               *)
ScheduleLostReport(n, t) ==
  /\ n \in Up
  /\ t \in nodes \ {n}
  /\ t \notin Up \/ t \in Flaky
  /\ cycle \in ReportIn
  /\ scheduled' = [scheduled EXCEPT ![n] = @ \cup {[target |-> t, cycle |-> cycle]}]
  /\ UNCHANGED <<digested, lostReported, isDown, isUp, checking, checked, received, upGossip,
                 sendRefute, proposals, sent, msgs>>

(* sendRequests starts with reportLost for what was scheduled long enough  *)
(* ago: a node is asked to check, once per target and cycle.               *)
Due(n) == {s \in scheduled[n] : s.cycle < cycle - ReportDelay}
Reportable(n) == {t \in {s.target : s \in Due(n)} : t # n /\ stopReporting[t] = 0}
Asked(n) == {t \in Reportable(n) : /\ [target |-> t, cycle |-> cycle] \notin lostReported[n]
                                   /\ Checkers(t, cycle, n) # {}}
Reports(n) ==
  UNION {{[to |-> k, first |-> TRUE,
           body |-> [type |-> "report", target |-> t, cycle |-> cycle, reporter |-> n, checker |-> k]]
            : k \in Checkers(t, cycle, n) \cap Up} : t \in Asked(n)}

(* Then it gossips the reports it has checked and found down, ...          *)
ToGossip(n, e) == e.status = "down" /\ ~e.gossiped /\ stopReporting[e.target] = 0
DownMessage(n, e) ==
  [type |-> "down", target |-> e.target, cycle |-> e.cycle, reporter |-> e.reporter,
   checker |-> n, when |-> cycle]
KeepOwn(list, body) == IF HasKey(list, body) THEN list ELSE Append(list, body)
Gossiped(n) ==
  [i \in DOMAIN checked[n] |->
     [checked[n][i] EXCEPT !.gossiped = @ \/ ToGossip(n, checked[n][i])]]
ReceivedOwn(n) ==
  FoldLeft(LAMBDA list, e : IF ToGossip(n, e) THEN KeepOwn(list, DownMessage(n, e)) ELSE list,
           received[n], checked[n])
Downs(n) == UNION {Gossip(n, DownMessage(n, e), TRUE) : e \in {f \in ToSet(checked[n]) : ToGossip(n, f)}}

(* ... its own refutation, ...                                             *)
Refutes(n) == sendRefute[n] = cycle
UpMessage(n) == [type |-> "up", target |-> n, when |-> cycle]

(* ... and the proposals of nodes that are still there.                    *)
Proposal(p) == [type |-> "apoptosis", target |-> p.target, when |-> p.when]
Proposals(n) == UNION {Gossip(n, Proposal(p), TRUE) : p \in {q \in proposals[n] : q.target \in nodes}}

SendRequests(n) ==
  /\ quarter = 1
  /\ n \in Up \ sent
  /\ sent' = sent \cup {n}
  /\ scheduled' = [scheduled EXCEPT ![n] = @ \ Due(n)]
  /\ isDown' = [isDown EXCEPT ![n] = [t \in Node |-> IF t \in Reportable(n) THEN cycle ELSE @[t]]]
  /\ lostReported' = [lostReported EXCEPT ![n] =
                        @ \cup {[target |-> t, cycle |-> cycle] : t \in Asked(n)}]
  /\ checked' = [checked EXCEPT ![n] = Gossiped(n)]
  /\ received' = [received EXCEPT ![n] = ReceivedOwn(n)]
  /\ upGossip' = [upGossip EXCEPT ![n] =
                    IF Refutes(n) THEN @ \cup {[target |-> n, when |-> cycle]} ELSE @]
  /\ msgs' = msgs \cup Reports(n) \cup Downs(n) \cup Proposals(n)
                  \cup (IF Refutes(n) THEN Gossip(n, UpMessage(n), TRUE) ELSE {})
  /\ UNCHANGED <<digested, isUp, checking, sendRefute, proposals>>
-----------------------------------------------------------------------------
(* LostReportBinaryHandler.  If the checker thinks already that the target *)
(* is down it returns without keeping the report.                          *)
Accepts(n, r) ==
  /\ stopReporting[r.target] = 0
  /\ ~HasKey(checked[n], r)
  /\ ReportValid(n, r, cycle + 1)
Checked(r, result) ==
  [target |-> r.target, cycle |-> r.cycle, reporter |-> r.reporter, status |-> result,
   gossiped |-> FALSE]
ReceiveReport(n, m) ==
  LET r == m.body
      t == r.target
  IN /\ r.type = "report"
     /\ msgs' = msgs \ {m}
     /\ checking' = [checking EXCEPT ![n] =
          IF Accepts(n, r) /\ isDown[n][t] = 0 /\ isUp[n][t] = 0 THEN @ \cup {r} ELSE @]
     /\ checked' = [checked EXCEPT ![n] =
          IF Accepts(n, r) /\ isDown[n][t] = 0 /\ isUp[n][t] # 0
          THEN Append(@, Checked(r, "up")) ELSE @]
     /\ UNCHANGED <<digested, scheduled, lostReported, isDown, isUp, received, upGossip,
                    sendRefute, proposals, sent>>

(* isDownCheck answers.                                                    *)
Answers(t) == (IF t \in Up THEN {"up"} ELSE {}) \cup
              (IF t \notin Up \/ t \in Flaky THEN {"down"} ELSE {})
CheckAnswered(n, r) ==
  /\ n \in Up
  /\ r \in checking[n]
  /\ \E result \in Answers(r.target) :
       /\ isDown' = [isDown EXCEPT ![n][r.target] = IF result = "down" THEN cycle ELSE @]
       /\ isUp' = [isUp EXCEPT ![n][r.target] = IF result = "up" THEN cycle ELSE @]
       /\ checked' = [checked EXCEPT ![n] =
                        IF HasKey(@, r) THEN @ ELSE Append(@, Checked(r, result))]
  /\ checking' = [checking EXCEPT ![n] = @ \ {r}]
  /\ UNCHANGED <<digested, scheduled, lostReported, received, upGossip, sendRefute, proposals,
                 sent, msgs>>

(* downGossipHandler.  A message about a report is taken once per checker. *)
Known(n, e) ==
  \/ HasKey(checked[n], e)
  \/ \E i \in DOMAIN received[n] :
       Key(received[n][i]) = Key(e) /\ received[n][i].checker = e.checker
ReceiveDown(n, m) ==
  LET e == m.body
      new == ~Known(n, e) /\ InTime(m) /\ DownValid(n, e)
  IN /\ e.type = "down"
     /\ received' = [received EXCEPT ![n] = IF new THEN Append(@, e) ELSE @]
     /\ msgs' = (msgs \ {m}) \cup (IF new THEN Gossip(n, e, FALSE) ELSE {})
     /\ UNCHANGED <<digested, scheduled, lostReported, isDown, isUp, checking, checked, upGossip,
                    sendRefute, proposals, sent>>

(* upGossipHandler: a refutation counts once the target was seen as lost.  *)
ReceiveUp(n, m) ==
  LET u == [target |-> m.body.target, when |-> m.body.when]
      new == stopReporting[u.target] # 0 /\ InTime(m) /\ u \notin upGossip[n] /\ u.target \in nodes
  IN /\ m.body.type = "up"
     /\ upGossip' = [upGossip EXCEPT ![n] = IF new THEN @ \cup {u} ELSE @]
     /\ msgs' = (msgs \ {m}) \cup (IF new THEN Gossip(n, m.body, FALSE) ELSE {})
     /\ UNCHANGED <<digested, scheduled, lostReported, isDown, isUp, checking, checked, received,
                    sendRefute, proposals, sent>>

(* apoptosisInternalRoute takes a proposal at any time, from the leaving   *)
(* node itself; apoptosisGossipRoute in Q1 and Q2.                         *)
ReceiveApoptosis(n, m) ==
  LET p == [target |-> m.body.target, when |-> m.body.when]
      own == m.body.type = "apoptosize"
      new == /\ own \/ quarter \in {1, 2}
             /\ WhenValid(p.when)
             /\ p.target \in nodes
             /\ \A q \in proposals[n] : q.target # p.target
  IN /\ m.body.type \in {"apoptosize", "apoptosis"}
     /\ proposals' = [proposals EXCEPT ![n] = IF new THEN @ \cup {p} ELSE @]
     /\ msgs' = (msgs \ {m}) \cup
          (IF new /\ (own => quarter = 1) THEN Gossip(n, Proposal(p), FALSE) ELSE {})
     /\ UNCHANGED <<digested, scheduled, lostReported, isDown, isUp, checking, checked, received,
                    upGossip, sendRefute, sent>>
-----------------------------------------------------------------------------
(* A node dies without notice, or leaves by apoptosizeSelf: it tells every *)
(* active node and exits.                                                  *)
Die(n) ==
  /\ n \in Up \cap Mortal
  /\ status' = [status EXCEPT ![n] = "dead"]
  /\ msgs' = {m \in msgs : m.to # n}
  /\ UNCHANGED <<cycle, quarter, nodes, record, stopReporting, made, scheduled, lostReported,
                 isDown, isUp, checking, checked, received, upGossip, sendRefute, proposals, sent>>

ApoptosizeSelf(n) ==
  /\ n \in Up \cap Leaving
  /\ status' = [status EXCEPT ![n] = "left"]
  /\ msgs' = {m \in msgs : m.to # n} \cup
             Gossip(n, [type |-> "apoptosize", target |-> n, when |-> cycle], TRUE)
  /\ UNCHANGED <<cycle, quarter, nodes, record, stopReporting, made, scheduled, lostReported,
                 isDown, isUp, checking, checked, received, upGossip, sendRefute, proposals, sent>>
-----------------------------------------------------------------------------
(* getTxs drops what it received about nodes that are leaving; of the rest *)
(* only the oldest report of a target counts, and of that the last message.*)
ApopMarked(n) == {p.target : p \in proposals[n]}
Kept(n) == SelectSeq(received[n], LAMBDA e : e.target \notin ApopMarked(n))
DownRecord(n, t) ==
  LET list == Kept(n)
      oldest == list[Min({i \in DOMAIN list : list[i].target = t})]
  IN  list[Max({i \in DOMAIN list : Key(list[i]) = Key(oldest)})]
LostTxs(n) == {t \in {e.target : e \in ToSet(Kept(n))} : DownValid(n, DownRecord(n, t))}

MutantRefutedTxs(n) == {u.target : u \in {v \in upGossip[n] : v.target \in nodes}}
RefutedTxs(n) == {u.target : u \in {v \in upGossip[n] : v.when = cycle /\ v.target \in nodes}}
ApoptosisTxs(n) == {p.target : p \in {q \in proposals[n] : WhenValid(q.when) /\ q.target \in nodes}}

(* updateRecord of Apoptosis.ts and Lost.ts.                               *)
MutantUnrefuted(n) == record.lost \cap nodes
Unrefuted(n) == (record.lost \cap nodes) \ RefutedTxs(n)
MakeRecord(n) ==
  [lost |-> LostTxs(n), refuted |-> RefutedTxs(n), apoptosized |-> Unrefuted(n) \cup ApoptosisTxs(n)]

(* Nothing is left to do in this quarter: what was sent has arrived.       *)
Arrived == Lossy \/ msgs = {}

RunQ2 ==
  /\ quarter = 1
  /\ Up \ Late \subseteq sent
  /\ Arrived
  /\ quarter' = 2
  /\ UNCHANGED <<cycle, status, nodes, record, stopReporting, made, scheduled, lostReported,
                 isDown, isUp, checking, checked, received, upGossip, sendRefute, proposals, sent,
                 msgs>>

RunQ3 ==
  /\ quarter = 2
  /\ Arrived
  /\ Up # {}
  /\ quarter' = 3
  /\ made' = [n \in Up |-> MakeRecord(n)]
  /\ received' = [n \in Node |-> IF n \in Up THEN Kept(n) ELSE received[n]]
  /\ UNCHANGED <<cycle, status, nodes, record, stopReporting, scheduled, lostReported,
                 isDown, isUp, checking, checked, upGossip, sendRefute, proposals, sent, msgs>>

(* cycleCreator: one of the records is digested (parseRecord), then the    *)
(* modules are reset for the next cycle.                                   *)
RefuteIn(n, r) == IF n \in r.lost THEN cycle + 1
                  ELSE IF n \in r.refuted THEN 0 ELSE sendRefute[n]

Recent(since) == since >= cycle + 1 - Prune
Fresh(since) == IF Recent(since) THEN since ELSE 0
Forgotten(n) == {Key(e) : e \in {f \in ToSet(received[n]) : ~Recent(f.cycle) \/ f.target \notin nodes'}}
Remembered(n, list) == SelectSeq(list, LAMBDA e : Key(e) \notin Forgotten(n))

Digest(r) ==
  /\ cycle' = cycle + 1
  /\ quarter' = 1
  /\ record' = r
  /\ nodes' = nodes \ r.apoptosized
  /\ status' = [n \in Node |-> IF n \in Up \cap r.apoptosized THEN "evicted" ELSE status[n]]
  /\ stopReporting' = [t \in Node |-> Fresh(IF t \in r.lost THEN cycle ELSE stopReporting[t])]
  /\ sendRefute' = [n \in Node |-> RefuteIn(n, r)]
  /\ isDown' = [n \in Node |-> [t \in Node |-> Fresh(isDown[n][t])]]
  /\ isUp' = [n \in Node |-> [t \in Node |-> Fresh(isUp[n][t])]]
  /\ received' = [n \in Node |-> Remembered(n, received[n])]
  /\ checked' = [n \in Node |-> Remembered(n, checked[n])]
  /\ lostReported' = [n \in Node |-> {e \in lostReported[n] : Key(e) \notin Forgotten(n)}]
  /\ upGossip' = [n \in Node |-> {u \in upGossip[n] : <<u.target, u.when>> \notin Forgotten(n)}]
  /\ proposals' = [n \in Node |-> {p \in proposals[n] : p.target \in nodes'}]
  /\ sent' = {}
  /\ made' = <<>>
  /\ msgs' = {m \in msgs : m.body.type = "apoptosize" /\ m.body.when = cycle}
  /\ UNCHANGED <<scheduled, checking>>

CycleCreator ==
  /\ quarter = 3
  /\ cycle < MaxCycle
  /\ Arrived
  /\ \A n \in Up : checking[n] = {}
  /\ \E n \in DOMAIN made : Digest(made[n])

(* The bound is reached, or nobody is left.                                *)
EndOfRun ==
  /\ (quarter = 3 /\ cycle = MaxCycle) \/ Up = {}
  /\ UNCHANGED vars

Receive(m) ==
  /\ m.to \in Up
  /\ \/ ReceiveReport(m.to, m) \/ ReceiveDown(m.to, m) \/ ReceiveUp(m.to, m)
     \/ ReceiveApoptosis(m.to, m)

Next ==
  \/ \E n \in Node :
       \/ \E t \in Node : ScheduleLostReport(n, t)
       \/ SendRequests(n)
       \/ \E r \in checking[n] : CheckAnswered(n, r)
       \/ Die(n) \/ ApoptosizeSelf(n)
  \/ \E m \in msgs : Receive(m)
  \/ RunQ2 \/ RunQ3 \/ CycleCreator
  \/ EndOfRun

Spec == Init /\ [][Next]_vars
-----------------------------------------------------------------------------
(* What the program promises.                                              *)

(* The shape of the state; no time that is noted lies in the future, and a *)
(* refutation that is due is the answer to the newest record.              *)
TypeOK ==
  /\ cycle \in 1 .. MaxCycle /\ quarter \in 1 .. 3
  /\ status \in [Node -> {"up", "dead", "left", "evicted"}]
  /\ nodes \subseteq Node
  /\ \A f \in {record.lost, record.refuted, record.apoptosized, sent} : f \subseteq Node
  /\ stopReporting \in [Node -> 0 .. cycle - 1]
  /\ \A n \in Node : isDown[n] \in [Node -> 0 .. cycle] /\ isUp[n] \in [Node -> 0 .. cycle]
  /\ sendRefute \in [Node -> 0 .. cycle]
  /\ \A n \in Node : Refutes(n) => n \in record.lost

(* A node that works is never removed: whatever checks say wrongly, it has *)
(* a cycle to refute, and the refutation reaches whoever makes the record. *)
NoLiveEviction == \A n \in Node : status[n] # "evicted"

(* A node that the newest record lists as lost and that can no longer      *)
(* refute is removed by the next record, whichever node's that is: no      *)
(* refutation of an earlier cycle saves it.                                *)
ListedIsRemoved ==
  quarter = 3 =>
    \A t \in (record.lost \cap nodes) \ sent : \A n \in DOMAIN made : t \in made[n].apoptosized

(* A proposal to leave is acted on while it is valid; one that was not     *)
(* would hide the node from lost detection for good (getTxs).              *)
ProposalsInTime == \A n \in Up : \A p \in proposals[n] : WhenValid(p.when)

(* Whoever is gone is removed in time, if it was listed as lost and if it  *)
(* said that it leaves.                                                    *)
GoneInTime == ListedIsRemoved /\ ProposalsInTime

(* Lost.ts:997 says of a target that a checker found down: "At start of    *)
(* Q1 of the next cycle sendRequests() will start a gossip": every record  *)
(* of that cycle but the target's own lists it, unless one did before.     *)
CheckedIsLost ==
  quarter = 3 =>
    \A n \in Up : \A e \in ToSet(checked[n]) :
      e.status = "down" /\ cycle = e.cycle + 1 /\ stopReporting[e.target] = 0 =>
        \A k \in DOMAIN made \ {e.target} : e.target \in made[k].lost \cup made[k].apoptosized

(* Lost.ts says "If a node does not notifiy the network before exiting it  *)
(* will take the peers about 3 cycles to remove the node from their node   *)
(* list": a node that is down and was reported is gone five cycles later.  *)
(* (A flaky node may have been up when it was checked.)                    *)
ReportedIsRemoved ==
  \A n \in Up : \A e \in lostReported[n] :
    cycle >= e.cycle + 5 /\ e.target \notin Up \cup Flaky => e.target \notin nodes
=============================================================================
