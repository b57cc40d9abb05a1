----------------------------- MODULE Membership -----------------------------
(***************************************************************************)
(* How a node becomes a member of the network: p2p/Join (routes.ts,        *)
(* index.ts, v2/), the activation of Active.ts and the lists of            *)
(* NodeList.ts.                                                            *)
(*                                                                         *)
(* A candidate asks a validator; the validator gossips the request in the  *)
(* next cycle, whose record puts the candidate on standby.  Each cycle the *)
(* validators select some of those on standby; a selected node says when   *)
(* it starts and finishes syncing, waits on the ready list, and becomes    *)
(* active.  A node that asks to leave, or that stays on standby too long,  *)
(* or that does not start syncing in time, is dropped.                     *)
(*                                                                         *)
(* The validators are active from the start and stay.  All nodes digest    *)
(* the same record, which is what module CycleCert is about: one of the    *)
(* records made is chosen, and what the records determine is kept once.    *)
(***************************************************************************)
EXTENDS Integers, SequencesExt, FiniteSetsExt

CONSTANTS
  Validator,    \* the active nodes that make the records
  Candidate,    \* the nodes that want to join; numbers, in the order of their keys
  Golden,       \* candidates with a golden ticket
  StandbyTTL,   \* standbyListCyclesTTL
  MaxScrub,     \* standbyListMaxRemoveTTL
  SyncWait,     \* cyclesToWaitForSyncStarted
  MaxStandby,   \* maxStandbyCount
  MaxAdd,       \* the most nodes that calculateToAcceptV2 takes in one cycle
  AllowActive,  \* allowActivePerCycle
  AskIn,        \* bound: the cycles in which candidates ask to join
  Forgetful,    \* candidates that restart, and ask again in the next cycle
  Unjoining,    \* candidates that ask to be taken off
  Refreshing,   \* candidates that ask to stay on standby
  Lossy,        \* may gossip be lost or come too late?
  MaxCycle      \* bound: the run ends with this cycle

ASSUME MembershipAssumption ==
  /\ Candidate \subseteq Nat /\ IsFiniteSet(Candidate)
  /\ Validator \cap Candidate = {}
  /\ Golden \subseteq Candidate
  /\ {StandbyTTL, SyncWait, MaxAdd, MaxStandby, MaxCycle} \subseteq Nat
  /\ {AllowActive, MaxScrub} \subseteq Nat \ {0}
  /\ Lossy \in BOOLEAN

VARIABLES
  cycle, quarter,  \* the newest record is that of cycle - 1; quarter 3 stands for Q3 and Q4
  standby,         \* the standby list: refreshedCounter of each node on it, or None
  lastHashed,      \* the standby list as it was when the newest record was hashed
  picked,          \* selectedPublicKeys
  nodes,           \* the candidates in the node list
  selected,        \* selectedById: the counter of the record that added the node, or None
  syncing,         \* syncingByIdOrder
  ready,           \* readyByTimeAndIdOrder
  active,          \* activeByIdOrder (the validators left out)
  status,          \* the status field of the node
  joined,          \* joinedConsensors of the newest record
  lostAfter,       \* lostAfterSelection
  queue,           \* what each validator keeps for coming records
  sent,            \* the validators that have sent their requests in this cycle
  made,            \* the record each validator made in Q3
  asked,           \* the cycle in which a candidate last asked to join, or 0
  told,            \* what a candidate has sent since: unjoin, refresh, started, finished
  msgs

lists == <<nodes, selected, syncing, ready, active, status>>
chain == <<cycle, quarter, standby, lastHashed, picked, lists, joined, lostAfter, sent, made>>
vars == <<chain, queue, asked, told, msgs>>

None == -1
counter == cycle - 1                         \* CycleChain.newest.counter
OnStandby == {c \in Candidate : standby[c] # None}
Selected == {c \in Candidate : selected[c] # None}

EmptyQueue ==
  [received |-> {}, forGossip |-> {},          \* queuedReceivedJoinRequests, ...ForGossip
   join |-> {}, seen |-> {},                   \* newJoinRequests, seen
   unjoinNext |-> <<>>, unjoinThis |-> <<>>,   \* queuedUnjoinRequestsForNextCycle, ...ThisCycle
   unjoin |-> {},                              \* newUnjoinRequests
   toRefresh |-> {}, refresh |-> {},           \* queuedStandbyRefreshPubKeys, newStandbyRefreshRequests
   started |-> {}, finished |-> {}]            \* newSyncStarted, newSyncFinishedNodes

Init ==
  /\ cycle = 1
  /\ quarter = 1
  /\ standby = [c \in Candidate |-> None]
  /\ lastHashed = standby
  /\ picked = {}
  /\ nodes = {}
  /\ selected = [c \in Candidate |-> None]
  /\ syncing = {}
  /\ ready = <<>>
  /\ active = {}
  /\ status = [c \in Candidate |-> "none"]
  /\ joined = {}
  /\ lostAfter = {}
  /\ queue = [v \in Validator |-> EmptyQueue]
  /\ sent = {}
  /\ made = <<>>
  /\ asked = [c \in Candidate |-> 0]
  /\ told = [c \in Candidate |-> {}]
  /\ msgs = {}

Gossip(from, to, body, first) ==
  {[to |-> v, from |-> from, first |-> first, body |-> body] : v \in to}
Others(v) == Validator \ {v}

(* checkGossipPayload takes gossip in Q1 and Q2, from its originator in Q1.*)
InTime(m) == quarter = 1 \/ (quarter = 2 /\ ~m.first)
-----------------------------------------------------------------------------
(* joinRoute.  The checks that matter after the port checks were awaited:  *)
(* the node is not on standby; its key was not seen in this cycle, and     *)
(* from here on it was; it is not in the node list; and Q1 is not over.    *)
Join(c, v) ==
  LET q == queue[v]
      unseen == c \notin OnStandby /\ c \notin q.seen
      taken == unseen /\ c \notin nodes /\ quarter = 1
  IN /\ cycle \in AskIn
     /\ status[c] = "none" /\ c \notin OnStandby
     /\ \/ asked[c] = 0 \/ asked[c] <= cycle - 2
        \/ c \in Forgetful /\ asked[c] < cycle
     /\ asked' = [asked EXCEPT ![c] = cycle]
     /\ told' = [told EXCEPT ![c] = {}]
     /\ queue' = [queue EXCEPT
          ![v].seen = IF unseen THEN @ \cup {c} ELSE @,
          ![v].received = IF taken THEN @ \cup {[type |-> "join", who |-> c, when |-> counter]} ELSE @]
     /\ UNCHANGED <<chain, msgs>>

(* validateUnjoinRequest: a node on standby, or one selected just now.     *)
UnjoinValid(u, q) ==
  /\ \A w \in q.unjoin : w.who # u.who
  /\ counter - u.when \in -1 .. 1
  /\ u.who \in nodes => u.who \in joined
  /\ u.who \in OnStandby \/ u.who \in joined

(* unjoinRoute validates a request, and keeps a valid one for the next     *)
(* cycle.  A candidate sends it when it shuts down while it believes to be *)
(* on standby: it may not know yet that it was selected.                   *)
Unjoin(c, v) ==
  LET u == [type |-> "unjoin", who |-> c, when |-> counter]
  IN /\ c \in Unjoining
     /\ c \in OnStandby \cup joined
     /\ told[c] \cap {"unjoin", "started"} = {}
     /\ told' = [told EXCEPT ![c] = @ \cup {"unjoin"}]
     /\ queue' = [queue EXCEPT ![v].unjoinNext = IF UnjoinValid(u, queue[v]) THEN Append(@, u) ELSE @]
     /\ UNCHANGED <<chain, asked, msgs>>

(* standbyRefreshRoute queues whatever key it is sent.                     *)
AskRefresh(c, v) ==
  /\ c \in Refreshing /\ c \in OnStandby
  /\ "refresh" \notin told[c]
  /\ counter >= standby[c] + StandbyTTL - 4
  /\ told' = [told EXCEPT ![c] = @ \cup {"refresh"}]
  /\ queue' = [queue EXCEPT ![v].toRefresh = @ \cup {c}]
  /\ UNCHANGED <<chain, asked, msgs>>

(* sendRequests of a candidate that is in the node list: in Q1 it gossips, *)
(* once, that it starts syncing, and later that it has finished.           *)
TellProgress(c, what) ==
  /\ quarter = 1
  /\ c \in nodes
  /\ what \notin told[c]
  /\ \/ what = "started" /\ "unjoin" \notin told[c] /\ c \in Selected
     \/ what = "finished" /\ "started" \in told[c]
  /\ told' = [told EXCEPT ![c] = @ \cup {what}]
  /\ msgs' = msgs \cup Gossip(c, Validator, [type |-> what, who |-> c, when |-> counter], TRUE)
  /\ UNCHANGED <<chain, queue, asked>>
-----------------------------------------------------------------------------
(* sendRequests of a validator.  The refreshes asked for are signed by     *)
(* this validator; ...                                                     *)
RefreshValid(r, q) == r.who \in OnStandby /\ r.when = counter /\ \A s \in q.refresh : s.who # r.who
Refreshes(v) ==
  {r \in {[type |-> "refresh", who |-> c, when |-> counter, owner |-> v] : c \in queue[v].toRefresh} :
     RefreshValid(r, queue[v])}

(* ... the join requests of the last cycle are gossiped without looking    *)
(* again at the standby list, and saved unless gossip brought them; ...    *)
MutantSaved(q) == {}
Saved(q) == {j \in q.forGossip : j.who \notin q.seen}

(* ... and of the requests to leave those before the first one that is     *)
(* not valid any more: there sendRequests returns.                         *)
Unjoins(q) ==
  LET Bad(i) == \/ ~UnjoinValid(q.unjoinThis[i], q)
                \/ \E j \in 1 .. i - 1 : q.unjoinThis[j].who = q.unjoinThis[i].who
  IN  {q.unjoinThis[i] : i \in {j \in DOMAIN q.unjoinThis : \A k \in 1 .. j : ~Bad(k)}}

SendRequests(v) ==
  LET q == queue[v]
      bodies == Refreshes(v) \cup Unjoins(q) \cup q.forGossip
  IN /\ quarter = 1
     /\ v \notin sent
     /\ sent' = sent \cup {v}
     /\ queue' = [queue EXCEPT
          ![v].refresh = @ \cup Refreshes(v), ![v].toRefresh = {},
          ![v].join = @ \cup Saved(q), ![v].seen = @ \cup {j.who : j \in q.forGossip}, ![v].forGossip = {},
          ![v].unjoin = @ \cup Unjoins(q)]
     /\ msgs' = msgs \cup UNION {Gossip(v, Others(v), b, TRUE) : b \in bodies}
     /\ UNCHANGED <<cycle, quarter, standby, lastHashed, picked, lists, joined, lostAfter, made,
                    asked, told>>
-----------------------------------------------------------------------------
(* The gossip handlers: gossip-valid-join-requests, gossip-unjoin,         *)
(* gossip-standby-refresh, gossip-sync-started and -finished.              *)
Progress(b, known) == b.who \in nodes /\ b.when = counter /\ b.who \notin known
Valid(b, q) ==
  CASE b.type = "join" -> b.who \notin OnStandby /\ b.who \notin q.seen /\ b.who \notin nodes
    [] b.type = "unjoin" -> UnjoinValid(b, q)
    [] b.type = "refresh" -> RefreshValid(b, q)
    [] b.type = "started" -> Progress(b, q.started)
    [] b.type = "finished" -> Progress(b, q.finished)

(* The request is kept for the record.  The key of a join request counts   *)
(* as seen even when the node list has it.                                 *)
Keep(b, q) ==
  CASE b.type = "join" -> [q EXCEPT !.join = @ \cup {b}]
    [] b.type = "unjoin" -> [q EXCEPT !.unjoin = @ \cup {b}]
    [] b.type = "refresh" -> [q EXCEPT !.refresh = @ \cup {b}]
    [] b.type = "started" -> [q EXCEPT !.started = @ \cup {b.who}]
    [] b.type = "finished" -> [q EXCEPT !.finished = @ \cup {b.who}]
See(b, q) ==
  IF b.type = "join" /\ b.who \notin OnStandby THEN [q EXCEPT !.seen = @ \cup {b.who}] ELSE q

Receive(m) ==
  LET v == m.to
      b == m.body
      q == queue[v]
      new == InTime(m) /\ Valid(b, q)
  IN /\ queue' = [queue EXCEPT ![v] = IF new THEN See(b, Keep(b, q))
                                      ELSE IF InTime(m) THEN See(b, q) ELSE q]
     /\ msgs' = (msgs \ {m}) \cup
                IF new THEN Gossip(v, Others(v) \ {m.from}, b, FALSE) ELSE {}
     /\ UNCHANGED <<chain, asked, told>>

(* Nothing is left to do in this quarter: what was sent has arrived.       *)
Arrived == Lossy \/ msgs = {}
-----------------------------------------------------------------------------
(* executeNodeSelection on the start of Q2: which nodes it takes depends   *)
(* on the marker of the newest record, so every validator takes the same.  *)
RunQ2 ==
  /\ quarter = 1
  /\ sent = Validator
  /\ Arrived
  /\ quarter' = 2
  /\ \E s \in SUBSET OnStandby :
       /\ Cardinality(s) <= MaxAdd
       /\ picked' = picked \cup s \cup (Golden \cap OnStandby)
  /\ UNCHANGED <<cycle, standby, lastHashed, lists, joined, lostAfter, sent, made, queue, asked,
                 told, msgs>>

(* updateRecord of Join/index.ts and of Active.ts.  A refresh is looked    *)
(* for under its signer's key.                                             *)
Refreshed(q) == {r.who : r \in {s \in q.refresh : s.owner \in OnStandby}}
MutantOverdue(q) ==
  {c \in OnStandby \ Refreshed(q) : lastHashed[c] # None /\ cycle - lastHashed[c] > StandbyTTL}
Overdue(q) == {c \in OnStandby \ Refreshed(q) : lastHashed[c] # None /\ cycle - lastHashed[c] >= StandbyTTL}

(* The age scrub stops when it has taken MaxScrub of them, in the order of *)
(* their keys.                                                             *)
Scrubbed(q) == {c \in Overdue(q) : Cardinality({d \in Overdue(q) : d < c}) < MaxScrub}

(* If too many would remain, the last of the list go.                      *)
Surplus(q) ==
  LET listed == {c \in Candidate : lastHashed[c] # None}
      rest == listed \ Scrubbed(q)
      excess == Cardinality(listed) - Cardinality(Scrubbed(q)) - MaxStandby
  IN  {c \in rest : Cardinality({d \in rest : d > c}) < excess}

(* A node that asks to leave is taken off standby, but one that was        *)
(* selected in this record or the last is removed like a leaving node.     *)
Joining == picked \cap OnStandby
MutantToRemove(q) == {u.who : u \in q.unjoin} \cap joined
ToRemove(q) == {u.who : u \in q.unjoin} \cap (joined \cup Joining)

Activated == ToSet(SubSeq(ready, 1, Min({AllowActive, Len(ready)})))

MakeRecord(v) ==
  LET q == queue[v] IN
  [standbyAdd |-> q.join,
   standbyRemove |-> Scrubbed(q) \cup Surplus(q) \cup ({u.who : u \in q.unjoin} \ ToRemove(q)),
   standbyRefresh |-> Refreshed(q),
   joined |-> Joining,
   apoptosized |-> ToRemove(q),
   started |-> q.started \cap nodes,
   finished |-> q.finished \cap nodes,
   lostAfter |-> lostAfter,
   activated |-> Activated]

RunQ3 ==
  /\ quarter = 2
  /\ Arrived
  /\ quarter' = 3
  /\ made' = [v \in Validator |-> MakeRecord(v)]
  /\ queue' = [v \in Validator |->
       [queue[v] EXCEPT !.join = {}, !.unjoin = {}, !.refresh = {}, !.started = {}, !.finished = {},
                        !.forGossip = queue[v].received, !.received = {}]]
  /\ picked' = {}
  /\ lostAfter' = {}
  /\ UNCHANGED <<cycle, standby, lastHashed, lists, joined, sent, asked, told, msgs>>
-----------------------------------------------------------------------------
(* digestCycle.  parseRecord: a node that was selected and has not started *)
(* in time is dropped by the next record; ...                              *)
MutantTooLate(r) == {c \in Selected : cycle > selected[c] + SyncWait}
TooLate(r) == {c \in Selected : cycle > selected[c] + SyncWait}
                \ (r.joined \cup r.started \cup r.finished \cup r.lostAfter)

(* ... applyNodeListChange adds, updates and removes nodes, and keeps the  *)
(* lists of each status: addNode, updateNode and removeNode of NodeList.ts.*)
Removed(r) == r.lostAfter \cup r.apoptosized
Member(r) == (nodes \cup r.joined) \ Removed(r)
NewStatus(r, c) ==
  IF c \in r.activated THEN "active"
  ELSE IF c \in r.finished THEN "ready"
  ELSE IF c \in r.started \cap Selected THEN "syncing"
  ELSE IF c \in r.joined \ nodes THEN "selected"
  ELSE status[c]
Ascending(S) == [i \in 1 .. Cardinality(S) |-> CHOOSE x \in S : Cardinality({y \in S : y < x}) = i - 1]
KeptReady(r) ==
  LET kept == Ascending({i \in DOMAIN ready : ready[i] \notin r.activated \cup Removed(r)})
  IN  [i \in DOMAIN kept |-> ready[kept[i]]]
NewlyReady(r) == Ascending((r.finished \ r.activated) \ Removed(r))

ApplyChange(r) ==
  /\ nodes' = Member(r)
  /\ status' = [c \in Candidate |-> IF c \in Member(r) THEN NewStatus(r, c) ELSE "none"]
  /\ selected' = [c \in Candidate |->
       IF c \in r.joined \ (nodes \cup Removed(r)) THEN cycle
       ELSE IF c \in Removed(r) \cup r.started \cup r.finished THEN None ELSE selected[c]]
  /\ syncing' = (syncing \cup (r.started \cap Selected)) \ (r.finished \cup Removed(r))
  /\ ready' = KeptReady(r) \o NewlyReady(r)
  /\ active' = (active \cup r.activated) \ Removed(r)

(* Then the new requests go on standby while there is room, and what the   *)
(* record removes goes off.                                                *)
MutantStillOnStandby(r) == OnStandby
StillOnStandby(r) == OnStandby \ r.joined
AddedToStandby(r) ==
  LET left == StillOnStandby(r)
      room == MaxStandby - Cardinality(left)
      Before(j) == {k \in r.standbyAdd : k.who < j.who /\ k.who \notin left}
  IN  {j \in r.standbyAdd : Cardinality(Before(j)) < room}

DigestStandby(r) ==
  LET refreshed == [c \in Candidate |->
        IF c \in StillOnStandby(r) \cap r.standbyRefresh THEN cycle ELSE standby[c]]
  IN /\ standby' = [c \in Candidate |->
          IF c \in r.standbyRemove THEN None
          ELSE IF \E j \in AddedToStandby(r) : j.who = c
               THEN (CHOOSE j \in AddedToStandby(r) : j.who = c).when
          ELSE IF c \in StillOnStandby(r) THEN refreshed[c] ELSE None]
     /\ lastHashed' = refreshed

(* cycleCreator: one of the records is digested, then the next cycle       *)
(* starts: the requests to leave move on, and no key was seen yet.         *)
CycleCreator ==
  /\ quarter = 3
  /\ cycle < MaxCycle
  /\ Arrived
  /\ \E v \in Validator :
       /\ ApplyChange(made[v])
       /\ DigestStandby(made[v])
       /\ lostAfter' = lostAfter \cup TooLate(made[v])
       /\ joined' = made[v].joined
  /\ cycle' = cycle + 1
  /\ quarter' = 1
  /\ queue' = [v \in Validator |->
       [queue[v] EXCEPT !.seen = {}, !.unjoinThis = queue[v].unjoinNext, !.unjoinNext = <<>>]]
  /\ sent' = {}
  /\ made' = <<>>
  /\ msgs' = {}
  /\ UNCHANGED <<picked, asked, told>>

(* The bound is reached.                                                   *)
EndOfRun ==
  /\ quarter = 3 /\ cycle = MaxCycle
  /\ UNCHANGED vars

Next ==
  \/ \E c \in Candidate :
       \/ \E v \in Validator : Join(c, v) \/ Unjoin(c, v) \/ AskRefresh(c, v)
       \/ \E what \in {"started", "finished"} : TellProgress(c, what)
  \/ \E v \in Validator : SendRequests(v)
  \/ \E m \in msgs : Receive(m)
  \/ RunQ2 \/ RunQ3 \/ CycleCreator
  \/ EndOfRun

Spec == Init /\ [][Next]_vars
-----------------------------------------------------------------------------
(* What the program promises.                                              *)

(* No node waits for ever to be dropped.  The age scrub takes a node off   *)
(* standby once its last refresh is too old (a new node is looked at three *)
(* records after it came), or else takes MaxScrub others in its place      *)
(* (Join/index.ts:374-378); one that was taken must ask to join and grow   *)
(* too old anew, so no other comes first twice while the candidates are at *)
(* most MaxScrub * StandbyTTL.  A selected node that does not start        *)
(* syncing leaves two records after its time is over.                      *)
Overstayed(c) == counter - standby[c] - Max({StandbyTTL, 4}) + 1
NobodyOverstays ==
  /\ \A c \in OnStandby : Overstayed(c) <= 0 \/ MaxScrub * Overstayed(c) < Cardinality(Candidate)
  /\ \A c \in Selected : counter <= selected[c] + SyncWait + 1

(* Whichever validator's record is digested, it says the same: what one    *)
(* validator took before Q3, all of them took.                             *)
RecordsAgree == \A v, w \in DOMAIN made : made[v] = made[w]

(* The lists stay disjoint: each holds exactly the nodes of its status,    *)
(* none twice, whatever a record adds, updates and removes (NodeList.ts),  *)
(* and a node in the node list is not on standby too, where it would be    *)
(* selected a second time (Join/index.ts: "finally, remove the node from   *)
(* the standby list").                                                     *)
ListsDisjoint ==
  /\ nodes = {c \in Candidate : status[c] # "none"}
  /\ nodes \cap OnStandby = {}
  /\ Selected = {c \in Candidate : status[c] = "selected"}
  /\ syncing = {c \in Candidate : status[c] = "syncing"}
  /\ ToSet(ready) = {c \in Candidate : status[c] = "ready"} /\ IsInjective(ready)
  /\ active = {c \in Candidate : status[c] = "active"}

(* A node whose request to leave goes out in this cycle while it is on     *)
(* standby, or just selected, is gone with this cycle's record, whichever  *)
(* that is and though it may be selected, or its time be over, as well.    *)
LeaversGone ==
  [][\A c \in Candidate :
       /\ cycle' # cycle
       /\ c \in OnStandby \cup joined
       /\ \E v \in Validator : c \in {u.who : u \in ToSet(queue[v].unjoinThis)}
       => c \notin OnStandby' \cup nodes']_vars

(* A node that a record showed as syncing is not dropped as one that did   *)
(* not start, though the decision to drop it was taken a record earlier.   *)
OnlySilentDropped == [][nodes \ nodes' \subseteq Selected]_vars

(* A node that asked to stay on standby in time, and whose request every   *)
(* validator took, stays (updateRecord scrubs only "standby node that did  *)
(* not refresh").                                                          *)
RefreshedStays ==
  [][\A c \in Candidate :
       /\ quarter = 2 /\ quarter' = 3
       /\ \A v \in Validator : c \in {r.who : r \in queue[v].refresh}
       => \A v \in Validator : c \notin made'[v].standbyRemove]_vars
=============================================================================
