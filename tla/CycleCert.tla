----------------------------- MODULE CycleCert -----------------------------
(***************************************************************************)
(* How the nodes of a Shardus network create a cycle record and agree on   *)
(* it: p2p/CycleCreator.ts, with digestCycle and syncNewCycles of          *)
(* p2p/Sync.ts and the chain of p2p/CycleChain.ts.                         *)
(*                                                                         *)
(* Time is counted in quarters of a cycle.  Cycle c runs in the quarters   *)
(* 4*(c-1) .. 4*(c-1)+3.  A callback runs within the quarter it is         *)
(* scheduled for; a node falls behind when one of its awaits (the fetch of *)
(* a record, the write to the database, a compare-cert request) outlasts   *)
(* the quarter, which only the nodes of Late may experience.               *)
(***************************************************************************)
EXTENDS CertTable, CycleRecord, FiniteSets

CONSTANTS
  Node,            \* the nodes of the network
  Active,          \* those that vote on cycle records; the others only listen
  HashXor,         \* HashXor[n][e]: a previous marker XOR the hash of n's id
  Epochs,          \* how many counters of the previous record HashXor tells apart
  Foundation,      \* the nodes whose score is not reduced
  NerfModulus,     \* 2^28 in the code
  MaxFetchFails,   \* maxFetchLatestRecordFails
  Lossy,           \* may gossip and requests be lost or outlast a quarter?
  Late,            \* nodes whose own awaits may outlast a quarter
  NoRecord,        \* an undefined record
  MaxClock         \* bound: the run ends after this many quarters

ASSUME CertAssumption ==
  /\ IsFiniteSet(Node) /\ Active \subseteq Node
  /\ Epochs \in Nat \ {0}
  /\ HashXor \in [Node -> [(0 .. Epochs - 1) \X TxChoices -> Nat]]
  /\ NerfModulus \in Nat \ {0}
  /\ MaxFetchFails \in Nat /\ MaxClock \in Nat
  /\ Lossy \in BOOLEAN

VARIABLES
  clock,             \* the quarter the network is in
  creator,           \* what cycleCreator is doing: off, timer, fetch, save, gone
  timers,            \* [base, pending]: the callbacks scheduled for the cycle
  currentCycle, currentQuarter,
  chain,             \* CycleChain.cycles
  madeCycle, prevMarkerCached,
  bestRecord, bestMarker, bestCycleCert, bestCertScore,
  fetchFails,        \* fetchLatestRecordFails
  compare,           \* the runQ4 comparison in progress
  cacheOfCycleCerts,
  gossip             \* gossip-cert messages on their way

creatorVars == <<creator, timers, currentCycle, currentQuarter, fetchFails>>
bestVars    == <<bestRecord, bestMarker, bestCycleCert, bestCertScore>>
vars == <<clock, creatorVars, chain, madeCycle, prevMarkerCached, bestVars,
          compare, cacheOfCycleCerts, gossip>>
-----------------------------------------------------------------------------
Newest(n) == Last(chain[n])

(* scoreCert: XOR of the previous marker with the hash of the owner's id;  *)
(* an undefined marker makes it throw, which scores 0.                     *)
MutantScoreCert(owner, prevMarker) ==
  IF prevMarker = NoMarker THEN 1
  ELSE HashXor[owner][<<prevMarker[1].counter % Epochs, prevMarker[1].txs>>]
Score(owner, epoch) ==
  IF owner \in Foundation THEN HashXor[owner][epoch] ELSE HashXor[owner][epoch] % NerfModulus
ScoreCert(owner, prevMarker) ==
  IF prevMarker = NoMarker THEN 0
  ELSE Score(owner, <<prevMarker[1].counter % Epochs, prevMarker[1].txs>>)
-----------------------------------------------------------------------------
(* improveBestCert.  A message is [marker, owners, record]: certificates   *)
(* for one marker by the given owners, and the record they vouch for.  The *)
(* receiver scores them itself, against its own prevMarkerCached.          *)
CertsFor(n, marker) ==
  IF marker \in DOMAIN bestCycleCert[n] THEN bestCycleCert[n][marker] ELSE <<>>

BestScore(n) ==
  IF bestMarker[n] \in DOMAIN bestCertScore[n] THEN bestCertScore[n][bestMarker[n]] ELSE 0

Scored(n, owners) ==
  [i \in DOMAIN owners |->
     [owner |-> owners[i], score |-> ScoreCert(owners[i], prevMarkerCached[n])]]

MergedCerts(n, msg) == Merge(CertsFor(n, msg.marker), Scored(n, msg.owners))
MutantImproves(n, msg) == TotalScore(MergedCerts(n, msg)) > 0
Improves(n, msg) == TotalScore(MergedCerts(n, msg)) > BestScore(n)

Put(f, key, value) == [k \in DOMAIN f \cup {key} |-> IF k = key THEN value ELSE f[k]]

ImproveBestCert(n, msg) ==
  LET certs == MergedCerts(n, msg)
  IN /\ bestCycleCert' = [bestCycleCert EXCEPT ![n] = Put(@, msg.marker, certs)]
     /\ bestCertScore' = [bestCertScore EXCEPT ![n] = Put(@, msg.marker, TotalScore(certs))]
     /\ IF Improves(n, msg)
        THEN /\ bestMarker' = [bestMarker EXCEPT ![n] = msg.marker]
             /\ bestRecord' = [bestRecord EXCEPT ![n] = msg.record]
        ELSE UNCHANGED <<bestMarker, bestRecord>>

(* validateCerts: what a receiver checks before it looks at the scores.    *)
ValidCerts(n, msg) ==
  /\ msg.owners # <<>>
  /\ msg.record.counter = Newest(n).counter + 1
  /\ msg.marker = Marker(msg.record)
  /\ \A i, j \in DOMAIN msg.owners : i # j => msg.owners[i] # msg.owners[j]

OwnersOf(certs) == [i \in DOMAIN certs |-> certs[i].owner]
Message(marker, certs, record) ==
  [marker |-> marker, owners |-> OwnersOf(certs), record |-> record]
MyBest(n) == Message(bestMarker[n], CertsFor(n, bestMarker[n]), bestRecord[n])

Running(n) == creator[n] \notin {"off", "gone"}

(* gossipCycleCert, called right after msg improved the best cert of n: n  *)
(* sends the list it now has for that marker.                              *)
MutantBestGossip(n, msg) ==
  { [to |-> p, msg |-> [marker |-> msg.marker, owners |-> <<n>>, record |-> msg.record]] :
      p \in {q \in Node \ {n} : Running(q)} }
BestGossip(n, msg) ==
  { [to |-> p, msg |-> Message(msg.marker, MergedCerts(n, msg), msg.record)] :
      p \in {q \in Node \ {n} : Running(q)} }
-----------------------------------------------------------------------------
Idle == [state |-> "idle"]
NoTimers == [base |-> 0, pending |-> {}]

Init ==
  /\ clock = 0
  /\ creator = [n \in Node |-> IF n \in Active THEN "timer" ELSE "off"]
  /\ timers = [n \in Node |-> IF n \in Active THEN [base |-> 0, pending |-> 1 .. 5] ELSE NoTimers]
  /\ currentCycle = [n \in Node |-> IF n \in Active THEN 1 ELSE 0]
  /\ currentQuarter = [n \in Node |-> 0]
  /\ chain = [n \in Node |-> <<Genesis>>]
  /\ madeCycle = [n \in Node |-> FALSE]
  /\ prevMarkerCached = [n \in Node |-> NoMarker]
  /\ bestRecord = [n \in Node |-> NoRecord]
  /\ bestMarker = [n \in Node |-> NoMarker]
  /\ bestCycleCert = [n \in Node |-> <<>>]
  /\ bestCertScore = [n \in Node |-> <<>>]
  /\ fetchFails = [n \in Node |-> 0]
  /\ compare = [n \in Node |-> Idle]
  /\ cacheOfCycleCerts = [n \in Node |-> <<>>]
  /\ gossip = {}

(* schedule: callback q (1..4 the quarters, 5 cycleCreator itself) is due  *)
(* when its quarter comes.                                                 *)
Due(n, q) == /\ creator[n] = "timer"
             /\ q \in timers[n].pending
             /\ clock >= timers[n].base + q - 1
             /\ \A r \in timers[n].pending : q <= r
Fired(n, q) == timers' = [timers EXCEPT ![n].pending = @ \ {q}]
-----------------------------------------------------------------------------
RunQ1(n) ==
  /\ Due(n, 1)
  /\ Fired(n, 1)
  /\ currentQuarter' = [currentQuarter EXCEPT ![n] = 1]
  /\ UNCHANGED <<clock, creator, currentCycle, fetchFails, chain, madeCycle, prevMarkerCached,
                 bestVars, compare, cacheOfCycleCerts, gossip>>

RunQ2(n) ==
  /\ Due(n, 2)
  /\ Fired(n, 2)
  /\ currentQuarter' = [currentQuarter EXCEPT ![n] = 2]
  /\ prevMarkerCached' = [prevMarkerCached EXCEPT ![n] = Marker(Newest(n))]
  /\ UNCHANGED <<clock, creator, currentCycle, fetchFails, chain, madeCycle, bestVars,
                 compare, cacheOfCycleCerts, gossip>>

(* runQ3 with gossipMyCycleCert: an active node makes a record from the    *)
(* txs it happened to receive, and gossips its vote if that improves the   *)
(* best certificate it has already seen.                                   *)
RunQ3(n) ==
  /\ Due(n, 3)
  /\ Fired(n, 3)
  /\ currentQuarter' = [currentQuarter EXCEPT ![n] = 3]
  /\ madeCycle' = [madeCycle EXCEPT ![n] = TRUE]
  /\ IF n \in Active
     THEN \E txs \in TxChoices :
            LET record == MakeRecord(Newest(n), txs)
                mine   == [marker |-> Marker(record), owners |-> <<n>>, record |-> record]
            IN /\ ImproveBestCert(n, mine)
               /\ gossip' = gossip \cup (IF Improves(n, mine) THEN BestGossip(n, mine) ELSE {})
     ELSE UNCHANGED <<bestVars, gossip>>
  /\ UNCHANGED <<clock, creator, currentCycle, fetchFails, chain, prevMarkerCached,
                 compare, cacheOfCycleCerts>>

(* gossipHandlerCycleCert: no check of the quarter the receiver is in.     *)
ReceiveGossip(g) ==
  LET n == g.to IN
  /\ g \in gossip
  /\ IF Running(n) /\ ValidCerts(n, g.msg)
     THEN /\ ImproveBestCert(n, g.msg)
          /\ gossip' = (gossip \ {g}) \cup
                         (IF Improves(n, g.msg) THEN BestGossip(n, g.msg) ELSE {})
     ELSE /\ gossip' = gossip \ {g}
          /\ UNCHANGED bestVars
  /\ UNCHANGED <<clock, creatorVars, chain, madeCycle, prevMarkerCached, compare,
                 cacheOfCycleCerts>>
-----------------------------------------------------------------------------
(* runQ4 and compareCycleCert: ask the other active nodes, one at a time,  *)
(* for their best certificate.  A comparison that improves ours starts     *)
(* over.                                                                   *)
DESIRED_CERT_MATCHES == 3
Others(n) == Active \ {n}
Matches(n) == IF Cardinality(Others(n)) < DESIRED_CERT_MATCHES
              THEN Cardinality(Others(n)) ELSE DESIRED_CERT_MATCHES

Pass(n, cycle) ==
  [state |-> "ask", cycle |-> cycle, todo |-> Others(n), matched |-> 0, errors |-> {}]

QuarterChanged(n) == compare[n].cycle # currentCycle[n] \/ currentQuarter[n] # 4

(* compareCycleCert returns: it reports a match unless too many requests   *)
(* failed, whether it went through the nodes, matched or was aborted.      *)
Matched(n, errors) == Cardinality(Others(n)) - Cardinality(errors) >= Matches(n)

MutantCacheCerts(n) ==
  cacheOfCycleCerts' = [cacheOfCycleCerts EXCEPT ![n] =
    Put(@, currentCycle[n], [MyBest(n) EXCEPT !.marker = CHOOSE m \in DOMAIN bestCycleCert[n] : TRUE])]
CacheCerts(n) ==
  cacheOfCycleCerts' =
    [cacheOfCycleCerts EXCEPT ![n] =
       IF bestMarker[n] = NoMarker
       THEN [c \in DOMAIN @ \ {currentCycle[n]} |-> @[c]]
       ELSE Put(@, currentCycle[n], MyBest(n))]

EndCompare(n, errors) ==
  IF Matched(n, errors)
  THEN /\ CacheCerts(n)
       /\ compare' = [compare EXCEPT ![n] = Idle]
  ELSE /\ UNCHANGED cacheOfCycleCerts
       /\ compare' = [compare EXCEPT ![n] =
                        IF QuarterChanged(n) THEN Idle
                        ELSE [state |-> "retry", cycle |-> @.cycle]]

(* compareQuery goes on with the next node, or returns after the last one. *)
NextNode(n, matched, errors) ==
  LET c == compare[n] IN
  IF c.todo = {} \/ matched >= Matches(n)
  THEN EndCompare(n, errors)
  ELSE /\ compare' = [compare EXCEPT ![n] =
                        [state |-> "ask", cycle |-> c.cycle, todo |-> c.todo,
                         matched |-> matched, errors |-> errors]]
       /\ UNCHANGED cacheOfCycleCerts

RunQ4(n) ==
  /\ Due(n, 4)
  /\ Fired(n, 4)
  /\ currentQuarter' = [currentQuarter EXCEPT ![n] = 4]
  /\ IF madeCycle[n] /\ Others(n) # {}
     THEN /\ compare' = [compare EXCEPT ![n] = Pass(n, currentCycle[n])]
          /\ UNCHANGED cacheOfCycleCerts
     ELSE /\ IF madeCycle[n] THEN CacheCerts(n) ELSE UNCHANGED cacheOfCycleCerts
          /\ UNCHANGED compare
  /\ UNCHANGED <<clock, creator, currentCycle, fetchFails, chain, madeCycle, prevMarkerCached,
                 bestVars, gossip>>

(* Without a match runQ4 sleeps for 100 ms and compares again.             *)
CompareRetry(n) ==
  /\ Running(n)
  /\ compare[n].state = "retry"
  /\ compare' = [compare EXCEPT ![n] = Pass(n, @.cycle)]
  /\ UNCHANGED <<clock, creatorVars, chain, madeCycle, prevMarkerCached, bestVars,
                 cacheOfCycleCerts, gossip>>

(* queryFn: with no best certificate there is nothing to ask, which counts *)
(* as WORSE (or ends the comparison when the quarter has changed).         *)
CompareAsk(n, p) ==
  LET c == compare[n] IN
  /\ Running(n)
  /\ c.state = "ask"
  /\ p \in c.todo
  /\ IF bestMarker[n] # NoMarker
     THEN /\ compare' = [compare EXCEPT ![n] =
                          [state |-> "sent", cycle |-> c.cycle, todo |-> c.todo \ {p},
                           matched |-> c.matched, errors |-> c.errors,
                           peer |-> p, msg |-> MyBest(n)]]
          /\ UNCHANGED cacheOfCycleCerts
     ELSE IF QuarterChanged(n) \/ c.todo = {p}
     THEN EndCompare(n, c.errors)
     ELSE /\ compare' = [compare EXCEPT ![n].todo = @ \ {p}]
          /\ UNCHANGED cacheOfCycleCerts
  /\ UNCHANGED <<clock, creatorVars, chain, madeCycle, prevMarkerCached, bestVars, gossip>>

(* compareCycleCertEndpoint on the node asked: it improves its own best    *)
(* and answers with it, or with no certificates if it has none.            *)
CompareServe(n) ==
  LET c == compare[n]
      p == c.peer
  IN
  /\ c.state = "sent"
  /\ Running(p)
  /\ IF bestMarker[p] # NoMarker /\ ValidCerts(p, c.msg)
     THEN ImproveBestCert(p, c.msg)
     ELSE UNCHANGED bestVars
  /\ compare' = [compare EXCEPT ![n].state = "replied",
                                ![n].msg = Message(bestMarker'[p],
                                                   IF bestMarker[p] = NoMarker THEN <<>>
                                                   ELSE bestCycleCert'[p][bestMarker'[p]],
                                                   bestRecord'[p])]
  /\ UNCHANGED <<clock, creatorVars, chain, madeCycle, prevMarkerCached, cacheOfCycleCerts,
                 gossip>>

(* compareFn on the answer: ABORT, EQUAL, WORSE or BETTER.  An answer with *)
(* no certificates throws before compareFn sees it.                        *)
CompareReply(n) ==
  LET c     == compare[n]
      empty == c.msg.owners = <<>>
      same  == c.msg.marker = bestMarker[n]
  IN
  /\ Running(n)
  /\ c.state = "replied"
  /\ IF ~empty /\ ~QuarterChanged(n) /\ ~same /\ ValidCerts(n, c.msg)
     THEN ImproveBestCert(n, c.msg)
     ELSE UNCHANGED bestVars
  /\ CASE empty -> NextNode(n, c.matched, c.errors \cup {c.peer})
       [] ~empty /\ QuarterChanged(n) -> EndCompare(n, c.errors)
       [] ~empty /\ ~QuarterChanged(n) /\ same -> NextNode(n, c.matched + 1, c.errors)
       [] OTHER ->
            IF ValidCerts(n, c.msg) /\ Improves(n, c.msg)
            THEN /\ compare' = [compare EXCEPT ![n] = Pass(n, c.cycle)]
                 /\ UNCHANGED cacheOfCycleCerts
            ELSE NextNode(n, c.matched, c.errors)
  /\ UNCHANGED <<clock, creatorVars, chain, madeCycle, prevMarkerCached, gossip>>

(* The request or its answer is lost or times out, or the peer is gone.    *)
CompareFail(n) ==
  LET c == compare[n] IN
  /\ Running(n)
  /\ c.state \in {"sent", "replied"}
  /\ Lossy \/ ~Running(c.peer)
  /\ NextNode(n, c.matched, c.errors \cup {c.peer})
  /\ UNCHANGED <<clock, creatorVars, chain, madeCycle, prevMarkerCached, bestVars, gossip>>
-----------------------------------------------------------------------------
(* cycleCreator up to its first await: with a best record it is digested   *)
(* at once (in place: bestRecord is the object the chain now holds) and    *)
(* saved; without one the newest record is fetched.                        *)
StartCreator(n, history, record) ==
  /\ currentQuarter' = [currentQuarter EXCEPT ![n] = 0]
  /\ IF record = NoRecord
     THEN /\ creator' = [creator EXCEPT ![n] = "fetch"]
          /\ chain' = [chain EXCEPT ![n] = history]
          /\ bestRecord' = [bestRecord EXCEPT ![n] = NoRecord]
     ELSE /\ creator' = [creator EXCEPT ![n] = "save"]
          /\ IF Last(history).counter < record.counter
             THEN /\ chain' = [chain EXCEPT ![n] = Digested(history, record)]
                  /\ bestRecord' = [bestRecord EXCEPT ![n] = Patched(history, record)]
             ELSE /\ chain' = [chain EXCEPT ![n] = history]
                  /\ bestRecord' = [bestRecord EXCEPT ![n] = record]

CycleCreator(n) ==
  /\ Due(n, 5)
  /\ Fired(n, 5)
  /\ StartCreator(n, chain[n], bestRecord[n])
  /\ UNCHANGED <<clock, currentCycle, fetchFails, madeCycle, prevMarkerCached,
                 bestMarker, bestCycleCert, bestCertScore, compare, cacheOfCycleCerts, gossip>>

(* startCycles on a node that has just synced the chain of p.              *)
StartCycles(n, p) ==
  /\ creator[n] = "off"
  /\ Running(p)
  /\ StartCreator(n, chain[p], Newest(p))
  /\ madeCycle' = [madeCycle EXCEPT ![n] = TRUE]
  /\ UNCHANGED <<clock, timers, currentCycle, fetchFails, prevMarkerCached, bestMarker,
                 bestCycleCert, bestCertScore, compare, cacheOfCycleCerts, gossip>>

(* syncNewCycles: the records of p newer than ours, each digested if it    *)
(* fits on the one before (CycleChain.validate).                           *)
DigestNewer(history, record, since) ==
  IF record.counter > since /\ record.previous = Marker(Last(history))
  THEN Digested(history, record)
  ELSE history
MutantSynced(n, p) == chain[n] \o SubSeq(chain[p], Len(chain[n]), Len(chain[p]))
Synced(n, p) ==
  LET upTo[i \in 0 .. Len(chain[p])] ==
        IF i = 0 THEN chain[n]
        ELSE DigestNewer(upTo[i - 1], chain[p][i], Newest(n).counter)
  IN upTo[Len(chain[p])]

MutantFetchFailed(n) ==
  /\ creator' = [creator EXCEPT ![n] = "timer"]
  /\ UNCHANGED <<fetchFails, chain>>
FetchFailed(n) ==
  /\ fetchFails' = [fetchFails EXCEPT ![n] = @ + 1]
  /\ creator' = [creator EXCEPT ![n] = IF fetchFails[n] + 1 > MaxFetchFails THEN "gone" ELSE @]
  /\ UNCHANGED chain

(* fetchLatestRecord, asking p; without progress it is tried again after a *)
(* second, and too many failures make the node leave (apoptosizeSelf).     *)
FetchLatestRecord(n, p) ==
  /\ creator[n] = "fetch"
  /\ p \in Others(n)
  /\ Running(p)
  /\ IF Last(Synced(n, p)).counter > Newest(n).counter
     THEN /\ chain' = [chain EXCEPT ![n] = Synced(n, p)]
          /\ creator' = [creator EXCEPT ![n] = "save"]
          /\ fetchFails' = [fetchFails EXCEPT ![n] = 0]
     ELSE FetchFailed(n)
  /\ UNCHANGED <<clock, timers, currentCycle, currentQuarter, madeCycle, prevMarkerCached,
                 bestVars, compare, cacheOfCycleCerts, gossip>>

(* The fetch throws: no node answered.                                     *)
FetchError(n) ==
  /\ creator[n] = "fetch"
  /\ Lossy
  /\ FetchFailed(n)
  /\ UNCHANGED <<clock, timers, currentCycle, currentQuarter, madeCycle, prevMarkerCached,
                 bestVars, compare, cacheOfCycleCerts, gossip>>

(* What is scheduled when cycleCreator gets there: runQ1 if it is not a    *)
(* quarter late, the other quarters if their time is still to come, and    *)
(* cycleCreator itself however late it is.                                 *)
Scheduled(base) ==
  {q \in 1 .. 5 : clock < base + q - 1 \/ (q = 1 /\ clock = base) \/ q = 5}

(* After the write to the database cycleCreator sets the cycle and the     *)
(* quarter by the clock, resets, and schedules what is not yet past.       *)
StoredCycle(n) ==
  LET base == 4 * Newest(n).counter IN
  /\ creator[n] = "save"
  /\ creator' = [creator EXCEPT ![n] = "timer"]
  /\ currentCycle' = [currentCycle EXCEPT ![n] = (clock \div 4) + 1]
  /\ currentQuarter' = [currentQuarter EXCEPT ![n] = (clock % 4) + 1]
  /\ timers' = [timers EXCEPT ![n] = [base |-> base, pending |-> Scheduled(base)]]
  /\ madeCycle' = [madeCycle EXCEPT ![n] = FALSE]
  /\ bestRecord' = [bestRecord EXCEPT ![n] = NoRecord]
  /\ bestMarker' = [bestMarker EXCEPT ![n] = NoMarker]
  /\ bestCycleCert' = [bestCycleCert EXCEPT ![n] = <<>>]
  /\ bestCertScore' = [bestCertScore EXCEPT ![n] = <<>>]
  /\ UNCHANGED <<clock, fetchFails, chain, prevMarkerCached, compare, cacheOfCycleCerts, gossip>>
-----------------------------------------------------------------------------
(* The clock moves to the next quarter once everything due in this one has *)
(* run; what may outlast a quarter is the waiting of the nodes of Late,    *)
(* a comparison that finds no match and, if Lossy, messages and requests   *)
(* (a request never outlasts three quarters, so a comparison is over       *)
(* before the next one starts).  Gossip its receiver can only reject from  *)
(* now on is forgotten.                                                    *)
Settled(n) ==
  /\ \A q \in 1 .. 5 : ~Due(n, q)
  /\ creator[n] \in {"fetch", "save"} => n \in Late
  /\ Running(n) /\ compare[n].state # "idle" =>
       (Lossy \/ compare[n].state = "retry") /\ clock % 4 # 2

Tick ==
  /\ clock < MaxClock
  /\ \A n \in Node : Settled(n)
  /\ Lossy \/ gossip = {}
  /\ clock' = clock + 1
  /\ gossip' = {g \in gossip : g.msg.record.counter > Newest(g.to).counter}
  /\ UNCHANGED <<creatorVars, chain, madeCycle, prevMarkerCached, bestVars, compare,
                 cacheOfCycleCerts>>

(* The bound is reached and nothing of the last quarter is left to do.     *)
EndOfRun ==
  /\ clock = MaxClock
  /\ \A n \in Node : Settled(n)
  /\ UNCHANGED vars

CreatorStep(n) ==
  \/ RunQ1(n) \/ RunQ2(n) \/ RunQ3(n) \/ RunQ4(n) \/ CycleCreator(n) \/ StoredCycle(n)
  \/ \E p \in Node : FetchLatestRecord(n, p)
  \/ FetchError(n)

CompareStep(n) ==
  \/ \E p \in Node : CompareAsk(n, p)
  \/ CompareServe(n) \/ CompareReply(n) \/ CompareFail(n) \/ CompareRetry(n)

Next ==
  \/ \E n \in Node : CreatorStep(n) \/ CompareStep(n) \/ \E p \in Node : StartCycles(n, p)
  \/ \E g \in gossip : ReceiveGossip(g)
  \/ Tick
  \/ EndOfRun

Spec == Init /\ [][Next]_vars

(* Timers fire and awaits return or time out, so each of the two threads   *)
(* of a node goes on, and time passes even while a comparison is retried   *)
(* every 100 ms; that messages arrive before time goes on is what ~Lossy   *)
(* says.  Nothing makes a node join.                                       *)
FairSpec ==
  /\ Spec
  /\ \A n \in Node : WF_vars(CreatorStep(n)) /\ WF_vars(CompareStep(n))
  /\ WF_vars(\E g \in gossip : ReceiveGossip(g))
  /\ SF_vars(Tick)
-----------------------------------------------------------------------------
(* What the program promises.                                              *)

IsCertTable(table) ==
  \A m \in DOMAIN table :
    /\ table[m] \in Seq([owner : Node, score : Nat])
    /\ WellFormed(table[m])

(* The shape of the state, with the shape of bestCycleCert: the lists are  *)
(* short, sorted, and hold one certificate per owner, whatever order       *)
(* certificates arrive in.                                                 *)
TypeOK ==
  /\ clock \in Nat
  /\ creator \in [Node -> {"off", "timer", "fetch", "save", "gone"}]
  /\ timers \in [Node -> [base : Nat, pending : SUBSET (1 .. 5)]]
  /\ currentCycle \in [Node -> Nat]
  /\ currentQuarter \in [Node -> 0 .. 4]
  /\ madeCycle \in [Node -> BOOLEAN]
  /\ fetchFails \in [Node -> Nat]
  /\ \A n \in Node : IsCertTable(bestCycleCert[n])

(* improveBestCert: the record a node would digest is one no marker it     *)
(* knows certificates for beats, and bestCertScore is never stale.         *)
BestIsMax ==
  \A n \in Node :
    /\ DOMAIN bestCertScore[n] = DOMAIN bestCycleCert[n]
    /\ \A m \in DOMAIN bestCertScore[n] :
         /\ bestCertScore[n][m] = TotalScore(bestCycleCert[n][m])
         /\ bestCertScore[n][m] <= BestScore(n)

(* The certificates <<owner, marker>> under way and in the tables.         *)
GossipVotes == UNION { {<<g.msg.owners[i], g.msg.marker>> : i \in DOMAIN g.msg.owners} : g \in gossip }
TableVotes(n) ==
  UNION { {<<o, m>> : o \in Owners(bestCycleCert[n][m])} : m \in DOMAIN bestCycleCert[n] }
Votes == GossipVotes \cup (UNION {TableVotes(n) : n \in Node})

(* Every node's certificate for a cycle number, wherever it is stored or   *)
(* under way, is for one marker: a node never votes twice in a cycle       *)
(* (CycleCreator.ts:571, "A node can only sign one cycle_tx_hash").        *)
OneVotePerCycle ==
  \A v, w \in Votes : v[1] = w[1] /\ v[2][1].counter = w[2][1].counter => v[2] = w[2]

(* The chain of a node has no gap and no repetition, whether a record came *)
(* from its own cycle creation or from a sync.                             *)
ChainContiguous ==
  \A n \in Node : \A i \in DOMAIN chain[n] : chain[n][i].counter = i - 1

(* The chains of all nodes, as one ledger: module CycleLedger.             *)
Ledger == INSTANCE CycleLedger WITH MaxCycles <- MaxClock

(* Every record of a chain is built on the one before it                   *)
(* (docs/cycle-chain-overview.md, "previous: hash of the previous cycle"). *)
ChainLinked == Ledger!ChainLinked

(* Nodes agree: they never digest different records for the same cycle.    *)
NoFork == Ledger!NoFork

(* Scores are hashes of 28 or 32 bits: it is taken for granted that no two *)
(* lists of votes for different markers add up to the same total, nor one  *)
(* to nothing.                                                             *)
Ballots ==
  {b \in UNION {[1 .. k -> Active] : k \in 0 .. BEST_CERTS_WANTED} :
     \A i, j \in DOMAIN b : b[i] = b[j] => i = j}
Tally(b, epoch) ==
  TotalScore([i \in DOMAIN b |-> [owner |-> b[i], score |-> Score(b[i], epoch)]])
NoTies ==
  \A epoch \in (0 .. Epochs - 1) \X TxChoices : \A one, other \in Ballots :
    one # <<>> /\ (\A i \in DOMAIN one, j \in DOMAIN other : one[i] # other[j])
      => Tally(one, epoch) # Tally(other, epoch)

(* On a reliable network whose nodes keep up, cycle creation implements    *)
(* the single ledger of CycleLedger.                                       *)
ImplementsLedger == Ledger!Spec

(* The certificates kept for the archivers under a cycle number vouch for  *)
(* the record the node digested as that cycle (Archivers.ts:883 sends the  *)
(* two together, once cycleCreator has stored the record).                 *)
Unpatched(record) == [record EXCEPT !.lists = <<>>]
CachedCertsMatch ==
  \A n \in Node : creator[n] = "save" =>
    LET cycle == Newest(n).counter IN
    cycle \in DOMAIN cacheOfCycleCerts[n] =>
      cacheOfCycleCerts[n][cycle].marker = Marker(Unpatched(Newest(n)))

(* A node that takes part in cycle creation, however late it gets, either  *)
(* has the record of every cycle that is over or leaves the network.       *)
CatchesUpOrLeaves ==
  \A n \in Node : Running(n) ~> (Newest(n).counter = MaxClock \div 4 \/ creator[n] = "gone")
=============================================================================
