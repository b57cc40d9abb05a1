----------------------------- MODULE NetworkMode -----------------------------
(***************************************************************************)
(* The size of the network and its mode (p2p/Modes.ts, ModeSystemFuncs.ts, *)
(* CycleAutoScale.ts). Every record takes the mode, the desired and the    *)
(* target number of nodes from the record before it and from the node      *)
(* list; the same values say how many nodes are selected to join and how   *)
(* many are removed. Nodes are only counted here, `syncing` are all that   *)
(* are in the node list and not active. The target is a fraction: it is    *)
(* counted in hundredths of a node.                                        *)
(***************************************************************************)
EXTENDS Integers

CONSTANTS
  MinNodes, MaxNodes,       \* minNodes (baselineNodes is the same), maxNodes
  Extra,                    \* extraNodesToAddInRestart
  Forming,                  \* formingNodesPerCycle
  SyncMin,                  \* syncingDesiredMinCount
  Delta,                    \* flexibleRotationDelta
  FloorChoices,             \* the values of syncFloorEnabled to consider
  Pool,                     \* how many nodes there are, those on standby included
  MaxLost, MaxVotes         \* how many nodes are lost, or how often nodes vote to scale

NetworkNumbers ==
  /\ MinNodes \in Nat \ {0} /\ MaxNodes \in Nat /\ MinNodes <= MaxNodes
  /\ {Extra, Forming, SyncMin, Delta, Pool, MaxLost, MaxVotes} \subseteq Nat
  /\ FloorChoices \subseteq BOOLEAN
ASSUME NetworkAssumption == NetworkNumbers

VARIABLES
  floor,            \* syncFloorEnabled and flexibleRotationEnabled
  active, syncing,  \* the node list
  mode, desired, target, recorded, \* the newest record; recorded is its syncing,
  missed,           \* and missed the number of nodes it lists as lost
  losses, votes     \* so far
list == <<active, syncing>>
newest == <<mode, desired, target, recorded, missed>>
networkVars == <<floor, list, newest, losses, votes>>

Hundredth == 100
Least(a, b) == IF a <= b THEN a ELSE b
Most(a, b) == IF a >= b THEN a ELSE b
Ceiling(h) == -((-h) \div Hundredth)
CutTenth(h) == IF h >= 0 THEN h \div 10 ELSE -((-h) \div 10)

-----------------------------------------------------------------------------
(* Modes.ts.  Its thresholds are parts of minNodes. *)
EnterRecovery(n) == 4 * n < 3 * MinNodes
EnterShutdown(n) == 10 * n <= 3 * MinNodes
EnterSafety(n) == 4 * n >= 3 * MinNodes /\ 10 * n < 9 * MinNodes
EnterProcessing(n) == n >= MinNodes
EnterRestore(n) == n >= MinNodes + Extra

NextMode ==
  CASE mode \in {"forming", "restore"} /\ EnterProcessing(active) -> "processing"
    [] mode \in {"processing", "safety", "recovery"} /\ EnterShutdown(active) -> "shutdown"
    [] mode \in {"processing", "safety"} /\ ~EnterShutdown(active) /\ EnterRecovery(active) -> "recovery"
    [] mode = "processing" /\ EnterSafety(active) -> "safety"
    [] mode = "safety" /\ EnterProcessing(active) -> "processing"
    [] mode = "recovery" /\ ~EnterShutdown(active) /\ EnterRestore(active + recorded) -> "restore"
    [] mode = "restart" /\ EnterRestore(recorded) -> "restore"
    [] OTHER -> mode

-----------------------------------------------------------------------------
(* setAndGetTargetCount.  In processing the target follows the desired     *)
(* number by a tenth of the difference, at most a hundredth of the active  *)
(* nodes up and half of that down.  What is added is cut to a hundredth;   *)
(* in the code it is lost below the precision of a number.                 *)
Steady == ~EnterSafety(active) /\ ~EnterRecovery(active)
FormingTarget ==
  IF active < desired
  THEN Least(desired, active + Most(Forming, active \div 2))
  ELSE Most(desired, active - Most(1, (3 * active) \div 10))
Follow ==
  Most(-(active \div 2), Least(active, CutTenth(desired * Hundredth - target)))
RestartTarget == Least(desired + Extra, syncing + Most(Forming, syncing \div 2))

(* A bug: in recovery the target leaves out the nodes that restore waits   *)
(* for, as it does in safety.                                              *)
MutantNextTarget ==
  CASE mode = "forming" /\ active # desired -> FormingTarget * Hundredth
    [] mode = "processing" /\ Steady ->
         Most(MinNodes * Hundredth, Least(MaxNodes * Hundredth, target + Follow))
    [] mode \in {"safety", "restore", "recovery"} -> MinNodes * Hundredth
    [] mode = "restart" /\ syncing < desired + Extra -> RestartTarget * Hundredth
    [] mode = "shutdown" -> Forming * Hundredth
    [] OTHER -> target

NextTarget ==
  CASE mode = "forming" /\ active # desired -> FormingTarget * Hundredth
    [] mode = "processing" /\ Steady ->
         Most(MinNodes * Hundredth, Least(MaxNodes * Hundredth, target + Follow))
    [] mode \in {"safety", "restore"} -> MinNodes * Hundredth
    [] mode = "recovery" -> (MinNodes + Extra) * Hundredth
    [] mode = "restart" /\ syncing < desired + Extra -> RestartTarget * Hundredth
    [] mode = "shutdown" -> Forming * Hundredth
    [] OTHER -> target

(* _checkScaling, once the nodes have voted up or down.  setDesiredCount   *)
(* refuses a number below minNodes.                                        *)
ScaledUp ==
  LET grown == Least(Least(desired + 1, MaxNodes), (12 * active) \div 10)
  IN IF grown >= MinNodes THEN grown ELSE desired
ScaledDown == Most(desired - 1, MinNodes)
-----------------------------------------------------------------------------
(* calculateAddRemove.  maxRotatedPerCycle and rotationCountMultiply are   *)
(* 1, rotationCountAdd is 0; fewer than 2000 nodes are active.             *)
ToAccept(add, remove) == [add |-> add, remove |-> remove]

(* maintainSyncingFloor, clampMaxNodesToAdd, maintainSyncingCeiling        *)
Boosted(add, ceiling) ==
  LET floored == IF syncing < SyncMin THEN add + SyncMin - (syncing - add) ELSE add
  IN IF syncing > ceiling THEN 0
     ELSE IF 5 * floored > active THEN Most(1, active \div 5) ELSE floored

(* calculateFlexibleRotationRemovals; a bug: it rotates whatever the       *)
(* number of active nodes is.                                              *)
MutantFlexible(remove) == Most(remove, 1)
Flexible(remove) ==
  IF Delta + active - desired > 0 THEN Most(remove, Least(Delta + active - desired, 1)) ELSE remove

Shortage == target - (active + syncing) * Hundredth

FormingAccept ==
  IF active < 1 THEN ToAccept(Ceiling(target), 0)
  ELSE IF active # desired /\ Shortage > 0 THEN ToAccept(Ceiling(Shortage), 0)
  ELSE IF active # desired /\ Shortage < 0 /\ active * Hundredth > target
  THEN ToAccept(0, Ceiling(Most(Hundredth, Least(active * 10, active * Hundredth - target))))
  ELSE ToAccept(0, 0)

(* Too few nodes, even with those that sync; too many active ones; or too  *)
(* many only with those that sync.                                         *)
Growing ==
  LET add == IF 10 * Shortage > active * Hundredth THEN Most(1, active \div 10) ELSE Ceiling(Shortage)
  IN IF floor THEN ToAccept(Boosted(add, 2 * SyncMin), Flexible(0)) ELSE ToAccept(add, 0)
Shrinking ==
  LET excess == active * Hundredth - target
      remove == IF 20 * excess > active * Hundredth THEN Most(1, active \div 20) ELSE Ceiling(excess)
  IN IF floor THEN ToAccept(Boosted(0, 2 * SyncMin), Flexible(remove)) ELSE ToAccept(0, remove)
Waiting ==
  IF floor THEN ToAccept(Boosted(0, 2 * SyncMin), Flexible(0)) ELSE ToAccept(Most(0, 2 - syncing), 0)
Rotating ==
  IF floor THEN ToAccept(Boosted(0, 2 * SyncMin), Flexible(0)) ELSE ToAccept(1, 0)

ProcessingAccept ==
  CASE ~Steady -> ToAccept(0, 0)
    [] Steady /\ active = target \div Hundredth -> Rotating
    [] Steady /\ active # target \div Hundredth /\ Shortage > 0 -> Growing
    [] Steady /\ active # target \div Hundredth /\ Shortage < 0 ->
         IF active * Hundredth > target THEN Shrinking ELSE Waiting
    [] OTHER -> ToAccept(0, 0)

SafetyAccept ==
  LET short == 102 * MinNodes - (active + syncing) * Hundredth
      few == IF short > 5 * active THEN Most(1, active \div 20) * Hundredth ELSE short
  IN CASE EnterProcessing(active) \/ EnterRecovery(active) -> ToAccept(0, 0)
       [] ~(EnterProcessing(active) \/ EnterRecovery(active)) /\ floor ->
            ToAccept(Boosted(Most(0, MinNodes - (active + syncing)), 4 * SyncMin), 0)
       [] OTHER -> ToAccept(Most(0, Ceiling(few + missed * Hundredth)), 0)

RecoveryAccept ==
  LET total == active + syncing
      few == IF 5 * Shortage > total * Hundredth THEN Most(1, total \div 5) ELSE Ceiling(Shortage)
  IN CASE EnterShutdown(active) -> ToAccept(0, 0)
       [] ~EnterShutdown(active) /\ floor ->
            ToAccept(Boosted(Most(0, MinNodes - total), 4 * SyncMin), 0)
       [] OTHER -> ToAccept(Most(0, few), 0)

RestartAccept ==
  IF syncing < desired + Extra
  THEN ToAccept(Most(0, Ceiling(target) + Extra - syncing), 0) ELSE ToAccept(0, 0)

CalculateToAccept ==
  CASE mode = "forming" -> FormingAccept
    [] mode = "processing" -> ProcessingAccept
    [] mode = "safety" -> SafetyAccept
    [] mode = "recovery" -> RecoveryAccept
    [] mode = "restore" -> ToAccept(Most(0, Ceiling(Shortage)), 0)
    [] mode = "restart" -> RestartAccept
    [] OTHER -> ToAccept(0, 0)
-----------------------------------------------------------------------------
(* The first node is in the node list, and no other.                       *)
NetworkInit ==
  /\ floor \in FloorChoices
  /\ active = 0 /\ syncing = 1
  /\ mode = "forming" /\ desired = MinNodes /\ target = Forming * Hundredth /\ recorded = 0
  /\ missed = 0 /\ losses = 0 /\ votes = 0

(* selectNodesFromReadyList: while the network processes one node becomes  *)
(* active per cycle (allowActivePerCycle; activeRecoveryEnabled, which     *)
(* boosts it, is not set), otherwise all that are ready.  A node that waits for  *)
(* the network to be restored is not ready.                                *)
MayActivate ==
  CASE mode = "processing" -> Least(1, syncing)
    [] mode = "restart" -> 0
    [] OTHER -> syncing

(* A new record is made and digested.  Of the nodes that are selected some *)
(* join, of those that may be removed some have expired, and some nodes    *)
(* are lost.  A network that is shut down has no nodes; one that goes from *)
(* recovery to restore makes its active nodes sync again                   *)
(* (changeNodeListInRestore).                                              *)
Digest(activated, joined, removed, lost, lostSyncing) ==
  LET nowActive == active + activated - removed - lost
      nowSyncing == syncing + joined - activated - lostSyncing
      restored == mode = "recovery" /\ NextMode = "restore"
  IN IF NextMode = "shutdown" THEN active' = 0 /\ syncing' = 0
     ELSE IF restored THEN active' = 0 /\ syncing' = nowSyncing + nowActive
     ELSE active' = nowActive /\ syncing' = nowSyncing

Cycle(activated, joined, removed, lost, lostSyncing) ==
  /\ mode # "shutdown"
  /\ mode' = NextMode
  /\ target' = NextTarget
  /\ recorded' = syncing
  /\ missed' = lost
  /\ losses' = losses + lost + lostSyncing
  /\ Digest(activated, joined, removed, lost, lostSyncing)
  /\ \/ UNCHANGED <<desired, votes>>
     \/ /\ votes < MaxVotes /\ losses' = 0
        /\ votes' = votes + 1
        /\ desired' \in {ScaledUp, ScaledDown}
  /\ UNCHANGED floor

(* The network is started again from its last record by a first node.      *)
Restart ==
  /\ mode = "shutdown"
  /\ mode' = "restart"
  /\ target' = NextTarget
  /\ syncing' = 1
  /\ recorded' = 0
  /\ missed' = 0
  /\ UNCHANGED <<floor, active, desired, losses, votes>>

(* executeNodeSelection: an active node selects, or any node while the     *)
(* network restarts.  The nodes that sync again still count themselves as  *)
(* active, so only a first node that is alone does not select.             *)
Selected ==
  IF mode = "forming" /\ active = 0 THEN 0
  ELSE Least(CalculateToAccept.add, Most(0, Pool - active - syncing))

(* Some node is always left, an active one if there were any. A network    *)
(* either loses nodes or is scaled.                                        *)
CanLose(n, kept) ==
  IF votes > 0 THEN {0} ELSE 0 .. Most(0, Least(MaxLost - losses, n - kept))

AnyCycle ==
  \E activated \in 0 .. MayActivate, joined \in {0, Selected},
     removed \in 0 .. Least(CalculateToAccept.remove, active) :
    \E lost \in CanLose(active - removed, 1) :
      \E lostSyncing \in CanLose(syncing - activated, IF active = 0 THEN 1 ELSE 0) :
        /\ losses + lost + lostSyncing <= MaxLost
        /\ Cycle(activated, joined, removed, lost, lostSyncing)

(* A cycle in which all that are selected join, those that can become      *)
(* active do, and those that may be removed are.                           *)
FullCycle ==
  Cycle(IF mode = "recovery" THEN 0 ELSE MayActivate, Selected,
        Least(CalculateToAccept.remove, active), 0, 0)

NetworkNext == AnyCycle \/ Restart
NetworkSpec == NetworkInit /\ [][NetworkNext]_networkVars
NetworkFairness == WF_networkVars(FullCycle) /\ WF_networkVars(Restart)
-----------------------------------------------------------------------------
NetworkTypeOK ==
  /\ floor \in BOOLEAN
  /\ {active, syncing, recorded, missed, losses, votes} \subseteq Nat
  /\ mode \in {"forming", "processing", "safety", "recovery", "restart", "restore", "shutdown"}
  /\ desired \in MinNodes .. MaxNodes
  /\ target \in 0 .. (MaxNodes + Extra) * Hundredth

(* Whatever is lost, and even if the network shuts down, it comes back to  *)
(* processing transactions (updateRecord of Modes.ts, calculateAddRemove). *)
(* Not so with syncFloorEnabled after losses: in recovery it then adds     *)
(* nodes up to minNodes only, and waits for extraNodesToAddInRestart more. *)
Recovered == mode = "processing" \/ (floor /\ losses > 0)
Recovers == <>[]Recovered

(* Rotation and scaling never take a network below what it processes with: *)
(* only lost nodes do (calculateAddRemove, calculateFlexibleRotation-      *)
(* Removals). Its target must be one of processing: that of the last       *)
(* record of forming may still be below minNodes, and nodes be removed     *)
(* for it.                                                                 *)
KeepsSteady ==
  (/\ mode = "processing" /\ Steady /\ target >= MinNodes * Hundredth
   /\ losses' = losses) => Steady'
RotationSafe == [][KeepsSteady]_networkVars

(* "only remove the active nodes more than target" (ModeSystemFuncs.ts     *)
(* line 146): in the end the network has as many nodes as it wants.        *)
ReachesDesired == <>[](mode = "processing" => active >= desired)
=============================================================================
