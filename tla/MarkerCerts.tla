----------------------------- MODULE MarkerCerts -----------------------------
(***************************************************************************)
(* The certificates of one marker as they arrive at one node               *)
(* (improveBestCert of p2p/CycleCreator.ts): every node has voted for the   *)
(* marker, and each message brings votes, in any order, repeated and       *)
(* overlapping. Nothing else changes the list until the cycle is over.     *)
(***************************************************************************)
EXTENDS CertTable, FiniteSets

CONSTANTS Voter, MaxScore
ASSUME ScoreAssumption == MaxScore \in Nat

VARIABLES
  scoreOf,   \* what the node gives each voter's certificate (scoreCert)
  bestCerts, \* the list
  arrived      \* whose votes have come
markerVars == <<scoreOf, bestCerts, arrived>>

CertsOf(voters) == [i \in DOMAIN voters |-> [owner |-> voters[i], score |-> scoreOf[voters[i]]]]

MarkerInit ==
  /\ scoreOf \in [Voter -> 1 .. MaxScore]
  /\ bestCerts = <<>>
  /\ arrived = {}

(* What a node gossips: its own certificate, or its list for the marker.   *)
VoteLists ==
  {v \in UNION {[1 .. k -> Voter] : k \in 1 .. BEST_CERTS_WANTED} :
     \A i, j \in DOMAIN v : i # j => v[i] # v[j]}

Receive(voters) ==
  /\ bestCerts' = Merge(bestCerts, CertsOf(voters))
  /\ arrived' = arrived \cup {voters[i] : i \in DOMAIN voters}
  /\ UNCHANGED scoreOf

MarkerNext == \E voters \in VoteLists : Receive(voters)
MarkerSpec == MarkerInit /\ [][MarkerNext]_markerVars

(* Whatever the order of arrival, no list that could be kept of the        *)
(* certificates ever received for the marker has a greater total: losing   *)
(* the rest (splice) and refusing repeated owners never costs anything     *)
(* (improveBestCert).                                                      *)
BestThree ==
  /\ WellFormed(bestCerts)
  /\ \A i \in DOMAIN bestCerts :
       bestCerts[i].owner \in arrived /\ bestCerts[i].score = scoreOf[bestCerts[i].owner]
  /\ \A voters \in VoteLists :
       Owners(CertsOf(voters)) \subseteq arrived /\ WellFormed(CertsOf(voters))
         => TotalScore(CertsOf(voters)) <= TotalScore(bestCerts)
=============================================================================
