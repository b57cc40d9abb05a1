---------------------------- MODULE MCAlgorithms ----------------------------
(***************************************************************************)
(* The algorithms of the protocol that need no messages, over bounded      *)
(* inputs. The initial state chooses which one a behaviour exercises:      *)
(*                                                                         *)
(*   "certs"   the certificates a node keeps for one marker (MarkerCerts); *)
(*   "shards"  one node while others join and leave around it (Shards):    *)
(*             which addresses it stores, and for which it has the data;   *)
(*   "tell"    one transaction (FactTell): the nodes that have its         *)
(*             accounts tell the data, those that execute it the result;   *)
(*   "network" the numbers of nodes and the mode of a network that loses   *)
(*             nodes (NetworkMode).                                        *)
(***************************************************************************)
EXTENDS MarkerCerts, ShardStorage, FactTell, NetworkMode, TLC

VARIABLE part
vars == <<part, markerVars, coverageVars, tellVars, networkVars>>

NoTx ==
  [size |-> 0, storers |-> <<>>, executors |-> {}, span |-> [start |-> 0, end |-> 0],
   wrapped |-> {}, correspondingGlobalOffset |-> 0]

IdleCerts == scoreOf = [v \in Voter |-> 1] /\ bestCerts = <<>> /\ arrived = {}
IdleShards == lower = 0 /\ upper = 0 /\ sizes = (CHOOSE s \in Sizes : TRUE) /\ stocked = {}
IdleTell == tx = NoTx /\ informed = {}
IdleNetwork ==
  /\ floor = FALSE /\ mode = "processing" /\ active = 0 /\ syncing = 0 /\ desired = 0
  /\ target = 0 /\ recorded = 0 /\ missed = 0 /\ losses = 0 /\ votes = 0

(***************************************************************************)
(* certs                                                                   *)
(***************************************************************************)
InitCerts ==
  /\ part = "certs" /\ IdleShards /\ IdleTell /\ IdleNetwork
  /\ MarkerInit

(***************************************************************************)
(* shards                                                                  *)
(***************************************************************************)
InitShards ==
  /\ part = "shards" /\ IdleCerts /\ IdleTell /\ IdleNetwork
  /\ CoverageInit

(***************************************************************************)
(* tell                                                                    *)
(***************************************************************************)
InitTell ==
  /\ part = "tell" /\ IdleCerts /\ IdleShards /\ IdleNetwork
  /\ TellInit

(***************************************************************************)
(* network                                                                 *)
(***************************************************************************)
InitNetwork ==
  /\ part = "network" /\ IdleCerts /\ IdleShards /\ IdleTell
  /\ NetworkInit

Others == UNCHANGED <<part, markerVars, coverageVars, tellVars>>
MakeFullCycle == part = "network" /\ FullCycle /\ Others
StartAgain == part = "network" /\ Restart /\ Others
-----------------------------------------------------------------------------
Init == InitCerts \/ InitShards \/ InitTell \/ InitNetwork

Next ==
  \/ /\ part = "certs" /\ MarkerNext
     /\ UNCHANGED <<part, coverageVars, tellVars, networkVars>>
  \/ /\ part = "shards" /\ CoverageNext
     /\ UNCHANGED <<part, markerVars, tellVars, networkVars>>
  \/ /\ part = "tell" /\ TellAccounts
     /\ UNCHANGED <<part, markerVars, coverageVars, networkVars>>
  \/ part = "network" /\ AnyCycle /\ Others
  \/ StartAgain

(* A network goes on making records, and in the end some of them in which  *)
(* all that are selected join; one that is shut down is started again.     *)
Spec == Init /\ [][Next]_vars /\ WF_vars(MakeFullCycle) /\ WF_vars(StartAgain)
=============================================================================
