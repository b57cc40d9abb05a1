---------------------------- MODULE ShardStorage ----------------------------
(***************************************************************************)
(* One node while others join and leave around it: which addresses it      *)
(* stores, and of which it has the data (calculateChangeInCoverage of      *)
(* state-manager/index.ts). The node computes the first from the list of   *)
(* active nodes (Shards), and fetches what is new with every list.         *)
(***************************************************************************)
EXTENDS Shards, FiniteSets

VARIABLES
  lower, upper,  \* how many active nodes have a lower, and a higher id than ours
  sizes,         \* nodesPerConsensusGroup and nodesPerEdge
  stocked        \* the addresses whose data our node has
coverageVars == <<lower, upper, sizes, stocked>>

Active == lower + upper + 1
Addresses == 0 .. AddressSpace - 1
Span(c) == c.low .. c.high

(* nodeShardData.storedPartitions of our node, and the addresses in it     *)
Stored(nodes, home) == StoredPartitions(Globals(nodes, sizes), home)
Covered(nodes, home) ==
  LET pieces == AddressPieces(nodes, Stored(nodes, home))
  IN UNION {Span(pieces[i]) : i \in DOMAIN pieces}
OurRange == Stored(Active, lower)
OurAddresses == Covered(Active, lower)

CoverageInit ==
  /\ lower \in 0 .. MaxActive - 1
  /\ upper \in 0 .. MaxActive - 1 - lower
  /\ sizes \in Sizes
  /\ stocked = OurAddresses

(* calculateChangeInCoverage: what computeCoverageChanges lists is fetched *)
(* by sync trackers. What the node did not store before it got no          *)
(* transactions for.                                                       *)
Fetched(l, u) ==
  UNION {Span(c) : c \in CoverageChanges(Active, OurRange, l + u + 1, Stored(l + u + 1, l))}

(* A cycle in which at most one node joins or leaves on either side.       *)
NextCycle(l, u) ==
  /\ l + u + 1 <= MaxActive
  /\ lower' = l
  /\ upper' = u
  /\ stocked' = (stocked \cup Fetched(l, u)) \cap Covered(l + u + 1, l)
  /\ UNCHANGED sizes

CoverageNext ==
  \E l \in {lower - 1, lower, lower + 1} \cap Nat, u \in {upper - 1, upper, upper + 1} \cap Nat :
    NextCycle(l, u)
CoverageSpec == CoverageInit /\ [][CoverageNext]_coverageVars
-----------------------------------------------------------------------------
(* Every address has one home partition, its partitions' address ranges    *)
(* leave no gap, and a node finds the same answer whether it asks for the  *)
(* address or for its home partition, walks the circle, or lists the       *)
(* partitions it does not have (addressToPartition, partitionToAddress-    *)
(* Range2, testAddressInRange, testInRange, getNonParitionRanges).         *)
AddressesOwned ==
  LET n == Active
      r == OurRange
      listed == PartitionList(n, r.start, r.end)
  IN /\ \A a \in Addresses :
          LET p == AddressToPartition(n, a) IN
          /\ {q \in 0 .. n - 1 : a \in Span(AddressRange(n, q, q))} = {p}
          /\ AddressInRange(n, a, r) <=> InRange(n, p, r)
     /\ \A p \in 0 .. n - 1 :
          /\ p \in listed <=> InRange(n, p, r)
          /\ p \in listed <=> InWrappingRange(p, r.start, r.end)
          /\ p \in listed <=> \A u \in UncoveredRanges(n, r.start, r.end) : p \notin u[1] .. u[2]

(* The nodes our node expects to store its home partition are those that   *)
(* think they do, each by its own range (getCombinedNodeLists and          *)
(* calculateStoredPartitions2).                                            *)
StorersAgree ==
  LET g == Globals(Active, sizes) IN
  \A h \in 0 .. Active - 1 :
    /\ h \in StorageNodes(g, lower) <=> InRange(Active, lower, StoredPartitions(g, h))
    /\ h \in ConsensusNodes(g, lower) <=> InRange(Active, lower, ConsensusPartitions(g, h))

(* All parts of a node that compute who stores what agree.                 *)
StorageAgrees == AddressesOwned /\ StorersAgree

(* A node that starts to store an address gets its data: it is in a change *)
(* of computeCoverageChanges. Not so when the new range is split and the   *)
(* old one was not, see NothingMissing.                                    *)
GrowthIsFetched ==
  (/\ <<lower, upper>>' # <<lower, upper>>
   /\ ~(IsSplit(OurRange)' /\ ~IsSplit(OurRange)))
     => OurAddresses' \ OurAddresses \subseteq stocked'
GrowthFetched == [][GrowthIsFetched]_coverageVars

(* "If no overlap then entire value is a difference"                       *)
(* (shardFunctions.ts:1034): a node has the data of all it stores.         *)
NothingMissing == stocked = OurAddresses
=============================================================================
