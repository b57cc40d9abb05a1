------------------------------- MODULE Shards -------------------------------
(***************************************************************************)
(* shardFunctions: which node stores which accounts. Every node computes   *)
(* it by itself from the list of active nodes, once per cycle. The n       *)
(* active nodes, sorted by id, are 0 .. n-1; the address space is cut into *)
(* n partitions, and node h is at home in partition h. A node is in the    *)
(* consensus group of the partitions within `radius` of its home, and it   *)
(* stores those within radius + edge, around the circle of partitions.     *)
(*                                                                         *)
(* A range of partitions is its first and its last one; it is split when   *)
(* the first is the greater one, and has then two pieces (rangeIsSplit,    *)
(* partitionStart1, partitionEnd1, partitionStart2, partitionEnd2).        *)
(***************************************************************************)
EXTENDS Integers, Sequences

CONSTANTS
  AddressSpace,  \* number of address prefixes: 2^32 in the code
  MaxActive,     \* how many nodes are active, at most
  Groups, Edges  \* values of nodesPerConsensusGroup and nodesPerEdge to consider

(* A group has more than one node. There are many more addresses than      *)
(* partitions: with 2^32 there may be 53508 active nodes.                  *)
ShardLimits ==
  /\ MaxActive \in Nat \ {0} /\ AddressSpace \in Nat
  /\ 3 * MaxActive * (MaxActive + 1) <= 2 * AddressSpace
  /\ Groups \subseteq Nat \ {0, 1} /\ Edges \subseteq Nat
ASSUME ShardAssumption == ShardLimits

(* calculateShardGlobals *)
ShardGlobals(nodes, group, edge) ==
  [n |-> nodes, edge |-> edge,
   radius |-> ((IF group % 2 = 0 THEN group + 1 ELSE group) - 1) \div 2]
Sizes == [group : Groups, edge : Edges]
Globals(nodes, s) == ShardGlobals(nodes, s.group, s.edge)

(* Math.round(2^32 / numPartitions) *)
PartitionSize(n) == (2 * AddressSpace + n) \div (2 * n)

(* addressToPartition: rounding may leave a rest, which is of the last     *)
(* partition                                                               *)
AddressToPartition(n, a) ==
  LET p == a \div PartitionSize(n) IN IF p = n THEN n - 1 ELSE p

(* partitionToAddressRange2 *)
AddressRange(n, first, last) ==
  LET end == (last + 1) * PartitionSize(n) IN
  [low |-> first * PartitionSize(n),
   high |-> IF end >= AddressSpace - 1 - n THEN AddressSpace - 1 ELSE end - 1]

-----------------------------------------------------------------------------
(* Ranges of partitions *)

(* calculateParitionRange, calculatePartitionRangeInternal *)
PartitionRange(n, home, radius) ==
  LET start == (home - radius) % n
      end == (home + radius) % n
  IN IF n <= 2 * radius \/ (end < start /\ end + 1 = start)
     THEN [start |-> 0, end |-> n - 1]
     ELSE [start |-> start, end |-> end]

IsSplit(r) == r.end < r.start
Pieces(n, r) ==
  IF IsSplit(r) THEN <<[start |-> 0, end |-> r.end], [start |-> r.start, end |-> n - 1]>>
                ELSE <<r>>

(* testInRange *)
InRange(n, p, r) ==
  LET pieces == Pieces(n, r)
  IN \E i \in DOMAIN pieces : p \in pieces[i].start .. pieces[i].end

(* partitionRange, partitionRange2 *)
AddressPieces(n, r) ==
  LET pieces == Pieces(n, r)
  IN [i \in DOMAIN pieces |-> AddressRange(n, pieces[i].start, pieces[i].end)]

(* testAddressInRange *)
AddressInRange(n, a, r) ==
  LET pieces == AddressPieces(n, r)
  IN \E i \in DOMAIN pieces : a \in pieces[i].low .. pieces[i].high

StoredPartitions(g, home) == PartitionRange(g.n, home, g.radius + g.edge)
ConsensusPartitions(g, home) == PartitionRange(g.n, home, g.radius)

-----------------------------------------------------------------------------
(* The nodes of a partition, as the lists that getCombinedNodeLists makes: *)
(* a walk over the circle that starts where the storage group would.       *)
Walk(g, home) ==
  LET wanted == 2 * (g.radius + g.edge) + 1
  IN [i \in 1 .. (IF wanted > g.n THEN g.n ELSE wanted) |->
        (home - (g.radius + g.edge) + i - 1) % g.n]

(* consensusNodeForOurNodeFull, before it is sorted *)
ConsensusWalk(g, home) ==
  SelectSeq(Walk(g, home), LAMBDA p : p = home \/ InRange(g.n, p, ConsensusPartitions(g, home)))

AsSet(s) == {s[i] : i \in DOMAIN s}
ConsensusNodes(g, home) ==
  {p \in AsSet(Walk(g, home)) : p = home \/ InRange(g.n, p, ConsensusPartitions(g, home))}
MutantStorageNodes(g, home) ==
  {p \in AsSet(Tail(Walk(g, home))) : p = home \/ InRange(g.n, p, StoredPartitions(g, home))}
StorageNodes(g, home) ==
  {p \in AsSet(Walk(g, home)) : p = home \/ InRange(g.n, p, StoredPartitions(g, home))}
EdgeNodes(g, home) == StorageNodes(g, home) \ ConsensusNodes(g, home)

(* consensusStartPartition, consensusEndPartition *)
ConsensusStart(g, home) ==
  IF Len(ConsensusWalk(g, home)) >= 2 THEN ConsensusWalk(g, home)[1] ELSE home
ConsensusEnd(g, home) ==
  LET w == ConsensusWalk(g, home) IN IF Len(w) >= 2 THEN w[Len(w)] ELSE home

(* getConsenusPartitionList and getStoredPartitionList *)
PartitionList(n, first, last) ==
  IF first <= last THEN first .. last ELSE (0 .. last) \cup (first .. n - 1)

(* partitionInWrappingRange *)
InWrappingRange(p, min, max) ==
  CASE min = max -> p = min
    [] max > min -> p \in min .. max
    [] OTHER -> p <= max \/ p >= min

(* getNonParitionRanges: the ranges that are not covered *)
UncoveredRanges(n, start, end) ==
  CASE start = 0 /\ end = n - 1 -> {}
    [] start > end -> {<<end + 1, start - 1>>}
    [] end > start /\ start = 0 /\ end # n - 1 -> {<<end + 1, n - 1>>}
    [] end > start /\ start # 0 /\ end = n - 1 -> {<<0, start - 1>>}
    [] end > start /\ start # 0 /\ end # n - 1 -> {<<0, start - 1>>, <<end + 1, n - 1>>}

-----------------------------------------------------------------------------
(* computeCoverageChanges: the addresses a node has to fetch when its      *)
(* storage range changes from r, of a cycle of m nodes, to s, of a cycle   *)
(* of n nodes. Ranges are compared piece by piece; what expands beyond the *)
(* old piece counts, as far as no old piece covers it.                     *)

Overlap(a, b) == ~(b.low >= a.high \/ b.high <= a.low)   \* setOverlap

(* setEpandedLeft, setEpandedRight *)
Expansions(a, b) ==
  {c \in {[low |-> b.low, high |-> a.low], [low |-> a.high, high |-> b.high]} : c.low < c.high}

ComparedPieces(old, new) ==
  CASE Len(old) = 2 /\ Len(new) = 2 -> {<<1, 1>>, <<2, 2>>}
    [] Len(old) = 2 /\ Len(new) = 1 -> IF Overlap(old[1], new[1]) THEN {<<1, 1>>} ELSE {<<2, 1>>}
    [] Len(old) = 1 /\ Len(new) = 2 -> {<<1, 1>>, <<1, 2>>}
    [] OTHER -> {<<1, 1>>}

(* what is left of a change when an old piece is taken away *)
MutantWithout(c, piece) ==
  IF ~Overlap(piece, c) THEN c ELSE [low |-> piece.high, high |-> c.high]
Without(c, piece) ==
  IF ~Overlap(piece, c) THEN c
  ELSE [low |-> IF piece.low <= c.low THEN piece.high ELSE c.low,
        high |-> IF piece.high >= c.high THEN piece.low ELSE c.high]

CoverageChanges(m, r, n, s) ==
  LET old == AddressPieces(m, r)
      new == AddressPieces(n, s)
      found == UNION {Expansions(old[c[1]], new[c[2]]) :
                        c \in {x \in ComparedPieces(old, new) : Overlap(old[x[1]], new[x[2]])}}
      once(c) == Without(c, old[1])
      twice(c) == IF Len(old) = 2 /\ once(c).low < once(c).high THEN Without(once(c), old[2])
                                                               ELSE once(c)
  IN {c \in {twice(d) : d \in found} : c.low < c.high}
=============================================================================
