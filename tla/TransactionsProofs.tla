------------------------- MODULE TransactionsProofs -------------------------
(***************************************************************************)
(* For any nodes, groups, accounts and transactions, and whatever messages *)
(* are late, lost, repeated or out of order: two receipts of a transaction *)
(* never differ, no node votes before the older transactions in its queue  *)
(* are done with the accounts, and, if a majority of each group missed     *)
(* nothing, the copies of an account are moments of one history in which   *)
(* all that has passed stays.                                              *)
(*                                                                         *)
(* Receipts: a node votes once, because it has left the states before its  *)
(* vote for good; each receipt has more than two thirds of the group       *)
(* behind it, so two of them have a voter in common.  Order: in a pass a   *)
(* node has seen the accounts of all it has walked past and not finished.  *)
(* Copies: what is committed, saved or repaired is what the majority says, *)
(* and nothing newer is settled on a node before what it may still commit. *)
(***************************************************************************)
EXTENDS Transactions, FiniteSetTheorems, TLAPS

Fields == DOMAIN NewEntry
Results == {"receipt", "final"}
Early == {"none", "pending", "aging", "processing", "awaiting data"}

(* Who voted for a proposal, by the messages M.                            *)
Voters(M, t, p) == {n \in Exec[t] : Vote(t, n, p) \in M}

(* The remote members of the group are enough for a receipt: they sent it, *)
(* and no votes.                                                           *)
Elected(t) == Cardinality(Remote \cap Exec[t]) > MajorityCount(t)

VotesSent ==
  \A m \in msgs : m.type = "vote" =>
    /\ m.tx \in Tx /\ m.from \in Exec[m.tx] /\ m = Vote(m.tx, m.from, m.hash)
    /\ m.from \in Node => entry[m.from][m.tx].ourVote = m.hash /\ entry[m.from][m.tx].state \notin Early
    /\ m.from \in Remote =>
         /\ ~Elected(m.tx)
         /\ \A k \in msgs : k.type = "vote" /\ k.tx = m.tx /\ k.from = m.from => k.hash = m.hash

ResultsBacked ==
  \A m \in msgs : m.type \in Results =>
    /\ m.tx \in Tx
    /\ Elected(m.tx) =>
         \A k \in msgs : k.type \in Results /\ k.tx = m.tx => k.proposal = m.proposal
    /\ ~Elected(m.tx) => Cardinality(Voters(msgs, m.tx, m.proposal)) > MajorityCount(m.tx)

(* What a node keeps of them.                                              *)
IsVote(M, t, v) ==
  v = [from |-> v.from, hash |-> v.hash] /\ v.from \in Exec[t] /\ Vote(t, v.from, v.hash) \in M
IsResult(M, t, p) == \E m \in M : m.type \in Results /\ m.tx = t /\ m.proposal = p

EntryInv(M, n, t, e) ==
  /\ DOMAIN e = Fields
  /\ e.state = "awaiting data" => n \in Exec[t]
  /\ \A v \in e.votes : IsVote(M, t, v)
  /\ e.signedReceipt # NoProposal => IsResult(M, t, e.signedReceipt)

Shaped == DOMAIN entry = Node /\ \A n \in Node : DOMAIN entry[n] = Tx

EntriesOK == Shaped /\ \A n \in Node, t \in Tx : EntryInv(msgs, n, t, entry[n][t])

Addressed == \A m \in msgs : m.tx \in Tx

VoteInv == Addressed /\ VotesSent /\ ResultsBacked /\ EntriesOK
-----------------------------------------------------------------------------
LEMMA TwoThirds ==
  ASSUME NEW k \in Nat
  PROVE  CeilTwoThirds(k) \in Nat /\ 3 * CeilTwoThirds(k) >= 2 * k
BY DEF CeilTwoThirds

LEMMA MajorityIsTwoThirds ==
  ASSUME NEW t \in Tx
  PROVE  /\ IsFiniteSet(Exec[t]) /\ Cardinality(Exec[t]) \in Nat
         /\ MajorityCount(t) \in Nat /\ 3 * MajorityCount(t) >= 2 * Cardinality(Exec[t])
<1>1. IsFiniteSet(Exec[t]) /\ Cardinality(Exec[t]) \in Nat
  BY GroupAssumption, FS_Subset, FS_CardinalityType
<1> QED BY <1>1, TwoThirds DEF MajorityCount

(* Two sets of more than two thirds of the group have a common member.     *)
LEMMA QuorumsMeet ==
  ASSUME NEW t \in Tx, NEW S \in SUBSET Exec[t], NEW T \in SUBSET Exec[t],
         Cardinality(S) > MajorityCount(t), Cardinality(T) > MajorityCount(t)
  PROVE  S \cap T # {}
<1>1. /\ IsFiniteSet(Exec[t]) /\ Cardinality(Exec[t]) \in Nat
      /\ MajorityCount(t) \in Nat /\ 3 * MajorityCount(t) >= 2 * Cardinality(Exec[t])
  BY MajorityIsTwoThirds
<1>2. Cardinality(S) \in Nat /\ Cardinality(T) \in Nat
  BY <1>1, FS_Subset, FS_CardinalityType
<1>3. Cardinality(S) + Cardinality(T) > Cardinality(Exec[t])
  BY <1>1, <1>2
<1> QED BY <1>1, <1>3, FS_MajoritiesIntersect

(* A group that has its receipt from remote members makes no other.        *)
LEMMA ElectedNoOther ==
  ASSUME VotesSent, NEW t \in Tx, Elected(t), NEW p
  PROVE  ~(Cardinality(Voters(msgs, t, p)) > MajorityCount(t))
<1>1. SUFFICES ASSUME Cardinality(Voters(msgs, t, p)) > MajorityCount(t) PROVE FALSE
  OBVIOUS
<1>2. Voters(msgs, t, p) \in SUBSET Exec[t] /\ Remote \cap Exec[t] \in SUBSET Exec[t]
  BY DEF Voters
<1>3. PICK n \in Voters(msgs, t, p) : n \in Remote \cap Exec[t]
  BY <1>1, <1>2, QuorumsMeet DEF Elected
<1>4. Vote(t, n, p) \in msgs
  BY <1>3 DEF Voters
<1>5. Vote(t, n, p).type = "vote" /\ Vote(t, n, p).tx = t /\ Vote(t, n, p).from = n
  BY DEF Vote
<1> QED BY <1>3, <1>4, <1>5 DEF VotesSent

LEMMA MoreVoters ==
  ASSUME NEW t \in Tx, NEW M, NEW N, M \subseteq N, NEW p,
         Cardinality(Voters(M, t, p)) > MajorityCount(t)
  PROVE  Cardinality(Voters(N, t, p)) > MajorityCount(t)
<1>1. Voters(M, t, p) \subseteq Voters(N, t, p) /\ Voters(N, t, p) \subseteq Exec[t]
  BY DEF Voters
<1>2. IsFiniteSet(Voters(N, t, p)) /\ MajorityCount(t) \in Nat
  BY <1>1, MajorityIsTwoThirds, FS_Subset
<1>3. /\ Cardinality(Voters(M, t, p)) <= Cardinality(Voters(N, t, p))
      /\ Cardinality(Voters(M, t, p)) \in Nat /\ Cardinality(Voters(N, t, p)) \in Nat
  BY <1>1, <1>2, FS_Subset, FS_CardinalityType
<1> QED BY <1>2, <1>3

(* tryProduceReceipt counts votes of different owners.                     *)
LEMMA WinsBacked ==
  ASSUME NEW t \in Tx, NEW votes, \A v \in votes : IsVote(msgs, t, v), NEW p, Wins(t, votes, p)
  PROVE  Cardinality(Voters(msgs, t, p)) > MajorityCount(t)
<1> DEFINE V == Voters(msgs, t, p)
           W == {[from |-> n, hash |-> p] : n \in V}
           f == [n \in V |-> [from |-> n, hash |-> p]]
<1>1. IsFiniteSet(V) /\ MajorityCount(t) \in Nat
  BY MajorityIsTwoThirds, FS_Subset DEF Voters
<1>2. f \in Surjection(V, W)
  BY DEF Surjection
<1>3. IsFiniteSet(W) /\ Cardinality(W) <= Cardinality(V)
  BY <1>1, <1>2, FS_Surjection
<1>4. VotesFor(votes, p) \subseteq W
  BY DEF VotesFor, IsVote, Voters
<1>5. Cardinality(VotesFor(votes, p)) <= Cardinality(W)
  BY <1>3, <1>4, FS_Subset
<1>6. Cardinality(VotesFor(votes, p)) \in Nat /\ Cardinality(W) \in Nat /\ Cardinality(V) \in Nat
  BY <1>1, <1>3, <1>4, FS_Subset, FS_CardinalityType
<1>7. Cardinality(VotesFor(votes, p)) > MajorityCount(t)
  BY DEF Wins
<1> QED BY <1>1, <1>3, <1>5, <1>6, <1>7

LEMMA BecomeFields ==
  ASSUME Shaped, NEW n \in Node, NEW t \in Tx, NEW e, Become(n, t, e)
  PROVE  /\ Shaped' /\ entry'[n][t] = e
         /\ \A k \in Node, u \in Tx : k # n \/ u # t => entry'[k][u] = entry[k][u]
BY DEF Shaped, Become

LEMMA MoreMessages ==
  ASSUME NEW M, NEW N, M \subseteq N, NEW n, NEW t, NEW e, EntryInv(M, n, t, e)
  PROVE  EntryInv(N, n, t, e)
BY DEF EntryInv, IsVote, IsResult

-----------------------------------------------------------------------------
(* What a step of one entry may do: a node that has voted is past the      *)
(* states before its vote, with the same vote, and a message that is new   *)
(* carries data, the vote of the node, or what is known or won.            *)
Frozen(o, e) == o.state \notin Early => e.state \notin Early /\ e.ourVote = o.ourVote

Sendable(n, t, o, e, m) ==
  \/ m.type = "data" /\ m.tx = t
  \/ m = Vote(t, n, e.ourVote) /\ o.state \in Early /\ e.state \notin Early /\ n \in Exec[t]
  \/ /\ m.type \in Results /\ m.tx = t
     /\ \/ IsResult(msgs, t, m.proposal)
        \/ Cardinality(Voters(msgs, t, m.proposal)) > MajorityCount(t)

LEMMA StepVotes ==
  ASSUME VotesSent, EntriesOK, NEW n \in Node, NEW t \in Tx, NEW e, Become(n, t, e),
         Frozen(entry[n][t], e), msgs \subseteq msgs',
         \A m \in msgs' \ msgs : Sendable(n, t, entry[n][t], e, m)
  PROVE  VotesSent'
<1>1. /\ entry'[n][t] = e
      /\ \A k \in Node, u \in Tx : k # n \/ u # t => entry'[k][u] = entry[k][u]
  BY BecomeFields DEF EntriesOK
<1>2. ASSUME NEW m \in msgs' \ msgs, m.type = "vote"
      PROVE  /\ m = Vote(t, n, e.ourVote) /\ entry[n][t].state \in Early /\ e.state \notin Early
             /\ n \in Exec[t]
  BY <1>2 DEF Sendable, Results
<1>3. ASSUME NEW m \in msgs', m.type = "vote"
      PROVE  /\ m.tx \in Tx /\ m.from \in Exec[m.tx] /\ m = Vote(m.tx, m.from, m.hash)
             /\ m.from \in Node =>
                  entry'[m.from][m.tx].ourVote = m.hash /\ entry'[m.from][m.tx].state \notin Early
  <2>1. CASE m \in msgs
    BY <1>1, <1>3, <2>1 DEF VotesSent, Frozen
  <2>2. CASE m \notin msgs
    <3>1. m = Vote(t, n, e.ourVote) /\ e.state \notin Early /\ n \in Exec[t]
      BY <1>2, <1>3, <2>2
    <3>2. m.tx = t /\ m.from = n /\ m.hash = e.ourVote
      BY <3>1 DEF Vote
    <3> QED BY <1>1, <3>1, <3>2
  <2> QED BY <2>1, <2>2
<1>4. ASSUME NEW m \in msgs', m.type = "vote", m.from \in Remote
      PROVE  m \in msgs
  <2>1. SUFFICES ASSUME m \notin msgs PROVE FALSE
    OBVIOUS
  <2>2. m = Vote(t, n, e.ourVote)
    BY <1>2, <1>4, <2>1
  <2>3. m.from = n
    BY <2>2 DEF Vote
  <2> QED BY <1>4, <2>3, GroupAssumption
<1>5. ASSUME NEW m \in msgs', m.type = "vote", m.from \in Remote
      PROVE  /\ ~Elected(m.tx)
             /\ \A k \in msgs' : k.type = "vote" /\ k.tx = m.tx /\ k.from = m.from => k.hash = m.hash
  BY <1>4, <1>5 DEF VotesSent
<1>6. \A u : Elected(u)' = Elected(u)
  BY DEF Elected, MajorityCount
<1> QED BY <1>3, <1>5, <1>6 DEF VotesSent, Vote

LEMMA StepResults ==
  ASSUME VotesSent, ResultsBacked, NEW n \in Node, NEW t \in Tx, NEW e, NEW o,
         msgs \subseteq msgs', \A m \in msgs' \ msgs : Sendable(n, t, o, e, m)
  PROVE  ResultsBacked'
<1>1. ASSUME NEW m \in msgs' \ msgs, m.type \in Results
      PROVE  /\ m.tx = t
             /\ \/ IsResult(msgs, t, m.proposal)
                \/ Cardinality(Voters(msgs, t, m.proposal)) > MajorityCount(t)
  BY <1>1 DEF Sendable, Results, Vote
<1>2. ASSUME NEW m \in msgs', m.type \in Results
      PROVE  m.tx \in Tx
  BY <1>1, <1>2 DEF ResultsBacked
<1>3. ASSUME NEW m \in msgs', m.type \in Results, Elected(m.tx)
      PROVE  IsResult(msgs, m.tx, m.proposal)
  <2>1. CASE m \in msgs
    BY <1>3, <2>1 DEF IsResult
  <2>2. CASE m \notin msgs
    BY <1>1, <1>3, <2>2, ElectedNoOther
  <2> QED BY <2>1, <2>2
<1>4. ASSUME NEW m \in msgs', m.type \in Results, Elected(m.tx),
             NEW k \in msgs', k.type \in Results, k.tx = m.tx
      PROVE  k.proposal = m.proposal
  <2>1. IsResult(msgs, m.tx, m.proposal) /\ IsResult(msgs, m.tx, k.proposal)
    BY <1>3, <1>4
  <2> QED BY <1>4, <2>1 DEF IsResult, ResultsBacked
<1>5. ASSUME NEW m \in msgs', m.type \in Results, ~Elected(m.tx)
      PROVE  Cardinality(Voters(msgs', m.tx, m.proposal)) > MajorityCount(m.tx)
  <2>1. Cardinality(Voters(msgs, m.tx, m.proposal)) > MajorityCount(m.tx)
    <3>1. IsResult(msgs, m.tx, m.proposal)
          \/ Cardinality(Voters(msgs, m.tx, m.proposal)) > MajorityCount(m.tx)
      BY <1>1, <1>5 DEF IsResult
    <3> QED BY <1>5, <3>1 DEF IsResult, ResultsBacked
  <2> QED BY <1>2, <1>5, <2>1, MoreVoters
<1>6. \A u : Elected(u)' = Elected(u) /\ MajorityCount(u)' = MajorityCount(u)
  BY DEF Elected, MajorityCount
<1>7. \A u, p : Voters(msgs, u, p)' = Voters(msgs', u, p)
  BY DEF Voters, Vote
<1> QED BY <1>2, <1>4, <1>5, <1>6, <1>7 DEF ResultsBacked

LEMMA StepKeeps ==
  ASSUME VoteInv, NEW n \in Node, NEW t \in Tx, NEW e, Become(n, t, e),
         Frozen(entry[n][t], e), EntryInv(msgs', n, t, e), msgs \subseteq msgs',
         \A m \in msgs' \ msgs : Sendable(n, t, entry[n][t], e, m)
  PROVE  VoteInv'
<1>1. VotesSent'
  BY StepVotes DEF VoteInv
<1>2. ResultsBacked'
  BY StepResults DEF VoteInv
<1>3. Shaped' /\ \A k \in Node, u \in Tx : EntryInv(msgs', k, u, entry'[k][u])
  <2>1. /\ Shaped' /\ entry'[n][t] = e
        /\ \A k \in Node, u \in Tx : k # n \/ u # t => entry'[k][u] = entry[k][u]
    BY BecomeFields DEF VoteInv, EntriesOK
  <2>2. \A k \in Node, u \in Tx : EntryInv(msgs', k, u, entry[k][u])
    BY MoreMessages DEF VoteInv, EntriesOK
  <2> QED BY <2>1, <2>2
<1>4. Addressed'
  BY DEF VoteInv, Addressed, Sendable, Vote
<1> QED BY <1>1, <1>2, <1>3, <1>4 DEF VoteInv, EntriesOK

(* A step that neither votes nor takes a vote or a receipt.                *)
Quiet(n, t, o, e) ==
  /\ DOMAIN e = Fields
  /\ e.votes = o.votes /\ e.ourVote = o.ourVote /\ e.signedReceipt = o.signedReceipt
  /\ o.state \notin Early => e.state \notin Early
  /\ e.state = "awaiting data" => o.state = "awaiting data" \/ n \in Exec[t]

LEMMA QuietKeeps ==
  ASSUME VoteInv, NEW n \in Node, NEW t \in Tx, NEW e, Become(n, t, e),
         Quiet(n, t, entry[n][t], e), msgs \subseteq msgs',
         \A m \in msgs' \ msgs : m.type = "data" /\ m.tx = t
  PROVE  VoteInv'
<1>1. EntryInv(msgs, n, t, entry[n][t])
  BY DEF VoteInv, EntriesOK
<1>2. EntryInv(msgs, n, t, e)
  BY <1>1 DEF EntryInv, Quiet
<1>3. EntryInv(msgs', n, t, e)
  BY <1>2, MoreMessages
<1>4. Frozen(entry[n][t], e) /\ \A m \in msgs' \ msgs : Sendable(n, t, entry[n][t], e, m)
  BY DEF Quiet, Frozen, Sendable
<1> QED BY <1>3, <1>4, StepKeeps

LEMMA FieldNames ==
  Fields = {"state", "collected", "ourVote", "votes", "newVotes", "signedReceipt",
            "collectedFinalData", "repair"}
BY DEF Fields, NewEntry

LEMMA EntryShape ==
  ASSUME VoteInv, NEW n \in Node, NEW t \in Tx
  PROVE  DOMAIN entry[n][t] = Fields /\ EntryInv(msgs, n, t, entry[n][t])
BY DEF VoteInv, EntriesOK, EntryInv

(* The steps of a pass that only move the entry.                           *)
LEMMA MoveKeeps ==
  ASSUME VoteInv, NEW n \in Node, NEW t \in Tx, NEW s, MoveTo(n, t, s),
         entry[n][t].state \notin Early => s \notin Early,
         s = "awaiting data" => entry[n][t].state = "awaiting data"
  PROVE  VoteInv'
<1> DEFINE o == entry[n][t]
           e == [o EXCEPT !.state = s]
<1>1. Become(n, t, e) /\ msgs' = msgs
  BY DEF MoveTo
<1>2. Quiet(n, t, o, e)
  BY EntryShape, FieldNames DEF Quiet
<1> QED BY <1>1, <1>2, QuietKeeps

LEMMA MovesKeep ==
  ASSUME VoteInv, NEW n \in Node, NEW t \in Tx,
         \/ PassAging(n, t) \/ PassNoData(n, t) \/ PassTooNew(n, t) \/ PassStuck(n, t)
         \/ PassRepair(n, t)
  PROVE  VoteInv'
<1>1. CASE PassAging(n, t)
  BY <1>1, MoveKeeps DEF PassAging, At, Early
<1>2. CASE PassNoData(n, t)
  <2>1. entry[n][t].state = "awaiting data"
    BY <1>2 DEF PassNoData, At
  <2>2. PICK s \in {"await final data", "awaiting data"} : MoveTo(n, t, s)
    BY <1>2 DEF PassNoData
  <2> QED BY <2>1, <2>2, MoveKeeps DEF Early
<1>3. CASE PassTooNew(n, t)
  BY <1>3, MoveKeeps DEF PassTooNew, At, Early
<1>4. CASE PassStuck(n, t)
  BY <1>4, MoveKeeps DEF PassStuck, At, Early
<1>5. CASE PassRepair(n, t)
  <2>1. entry[n][t].state = "await repair"
    BY <1>5 DEF PassRepair, At
  <2>2. PICK s : MoveTo(n, t, s) /\ s \in {"pass", "fail", "await repair"}
    BY <1>5 DEF PassRepair
  <2> QED BY <2>1, <2>2, MoveKeeps DEF Early
<1> QED BY <1>1, <1>2, <1>3, <1>4, <1>5

(* A step that leaves entries and messages alone.                          *)
LEMMA SameKeeps ==
  ASSUME VoteInv, UNCHANGED <<entry, msgs>>
  PROVE  VoteInv'
<1>1. VotesSent'
  BY DEF VoteInv, VotesSent, Elected, MajorityCount, Vote
<1>2. ResultsBacked'
  BY DEF VoteInv, ResultsBacked, Elected, MajorityCount, Voters, Vote
<1>3. Shaped' /\ \A n \in Node, t \in Tx : EntryInv(msgs', n, t, entry'[n][t])
  BY DEF VoteInv, EntriesOK, Shaped
<1>4. Addressed'
  BY DEF VoteInv, Addressed
<1> QED BY <1>1, <1>2, <1>3, <1>4 DEF VoteInv, EntriesOK

LEMMA TellKeeps ==
  ASSUME VoteInv, NEW n \in Node, NEW t \in Tx, PassTell(n, t)
  PROVE  VoteInv'
<1> DEFINE o == entry[n][t]
           s == IF n \in Exec[t] THEN "awaiting data" ELSE "consensing"
           e == [o EXCEPT !.collected = Collected(n, t), !.state = s]
<1>1. Become(n, t, e) /\ msgs' = msgs \cup {DataMessage(t, a, store[n][a]) : a \in Keys[t] \cap Stores[n]}
      /\ o.state = "processing"
  BY DEF PassTell, At
<1>2. \A m \in msgs' \ msgs : m.type = "data" /\ m.tx = t
  BY <1>1 DEF DataMessage
<1>3. Quiet(n, t, o, e)
  BY <1>1, EntryShape, FieldNames DEF Quiet, Early
<1> QED BY <1>1, <1>2, <1>3, QuietKeeps

LEMMA NoReceiptKeeps ==
  ASSUME VoteInv, NEW n \in Node, NEW t \in Tx, PassNoReceipt(n, t)
  PROVE  VoteInv'
<1> DEFINE o == entry[n][t]
           e == [o EXCEPT !.newVotes = @ /\ (o.ourVote = NoProposal
                                            \/ Cardinality(o.votes) < MajorityCount(t))]
<1>1. Become(n, t, e) /\ msgs' = msgs
  BY DEF PassNoReceipt
<1>2. Quiet(n, t, o, e)
  BY EntryShape, FieldNames DEF Quiet
<1> QED BY <1>1, <1>2, QuietKeeps

LEMMA AfterReceiptKeeps ==
  ASSUME VoteInv, NEW n \in Node, NEW t \in Tx, PassReceipt(n, t)
  PROVE  VoteInv'
<1> DEFINE o == entry[n][t]
           e == AfterReceipt(n, t, o)
<1>1. Become(n, t, e) /\ msgs' = msgs
  BY DEF PassReceipt
<1>2. Quiet(n, t, o, e)
  BY EntryShape, FieldNames DEF Quiet, AfterReceipt, Early
<1> QED BY <1>1, <1>2, QuietKeeps

LEMMA StoredKeeps ==
  ASSUME VoteInv, NEW n \in Node, NEW t \in Tx, Committed(n, t) \/ SavedFinal(n, t)
  PROVE  VoteInv'
<1> DEFINE o == entry[n][t]
<1>1. PICK s \in {"pass", "fail"} : Become(n, t, [o EXCEPT !.state = s]) /\ msgs' = msgs
  BY DEF Committed, SavedFinal
<1>2. Quiet(n, t, o, [o EXCEPT !.state = s])
  BY EntryShape, FieldNames DEF Quiet, Early
<1> QED BY <1>1, <1>2, QuietKeeps

LEMMA HandlersKeep ==
  ASSUME VoteInv, NEW n \in Node, NEW t \in Tx,
         Queue(n, t) \/ RequestFinalData(n, t) \/ Repair(n, t)
  PROVE  VoteInv'
<1> DEFINE o == entry[n][t]
<1>0. DOMAIN o = Fields
  BY EntryShape
<1>1. CASE Queue(n, t)
  <2>1. Become(n, t, [o EXCEPT !.state = "pending"]) /\ msgs' = msgs /\ o.state = "none"
    BY <1>1 DEF Queue, Become
  <2>2. Quiet(n, t, o, [o EXCEPT !.state = "pending"])
    BY <1>0, <2>1, FieldNames DEF Quiet, Early
  <2> QED BY <2>1, <2>2, QuietKeeps
<1>2. CASE RequestFinalData(n, t)
  <2> DEFINE e == [o EXCEPT !.collectedFinalData = AddFinal(@, o.signedReceipt.after)]
  <2>1. Become(n, t, e) /\ msgs' = msgs
    BY <1>2 DEF RequestFinalData, Become
  <2>2. Quiet(n, t, o, e)
    BY <1>0, FieldNames DEF Quiet
  <2> QED BY <2>1, <2>2, QuietKeeps
<1>3. CASE Repair(n, t)
  <2>1. PICK r \in {"finished", "failed"} : Become(n, t, [o EXCEPT !.repair = r]) /\ msgs' = msgs
    BY <1>3 DEF Repair, Repaired, RepairFails, Become
  <2>2. Quiet(n, t, o, [o EXCEPT !.repair = r])
    BY <1>0, FieldNames DEF Quiet
  <2> QED BY <2>1, <2>2, QuietKeeps
<1> QED BY <1>1, <1>2, <1>3

(* A vote is counted with its owner's name.                                *)
LEMMA AppendFields ==
  ASSUME NEW o, DOMAIN o = Fields, NEW v
  PROVE  LET e == Append(o, v) IN
         /\ DOMAIN e = Fields /\ e.votes = o.votes \cup {[from |-> v.from, hash |-> v.hash]}
         /\ e.state = o.state /\ e.ourVote = o.ourVote /\ e.signedReceipt = o.signedReceipt
BY FieldNames DEF Append

LEMMA HearVoteKeeps ==
  ASSUME VoteInv, NEW n \in Node, NEW m \in msgs, m.tx \in Tx, ReceiveVote(n, m)
  PROVE  VoteInv'
<1> DEFINE t == m.tx
           o == entry[n][t]
           e == Append(o, m)
<1>1. Become(n, t, e) /\ msgs' = msgs /\ m.type = "vote"
  BY DEF ReceiveVote, Become
<1>2. DOMAIN o = Fields /\ EntryInv(msgs, n, t, o)
  BY EntryShape
<1>3. /\ DOMAIN e = Fields /\ e.votes = o.votes \cup {[from |-> m.from, hash |-> m.hash]}
      /\ e.state = o.state /\ e.ourVote = o.ourVote /\ e.signedReceipt = o.signedReceipt
  BY <1>2, AppendFields
<1>4. m.from \in Exec[t] /\ Vote(t, m.from, m.hash) \in msgs
  BY <1>1 DEF VoteInv, VotesSent
<1> HIDE DEF e
<1>5. \A v \in e.votes : IsVote(msgs, t, v)
  <2>1. IsVote(msgs, t, [from |-> m.from, hash |-> m.hash])
    BY <1>4 DEF IsVote
  <2> QED BY <1>2, <1>3, <2>1 DEF EntryInv
<1>6. EntryInv(msgs', n, t, e)
  BY <1>1, <1>2, <1>3, <1>5 DEF EntryInv
<1>7. Frozen(o, e)
  BY <1>3 DEF Frozen
<1> QED BY <1>1, <1>6, <1>7, StepKeeps

LEMMA ShareKeeps ==
  ASSUME VoteInv, NEW n \in Node, NEW t \in Tx, NEW p, Share(n, t, p),
         entry[n][t].state = "awaiting data"
  PROVE  VoteInv'
<1> DEFINE o == entry[n][t]
           d == [o EXCEPT !.state = "consensing", !.ourVote = p]
           v == Vote(t, n, p)
           e == Append(d, v)
<1>1. Become(n, t, e) /\ msgs' = msgs \cup {v}
  BY DEF Share
<1>2. DOMAIN o = Fields /\ EntryInv(msgs, n, t, o) /\ n \in Exec[t]
  BY EntryShape DEF EntryInv
<1>3. /\ DOMAIN d = Fields /\ d.votes = o.votes /\ d.state = "consensing" /\ d.ourVote = p
      /\ d.signedReceipt = o.signedReceipt
  BY <1>2, FieldNames
<1> HIDE DEF d
<1>4. v.from = n /\ v.hash = p
  BY DEF Vote
<1> HIDE DEF v
<1>5. /\ DOMAIN e = Fields /\ e.votes = o.votes \cup {[from |-> n, hash |-> p]}
      /\ e.state = "consensing" /\ e.ourVote = p /\ e.signedReceipt = o.signedReceipt
  <2>1. /\ DOMAIN e = Fields /\ e.votes = d.votes \cup {[from |-> v.from, hash |-> v.hash]}
        /\ e.state = d.state /\ e.ourVote = d.ourVote /\ e.signedReceipt = d.signedReceipt
    BY <1>3, AppendFields
  <2> QED BY <1>3, <1>4, <2>1
<1> HIDE DEF e
<1> USE DEF v
<1>6. EntryInv(msgs', n, t, e)
  <2>1. EntryInv(msgs', n, t, o)
    BY <1>1, <1>2, MoreMessages
  <2>2. IsVote(msgs', t, [from |-> n, hash |-> p])
    BY <1>1, <1>2 DEF IsVote
  <2> QED BY <1>2, <1>5, <2>1, <2>2 DEF EntryInv
<1>7. Frozen(o, e)
  BY DEF Frozen, Early
<1>8. \A m \in msgs' \ msgs : Sendable(n, t, o, e, m)
  BY <1>1, <1>2, <1>5 DEF Sendable, Early
<1> QED BY <1>1, <1>6, <1>7, <1>8, StepKeeps

(* A receipt, or final data, that is taken.                                *)
LEMMA TakenFields ==
  ASSUME NEW o, DOMAIN o = Fields, NEW p, NEW e,
         \/ e = [o EXCEPT !.signedReceipt = p]
         \/ e = [o EXCEPT !.signedReceipt = IF @ = NoProposal THEN p ELSE @,
                          !.collectedFinalData = AddFinal(@, p.after)]
  PROVE  /\ DOMAIN e = Fields /\ e.votes = o.votes /\ e.state = o.state
         /\ e.ourVote = o.ourVote /\ e.signedReceipt \in {o.signedReceipt, p}
BY FieldNames

LEMMA ResultFields ==
  ASSUME NEW t, NEW p, NEW k, NEW m \in {Receipt(t, p, k)} \cup FinalMessages(t, p, k)
  PROVE  m.type \in Results /\ m.tx = t /\ m.proposal = p
BY DEF Receipt, FinalMessages, Results

LEMMA TakeKeeps ==
  ASSUME VoteInv, NEW n \in Node, NEW m \in msgs, m.tx \in Tx, m.type \in Results,
         NEW e, Become(n, m.tx, e),
         \/ e = [entry[n][m.tx] EXCEPT !.signedReceipt = m.proposal]
         \/ e = [entry[n][m.tx] EXCEPT
                   !.signedReceipt = IF @ = NoProposal THEN m.proposal ELSE @,
                   !.collectedFinalData = AddFinal(@, m.proposal.after)],
         \/ msgs' = msgs
         \/ msgs' = msgs \cup FinalMessages(m.tx, m.proposal, m.signatures)
  PROVE  VoteInv'
<1> DEFINE t == m.tx
           o == entry[n][t]
<1>1. DOMAIN o = Fields /\ EntryInv(msgs, n, t, o)
  BY EntryShape
<1>2. /\ DOMAIN e = Fields /\ e.votes = o.votes /\ e.state = o.state
      /\ e.ourVote = o.ourVote /\ e.signedReceipt \in {o.signedReceipt, m.proposal}
  BY <1>1, TakenFields
<1>3. IsResult(msgs, t, m.proposal)
  BY DEF IsResult
<1>4. msgs \subseteq msgs'
  OBVIOUS
<1>5. EntryInv(msgs', n, t, e)
  <2>1. EntryInv(msgs, n, t, e)
    BY <1>1, <1>2, <1>3 DEF EntryInv
  <2> QED BY <1>4, <2>1, MoreMessages
<1>6. Frozen(o, e)
  BY <1>2 DEF Frozen
<1>7. \A k \in msgs' \ msgs : Sendable(n, t, o, e, k)
  BY <1>3, ResultFields DEF Sendable
<1> QED BY <1>4, <1>5, <1>6, <1>7, StepKeeps

LEMMA HearResultKeeps ==
  ASSUME VoteInv, NEW n \in Node, NEW m \in msgs, m.tx \in Tx,
         ReceiveGossip(n, m) \/ ReceiveReceipt(n, m) \/ ReceiveFinal(n, m)
  PROVE  VoteInv'
<1>1. CASE ReceiveGossip(n, m) \/ ReceiveReceipt(n, m)
  <2>1. /\ Become(n, m.tx, [entry[n][m.tx] EXCEPT !.signedReceipt = m.proposal])
        /\ m.type \in Results
    BY <1>1 DEF ReceiveGossip, ReceiveReceipt, Become, Results
  <2>2. \/ msgs' = msgs
        \/ msgs' = msgs \cup FinalMessages(m.tx, m.proposal, m.signatures)
    BY <1>1 DEF ReceiveGossip, ReceiveReceipt
  <2> QED BY <2>1, <2>2, TakeKeeps
<1>2. CASE ReceiveFinal(n, m)
  <2>1. /\ Become(n, m.tx, [entry[n][m.tx] EXCEPT
              !.signedReceipt = IF @ = NoProposal THEN m.proposal ELSE @,
              !.collectedFinalData = AddFinal(@, m.proposal.after)])
        /\ m.type \in Results /\ msgs' = msgs
    BY <1>2 DEF ReceiveFinal, Become, Results
  <2> QED BY <2>1, TakeKeeps
<1> QED BY <1>1, <1>2

LEMMA HearDataKeeps ==
  ASSUME VoteInv, NEW n \in Node, NEW m \in msgs, m.tx \in Tx, ReceiveData(n, m)
  PROVE  VoteInv'
<1> DEFINE t == m.tx
           o == entry[n][t]
           e == [o EXCEPT !.collected = AddData(@, m.account, m.data)]
<1>1. Become(n, t, e) /\ msgs' = msgs
  BY DEF ReceiveData, Become
<1>2. Quiet(n, t, o, e)
  BY EntryShape, FieldNames DEF Quiet
<1> QED BY <1>1, <1>2, QuietKeeps

LEMMA ProduceKeeps ==
  ASSUME VoteInv, NEW n \in Node, NEW t \in Tx, PassProduce(n, t)
  PROVE  VoteInv'
<1> DEFINE o == entry[n][t]
           p == o.ourVote
           k == Cardinality(VotesFor(o.votes, p))
           sent == {Receipt(t, p, k)} \cup FinalMessages(t, p, k)
<1>1. PICK s \in {"commiting", "fail"} :
        Become(n, t, [o EXCEPT !.newVotes = FALSE, !.signedReceipt = p, !.state = s])
  BY DEF PassProduce
<1> DEFINE e == [o EXCEPT !.newVotes = FALSE, !.signedReceipt = p, !.state = s]
<1>2. msgs' = msgs \cup sent /\ Wins(t, o.votes, p)
  BY DEF PassProduce, Produces
<1>3. DOMAIN o = Fields /\ EntryInv(msgs, n, t, o)
  BY EntryShape
<1>4. /\ DOMAIN e = Fields /\ e.votes = o.votes /\ e.ourVote = o.ourVote /\ e.signedReceipt = p
      /\ e.state = s
  BY <1>3, FieldNames
<1>5. Become(n, t, e)
  BY <1>1
<1> HIDE DEF e
<1>6. Cardinality(Voters(msgs, t, p)) > MajorityCount(t)
  BY <1>2, <1>3, WinsBacked DEF EntryInv
<1> HIDE DEF k
<1>7. IsResult(msgs', t, p)
  BY <1>2, ResultFields DEF IsResult
<1>8. EntryInv(msgs', n, t, e)
  <2>1. EntryInv(msgs', n, t, o)
    BY <1>2, <1>3, MoreMessages
  <2> QED BY <1>4, <1>7, <2>1 DEF EntryInv
<1>9. Frozen(o, e)
  BY <1>4 DEF Frozen, Early
<1>10. \A m \in msgs' \ msgs : Sendable(n, t, o, e, m)
  <2>1. SUFFICES ASSUME NEW m \in sent PROVE Sendable(n, t, o, e, m)
    BY <1>2
  <2>2. m.type \in Results /\ m.tx = t /\ m.proposal = p
    BY ResultFields
  <2> QED BY <1>6, <2>2 DEF Sendable
<1>11. msgs \subseteq msgs'
  BY <1>2
<1> QED BY <1>5, <1>8, <1>9, <1>10, <1>11, StepKeeps

LEMMA InsertKeeps ==
  ASSUME VoteInv, NEW n \in Node, InsertPending(n)
  PROVE  VoteInv'
<1>1. /\ Shaped' /\ msgs' = msgs
      /\ \A k \in Node, t \in Tx : entry'[k][t] =
           IF k = n /\ entry[k][t].state = "pending"
           THEN [entry[k][t] EXCEPT !.state = Inserted(t)] ELSE entry[k][t]
  BY DEF InsertPending, VoteInv, EntriesOK, Shaped
<1>2. ASSUME NEW k \in Node, NEW t \in Tx
      PROVE  /\ entry'[k][t].ourVote = entry[k][t].ourVote
             /\ entry[k][t].state \notin Early => entry'[k][t] = entry[k][t]
             /\ EntryInv(msgs', k, t, entry'[k][t])
  <2>1. DOMAIN entry[k][t] = Fields /\ EntryInv(msgs, k, t, entry[k][t])
    BY EntryShape
  <2>2. CASE k = n /\ entry[k][t].state = "pending"
    <3> DEFINE e == [entry[k][t] EXCEPT !.state = Inserted(t)]
    <3>1. entry'[k][t] = e
      BY <1>1, <2>2
    <3>2. /\ DOMAIN e = Fields /\ e.votes = entry[k][t].votes /\ e.ourVote = entry[k][t].ourVote
          /\ e.signedReceipt = entry[k][t].signedReceipt /\ e.state # "awaiting data"
      BY <2>1, FieldNames DEF Inserted
    <3> HIDE DEF e
    <3> QED BY <1>1, <2>1, <2>2, <3>1, <3>2 DEF EntryInv, Early
  <2>3. CASE ~(k = n /\ entry[k][t].state = "pending")
    BY <1>1, <2>1, <2>3
  <2> QED BY <2>2, <2>3
<1>3. VotesSent'
  BY <1>1, <1>2 DEF VoteInv, VotesSent, Elected, MajorityCount, Vote
<1>4. ResultsBacked'
  BY <1>1 DEF VoteInv, ResultsBacked, Elected, MajorityCount, Voters, Vote
<1>5. Addressed'
  BY <1>1 DEF VoteInv, Addressed
<1> QED BY <1>1, <1>2, <1>3, <1>4, <1>5 DEF VoteInv, EntriesOK

-----------------------------------------------------------------------------
(* What the remote nodes sent: their votes, or their receipt.              *)
LEMMA RemoteVotes ==
  ASSUME NEW t \in Tx, NEW p
  PROVE  Cardinality({Vote(t, r, p) : r \in Remote \cap Exec[t]}) = Cardinality(Remote \cap Exec[t])
<1> DEFINE S == Remote \cap Exec[t]
           T == {Vote(t, r, p) : r \in S}
           f == [r \in S |-> Vote(t, r, p)]
<1>1. IsFiniteSet(S)
  BY MajorityIsTwoThirds, FS_Subset
<1>2. f \in Surjection(S, T)
  BY DEF Surjection
<1>3. f \in Injection(S, T)
  BY DEF Injection, IsInjective, Vote
<1> HIDE DEF f
<1> QED BY <1>1, <1>2, <1>3, FS_Surjection

LEMMA RemoteFields ==
  ASSUME NEW t \in Tx, NEW data, NEW m \in RemoteMessages(t, data)
  PROVE  /\ m.tx = t
         /\ \/ m.type = "data"
            \/ ~Elected(t) /\ \E r \in Remote \cap Exec[t] : m = Vote(t, r, RemoteProposal(t, data))
            \/ Elected(t) /\ m.type \in Results /\ m.proposal = RemoteProposal(t, data)
<1> DEFINE p == RemoteProposal(t, data)
           votes == {Vote(t, r, p) : r \in Remote \cap Exec[t]}
           k == Cardinality(votes)
<1>1. k = Cardinality(Remote \cap Exec[t])
  BY RemoteVotes
<1>2. \/ m \in {DataMessage(t, a, data[a]) : a \in Keys[t]}
      \/ k > MajorityCount(t) /\ m \in {Receipt(t, p, k)} \cup FinalMessages(t, p, k)
      \/ ~(k > MajorityCount(t)) /\ m \in votes
  BY DEF RemoteMessages
<1> HIDE DEF p, k
<1>3. CASE m \in {DataMessage(t, a, data[a]) : a \in Keys[t]}
  BY <1>3 DEF DataMessage
<1>4. CASE k > MajorityCount(t) /\ m \in {Receipt(t, p, k)} \cup FinalMessages(t, p, k)
  BY <1>1, <1>4, ResultFields DEF Elected, p
<1>5. CASE ~(k > MajorityCount(t)) /\ m \in votes
  <2>1. PICK r \in Remote \cap Exec[t] : m = Vote(t, r, p)
    BY <1>5
  <2>2. m.tx = t
    BY <2>1 DEF Vote
  <2> QED BY <1>1, <1>5, <2>1, <2>2 DEF Elected, p
<1> QED BY <1>2, <1>3, <1>4, <1>5

LEMMA VoteInit ==
  ASSUME Init
  PROVE  VoteInv
<1>1. PICK held \in Initial : msgs = UNION {RemoteMessages(t, Ideal(t, held)) : t \in Tx}
  BY DEF Init
<1> DEFINE P(t) == RemoteProposal(t, Ideal(t, held))
<1>2. ASSUME NEW m \in msgs
      PROVE  /\ m.tx \in Tx
             /\ \/ m.type = "data"
                \/ ~Elected(m.tx) /\ \E r \in Remote \cap Exec[m.tx] : m = Vote(m.tx, r, P(m.tx))
                \/ Elected(m.tx) /\ m.type \in Results /\ m.proposal = P(m.tx)
  <2>1. PICK t \in Tx : m \in RemoteMessages(t, Ideal(t, held))
    BY <1>1
  <2> QED BY <2>1, RemoteFields
<1> HIDE DEF P
<1>3. Addressed
  BY <1>2 DEF Addressed
<1>4. VotesSent
  <2>1. ASSUME NEW m \in msgs, m.type = "vote"
        PROVE  ~Elected(m.tx) /\ \E r \in Remote \cap Exec[m.tx] : m = Vote(m.tx, r, P(m.tx))
    BY <1>2, <2>1 DEF Results
  <2>2. ASSUME NEW m \in msgs, m.type = "vote"
        PROVE  m.from \in Remote \cap Exec[m.tx] /\ m.hash = P(m.tx) /\ m = Vote(m.tx, m.from, m.hash)
    <3>1. PICK r \in Remote \cap Exec[m.tx] : m = Vote(m.tx, r, P(m.tx))
      BY <2>1, <2>2
    <3>2. m.from = r /\ m.hash = P(m.tx)
      BY <3>1 DEF Vote
    <3> QED BY <3>1, <3>2
  <2> QED BY <1>2, <2>1, <2>2, GroupAssumption DEF VotesSent
<1>5. ResultsBacked
  <2>1. ASSUME NEW m \in msgs, m.type \in Results
        PROVE  Elected(m.tx) /\ m.proposal = P(m.tx)
    BY <1>2, <2>1 DEF Results, Vote
  <2> QED BY <1>2, <2>1 DEF ResultsBacked
<1>6. EntriesOK
  <2>1. Shaped /\ \A n \in Node, t \in Tx :
                    entry[n][t] \in {NewEntry, [NewEntry EXCEPT !.state = "aging"]}
    BY DEF Init, Shaped
  <2>2. ASSUME NEW e \in {NewEntry, [NewEntry EXCEPT !.state = "aging"]}
        PROVE  /\ DOMAIN e = Fields /\ e.votes = {} /\ e.signedReceipt = NoProposal
               /\ e.state # "awaiting data"
    <3>1. CASE e = NewEntry
      BY <3>1 DEF NewEntry, Fields
    <3>2. CASE e = [NewEntry EXCEPT !.state = "aging"]
      BY <3>2 DEF NewEntry, Fields
    <3> QED BY <2>2, <3>1, <3>2
  <2> QED BY <2>1, <2>2 DEF EntriesOK, EntryInv
<1> QED BY <1>3, <1>4, <1>5, <1>6 DEF VoteInv

LEMMA VoteStep ==
  ASSUME VoteInv, [Next]_vars
  PROVE  VoteInv'
<1>1. CASE UNCHANGED vars \/ Tick
  BY <1>1, SameKeeps DEF vars, Tick
<1>2. ASSUME NEW n \in Node, InsertPending(n)
      PROVE  VoteInv'
  BY <1>2, InsertKeeps
<1>3. ASSUME NEW n \in Node, NEW m \in msgs, Hear(n, m)
      PROVE  VoteInv'
  <2>1. m.tx \in Tx
    BY DEF VoteInv, Addressed
  <2> QED BY <1>3, <2>1, HearDataKeeps, HearVoteKeeps, HearResultKeeps DEF Hear
<1>4. ASSUME NEW n \in Node, NEW t \in Tx, Queue(n, t) \/ RequestFinalData(n, t) \/ Repair(n, t)
      PROVE  VoteInv'
  BY <1>4, HandlersKeep
<1>5. ASSUME NEW n \in Node, NEW t \in Tx, Handle(n, t)
      PROVE  VoteInv'
  <2>1. CASE PassBlocked(n, t)
    BY <2>1, SameKeeps DEF PassBlocked
  <2>2. CASE \/ PassAging(n, t) \/ PassNoData(n, t) \/ PassTooNew(n, t) \/ PassStuck(n, t)
             \/ PassRepair(n, t)
    BY <2>2, MovesKeep
  <2>3. CASE PassTell(n, t)
    BY <2>3, TellKeeps
  <2>4. CASE PassApply(n, t)
    <3>1. CASE Await(n, t)
      BY <3>1, SameKeeps DEF Await
    <3>2. CASE Share(n, t, CannotApply(t, entry[n][t].collected))
      BY <2>4, <3>2, ShareKeeps DEF PassApply, At
    <3> QED BY <2>4, <3>1, <3>2 DEF PassApply
  <2>5. CASE PreApplied(n, t)
    BY <2>5, ShareKeeps DEF PreApplied, Awaited
  <2>6. CASE PassProduce(n, t)
    BY <2>6, ProduceKeeps
  <2>7. CASE PassNoReceipt(n, t)
    BY <2>7, NoReceiptKeeps
  <2>8. CASE PassReceipt(n, t)
    BY <2>8, AfterReceiptKeeps
  <2>9. CASE PassCommit(n, t)
    BY <2>9, SameKeeps DEF PassCommit, Await
  <2>10. CASE Committed(n, t) \/ SavedFinal(n, t)
    BY <2>10, StoredKeeps
  <2>11. CASE PassFinal(n, t)
    <3>1. CASE Await(n, t)
      BY <3>1, SameKeeps DEF Await
    <3>2. CASE MoveTo(n, t, "await final data")
      BY <3>2, MoveKeeps DEF Early
    <3> QED BY <2>11, <3>1, <3>2 DEF PassFinal
  <2> QED BY <1>5, <2>1, <2>2, <2>3, <2>4, <2>5, <2>6, <2>7, <2>8, <2>9, <2>10, <2>11 DEF Handle
<1> QED BY <1>1, <1>2, <1>3, <1>4, <1>5 DEF Next, NodeStep, PassStep

LEMMA VotesHold == Spec => []VoteInv
<1>1. Init => VoteInv
  BY VoteInit
<1>2. VoteInv /\ [Next]_vars => VoteInv'
  BY VoteStep
<1> QED BY <1>1, <1>2, PTL DEF Spec

(* Two voters of one proposal each that are the same node, are one vote.   *)
LEMMA VoteOnce ==
  ASSUME VotesSent, NEW t \in Tx, NEW n \in Exec[t], NEW p, NEW q,
         Vote(t, n, p) \in msgs, Vote(t, n, q) \in msgs
  PROVE  p = q
<1>1. n \in Node \/ n \in Remote
  BY GroupAssumption
<1> QED BY <1>1 DEF VotesSent, Vote

LEMMA ResultsAgree ==
  ASSUME VoteInv, NEW t \in Tx, NEW p, NEW q, IsResult(msgs, t, p), IsResult(msgs, t, q)
  PROVE  p = q
<1>1. CASE Elected(t)
  <2>1. PICK m \in msgs : m.type \in Results /\ m.tx = t /\ m.proposal = p
    BY DEF IsResult
  <2>2. PICK k \in msgs : k.type \in Results /\ k.tx = t /\ k.proposal = q
    BY DEF IsResult
  <2> QED BY <1>1, <2>1, <2>2 DEF VoteInv, ResultsBacked
<1>2. CASE ~Elected(t)
  <2>1. /\ Cardinality(Voters(msgs, t, p)) > MajorityCount(t)
        /\ Cardinality(Voters(msgs, t, q)) > MajorityCount(t)
    BY <1>2 DEF VoteInv, ResultsBacked, IsResult
  <2>2. Voters(msgs, t, p) \in SUBSET Exec[t] /\ Voters(msgs, t, q) \in SUBSET Exec[t]
    BY DEF Voters
  <2>3. PICK n \in Voters(msgs, t, p) : n \in Voters(msgs, t, q)
    BY <2>1, <2>2, QuorumsMeet
  <2> QED BY <2>3, VoteOnce DEF Voters, VoteInv
<1> QED BY <1>1, <1>2

(* poqo receipts: in any group of any size, whatever accounts its members  *)
(* voted from and whatever they heard of each other, two nodes that hold a *)
(* receipt of a transaction (tryProduceReceipt, poqo-receipt-gossip,       *)
(* poqo_send_receipt, poqo_data_and_receipt) hold the same one.            *)
THEOREM OneReceipt == Spec => []ReceiptsAgree
<1>1. VoteInv => ReceiptsAgree
  <2>1. SUFFICES ASSUME VoteInv, NEW t \in Tx, NEW n \in Node, NEW m \in Node,
                        entry[n][t].signedReceipt # NoProposal, entry[m][t].signedReceipt # NoProposal
                 PROVE  entry[n][t].signedReceipt = entry[m][t].signedReceipt
    BY DEF ReceiptsAgree
  <2>2. IsResult(msgs, t, entry[n][t].signedReceipt) /\ IsResult(msgs, t, entry[m][t].signedReceipt)
    BY <2>1, EntryShape DEF EntryInv
  <2> QED BY <2>1, <2>2, ResultsAgree
<1> QED BY <1>1, VotesHold, PTL

-----------------------------------------------------------------------------
(* The order of the votes.  A node walks its queue from the oldest         *)
(* transaction to the newest, and the accounts of all that it has walked   *)
(* past and that are still in the queue are marked as seen.  While it      *)
(* waits, the transaction it waits for shares no account with them.        *)
Walked(n) == {u \in InQueue(n) : Stamp[u] <= pass[n].at}

WalkOK(n) ==
  /\ DOMAIN pass[n] = {"running", "at", "seen", "waiting"}
  /\ pass[n].at \in Nat /\ pass[n].running \in BOOLEAN /\ pass[n].waiting \in BOOLEAN
  /\ ~pass[n].running => pass[n].at = 0 /\ ~pass[n].waiting
  /\ \A u \in Walked(n) : Keys[u] \subseteq pass[n].seen
  /\ pass[n].waiting =>
       \E t \in Tx : IsNext(n, t) /\ \A u \in Walked(n) : Keys[u] \cap Keys[t] = {}

WalkInv ==
  /\ Tx # {} => now \in Int
  /\ DOMAIN pass = Node
  /\ \A n \in Node : WalkOK(n)

LEMMA NatMin ==
  ASSUME NEW S \in SUBSET Nat, S # {}
  PROVE  Min(S) \in S
<1>1. PICK b \in S : TRUE
  OBVIOUS
<1> DEFINE Upto(x) == {y \in S : y <= x}
           B == Upto(b)
           F == {Upto(x) : x \in B}
<1>2. IsFiniteSet(B)
  BY FS_BoundedSetOfNaturals
<1>3. IsWellFoundedOn(StrictSubsetOrdering(B), FiniteSubsetsOf(B))
  BY FS_StrictSubsetOrderingWellFounded
<1>4. ASSUME NEW x \in B
      PROVE  Upto(x) \subseteq B /\ x \in Upto(x)
  <2>1. x \in S /\ x <= b /\ \A y \in S : y \in Int
    BY DEF Upto
  <2>2. \A y \in S : y <= x => y <= b
    BY <2>1
  <2>3. x <= x
    BY <2>1
  <2> HIDE DEF B
  <2>4. B = {y \in S : y <= b}
    BY DEF B
  <2> QED BY <2>1, <2>2, <2>3, <2>4
<1>5. FiniteSubsetsOf(B) = SUBSET B
  BY <1>2, FS_FiniteSubsetsOfFinite
<1>6. F \subseteq FiniteSubsetsOf(B) /\ F # {}
  <2>1. b \in B
    BY <1>1
  <2> HIDE DEF Upto, B
  <2> QED BY <1>4, <1>5, <2>1
<1> HIDE DEF F
<1>7. PICK A \in F : \A C \in F : ~(<<C, A>> \in StrictSubsetOrdering(B))
  BY <1>3, <1>6, WFMin
<1>8. PICK x \in B : A = Upto(x)
  BY <1>7 DEF F
<1>9. \A y \in S : x <= y
  <2>0. x \in Int /\ \A y \in S : y \in Int
    OBVIOUS
  <2>1. SUFFICES ASSUME NEW y \in S, y < x PROVE FALSE
    BY <2>0
  <2>2. y \in B /\ Upto(y) \in F
    <3>1. x \in S /\ x <= b /\ \A z \in S : z \in Int
      BY <1>8
    <3>2. y <= b
      BY <2>1, <3>1
    <3> QED BY <3>2 DEF F
  <2>3. Upto(y) \subseteq A /\ x \in A /\ x \notin Upto(y)
    <3>1. \A z \in S : z <= y => z <= x
      BY <2>0, <2>1
    <3>2. x \in S /\ x <= x /\ ~(x <= y)
      BY <2>0, <2>1
    <3> QED BY <1>8, <3>1, <3>2
  <2>4. <<Upto(y), A>> \in StrictSubsetOrdering(B)
    BY <1>4, <1>8, <2>2, <2>3 DEF StrictSubsetOrdering
  <2> QED BY <1>7, <2>2, <2>4
<1>10. \E z \in S : \A y \in S : z <= y
  BY <1>8, <1>9
<1> QED BY <1>10 DEF Min

LEMMA StampFacts ==
  ASSUME NEW t \in Tx
  PROVE  /\ Stamp[t] \in Nat /\ Stamp[t] > 0
         /\ \A u \in Tx : Stamp[t] = Stamp[u] => t = u
BY TxAssumption

(* All that is older than the next transaction was walked past.            *)
LEMMA OlderWalked ==
  ASSUME WalkInv, NEW n \in Node, NEW t \in Tx, IsNext(n, t),
         NEW u \in InQueue(n), Stamp[u] < Stamp[t]
  PROVE  u \in Walked(n)
<1>1. now \in Int /\ u \in Tx /\ pass[n].at \in Nat
  BY DEF WalkInv, WalkOK, InQueue
<1>2. Stamp[t] \in Nat /\ Stamp[u] \in Nat
  BY <1>1, StampFacts
<1>3. now - Stamp[t] >= timeM /\ u \notin Ahead(n, pass[n].at)
  BY <1>2 DEF IsNext, Ahead, Age
<1>4. now - Stamp[u] >= timeM
  BY <1>1, <1>2, <1>3 DEF timeM
<1> QED BY <1>1, <1>2, <1>3, <1>4 DEF Ahead, Age, Walked

LEMMA NextUnique ==
  ASSUME WalkInv, NEW n \in Node, NEW t \in Tx, NEW u \in Tx, IsNext(n, t), IsNext(n, u)
  PROVE  t = u
BY StampFacts DEF IsNext

-----------------------------------------------------------------------------
(* What the handlers and the steps of a pass do to the state of an entry,  *)
(* to its vote and to the pass.                                            *)
Keeps(n, t, e) ==
  /\ Become(n, t, e) /\ e.ourVote = entry[n][t].ourVote
  /\ e.state \in Queued <=> entry[n][t].state \in Queued

LEMMA HandlerSteps ==
  ASSUME VoteInv, NEW n \in Node,
         \/ \E m \in msgs : Hear(n, m)
         \/ \E t \in Tx : Queue(n, t) \/ RequestFinalData(n, t) \/ Repair(n, t)
  PROVE  /\ UNCHANGED <<now, pass>>
         /\ \E t \in Tx : \E e : Keeps(n, t, e)
<1>1. ASSUME NEW m \in msgs, Hear(n, m)
      PROVE  /\ UNCHANGED <<now, pass>>
             /\ \E t \in Tx : \E e : Keeps(n, t, e)
  <2> DEFINE t == m.tx
             o == entry[n][t]
  <2>1. t \in Tx
    BY DEF VoteInv, Addressed
  <2>2. DOMAIN o = Fields
    BY <2>1, EntryShape
  <2>3. UNCHANGED <<now, pass>>
    BY <1>1 DEF Hear, Receive
  <2>4. CASE ReceiveData(n, m)
    <3> DEFINE e == [o EXCEPT !.collected = AddData(@, m.account, m.data)]
    <3>1. Become(n, t, e)
      BY <2>4 DEF ReceiveData, Become
    <3>2. e.ourVote = o.ourVote /\ e.state = o.state
      BY <2>2, FieldNames
    <3> QED BY <2>1, <2>3, <3>1, <3>2 DEF Keeps
  <2>5. CASE ReceiveVote(n, m)
    <3>1. Become(n, t, Append(o, m))
      BY <2>5 DEF ReceiveVote, Become
    <3>2. Append(o, m).ourVote = o.ourVote /\ Append(o, m).state = o.state
      BY <2>2, AppendFields
    <3> QED BY <2>1, <2>3, <3>1, <3>2 DEF Keeps
  <2>6. CASE ReceiveGossip(n, m) \/ ReceiveReceipt(n, m)
    <3> DEFINE e == [o EXCEPT !.signedReceipt = m.proposal]
    <3>1. Become(n, t, e)
      BY <2>6 DEF ReceiveGossip, ReceiveReceipt, Become
    <3>2. e.ourVote = o.ourVote /\ e.state = o.state
      BY <2>2, FieldNames
    <3> QED BY <2>1, <2>3, <3>1, <3>2 DEF Keeps
  <2>7. CASE ReceiveFinal(n, m)
    <3> DEFINE e == [o EXCEPT !.signedReceipt = IF @ = NoProposal THEN m.proposal ELSE @,
                              !.collectedFinalData = AddFinal(@, m.proposal.after)]
    <3>1. Become(n, t, e)
      BY <2>7 DEF ReceiveFinal, Become
    <3>2. e.ourVote = o.ourVote /\ e.state = o.state
      BY <2>2, FieldNames
    <3> QED BY <2>1, <2>3, <3>1, <3>2 DEF Keeps
  <2> QED BY <1>1, <2>4, <2>5, <2>6, <2>7 DEF Hear
<1>2. ASSUME NEW t \in Tx, Queue(n, t) \/ RequestFinalData(n, t) \/ Repair(n, t)
      PROVE  /\ UNCHANGED <<now, pass>>
             /\ \E e : Keeps(n, t, e)
  <2> DEFINE o == entry[n][t]
  <2>1. DOMAIN o = Fields
    BY EntryShape
  <2>2. UNCHANGED <<now, pass>>
    BY <1>2 DEF Queue, RequestFinalData, Repair
  <2>3. CASE Queue(n, t)
    <3> DEFINE e == [o EXCEPT !.state = "pending"]
    <3>1. Become(n, t, e) /\ o.state = "none"
      BY <2>3 DEF Queue, Become
    <3>2. e.ourVote = o.ourVote /\ e.state = "pending"
      BY <2>1, FieldNames
    <3> QED BY <2>2, <3>1, <3>2 DEF Keeps, Queued
  <2>4. CASE RequestFinalData(n, t)
    <3> DEFINE e == [o EXCEPT !.collectedFinalData = AddFinal(@, o.signedReceipt.after)]
    <3>1. Become(n, t, e)
      BY <2>4 DEF RequestFinalData, Become
    <3>2. e.ourVote = o.ourVote /\ e.state = o.state
      BY <2>1, FieldNames
    <3> QED BY <2>2, <3>1, <3>2 DEF Keeps
  <2>5. CASE Repair(n, t)
    <3>1. PICK r \in {"finished", "failed"} : Become(n, t, [o EXCEPT !.repair = r])
      BY <2>5 DEF Repair, Repaired, RepairFails, Become
    <3> DEFINE e == [o EXCEPT !.repair = r]
    <3>2. e.ourVote = o.ourVote /\ e.state = o.state
      BY <2>1, FieldNames
    <3> QED BY <2>2, <3>1, <3>2 DEF Keeps
  <2> QED BY <1>2, <2>3, <2>4, <2>5
<1> QED BY <1>1, <1>2

(* Each step of a pass is one of five kinds: it passes over the entry,     *)
(* starts to wait, is done with the entry, votes, or ends a commit.        *)
Skips(n, t) == Done(n, t) /\ entry' = entry
Waits(n, t) == Await(n, t) /\ ~pass[n].waiting /\ ~accountSeen(n, t)
Finishes(n, t, e) == Become(n, t, e) /\ e.ourVote = entry[n][t].ourVote /\ Done(n, t)
Votes(n, t, e) ==
  Become(n, t, e) /\ Done(n, t) /\ e.state = "consensing" /\ (pass[n].waiting \/ ~accountSeen(n, t))
Commits(n, t, e) ==
  /\ Become(n, t, e) /\ e.ourVote = entry[n][t].ourVote /\ e.state = "pass"
  /\ GoOn(n, t, pass[n].seen \ Keys[t]) /\ pass[n].waiting

LEMMA MoveFinishes ==
  ASSUME VoteInv, NEW n \in Node, NEW t \in Tx, NEW s, MoveTo(n, t, s)
  PROVE  Finishes(n, t, [entry[n][t] EXCEPT !.state = s])
<1>1. DOMAIN entry[n][t] = Fields
  BY EntryShape
<1>2. [entry[n][t] EXCEPT !.state = s].ourVote = entry[n][t].ourVote
  BY <1>1, FieldNames
<1> QED BY <1>2 DEF MoveTo, Finishes

LEMMA ShareVotes ==
  ASSUME VoteInv, NEW n \in Node, NEW t \in Tx, NEW p, Share(n, t, p),
         pass[n].waiting \/ ~accountSeen(n, t)
  PROVE  \E e : Votes(n, t, e)
<1> DEFINE d == [entry[n][t] EXCEPT !.state = "consensing", !.ourVote = p]
           e == Append(d, Vote(t, n, p))
<1>1. DOMAIN d = Fields /\ d.state = "consensing"
  BY EntryShape, FieldNames
<1>2. Become(n, t, e) /\ Done(n, t)
  BY DEF Share
<1> HIDE DEF d
<1>3. e.state = "consensing"
  BY <1>1, AppendFields
<1> QED BY <1>2, <1>3 DEF Votes

LEMMA PassSteps ==
  ASSUME VoteInv, NEW n \in Node, NEW t \in Tx, Handle(n, t)
  PROVE  /\ IsNext(n, t) /\ now' = now /\ entry[n][t].state \in Queued
         /\ \/ Skips(n, t) \/ Waits(n, t)
            \/ \E e : Finishes(n, t, e) \/ Votes(n, t, e) \/ Commits(n, t, e)
<1> DEFINE o == entry[n][t]
<1>1. IsNext(n, t) /\ o.state \in Queued
  BY DEF Handle, IsNext, Ahead, InQueue
<1>2. DOMAIN o = Fields
  BY EntryShape
<1>3. CASE PassBlocked(n, t)
  BY <1>1, <1>3 DEF PassBlocked, Skips
<1>4. ASSUME NEW s, MoveTo(n, t, s)
      PROVE  now' = now /\ \E e : Finishes(n, t, e)
  BY <1>4, MoveFinishes DEF MoveTo
<1>5. CASE PassAging(n, t) \/ PassNoData(n, t) \/ PassTooNew(n, t) \/ PassStuck(n, t) \/ PassRepair(n, t)
  <2>1. \E s : MoveTo(n, t, s)
    BY <1>5, Zenon DEF PassAging, PassNoData, PassTooNew, PassStuck, PassRepair
  <2> QED BY <1>1, <1>4, <2>1
<1>6. CASE PassTell(n, t)
  <2> DEFINE e == [o EXCEPT !.collected = Collected(n, t),
                           !.state = IF n \in Exec[t] THEN "awaiting data" ELSE "consensing"]
  <2>1. Become(n, t, e) /\ Done(n, t) /\ now' = now
    BY <1>6 DEF PassTell
  <2>2. e.ourVote = o.ourVote
    BY <1>2, FieldNames
  <2> QED BY <1>1, <2>1, <2>2 DEF Finishes
<1>7. CASE PassApply(n, t)
  <2>1. CASE Await(n, t)
    BY <1>1, <1>7, <2>1 DEF PassApply, At, Waits, Await
  <2>2. CASE Share(n, t, CannotApply(t, o.collected))
    <3>1. \E e : Votes(n, t, e)
      BY <1>7, <2>2, ShareVotes DEF PassApply
    <3> QED BY <1>1, <2>2, <3>1 DEF Share
  <2> QED BY <1>7, <2>1, <2>2 DEF PassApply
<1>8. CASE PreApplied(n, t)
  <2>1. Share(n, t, Applied(t, o.collected)) /\ pass[n].waiting
    BY <1>8 DEF PreApplied, Awaited
  <2>2. \E e : Votes(n, t, e)
    BY <2>1, ShareVotes
  <2> QED BY <1>1, <2>1, <2>2 DEF Share
<1>9. CASE PassProduce(n, t)
  <2>1. PICK s : Become(n, t, [o EXCEPT !.newVotes = FALSE, !.signedReceipt = o.ourVote, !.state = s])
    BY <1>9 DEF PassProduce
  <2> DEFINE e == [o EXCEPT !.newVotes = FALSE, !.signedReceipt = o.ourVote, !.state = s]
  <2>2. Done(n, t) /\ now' = now
    BY <1>9 DEF PassProduce
  <2>3. e.ourVote = o.ourVote
    BY <1>2, FieldNames
  <2> QED BY <1>1, <2>1, <2>2, <2>3 DEF Finishes
<1>10. CASE PassNoReceipt(n, t)
  <2> DEFINE e == [o EXCEPT !.newVotes = @ /\ (o.ourVote = NoProposal
                                              \/ Cardinality(o.votes) < MajorityCount(t))]
  <2>1. Become(n, t, e) /\ Done(n, t) /\ now' = now
    BY <1>10 DEF PassNoReceipt
  <2>2. e.ourVote = o.ourVote
    BY <1>2, FieldNames
  <2> QED BY <1>1, <2>1, <2>2 DEF Finishes
<1>11. CASE PassReceipt(n, t)
  <2> DEFINE e == AfterReceipt(n, t, o)
  <2>1. Become(n, t, e) /\ Done(n, t) /\ now' = now
    BY <1>11 DEF PassReceipt
  <2>2. e.ourVote = o.ourVote
    BY <1>2, FieldNames DEF AfterReceipt
  <2> QED BY <1>1, <2>1, <2>2 DEF Finishes
<1>12. CASE PassCommit(n, t)
  BY <1>1, <1>12 DEF PassCommit, At, Waits, Await
<1>13. CASE Committed(n, t)
  <2> DEFINE e == [o EXCEPT !.state = "pass"]
  <2>1. Become(n, t, e) /\ GoOn(n, t, pass[n].seen \ Keys[t]) /\ now' = now /\ pass[n].waiting
    BY <1>13 DEF Committed, Awaited
  <2>2. e.ourVote = o.ourVote /\ e.state = "pass"
    BY <1>2, FieldNames
  <2> QED BY <1>1, <2>1, <2>2 DEF Commits
<1>14. CASE PassFinal(n, t)
  <2>1. CASE Await(n, t)
    BY <1>1, <1>14, <2>1 DEF PassFinal, At, Waits, Await
  <2>2. CASE MoveTo(n, t, "await final data")
    BY <1>1, <1>4, <2>2
  <2> QED BY <1>14, <2>1, <2>2 DEF PassFinal
<1>15. CASE SavedFinal(n, t)
  <2>1. PICK s : Become(n, t, [o EXCEPT !.state = s])
    BY <1>15 DEF SavedFinal
  <2> DEFINE e == [o EXCEPT !.state = s]
  <2>2. Done(n, t) /\ now' = now
    BY <1>15 DEF SavedFinal
  <2>3. e.ourVote = o.ourVote
    BY <1>2, FieldNames
  <2> QED BY <1>1, <2>1, <2>2, <2>3 DEF Finishes
<1> QED BY <1>3, <1>5, <1>6, <1>7, <1>8, <1>9, <1>10, <1>11, <1>12, <1>13, <1>14, <1>15 DEF Handle

-----------------------------------------------------------------------------
LEMMA SameWalk ==
  ASSUME NEW n \in Node, WalkOK(n), pass'[n] = pass[n], now' = now,
         \A t \in Tx : entry'[n][t].state \in Queued <=> entry[n][t].state \in Queued
  PROVE  WalkOK(n)'
<1>1. InQueue(n)' = InQueue(n)
  BY DEF InQueue
<1>2. \A t : Age(t)' = Age(t)
  BY DEF Age
<1>3. Walked(n)' = Walked(n)
  BY <1>1 DEF Walked
<1>4. Ahead(n, pass[n].at)' = Ahead(n, pass[n].at)
  BY <1>1, <1>2 DEF Ahead
<1>5. \A t : IsNext(n, t)' = IsNext(n, t)
  BY <1>4 DEF IsNext
<1> QED BY <1>3, <1>5 DEF WalkOK

(* Walking on past t, or ending the pass: of what is walked past, t itself *)
(* is all that is new.                                                     *)
LEMMA GoOnWalk ==
  ASSUME WalkInv, NEW n \in Node, NEW t \in Tx, IsNext(n, t),
         \A u \in Tx : u # t => entry'[n][u] = entry[n][u],
         NEW seen, GoOn(n, t, seen),
         \A u \in Walked(n) : Keys[u] \subseteq seen,
         entry'[n][t].state \in Queued => Keys[t] \subseteq seen,
         entry[n][t].state \in Queued
  PROVE  WalkOK(n)' /\ DOMAIN pass' = Node /\ \A k \in Node \ {n} : pass'[k] = pass[k]
<1>1. /\ DOMAIN pass' = Node /\ \A k \in Node \ {n} : pass'[k] = pass[k]
      /\ \/ pass'[n] = NotRunning
         \/ pass'[n] = [running |-> TRUE, at |-> Stamp[t], seen |-> seen, waiting |-> FALSE]
  BY DEF GoOn, WalkInv
<1>3. InQueue(n)' = IF entry'[n][t].state \in Queued THEN InQueue(n) ELSE InQueue(n) \ {t}
  BY DEF InQueue
<1>4. CASE pass'[n] = NotRunning
  <2>1. Walked(n)' = {}
    <3>1. \A u \in Tx : ~(Stamp[u] <= 0)
      BY StampFacts
    <3> QED BY <1>4, <3>1 DEF Walked, InQueue, NotRunning
  <2> QED BY <1>1, <1>4, <2>1 DEF WalkOK, NotRunning
<1>5. CASE pass'[n] = [running |-> TRUE, at |-> Stamp[t], seen |-> seen, waiting |-> FALSE]
  <2>1. ASSUME NEW u \in Walked(n)' PROVE Keys[u] \subseteq seen
    <3>1. u \in InQueue(n) /\ u \in Tx /\ Stamp[u] <= Stamp[t] /\ (u = t => entry'[n][t].state \in Queued)
      BY <1>3, <1>5, <2>1 DEF Walked, InQueue
    <3>2. CASE u = t
      BY <3>1, <3>2
    <3>3. CASE u # t
      <4>1. Stamp[u] < Stamp[t]
        BY <3>1, <3>3, StampFacts
      <4> QED BY <3>1, <4>1, OlderWalked
    <3> QED BY <3>2, <3>3
  <2>2. Stamp[t] \in Nat
    BY StampFacts
  <2> QED BY <1>1, <1>5, <2>1, <2>2 DEF WalkOK
<1> QED BY <1>1, <1>4, <1>5

LEMMA WaitsWalk ==
  ASSUME WalkInv, NEW n \in Node, NEW t \in Tx, IsNext(n, t), Waits(n, t)
  PROVE  WalkOK(n)' /\ DOMAIN pass' = Node /\ \A k \in Node \ {n} : pass'[k] = pass[k]
<1>1. /\ DOMAIN pass' = Node /\ \A k \in Node \ {n} : pass'[k] = pass[k]
      /\ pass' = [pass EXCEPT ![n].running = TRUE, ![n].seen = @ \cup Keys[t], ![n].waiting = TRUE]
      /\ entry' = entry /\ now' = now
  BY DEF Waits, Await, WalkInv
<1>2. DOMAIN pass[n] = {"running", "at", "seen", "waiting"}
  BY DEF WalkInv, WalkOK
<1>3. /\ DOMAIN pass'[n] = {"running", "at", "seen", "waiting"} /\ pass'[n].at = pass[n].at
      /\ pass'[n].running = TRUE /\ pass'[n].waiting = TRUE
      /\ pass'[n].seen = pass[n].seen \cup Keys[t]
  BY <1>1, <1>2 DEF WalkInv
<1>4. Walked(n)' = Walked(n) /\ IsNext(n, t)'
  BY <1>1, <1>3 DEF Walked, InQueue, IsNext, Ahead, Age
<1>5. \A u \in Walked(n) : Keys[u] \cap Keys[t] = {}
  BY DEF WalkInv, WalkOK, Waits, accountSeen
<1>6. \A u \in Walked(n) : Keys[u] \subseteq pass[n].seen
  BY DEF WalkInv, WalkOK
<1>7. pass[n].at \in Nat
  BY DEF WalkInv, WalkOK
<1> QED BY <1>1, <1>3, <1>4, <1>5, <1>6, <1>7 DEF WalkOK

(* While a node waits, the transactions that age meanwhile are newer.      *)
LEMMA TickNext ==
  ASSUME WalkInv, Tick, NEW n \in Node, NEW t \in Tx, IsNext(n, t)
  PROVE  IsNext(n, t)'
<1>1. now' = now + 1 /\ entry' = entry /\ pass' = pass
  BY DEF Tick
<1>2. now \in Int /\ Stamp[t] \in Nat /\ now - Stamp[t] >= timeM
  BY StampFacts DEF WalkInv, IsNext, Ahead, Age
<1>3. t \in Ahead(n, pass[n].at)'
  <2>1. now' - Stamp[t] >= timeM
    BY <1>1, <1>2 DEF timeM
  <2> QED BY <1>1, <2>1 DEF IsNext, Ahead, Age, InQueue
<1>4. ASSUME NEW u \in Ahead(n, pass[n].at)'
      PROVE  Stamp[t] <= Stamp[u]
  <2>1. u \in Tx /\ Stamp[u] \in Nat /\ u \in InQueue(n) /\ Stamp[u] > pass[n].at
    BY <1>1, <1>4, StampFacts DEF Ahead, InQueue
  <2>2. CASE u \in Ahead(n, pass[n].at)
    BY <2>2 DEF IsNext
  <2>3. CASE u \notin Ahead(n, pass[n].at)
    <3>1. ~(now - Stamp[u] >= timeM)
      BY <2>1, <2>3 DEF Ahead, Age
    <3> QED BY <1>2, <2>1, <3>1 DEF timeM
  <2> QED BY <2>2, <2>3
<1> QED BY <1>3, <1>4 DEF IsNext

LEMMA TickWalk ==
  ASSUME WalkInv, Tick
  PROVE  WalkInv'
<1>1. now' = now + 1 /\ entry' = entry /\ pass' = pass
  BY DEF Tick
<1>2. Tx # {} => now' \in Int
  BY <1>1 DEF WalkInv
<1>3. \A n \in Node, t \in Tx : IsNext(n, t) => IsNext(n, t)'
  BY TickNext
<1>4. \A n : Walked(n)' = Walked(n)
  BY <1>1 DEF Walked, InQueue
<1>5. ASSUME NEW n \in Node PROVE WalkOK(n)'
  BY <1>1, <1>3, <1>4 DEF WalkInv, WalkOK
<1> QED BY <1>1, <1>2, <1>5 DEF WalkInv

LEMMA InsertWalk ==
  ASSUME VoteInv, WalkInv, NEW n \in Node, InsertPending(n)
  PROVE  WalkInv'
<1>1. /\ pass' = pass /\ now' = now /\ ~pass[n].running
      /\ \A k \in Node \ {n}, t \in Tx : entry'[k][t] = entry[k][t]
  BY DEF InsertPending, VoteInv, EntriesOK, Shaped
<1>2. \A k \in Node \ {n} : WalkOK(k)'
  BY <1>1, SameWalk DEF WalkInv
<1>3. WalkOK(n)'
  <2>1. pass[n].at = 0 /\ ~pass[n].waiting
    BY <1>1 DEF WalkInv, WalkOK
  <2>2. \A u \in Tx : ~(Stamp[u] <= 0)
    BY StampFacts
  <2>3. Walked(n)' = {}
    BY <1>1, <2>1, <2>2 DEF Walked, InQueue
  <2> QED BY <1>1, <2>1, <2>3 DEF WalkInv, WalkOK
<1> QED BY <1>1, <1>2, <1>3 DEF WalkInv

LEMMA HandlerWalk ==
  ASSUME VoteInv, WalkInv, NEW n \in Node,
         \/ \E m \in msgs : Hear(n, m)
         \/ \E t \in Tx : Queue(n, t) \/ RequestFinalData(n, t) \/ Repair(n, t)
  PROVE  WalkInv'
<1>1. UNCHANGED <<now, pass>> /\ \E t \in Tx : \E e : Keeps(n, t, e)
  BY HandlerSteps
<1>t. PICK t \in Tx : \E e : Keeps(n, t, e)
  BY <1>1
<1>2. PICK e : Keeps(n, t, e)
  BY <1>t
<1>3. /\ entry'[n][t] = e
      /\ \A k \in Node, u \in Tx : k # n \/ u # t => entry'[k][u] = entry[k][u]
  BY <1>2, BecomeFields DEF Keeps, VoteInv, EntriesOK
<1>4. \A k \in Node, u \in Tx : entry'[k][u].state \in Queued <=> entry[k][u].state \in Queued
  BY <1>2, <1>3 DEF Keeps
<1>5. \A k \in Node : WalkOK(k)'
  BY <1>1, <1>4, SameWalk DEF WalkInv
<1> QED BY <1>1, <1>5 DEF WalkInv

LEMMA PassWalk ==
  ASSUME VoteInv, WalkInv, NEW n \in Node, NEW t \in Tx, Handle(n, t)
  PROVE  WalkInv'
<1>1. /\ IsNext(n, t) /\ now' = now /\ entry[n][t].state \in Queued
      /\ \/ Skips(n, t) \/ Waits(n, t)
         \/ \E e : Finishes(n, t, e) \/ Votes(n, t, e) \/ Commits(n, t, e)
  BY PassSteps
<1>2. Shaped /\ \A u \in Walked(n) : Keys[u] \subseteq pass[n].seen
  BY DEF VoteInv, EntriesOK, WalkInv, WalkOK
<1>3. \A k \in Node, u \in Tx : k # n \/ u # t => entry'[k][u] = entry[k][u]
  BY <1>1, <1>2, BecomeFields DEF Skips, Waits, Await, Finishes, Votes, Commits
<1>4. SUFFICES WalkOK(n)' /\ DOMAIN pass' = Node /\ \A k \in Node \ {n} : pass'[k] = pass[k]
  <2>1. ASSUME \A k \in Node \ {n} : pass'[k] = pass[k], NEW k \in Node \ {n}
        PROVE  WalkOK(k)'
    BY <1>1, <1>3, <2>1, SameWalk DEF WalkInv
  <2> QED BY <1>1, <2>1 DEF WalkInv
<1>5. CASE Waits(n, t)
  BY <1>1, <1>5, WaitsWalk
<1>6. CASE Done(n, t)
  <2>1. GoOn(n, t, pass[n].seen \cup Keys[t])
    BY <1>6 DEF Done
  <2>2. \A u \in Walked(n) : Keys[u] \subseteq pass[n].seen \cup Keys[t]
    BY <1>2
  <2> QED BY <1>1, <1>3, <2>1, <2>2, GoOnWalk
<1>7. ASSUME NEW e, Commits(n, t, e)
      PROVE  WalkOK(n)' /\ DOMAIN pass' = Node /\ \A k \in Node \ {n} : pass'[k] = pass[k]
  <2>1. GoOn(n, t, pass[n].seen \ Keys[t]) /\ entry'[n][t].state \notin Queued
    BY <1>2, <1>7, BecomeFields DEF Commits, Queued
  <2>2. PICK v \in Tx : IsNext(n, v) /\ \A u \in Walked(n) : Keys[u] \cap Keys[v] = {}
    BY <1>7 DEF Commits, WalkInv, WalkOK
  <2>3. v = t
    BY <1>1, <2>2, NextUnique
  <2>4. \A u \in Walked(n) : Keys[u] \subseteq pass[n].seen \ Keys[t]
    BY <1>2, <2>2, <2>3
  <2> QED BY <1>1, <1>3, <2>1, <2>4, GoOnWalk
<1> QED BY <1>1, <1>5, <1>6, <1>7 DEF Skips, Finishes, Votes

LEMMA WalkInit ==
  ASSUME Init
  PROVE  WalkInv
<1>1. Tx # {} => now \in Int
  <2> DEFINE S == {Stamp[t] : t \in Tx}
  <2>1. S \in SUBSET Nat
    BY StampFacts
  <2>2. now = Min(S)
    BY DEF Init
  <2> SUFFICES ASSUME Tx # {} PROVE now \in Int
    OBVIOUS
  <2>3. S # {}
    OBVIOUS
  <2> HIDE DEF S
  <2>4. Min(S) \in S
    BY <2>1, <2>3, NatMin
  <2>5. S \subseteq Int
    BY <2>1
  <2> QED BY <2>2, <2>4, <2>5
<1>2. pass = [n \in Node |-> NotRunning]
  BY DEF Init
<1>3. ASSUME NEW n \in Node PROVE WalkOK(n)
  <2>1. \A u \in Tx : ~(Stamp[u] <= 0)
    BY StampFacts
  <2>2. pass[n] = NotRunning
    BY <1>2
  <2>3. Walked(n) = {}
    BY <2>1, <2>2 DEF Walked, InQueue, NotRunning
  <2> QED BY <2>2, <2>3 DEF WalkOK, NotRunning
<1> QED BY <1>1, <1>2, <1>3 DEF WalkInv

LEMMA WalkStep ==
  ASSUME VoteInv, WalkInv, [Next]_vars
  PROVE  WalkInv'
<1>1. CASE UNCHANGED vars
  BY <1>1, SameWalk DEF vars, WalkInv
<1>2. CASE Tick
  BY <1>2, TickWalk
<1>3. ASSUME NEW n \in Node, NodeStep(n) PROVE WalkInv'
  BY <1>3, InsertWalk, HandlerWalk DEF NodeStep
<1>4. ASSUME NEW n \in Node, NEW t \in Tx, PassStep(n, t) PROVE WalkInv'
  BY <1>4, PassWalk DEF PassStep
<1> QED BY <1>1, <1>2, <1>3, <1>4 DEF Next

(* Only a pass votes, and not while an older transaction in the queue has  *)
(* an account in common.                                                   *)
NewVote(n, t) == entry'[n][t].ourVote # entry[n][t].ourVote

LEMMA OnlyVotesVote ==
  ASSUME VoteInv, [Next]_vars, NEW n \in Node, NEW t \in Tx, NewVote(n, t)
  PROVE  IsNext(n, t) /\ (pass[n].waiting \/ ~accountSeen(n, t))
<1>1. ASSUME NEW k \in Node, NEW u \in Tx, NEW e, Become(k, u, e), e.ourVote = entry[k][u].ourVote
      PROVE  FALSE
  BY <1>1, BecomeFields DEF NewVote, VoteInv, EntriesOK
<1>2. ~UNCHANGED vars /\ ~Tick
  BY DEF vars, Tick, NewVote
<1>3. ASSUME NEW k \in Node, NodeStep(k) PROVE FALSE
  <2>1. CASE InsertPending(k)
    <3>1. entry'[n][t] = IF n = k /\ entry[n][t].state = "pending"
                         THEN [entry[n][t] EXCEPT !.state = Inserted(t)] ELSE entry[n][t]
      BY <2>1 DEF InsertPending, VoteInv, EntriesOK, Shaped
    <3>2. [entry[n][t] EXCEPT !.state = Inserted(t)].ourVote = entry[n][t].ourVote
      BY EntryShape, FieldNames
    <3> QED BY <3>1, <3>2 DEF NewVote
  <2>2. CASE \/ \E m \in msgs : Hear(k, m)
             \/ \E u \in Tx : Queue(k, u) \/ RequestFinalData(k, u) \/ Repair(k, u)
    <3>t. PICK u \in Tx : \E e : Keeps(k, u, e)
      BY <2>2, HandlerSteps
    <3>1. PICK e : Keeps(k, u, e)
      BY <3>t
    <3> QED BY <1>1, <3>1 DEF Keeps
  <2> QED BY <1>3, <2>1, <2>2 DEF NodeStep
<1>4. ASSUME NEW k \in Node, NEW u \in Tx, Handle(k, u)
      PROVE  n = k /\ t = u /\ IsNext(k, u) /\ (pass[k].waiting \/ ~accountSeen(k, u))
  <2>1. /\ IsNext(k, u)
        /\ \/ Skips(k, u) \/ Waits(k, u)
           \/ \E e : Finishes(k, u, e) \/ Votes(k, u, e) \/ Commits(k, u, e)
    BY <1>4, PassSteps
  <2>2. ~Skips(k, u) /\ ~Waits(k, u)
    BY DEF Skips, Waits, Await, NewVote
  <2>3. PICK e : Finishes(k, u, e) \/ Votes(k, u, e) \/ Commits(k, u, e)
    BY <2>1, <2>2
  <2>4. Votes(k, u, e)
    BY <1>1, <2>3 DEF Finishes, Commits
  <2>5. n = k /\ t = u
    BY <2>4, BecomeFields DEF Votes, NewVote, VoteInv, EntriesOK
  <2> QED BY <2>1, <2>4, <2>5 DEF Votes
<1>5. PICK k \in Node, u \in Tx : Handle(k, u)
  <2>1. CASE Next
    <3>1. ASSUME NEW k \in Node, NEW u \in Tx, PassStep(k, u)
          PROVE  Handle(k, u)
      BY <3>1 DEF PassStep
    <3> QED BY <1>2, <1>3, <2>1, <3>1, Zenon DEF Next
  <2> QED BY <1>2, <2>1
<1> QED BY <1>4, <1>5

(* No older transaction in the queue has an account in common with the     *)
(* next, if that is not passed over.                                       *)
LEMMA NextClear ==
  ASSUME WalkInv, NEW n \in Node, NEW t \in Tx, IsNext(n, t),
         pass[n].waiting \/ ~accountSeen(n, t),
         NEW u \in Tx, Stamp[u] < Stamp[t], Keys[u] \cap Keys[t] # {}
  PROVE  entry[n][u].state \notin Queued
<1>1. SUFFICES ASSUME u \in InQueue(n) PROVE FALSE
  BY DEF InQueue
<1>3. u \in Walked(n)
  BY <1>1, OlderWalked
<1>4. Keys[u] \subseteq pass[n].seen
  BY <1>3 DEF WalkInv, WalkOK
<1>5. ~pass[n].waiting
  <2>1. SUFFICES ASSUME pass[n].waiting PROVE FALSE
    OBVIOUS
  <2>2. PICK v \in Tx : IsNext(n, v) /\ \A w \in Walked(n) : Keys[w] \cap Keys[v] = {}
    BY <2>1 DEF WalkInv, WalkOK
  <2>3. v = t
    BY <2>2, NextUnique
  <2> QED BY <1>3, <2>2, <2>3
<1> QED BY <1>4, <1>5 DEF accountSeen

LEMMA OlderDone ==
  ASSUME VoteInv, WalkInv, [Next]_vars, NEW n \in Node, NEW t \in Tx, NewVote(n, t),
         NEW u \in Tx, Stamp[u] < Stamp[t], Keys[u] \cap Keys[t] # {}
  PROVE  entry[n][u].state \notin Queued
BY OnlyVotesVote, NextClear

(* seenAccounts: however long the queue is, wherever a pass waits and      *)
(* whatever arrives meanwhile, a node votes about accounts with which      *)
(* every older transaction in its queue is done.                           *)
THEOREM VotesFollowQueue == Spec => VotesInOrder
<1>1. Init => VoteInv /\ WalkInv
  BY VoteInit, WalkInit
<1>2. (VoteInv /\ WalkInv) /\ [Next]_vars => (VoteInv /\ WalkInv)'
  BY VoteStep, WalkStep
<1> DEFINE A == \A n \in Node, t \in Tx : entry'[n][t].ourVote # entry[n][t].ourVote =>
                  \A u \in Tx : Stamp[u] < Stamp[t] /\ Keys[u] \cap Keys[t] # {} =>
                    entry[n][u].state \notin Queued
<1>3. (VoteInv /\ WalkInv) /\ [Next]_vars => [A]_vars
  BY OlderDone DEF NewVote
<1> HIDE DEF A
<1>4. Spec => [][A]_vars
  BY <1>1, <1>2, <1>3, PTL DEF Spec
<1> QED BY <1>4 DEF VotesInOrder, A

-----------------------------------------------------------------------------
(* What the nodes store.  If a majority of every execution group missed    *)
(* nothing (module Transactions: the remote nodes), and no transaction     *)
(* fails, whatever the other nodes miss and whenever they hear of it: the  *)
(* copies of an account are moments of the one history that this majority  *)
(* makes, and what has passed on a node stays in its accounts.             *)
Faultless == Failing = {} /\ \A t \in Tx : Elected(t)

(* The history of an account up to a time, and what the majority says of a *)
(* transaction.                                                            *)
Upto(a, h, s) == h[a] \cup {u \in Tx : Applies(u, h) /\ a \in Keys[u] /\ Stamp[u] <= s}
Moment(a, h, d) == d = {} \/ \E s \in Nat : d = Upto(a, h, s)
Outcome(t, h) == RemoteProposal(t, Ideal(t, h))

Young == {"none", "pending", "aging"}

(* A transaction that may still be committed as voted here.                *)
CanCommit(e) ==
  \/ e.state \in {"aging", "processing", "awaiting data"}
  \/ e.state \in Queued /\ e.ourVote # NoProposal

SettledHere(e) == e.state = "pass" \/ e.repair = "finished"

EntryGood(t, e, h) ==
  /\ e.state \in Early => e.ourVote = NoProposal
  /\ e.state = "commiting" => /\ e.ourVote = e.signedReceipt /\ e.signedReceipt # NoProposal
                              /\ Applies(t, h)
  /\ e.state = "await repair" => e.signedReceipt # NoProposal /\ Applies(t, h)
  /\ e.repair = "running" => e.state = "await repair"
  /\ e.repair = "finished" => e.state \in {"await repair", "pass"}
  /\ DOMAIN e.collectedFinalData \subseteq Keys[t]
  /\ \A a \in DOMAIN e.collectedFinalData : e.collectedFinalData[a] = Outcome(t, h).after[a]

Kept(n, t, e, held, h) ==
  SettledHere(e) => Applies(t, h) /\ \A a \in Keys[t] \cap Stores[n] : t \in held[a]

(* A newer transaction is not saved before an older one that may commit:   *)
(* its vote would be written over what was saved.                          *)
Conflict(t, w) == Stamp[t] < Stamp[w] /\ Keys[t] \cap Keys[w] # {}
Turns(es) ==
  \A t, w \in Tx : CanCommit(es[t]) /\ Conflict(t, w) => es[w].state \notin {"await repair", "pass"}

Copies(n, held, h) == DOMAIN held = Stores[n] /\ \A a \in Stores[n] : Moment(a, h, held[a])

CopiesInv(h) ==
  /\ DOMAIN store = Node /\ \A n \in Node : Copies(n, store[n], h)
  /\ \A t \in Tx : IsResult(msgs, t, Outcome(t, h))
  /\ \A n \in Node, t \in Tx : /\ EntryGood(t, entry[n][t], h)
                               /\ Kept(n, t, entry[n][t], store[n], h)
                               /\ entry[n][t].state \notin Young => now - Stamp[t] >= timeM
  /\ \A n \in Node : Turns(entry[n])

(* What is waited for to be saved is there.                                *)
Ready(n, t) == entry[n][t].signedReceipt # NoProposal /\ Complete(n, t)
ReadyInv ==
  \A n \in Node : pass[n].waiting =>
    \A t \in Tx : IsNext(n, t) /\ entry[n][t].state = "await final data" => Ready(n, t)

-----------------------------------------------------------------------------
LEMMA NatMax ==
  ASSUME NEW S \in SUBSET Nat, IsFiniteSet(S), S # {}
  PROVE  Max(S) \in S /\ \A x \in S : x <= Max(S)
<1> DEFINE Above(x) == {y \in S : x <= y}
           F == {Above(x) : x \in S}
<1>1. IsWellFoundedOn(StrictSubsetOrdering(S), FiniteSubsetsOf(S))
  BY FS_StrictSubsetOrderingWellFounded
<1>2. FiniteSubsetsOf(S) = SUBSET S
  BY FS_FiniteSubsetsOfFinite
<1>3. F \subseteq FiniteSubsetsOf(S) /\ F # {}
  <2>1. ASSUME NEW A \in F PROVE A \in SUBSET S
    OBVIOUS
  <2>2. PICK x : x \in S
    OBVIOUS
  <2>3. Above(x) \in F
    BY <2>2
  <2> HIDE DEF F
  <2> QED BY <1>2, <2>1, <2>3
<1>4. PICK A \in F : \A C \in F : ~(<<C, A>> \in StrictSubsetOrdering(S))
  <2> HIDE DEF F
  <2> QED BY <1>1, <1>3, WFMin
<1>5. PICK x \in S : A = Above(x)
  BY <1>4
<1>6. \A y \in S : y <= x
  <2>0. \A y \in S : y \in Int
    OBVIOUS
  <2>1. SUFFICES ASSUME NEW y \in S, x < y PROVE FALSE
    BY <2>0
  <2>2. \A z \in S : y <= z => x <= z
    BY <2>0, <2>1
  <2>3. x <= x /\ ~(y <= x)
    BY <2>0, <2>1
  <2>4. Above(y) \subseteq A /\ x \in A /\ x \notin Above(y) /\ A \subseteq S
    BY <1>5, <2>2, <2>3
  <2>5. Above(y) \in F
    OBVIOUS
  <2> HIDE DEF F, Above
  <2>6. <<Above(y), A>> \in StrictSubsetOrdering(S)
    BY <2>4 DEF StrictSubsetOrdering
  <2> QED BY <1>4, <2>5, <2>6
<1>7. \E z \in S : \A y \in S : z >= y
  BY <1>6
<1>8. Max(S) \in S /\ \A y \in S : Max(S) >= y
  BY <1>7 DEF Max
<1> QED BY <1>8

LEMMA LatestOf ==
  ASSUME NEW d \in SUBSET (Tx \cup Past)
  PROVE  /\ Latest(d) \in Nat
         /\ \A u \in d : Stamp[u] <= Latest(d)
         /\ d = {} => Latest(d) = 0
         /\ d # {} => \E u \in d : Stamp[u] = Latest(d)
<1>1. CASE d = {}
  BY <1>1 DEF Latest
<1>2. CASE d # {}
  <2> DEFINE S == {Stamp[t] : t \in d}
  <2>1. S \in SUBSET Nat /\ S # {}
    BY <1>2, TxAssumption
  <2>2. IsFiniteSet(S)
    <3>1. IsFiniteSet(d)
      BY TxAssumption, FS_Subset
    <3> DEFINE f == [t \in d |-> Stamp[t]]
    <3>2. f \in Surjection(d, S)
      BY DEF Surjection
    <3> QED BY <3>1, <3>2, FS_Surjection
  <2>3. Latest(d) = Max(S)
    BY <1>2 DEF Latest
  <2>4. \A t \in d : Stamp[t] \in S
    OBVIOUS
  <2>5. \A x \in S : \E t \in d : Stamp[t] = x
    OBVIOUS
  <2> HIDE DEF S
  <2>6. Max(S) \in S /\ \A x \in S : x <= Max(S)
    BY <2>1, <2>2, NatMax
  <2> QED BY <1>2, <2>1, <2>3, <2>4, <2>5, <2>6
<1> QED BY <1>1, <1>2

LEMMA HeldData ==
  ASSUME NEW h \in Initial, NEW a \in Account
  PROVE  /\ h[a] \in SUBSET (Tx \cup Past)
         /\ \A s : Upto(a, h, s) \in SUBSET (Tx \cup Past)
         /\ \A d : Moment(a, h, d) => d \in SUBSET (Tx \cup Past)
<1>1. h[a] \in SUBSET Past
  BY StoreAssumption
<1> QED BY <1>1 DEF Upto, Moment

(* Two moments: one holds the other, and what it has more is newer.        *)
LEMMA UptoPrefix ==
  ASSUME NEW h \in Initial, NEW a \in Account, NEW s \in Nat, NEW r \in Nat, s <= r
  PROVE  Prefix(Upto(a, h, s), Upto(a, h, r))
<1> DEFINE d == Upto(a, h, s)
           e == Upto(a, h, r)
<1>1. \A u \in Tx : Stamp[u] \in Nat
  BY StampFacts
<1>2. d \subseteq e
  BY <1>1 DEF Upto
<1>3. d \in SUBSET (Tx \cup Past) /\ h[a] \in SUBSET (Tx \cup Past)
  BY HeldData
<1>4. ASSUME NEW u \in e \ d PROVE Stamp[u] > Latest(d)
  <2>1. u \in Tx /\ Applies(u, h) /\ a \in Keys[u] /\ ~(Stamp[u] <= s)
    BY <1>4 DEF Upto
  <2>2. Stamp[u] \in Nat /\ Stamp[u] > s
    BY <1>1, <2>1
  <2>3. \A v \in h[a] : Stamp[v] < Stamp[u]
    <3>1. Latest(h[a]) < Stamp[u]
      BY <2>1 DEF Applies
    <3>2. /\ Latest(h[a]) \in Nat
          /\ \A v \in h[a] : Stamp[v] <= Latest(h[a])
      BY <1>3, LatestOf
    <3>3. \A v \in h[a] : Stamp[v] \in Nat
      BY <1>3, TxAssumption
    <3> QED BY <2>2, <3>1, <3>2, <3>3
  <2>4. \A v \in d : Stamp[v] < Stamp[u]
    BY <1>1, <2>2, <2>3 DEF Upto
  <2> HIDE DEF d
  <2> QED BY <1>3, <2>2, <2>4, LatestOf
<1> QED BY <1>2, <1>4 DEF Prefix

LEMMA MomentsOrdered ==
  ASSUME NEW h \in Initial, NEW a \in Account, NEW d, NEW e, Moment(a, h, d), Moment(a, h, e)
  PROVE  Prefix(d, e) \/ Prefix(e, d)
<1>1. ASSUME NEW x, Moment(a, h, x) PROVE Prefix({}, x)
  <2>1. x \in SUBSET (Tx \cup Past)
    BY <1>1, HeldData
  <2> QED BY <2>1, TxAssumption DEF Prefix, Latest
<1>2. CASE d = {} \/ e = {}
  BY <1>1, <1>2
<1>3. CASE ~(d = {} \/ e = {})
  <2>1. PICK s \in Nat : d = Upto(a, h, s)
    BY <1>3 DEF Moment
  <2>2. PICK r \in Nat : e = Upto(a, h, r)
    BY <1>3 DEF Moment
  <2>3. s <= r \/ r <= s
    OBVIOUS
  <2> QED BY <2>1, <2>2, <2>3, UptoPrefix
<1> QED BY <1>2, <1>3

LEMMA NewerHasAll ==
  ASSUME NEW h \in Initial, NEW a \in Account, NEW d, NEW e, Moment(a, h, d), Moment(a, h, e),
         Latest(e) >= Latest(d)
  PROVE  d \subseteq e
<1>1. CASE Prefix(d, e)
  BY <1>1 DEF Prefix
<1>2. CASE Prefix(e, d)
  <2>1. SUFFICES ASSUME NEW u \in d \ e PROVE FALSE
    OBVIOUS
  <2>2. d \in SUBSET (Tx \cup Past) /\ e \in SUBSET (Tx \cup Past)
    BY HeldData
  <2>3. Stamp[u] \in Nat /\ Stamp[u] <= Latest(d) /\ Latest(d) \in Nat /\ Latest(e) \in Nat
    BY <2>2, LatestOf, TxAssumption
  <2>4. Stamp[u] > Latest(e)
    BY <1>2 DEF Prefix
  <2> QED BY <2>3, <2>4
<1> QED BY <1>1, <1>2, MomentsOrdered

(* checkAndSetAccountData keeps what both copies have.                     *)
LEMMA SavedHasBoth ==
  ASSUME NEW h \in Initial, NEW n \in Node, NEW held, Copies(n, held, h), NEW data,
         \A a \in Stores[n] \cap DOMAIN data : Moment(a, h, data[a])
  PROVE  /\ Copies(n, Saved(held, data), h)
         /\ \A a \in Stores[n] : held[a] \subseteq Saved(held, data)[a]
         /\ \A a \in Stores[n] \cap DOMAIN data : data[a] \subseteq Saved(held, data)[a]
<1>1. DOMAIN held = Stores[n] /\ DOMAIN Saved(held, data) = Stores[n]
  BY DEF Copies, Saved
<1>2. ASSUME NEW a \in Stores[n]
      PROVE  /\ Moment(a, h, Saved(held, data)[a])
             /\ held[a] \subseteq Saved(held, data)[a]
             /\ a \in DOMAIN data => data[a] \subseteq Saved(held, data)[a]
  <2>0. a \in Account /\ Moment(a, h, held[a])
    BY StoreAssumption DEF Copies
  <2>1. CASE a \in DOMAIN data /\ Latest(data[a]) >= Latest(held[a])
    <3>1. Saved(held, data)[a] = data[a]
      BY <1>1, <2>1 DEF Saved
    <3> QED BY <2>0, <2>1, <3>1, NewerHasAll
  <2>2. CASE ~(a \in DOMAIN data /\ Latest(data[a]) >= Latest(held[a]))
    <3>1. Saved(held, data)[a] = held[a]
      BY <1>1, <2>2 DEF Saved
    <3>2. ASSUME a \in DOMAIN data PROVE data[a] \subseteq held[a]
      <4>1. Moment(a, h, data[a])
        BY <3>2
      <4>2. Latest(data[a]) \in Nat /\ Latest(held[a]) \in Nat
        BY <2>0, <4>1, HeldData, LatestOf
      <4>3. Latest(held[a]) >= Latest(data[a])
        BY <2>2, <3>2, <4>2
      <4> QED BY <2>0, <4>1, <4>3, NewerHasAll
    <3> QED BY <2>0, <3>1, <3>2
  <2> QED BY <2>1, <2>2
<1> QED BY <1>1, <1>2 DEF Copies

(* What the majority says of t: its accounts up to t, or up to before t if *)
(* they are newer.                                                         *)
LEMMA OutcomeIs ==
  ASSUME Faultless, NEW h \in Initial, NEW t \in Tx
  PROVE  LET p == Outcome(t, h) IN
         /\ p.applied <=> Applies(t, h)
         /\ DOMAIN p.after = Keys[t]
         /\ \A a \in Keys[t] : Moment(a, h, p.after[a])
         /\ Applies(t, h) => \A a \in Keys[t] : p.after[a] = Upto(a, h, Stamp[t])
<1> DEFINE data == Ideal(t, h)
           p == Outcome(t, h)
<1>0. Stamp[t] \in Nat /\ Stamp[t] > 0 /\ \A u \in Tx : Stamp[u] \in Nat
  BY StampFacts
<1>1. DOMAIN data = Keys[t] /\ \A a \in Keys[t] : a \in Account
  BY TxAssumption DEF Ideal
<1>2. ASSUME NEW a \in Keys[t] PROVE data[a] = Upto(a, h, Stamp[t] - 1)
  <2>1. \A u \in Tx : Stamp[u] < Stamp[t] <=> Stamp[u] <= Stamp[t] - 1
    BY <1>0
  <2> QED BY <2>1 DEF Ideal, Upto
<1>3. \A a \in Keys[t] : Moment(a, h, data[a])
  <2>1. Stamp[t] - 1 \in Nat
    BY <1>0
  <2> QED BY <1>2, <2>1 DEF Moment
<1>4. ASSUME NEW a \in Keys[t]
      PROVE  Latest(data[a]) < Stamp[t] <=> Latest(h[a]) < Stamp[t]
  <2>1. data[a] = h[a] \cup {u \in Tx : Applies(u, h) /\ Stamp[u] < Stamp[t] /\ a \in Keys[u]}
    BY DEF Ideal
  <2>2. data[a] \in SUBSET (Tx \cup Past) /\ h[a] \in SUBSET (Tx \cup Past)
    BY <1>1, <1>3, HeldData
  <2> HIDE DEF data
  <2>3. /\ Latest(data[a]) \in Nat /\ Latest(h[a]) \in Nat
        /\ \A u \in h[a] : Stamp[u] \in Nat /\ Stamp[u] <= Latest(h[a]) /\ Stamp[u] <= Latest(data[a])
        /\ data[a] = {} => Latest(data[a]) = 0
        /\ h[a] = {} => Latest(h[a]) = 0
        /\ data[a] # {} => \E u \in data[a] : Stamp[u] = Latest(data[a])
        /\ h[a] # {} => \E u \in h[a] : Stamp[u] = Latest(h[a])
    BY <2>1, <2>2, LatestOf, TxAssumption
  <2>4. ASSUME Latest(h[a]) < Stamp[t] PROVE Latest(data[a]) < Stamp[t]
    <3>1. \A u \in data[a] : Stamp[u] < Stamp[t]
      BY <1>0, <2>1, <2>3, <2>4
    <3> QED BY <1>0, <2>3, <3>1
  <2>5. ASSUME Latest(data[a]) < Stamp[t] PROVE Latest(h[a]) < Stamp[t]
    <3>1. CASE h[a] = {}
      BY <1>0, <2>3, <3>1
    <3>2. CASE h[a] # {}
      <4>1. PICK u \in h[a] : Stamp[u] = Latest(h[a])
        BY <2>3, <3>2
      <4> QED BY <1>0, <2>3, <2>5, <4>1
    <3> QED BY <3>1, <3>2
  <2> QED BY <2>4, <2>5
<1> HIDE DEF data
<1>5. (\A a \in Keys[t] : Latest(data[a]) < Stamp[t]) <=> Applies(t, h)
  <2>1. t \notin Failing
    BY DEF Faultless
  <2> QED BY <1>4, <2>1 DEF Applies
<1>6. CASE Applies(t, h)
  <2>1. p = Applied(t, data)
    BY <1>5, <1>6 DEF Outcome, RemoteProposal, data
  <2>0. t \notin Failing
    BY DEF Faultless
  <2>2. p.applied /\ p.after = [a \in Keys[t] |-> data[a] \cup {t}]
    <3>1. p.applied = (t \notin Failing) /\ p.after = Written(t, data)
      BY <2>1 DEF Applied
    <3>2. Written(t, data) = [a \in Keys[t] |-> data[a] \cup {t}]
      BY <1>1 DEF Written
    <3> HIDE DEF p
    <3> QED BY <2>0, <3>1, <3>2, Zenon
  <2>3. ASSUME NEW a \in Keys[t] PROVE data[a] \cup {t} = Upto(a, h, Stamp[t])
    <3>1. \A u \in Tx : Stamp[u] <= Stamp[t] <=> u = t \/ Stamp[u] <= Stamp[t] - 1
      BY <1>0, StampFacts
    <3> QED BY <1>2, <1>6, <3>1 DEF Upto
  <2> QED BY <1>0, <1>6, <2>2, <2>3 DEF Moment
<1>7. CASE ~Applies(t, h)
  <2>1. p = CannotApply(t, data)
    BY <1>5, <1>7 DEF Outcome, RemoteProposal, data
  <2>2. ~p.applied /\ p.after = data
    BY <2>1 DEF CannotApply
  <2> QED BY <1>1, <1>3, <1>7, <2>2
<1> QED BY <1>6, <1>7

-----------------------------------------------------------------------------
(* A step of one entry that keeps the copies in order: what is stored is a *)
(* moment of each account and holds what it has to, and nobody is saved    *)
(* out of turn.                                                            *)
NoTurn(n, t) == \A u \in Tx : Conflict(u, t) => ~CanCommit(entry[n][u])

InTurn(n, t, o, e, h) ==
  /\ EntryGood(t, e, h)
  /\ e.state \notin Young => now - Stamp[t] >= timeM
  /\ CanCommit(e) => CanCommit(o)
  /\ e.state \in {"await repair", "pass"} => o.state \in {"await repair", "pass"} \/ NoTurn(n, t)

Stored(n, d) ==
  DOMAIN store' = Node /\ store'[n] = d /\ \A k \in Node : k # n => store'[k] = store[k]

LEMMA StoreStep ==
  ASSUME VoteInv, NEW h, CopiesInv(h), NEW n \in Node, NEW t \in Tx, NEW e, Become(n, t, e),
         InTurn(n, t, entry[n][t], e, h), now' = now, msgs \subseteq msgs',
         NEW d, Stored(n, d), Copies(n, d, h),
         \A u \in Tx : u # t => Kept(n, u, entry[n][u], d, h), Kept(n, t, e, d, h)
  PROVE  CopiesInv(h)'
<1>1. /\ entry'[n][t] = e
      /\ \A k \in Node, u \in Tx : k # n \/ u # t => entry'[k][u] = entry[k][u]
  BY BecomeFields DEF VoteInv, EntriesOK
<1>2. DOMAIN store' = Node /\ store'[n] = d /\ \A k \in Node : k # n => store'[k] = store[k]
  BY DEF Stored
<1>3. \A k \in Node : Copies(k, store'[k], h)
  BY <1>2 DEF CopiesInv
<1>4. \A u \in Tx : IsResult(msgs', u, Outcome(u, h))
  BY DEF CopiesInv, IsResult
<1>5. ASSUME NEW k \in Node, NEW u \in Tx
      PROVE  /\ EntryGood(u, entry'[k][u], h)
             /\ Kept(k, u, entry'[k][u], store'[k], h)
             /\ entry'[k][u].state \notin Young => now - Stamp[u] >= timeM
  <2>1. /\ EntryGood(u, entry[k][u], h) /\ Kept(k, u, entry[k][u], store[k], h)
        /\ entry[k][u].state \notin Young => now - Stamp[u] >= timeM
    BY DEF CopiesInv
  <2>2. CASE k # n
    BY <1>1, <1>2, <2>1, <2>2
  <2>3. CASE k = n /\ u # t
    BY <1>1, <1>2, <2>1, <2>3
  <2>4. CASE k = n /\ u = t
    BY <1>1, <1>2, <2>4 DEF InTurn
  <2> QED BY <2>2, <2>3, <2>4
<1>6. ASSUME NEW k \in Node PROVE Turns(entry'[k])
  <2>1. CASE k # n
    BY <1>1, <2>1 DEF CopiesInv, Turns
  <2>2. CASE k = n
    <3>1. SUFFICES ASSUME NEW u \in Tx, NEW w \in Tx, CanCommit(entry'[n][u]), Conflict(u, w)
                   PROVE  entry'[n][w].state \notin {"await repair", "pass"}
      BY <2>2 DEF Turns
    <3>2. CanCommit(entry[n][u])
      BY <1>1, <3>1 DEF InTurn
    <3>3. entry[n][w].state \notin {"await repair", "pass"}
      BY <3>1, <3>2 DEF CopiesInv, Turns
    <3> QED BY <1>1, <3>1, <3>2, <3>3 DEF InTurn, NoTurn
  <2> QED BY <2>1, <2>2
<1>7. \A u : IsResult(msgs, u, Outcome(u, h))' = IsResult(msgs', u, Outcome(u, h))
  BY DEF IsResult
<1> QED BY <1>2, <1>3, <1>4, <1>5, <1>6, <1>7 DEF CopiesInv, timeM
LEMMA SteadyStep ==
  ASSUME VoteInv, NEW h, CopiesInv(h), NEW n \in Node, NEW t \in Tx, NEW e, Become(n, t, e),
         InTurn(n, t, entry[n][t], e, h), UNCHANGED <<now, store>>, msgs \subseteq msgs',
         SettledHere(e) => SettledHere(entry[n][t])
  PROVE  CopiesInv(h)'
<1>1. Stored(n, store[n]) /\ Copies(n, store[n], h)
  BY DEF Stored, CopiesInv
<1>2. \A u \in Tx : Kept(n, u, entry[n][u], store[n], h)
  BY DEF CopiesInv
<1>3. Kept(n, t, e, store[n], h)
  BY <1>2 DEF Kept
<1> QED BY <1>1, <1>2, <1>3, StoreStep

(* What the handlers do: a receipt and final data are only added, and are  *)
(* those of the majority.                                                  *)
FinalGood(t, final, h) ==
  DOMAIN final \subseteq Keys[t] /\ \A a \in DOMAIN final : final[a] = Outcome(t, h).after[a]

Grown(t, o, e, h) ==
  /\ e.ourVote = o.ourVote
  /\ e.state = o.state \/ (o.state = "none" /\ e.state = "pending")
  /\ o.signedReceipt # NoProposal => e.signedReceipt = o.signedReceipt
  /\ DOMAIN o.collectedFinalData \subseteq DOMAIN e.collectedFinalData
  /\ FinalGood(t, e.collectedFinalData, h)

LEMMA GrownStep ==
  ASSUME VoteInv, NEW h, CopiesInv(h), NEW n \in Node, NEW t \in Tx, NEW e, Become(n, t, e),
         Grown(t, entry[n][t], e, h), e.repair = entry[n][t].repair,
         UNCHANGED <<now, store>>, msgs \subseteq msgs'
  PROVE  CopiesInv(h)'
<1> DEFINE o == entry[n][t]
<1>1. EntryGood(t, o, h) /\ (o.state \notin Young => now - Stamp[t] >= timeM)
  BY DEF CopiesInv
<1> HIDE DEF o
<1>2. /\ e.ourVote = o.ourVote /\ e.repair = o.repair
      /\ e.state = o.state \/ (o.state = "none" /\ e.state = "pending")
      /\ o.signedReceipt # NoProposal => e.signedReceipt = o.signedReceipt
      /\ FinalGood(t, e.collectedFinalData, h)
  BY DEF Grown, o
<1>3. EntryGood(t, e, h)
  BY <1>1, <1>2 DEF EntryGood, FinalGood, Early
<1>4. InTurn(n, t, o, e, h)
  BY <1>1, <1>2, <1>3 DEF InTurn, CanCommit, Young, Queued
<1>5. SettledHere(e) => SettledHere(o)
  BY <1>2 DEF SettledHere
<1> QED BY <1>4, <1>5, SteadyStep DEF o

LEMMA IsOutcome ==
  ASSUME VoteInv, NEW h, CopiesInv(h), NEW t \in Tx, NEW p, IsResult(msgs, t, p)
  PROVE  p = Outcome(t, h)
BY ResultsAgree DEF CopiesInv

LEMMA ReceiptIsOutcome ==
  ASSUME VoteInv, NEW h, CopiesInv(h), NEW n \in Node, NEW t \in Tx,
         entry[n][t].signedReceipt # NoProposal
  PROVE  entry[n][t].signedReceipt = Outcome(t, h)
BY EntryShape, IsOutcome DEF EntryInv

LEMMA AddFinalGood ==
  ASSUME Faultless, NEW h \in Initial, NEW t \in Tx, NEW final, FinalGood(t, final, h)
  PROVE  LET f == AddFinal(final, Outcome(t, h).after)
         IN  FinalGood(t, f, h) /\ DOMAIN final \subseteq DOMAIN f
<1> DEFINE data == Outcome(t, h).after
<1>1. DOMAIN data = Keys[t]
  BY OutcomeIs
<1> HIDE DEF data
<1>2. FinalGood(t, final, h) <=>
        DOMAIN final \subseteq Keys[t] /\ \A a \in DOMAIN final : final[a] = data[a]
  BY DEF FinalGood, data
<1>3. /\ DOMAIN AddFinal(final, data) = DOMAIN final \cup Keys[t]
      /\ \A a \in DOMAIN final \cup Keys[t] : AddFinal(final, data)[a] = data[a]
  BY <1>1, <1>2 DEF AddFinal
<1>4. FinalGood(t, AddFinal(final, data), h)
  BY <1>2, <1>3 DEF FinalGood, data
<1> QED BY <1>3, <1>4 DEF data

LEMMA EntryFinalGood ==
  ASSUME NEW h, CopiesInv(h), NEW n \in Node, NEW t \in Tx
  PROVE  FinalGood(t, entry[n][t].collectedFinalData, h)
BY DEF CopiesInv, EntryGood, FinalGood

LEMMA HearGrows ==
  ASSUME VoteInv, Faultless, NEW h \in Initial, CopiesInv(h),
         NEW n \in Node, NEW m \in msgs, Hear(n, m)
  PROVE  /\ UNCHANGED <<now, store, pass>> /\ msgs \subseteq msgs' /\ m.tx \in Tx
         /\ \E e : /\ Become(n, m.tx, e) /\ Grown(m.tx, entry[n][m.tx], e, h)
                   /\ e.repair = entry[n][m.tx].repair
<1> DEFINE t == m.tx
           o == entry[n][t]
<1>1. t \in Tx
  BY DEF VoteInv, Addressed
<1>2. DOMAIN o = Fields
  BY <1>1, EntryShape
<1>3. UNCHANGED <<now, store, pass>>
  BY DEF Hear, Receive
<1>4. FinalGood(t, o.collectedFinalData, h)
  BY <1>1, EntryFinalGood
<1>5. CASE ReceiveData(n, m)
  <2> DEFINE e == [o EXCEPT !.collected = AddData(@, m.account, m.data)]
  <2>1. Become(n, t, e) /\ msgs' = msgs
    BY <1>5 DEF ReceiveData, Become
  <2>2. /\ e.ourVote = o.ourVote /\ e.state = o.state /\ e.signedReceipt = o.signedReceipt
        /\ e.collectedFinalData = o.collectedFinalData /\ e.repair = o.repair
    BY <1>2, FieldNames
  <2> HIDE DEF e
  <2> QED BY <1>1, <1>3, <1>4, <2>1, <2>2 DEF Grown
<1>6. CASE ReceiveVote(n, m)
  <2> DEFINE e == Append(o, m)
  <2>1. Become(n, t, e) /\ msgs' = msgs
    BY <1>6 DEF ReceiveVote, Become
  <2>2. /\ e.ourVote = o.ourVote /\ e.state = o.state /\ e.signedReceipt = o.signedReceipt
        /\ e.collectedFinalData = o.collectedFinalData /\ e.repair = o.repair
    BY <1>2, FieldNames DEF Append
  <2> HIDE DEF e
  <2> QED BY <1>1, <1>3, <1>4, <2>1, <2>2 DEF Grown
<1>7. CASE ReceiveGossip(n, m) \/ ReceiveReceipt(n, m)
  <2> DEFINE e == [o EXCEPT !.signedReceipt = m.proposal]
  <2>1. Become(n, t, e) /\ msgs \subseteq msgs' /\ o.signedReceipt = NoProposal
    BY <1>7 DEF ReceiveGossip, ReceiveReceipt, Become
  <2>2. /\ e.ourVote = o.ourVote /\ e.state = o.state
        /\ e.collectedFinalData = o.collectedFinalData /\ e.repair = o.repair
    BY <1>2, FieldNames
  <2> HIDE DEF e
  <2> QED BY <1>1, <1>3, <1>4, <2>1, <2>2 DEF Grown
<1>8. CASE ReceiveFinal(n, m)
  <2> DEFINE e == [o EXCEPT !.signedReceipt = IF @ = NoProposal THEN m.proposal ELSE @,
                            !.collectedFinalData = AddFinal(@, m.proposal.after)]
  <2>1. Become(n, t, e) /\ msgs' = msgs /\ m.type \in Results
    BY <1>8 DEF ReceiveFinal, Become, Results
  <2>2. m.proposal = Outcome(t, h)
    BY <1>1, <2>1, IsOutcome DEF IsResult
  <2>3. /\ e.ourVote = o.ourVote /\ e.state = o.state /\ e.repair = o.repair
        /\ o.signedReceipt # NoProposal => e.signedReceipt = o.signedReceipt
        /\ e.collectedFinalData = AddFinal(o.collectedFinalData, Outcome(t, h).after)
    BY <1>2, <2>2, FieldNames
  <2> HIDE DEF e
  <2>4. /\ FinalGood(t, e.collectedFinalData, h)
        /\ DOMAIN o.collectedFinalData \subseteq DOMAIN e.collectedFinalData
    BY <1>1, <1>4, <2>3, AddFinalGood
  <2> QED BY <1>1, <1>3, <2>1, <2>3, <2>4 DEF Grown
<1> QED BY <1>5, <1>6, <1>7, <1>8 DEF Hear

LEMMA QueueGrows ==
  ASSUME VoteInv, Faultless, NEW h \in Initial, CopiesInv(h),
         NEW n \in Node, NEW t \in Tx, Queue(n, t) \/ RequestFinalData(n, t)
  PROVE  /\ UNCHANGED <<now, store, pass, msgs>>
         /\ \E e : /\ Become(n, t, e) /\ Grown(t, entry[n][t], e, h)
                   /\ e.repair = entry[n][t].repair
<1> DEFINE o == entry[n][t]
<1>2. DOMAIN o = Fields
  BY EntryShape
<1>3. UNCHANGED <<now, store, pass, msgs>>
  BY DEF Queue, RequestFinalData
<1>4. FinalGood(t, o.collectedFinalData, h)
  BY EntryFinalGood
<1>5. CASE Queue(n, t)
  <2> DEFINE e == [o EXCEPT !.state = "pending"]
  <2>1. Become(n, t, e) /\ o.state = "none"
    BY <1>5 DEF Queue, Become
  <2>2. /\ e.ourVote = o.ourVote /\ e.state = "pending" /\ e.signedReceipt = o.signedReceipt
        /\ e.collectedFinalData = o.collectedFinalData /\ e.repair = o.repair
    BY <1>2, FieldNames
  <2> HIDE DEF e
  <2> QED BY <1>3, <1>4, <2>1, <2>2 DEF Grown
<1>6. CASE RequestFinalData(n, t)
  <2> DEFINE e == [o EXCEPT !.collectedFinalData = AddFinal(@, o.signedReceipt.after)]
  <2>1. Become(n, t, e) /\ o.signedReceipt # NoProposal
    BY <1>6 DEF RequestFinalData, Become
  <2>2. o.signedReceipt = Outcome(t, h)
    BY <2>1, ReceiptIsOutcome
  <2>3. /\ e.ourVote = o.ourVote /\ e.state = o.state /\ e.repair = o.repair
        /\ e.signedReceipt = o.signedReceipt
        /\ e.collectedFinalData = AddFinal(o.collectedFinalData, Outcome(t, h).after)
    BY <1>2, <2>2, FieldNames
  <2> HIDE DEF e
  <2>4. /\ FinalGood(t, e.collectedFinalData, h)
        /\ DOMAIN o.collectedFinalData \subseteq DOMAIN e.collectedFinalData
    BY <1>4, <2>3, AddFinalGood
  <2> QED BY <1>3, <2>1, <2>3, <2>4 DEF Grown
<1> QED BY <1>5, <1>6

(* repairToMatchReceipt brings a copy to the receipt, or leaves what is    *)
(* newer; both hold the transaction.                                       *)
LEMMA RepairStores ==
  ASSUME VoteInv, Faultless, NEW h \in Initial, CopiesInv(h),
         NEW n \in Node, NEW t \in Tx, Repair(n, t)
  PROVE  /\ UNCHANGED <<now, pass, msgs>> /\ CopiesInv(h)'
         /\ \E e : Become(n, t, e) /\ Grown(t, entry[n][t], e, h)
<1> DEFINE o == entry[n][t]
<1>1. DOMAIN o = Fields /\ FinalGood(t, o.collectedFinalData, h)
  BY EntryShape, EntryFinalGood
<1>2. UNCHANGED <<now, pass, msgs>> /\ o.repair = "running"
  BY DEF Repair, Repaired, RepairFails
<1>3. /\ EntryGood(t, o, h) /\ o.state = "await repair" /\ o.signedReceipt # NoProposal
      /\ Applies(t, h) /\ now - Stamp[t] >= timeM
  BY <1>2 DEF CopiesInv, EntryGood, Young
<1>4. PICK r \in {"finished", "failed"} :
        /\ Become(n, t, [o EXCEPT !.repair = r])
        /\ r = "finished" => store' = [store EXCEPT ![n] = Saved(@, o.signedReceipt.after)]
        /\ r = "failed" => store' = store
  BY DEF Repair, Repaired, RepairFails, Become
<1> DEFINE e == [o EXCEPT !.repair = r]
<1>5. /\ e.ourVote = o.ourVote /\ e.state = o.state /\ e.signedReceipt = o.signedReceipt
      /\ e.collectedFinalData = o.collectedFinalData /\ e.repair = r
  BY <1>1, FieldNames
<1>6. Become(n, t, e)
  BY <1>4
<1> HIDE DEF e
<1>7. Grown(t, o, e, h)
  BY <1>1, <1>5 DEF Grown
<1>8. EntryGood(t, e, h) /\ InTurn(n, t, o, e, h)
  <2>1. EntryGood(t, e, h)
    BY <1>3, <1>5 DEF EntryGood, Early
  <2> QED BY <1>3, <1>5, <2>1 DEF InTurn, CanCommit
<1>9. CASE r = "failed"
  <2>1. ~SettledHere(e)
    BY <1>3, <1>5, <1>9 DEF SettledHere
  <2> QED BY <1>2, <1>4, <1>6, <1>7, <1>8, <1>9, <2>1, SteadyStep
<1>10. CASE r = "finished"
  <2> DEFINE data == Outcome(t, h).after
             d == Saved(store[n], data)
  <2>1. o.signedReceipt = Outcome(t, h)
    BY <1>3, ReceiptIsOutcome
  <2>2. DOMAIN store = Node /\ Copies(n, store[n], h)
    BY DEF CopiesInv
  <2>3. Stored(n, d)
    BY <1>4, <1>10, <2>1, <2>2 DEF Stored
  <2>4. /\ DOMAIN data = Keys[t] /\ \A a \in Keys[t] : Moment(a, h, data[a])
        /\ \A a \in Keys[t] : data[a] = Upto(a, h, Stamp[t])
    BY <1>3, OutcomeIs
  <2>5. \A a \in Keys[t] : t \in data[a]
    <3>1. Stamp[t] <= Stamp[t]
      BY StampFacts
    <3> QED BY <1>3, <2>4, <3>1 DEF Upto
  <2> HIDE DEF data
  <2>6. /\ Copies(n, d, h)
        /\ \A a \in Stores[n] : store[n][a] \subseteq d[a]
        /\ \A a \in Stores[n] \cap DOMAIN data : data[a] \subseteq d[a]
    BY <2>2, <2>4, SavedHasBoth
  <2> HIDE DEF d
  <2>7. \A u \in Tx : Kept(n, u, entry[n][u], d, h)
    BY <2>6 DEF CopiesInv, Kept
  <2>8. Kept(n, t, e, d, h)
    BY <1>3, <2>4, <2>5, <2>6 DEF Kept
  <2>9. CopiesInv(h)'
    BY <1>2, <1>6, <1>8, <2>3, <2>6, <2>7, <2>8, StoreStep
  <2> QED BY <1>2, <1>6, <1>7, <2>9
<1> QED BY <1>9, <1>10

(* The steps of a pass that store nothing.                                 *)
LEMMA SameCopies ==
  ASSUME NEW h, CopiesInv(h), UNCHANGED <<store, entry, msgs>>,
         \A t \in Tx : now - Stamp[t] >= timeM => now' - Stamp[t] >= timeM
  PROVE  CopiesInv(h)'
<1>1. \A u : IsResult(msgs, u, Outcome(u, h))' = IsResult(msgs, u, Outcome(u, h))
  BY DEF IsResult
<1> QED BY <1>1 DEF CopiesInv, timeM

LEMMA PassMove ==
  ASSUME VoteInv, NEW h, CopiesInv(h), NEW n \in Node, NEW t \in Tx, IsNext(n, t),
         NEW e, Become(n, t, e), UNCHANGED <<now, store>>, msgs \subseteq msgs',
         e.signedReceipt = entry[n][t].signedReceipt, e.repair = entry[n][t].repair,
         e.collectedFinalData = entry[n][t].collectedFinalData,
         e.state \in {"processing", "awaiting data", "consensing", "await final data"},
         entry[n][t].state # "await repair",
         e.state \in Early => entry[n][t].state \in Early /\ e.ourVote = entry[n][t].ourVote,
         e.ourVote = entry[n][t].ourVote \/ entry[n][t].state = "awaiting data"
  PROVE  CopiesInv(h)'
<1> DEFINE o == entry[n][t]
<1>1. EntryGood(t, o, h)
  BY DEF CopiesInv
<1>2. o.state \in Queued /\ now - Stamp[t] >= timeM
  BY DEF IsNext, Ahead, InQueue, Age
<1> HIDE DEF o
<1>3. /\ e.signedReceipt = o.signedReceipt /\ e.repair = o.repair
      /\ e.collectedFinalData = o.collectedFinalData
      /\ e.state \in {"processing", "awaiting data", "consensing", "await final data"}
      /\ o.state # "await repair"
      /\ e.state \in Early => o.state \in Early /\ e.ourVote = o.ourVote
      /\ e.ourVote = o.ourVote \/ o.state = "awaiting data"
  BY DEF o
<1>4. o.repair # "running" /\ o.repair # "finished"
  BY <1>1, <1>2, <1>3 DEF EntryGood, Queued
<1>5. EntryGood(t, e, h)
  BY <1>1, <1>3, <1>4 DEF EntryGood, Early
<1>6. CanCommit(e) => CanCommit(o)
  BY <1>2, <1>3 DEF CanCommit, Early, Queued
<1>7. InTurn(n, t, o, e, h)
  BY <1>2, <1>3, <1>5, <1>6 DEF InTurn
<1>8. ~SettledHere(e)
  BY <1>3, <1>4 DEF SettledHere
<1> QED BY <1>7, <1>8, SteadyStep DEF o

LEMMA MovesCopy ==
  ASSUME VoteInv, NEW h, CopiesInv(h), NEW n \in Node, NEW t \in Tx, IsNext(n, t),
         \/ PassAging(n, t) \/ PassNoData(n, t) \/ PassTooNew(n, t) \/ PassStuck(n, t)
         \/ At(n, t, "await final data") /\ MoveTo(n, t, "await final data")
  PROVE  CopiesInv(h)'
<1> DEFINE o == entry[n][t]
<1>1. PICK s \in {"processing", "awaiting data", "consensing", "await final data"} :
        /\ MoveTo(n, t, s) /\ o.state # "await repair"
        /\ s \in Early => o.state \in Early
  <2>1. CASE PassAging(n, t)
    BY <2>1 DEF PassAging, At, Early
  <2>2. CASE PassNoData(n, t)
    BY <2>2 DEF PassNoData, At, Early
  <2>3. CASE PassTooNew(n, t)
    BY <2>3 DEF PassTooNew, At, Early
  <2>4. CASE PassStuck(n, t)
    BY <2>4 DEF PassStuck, At, Early
  <2>5. CASE At(n, t, "await final data") /\ MoveTo(n, t, "await final data")
    BY <2>5 DEF At, Early
  <2> QED BY <2>1, <2>2, <2>3, <2>4, <2>5
<1> DEFINE e == [o EXCEPT !.state = s]
<1>2. DOMAIN o = Fields
  BY EntryShape
<1>3. /\ e.ourVote = o.ourVote /\ e.state = s /\ e.signedReceipt = o.signedReceipt
      /\ e.collectedFinalData = o.collectedFinalData /\ e.repair = o.repair
  BY <1>2, FieldNames
<1>4. Become(n, t, e) /\ UNCHANGED <<now, store, msgs>>
  BY <1>1 DEF MoveTo
<1> HIDE DEF e
<1> QED BY <1>1, <1>3, <1>4, PassMove

LEMMA TellCopies ==
  ASSUME VoteInv, NEW h, CopiesInv(h), NEW n \in Node, NEW t \in Tx, IsNext(n, t), PassTell(n, t)
  PROVE  CopiesInv(h)'
<1> DEFINE o == entry[n][t]
           s == IF n \in Exec[t] THEN "awaiting data" ELSE "consensing"
           e == [o EXCEPT !.collected = Collected(n, t), !.state = s]
<1>1. Become(n, t, e) /\ UNCHANGED <<now, store>> /\ msgs \subseteq msgs' /\ o.state = "processing"
  BY DEF PassTell, At
<1>2. DOMAIN o = Fields
  BY EntryShape
<1>3. /\ e.ourVote = o.ourVote /\ e.state = s /\ e.signedReceipt = o.signedReceipt
      /\ e.collectedFinalData = o.collectedFinalData /\ e.repair = o.repair
  BY <1>2, FieldNames
<1> HIDE DEF e
<1> QED BY <1>1, <1>3, PassMove DEF Early

LEMMA ShareCopies ==
  ASSUME VoteInv, NEW h, CopiesInv(h), NEW n \in Node, NEW t \in Tx, IsNext(n, t),
         NEW p, Share(n, t, p), entry[n][t].state = "awaiting data"
  PROVE  CopiesInv(h)'
<1> DEFINE o == entry[n][t]
           d == [o EXCEPT !.state = "consensing", !.ourVote = p]
           e == Append(d, Vote(t, n, p))
<1>1. Become(n, t, e) /\ UNCHANGED <<now, store>> /\ msgs \subseteq msgs'
  BY DEF Share
<1>2. DOMAIN o = Fields
  BY EntryShape
<1>3. /\ d.state = "consensing" /\ d.signedReceipt = o.signedReceipt
      /\ d.collectedFinalData = o.collectedFinalData /\ d.repair = o.repair /\ DOMAIN d = Fields
  BY <1>2, FieldNames
<1> HIDE DEF d
<1>4. /\ e.state = "consensing" /\ e.signedReceipt = o.signedReceipt
      /\ e.collectedFinalData = o.collectedFinalData /\ e.repair = o.repair
  BY <1>3, FieldNames DEF Append
<1> HIDE DEF e
<1> QED BY <1>1, <1>4, PassMove DEF Early

LEMMA NoReceiptCopies ==
  ASSUME VoteInv, NEW h, CopiesInv(h), NEW n \in Node, NEW t \in Tx, IsNext(n, t),
         PassNoReceipt(n, t)
  PROVE  CopiesInv(h)'
<1> DEFINE o == entry[n][t]
           e == [o EXCEPT !.newVotes = @ /\ (o.ourVote = NoProposal
                                            \/ Cardinality(o.votes) < MajorityCount(t))]
<1>1. Become(n, t, e) /\ UNCHANGED <<now, store, msgs>> /\ o.state = "consensing"
  BY DEF PassNoReceipt, At
<1>2. DOMAIN o = Fields
  BY EntryShape
<1>3. /\ e.ourVote = o.ourVote /\ e.state = o.state /\ e.signedReceipt = o.signedReceipt
      /\ e.collectedFinalData = o.collectedFinalData /\ e.repair = o.repair
  BY <1>2, FieldNames
<1> HIDE DEF e
<1> QED BY <1>1, <1>3, PassMove DEF Early

(* No node makes a receipt of its own: the majority has made it.           *)
LEMMA NeverProduces ==
  ASSUME VoteInv, Faultless, NEW n \in Node, NEW t \in Tx
  PROVE  ~PassProduce(n, t)
<1>1. SUFFICES ASSUME PassProduce(n, t) PROVE FALSE
  OBVIOUS
<1> DEFINE o == entry[n][t]
<1>2. Wins(t, o.votes, o.ourVote)
  BY <1>1 DEF PassProduce, Produces
<1>3. Cardinality(Voters(msgs, t, o.ourVote)) > MajorityCount(t)
  BY <1>2, EntryShape, WinsBacked DEF EntryInv
<1>4. Elected(t)
  BY DEF Faultless
<1> QED BY <1>3, <1>4, ElectedNoOther DEF VoteInv

LEMMA NextTurn ==
  ASSUME WalkInv, NEW n \in Node, NEW t \in Tx, IsNext(n, t),
         pass[n].waiting \/ ~accountSeen(n, t)
  PROVE  NoTurn(n, t)
BY NextClear DEF NoTurn, Conflict, CanCommit, Queued

LEMMA ReceiptCopies ==
  ASSUME VoteInv, WalkInv, Faultless, NEW h \in Initial, CopiesInv(h),
         NEW n \in Node, NEW t \in Tx, IsNext(n, t), PassReceipt(n, t)
  PROVE  CopiesInv(h)'
<1> DEFINE o == entry[n][t]
           e == AfterReceipt(n, t, o)
<1>1. /\ Become(n, t, e) /\ UNCHANGED <<now, store, msgs>> /\ o.state = "consensing"
      /\ o.signedReceipt # NoProposal /\ ~accountSeen(n, t)
  BY DEF PassReceipt, At
<1>2. DOMAIN o = Fields /\ EntryGood(t, o, h)
  BY EntryShape DEF CopiesInv
<1>3. o.signedReceipt = Outcome(t, h)
  BY <1>1, ReceiptIsOutcome
<1>4. o.signedReceipt.applied <=> Applies(t, h)
  BY <1>3, OutcomeIs
<1>5. NoTurn(n, t) /\ now - Stamp[t] >= timeM
  BY <1>1, NextTurn DEF IsNext, Ahead, Age
<1>6. o.repair # "running" /\ o.repair # "finished"
  BY <1>1, <1>2 DEF EntryGood
<1>7. /\ e.ourVote = o.ourVote /\ e.signedReceipt = o.signedReceipt
      /\ e.collectedFinalData = o.collectedFinalData
      /\ \/ e.state = "fail" /\ e.repair = o.repair
         \/ /\ e.state = "commiting" /\ e.repair = o.repair /\ Applies(t, h)
            /\ o.ourVote # NoProposal /\ o.ourVote = o.signedReceipt
         \/ e.state = "await repair" /\ e.repair = "running" /\ Applies(t, h)
         \/ e.state = "await final data" /\ e.repair = o.repair
  <2>1. \A s : LET d == [o EXCEPT !.state = s] IN
          /\ d.state = s /\ d.ourVote = o.ourVote /\ d.signedReceipt = o.signedReceipt
          /\ d.collectedFinalData = o.collectedFinalData /\ d.repair = o.repair
    BY <1>2, FieldNames
  <2>2. LET d == [o EXCEPT !.state = "await repair", !.repair = "running"] IN
          /\ d.state = "await repair" /\ d.ourVote = o.ourVote /\ d.signedReceipt = o.signedReceipt
          /\ d.collectedFinalData = o.collectedFinalData /\ d.repair = "running"
    BY <1>2, FieldNames
  <2> HIDE DEF o
  <2> QED BY <1>4, <2>1, <2>2 DEF AfterReceipt, Matches
<1> HIDE DEF e
<1>8. EntryGood(t, e, h)
  BY <1>1, <1>2, <1>6, <1>7 DEF EntryGood, Early
<1>9. InTurn(n, t, o, e, h)
  BY <1>1, <1>5, <1>7, <1>8 DEF InTurn, CanCommit, Queued
<1>10. ~SettledHere(e)
  BY <1>6, <1>7 DEF SettledHere
<1> QED BY <1>1, <1>9, <1>10, SteadyStep

LEMMA RepairedCopies ==
  ASSUME VoteInv, NEW h, CopiesInv(h), NEW n \in Node, NEW t \in Tx, IsNext(n, t), PassRepair(n, t)
  PROVE  CopiesInv(h)'
<1> DEFINE o == entry[n][t]
<1>1. o.state = "await repair" /\ EntryGood(t, o, h)
  BY DEF PassRepair, At, CopiesInv
<1>2. PICK s : /\ MoveTo(n, t, s)
               /\ \/ s = "pass" /\ o.repair = "finished"
                  \/ s = "fail" /\ o.repair = "failed"
                  \/ s = "await repair"
  BY DEF PassRepair
<1> DEFINE e == [o EXCEPT !.state = s]
<1>3. Become(n, t, e) /\ UNCHANGED <<now, store, msgs>>
  BY <1>2 DEF MoveTo
<1>4. DOMAIN o = Fields
  BY EntryShape
<1>5. /\ e.ourVote = o.ourVote /\ e.state = s /\ e.signedReceipt = o.signedReceipt
      /\ e.collectedFinalData = o.collectedFinalData /\ e.repair = o.repair
  BY <1>4, FieldNames
<1>6. now - Stamp[t] >= timeM
  BY DEF IsNext, Ahead, Age
<1> HIDE DEF e, o
<1>7. EntryGood(t, e, h)
  BY <1>1, <1>2, <1>5 DEF EntryGood, Early
<1>8. InTurn(n, t, o, e, h)
  BY <1>1, <1>2, <1>5, <1>6, <1>7 DEF InTurn, CanCommit, Queued
<1>9. SettledHere(e) => SettledHere(o)
  BY <1>1, <1>2, <1>5 DEF SettledHere
<1> QED BY <1>3, <1>8, <1>9, SteadyStep DEF o

(* commitConsensedTransaction writes the vote over what is stored.  What   *)
(* is lost with it, if it was newer, no settled transaction has written.   *)
LEMMA CommitStores ==
  ASSUME VoteInv, WalkInv, Faultless, NEW h \in Initial, CopiesInv(h),
         NEW n \in Node, NEW t \in Tx, IsNext(n, t), Committed(n, t)
  PROVE  CopiesInv(h)'
<1> DEFINE o == entry[n][t]
           e == [o EXCEPT !.state = "pass"]
           d == WithCommit(n, t)
<1>1. /\ Become(n, t, e) /\ UNCHANGED <<now, msgs>> /\ store' = [store EXCEPT ![n] = d]
      /\ o.state = "commiting" /\ pass[n].waiting
  BY DEF Committed, Awaited
<1>2. DOMAIN o = Fields /\ EntryGood(t, o, h)
  BY EntryShape DEF CopiesInv
<1>3. /\ Applies(t, h) /\ o.ourVote = o.signedReceipt /\ o.signedReceipt # NoProposal
      /\ o.repair # "running" /\ o.repair # "finished"
  BY <1>1, <1>2 DEF EntryGood
<1>4. /\ e.ourVote = o.ourVote /\ e.state = "pass" /\ e.signedReceipt = o.signedReceipt
      /\ e.collectedFinalData = o.collectedFinalData /\ e.repair = o.repair
  BY <1>2, FieldNames
<1>5. NoTurn(n, t) /\ now - Stamp[t] >= timeM
  BY <1>1, NextTurn DEF IsNext, Ahead, Age
<1>6. EntryGood(t, e, h) /\ InTurn(n, t, o, e, h)
  <2> HIDE DEF e, o
  <2>1. EntryGood(t, e, h)
    BY <1>2, <1>3, <1>4 DEF EntryGood, Early
  <2> QED BY <1>4, <1>5, <2>1 DEF InTurn, CanCommit, Queued
<1>7. o.ourVote = Outcome(t, h)
  BY <1>3, ReceiptIsOutcome
<1>8. /\ DOMAIN d = Stores[n]
      /\ \A a \in Stores[n] : a \in Keys[t] => d[a] = Upto(a, h, Stamp[t])
      /\ \A a \in Stores[n] : a \notin Keys[t] => d[a] = store[n][a]
  <2>1. \A a \in Keys[t] : Outcome(t, h).after[a] = Upto(a, h, Stamp[t])
    BY <1>3, OutcomeIs
  <2> QED BY <1>7, <2>1 DEF WithCommit
<1>9. Stored(n, d) /\ Copies(n, store[n], h)
  BY <1>1 DEF Stored, CopiesInv
<1> HIDE DEF d, e
<1>10. Copies(n, d, h)
  <2>1. Stamp[t] \in Nat
    BY StampFacts
  <2> QED BY <1>8, <1>9, <2>1 DEF Copies, Moment
<1>11. ASSUME NEW u \in Tx, u # t PROVE Kept(n, u, entry[n][u], d, h)
  <2>1. SUFFICES ASSUME SettledHere(entry[n][u]), NEW a \in Keys[u] \cap Stores[n]
                 PROVE  u \in d[a]
    BY DEF CopiesInv, Kept
  <2>2. Applies(u, h) /\ u \in store[n][a] /\ EntryGood(u, entry[n][u], h)
    BY <2>1 DEF CopiesInv, Kept
  <2>3. CASE a \notin Keys[t]
    BY <1>8, <2>2, <2>3
  <2>4. CASE a \in Keys[t]
    <3>1. entry[n][u].state \in {"await repair", "pass"}
      BY <2>1, <2>2 DEF SettledHere, EntryGood
    <3>2. CanCommit(entry[n][t])
      BY <1>1, <1>3 DEF CanCommit, Queued
    <3>3. ~Conflict(t, u)
      BY <3>1, <3>2 DEF CopiesInv, Turns
    <3>4. Stamp[u] <= Stamp[t]
      BY <2>4, <3>3, StampFacts DEF Conflict
    <3> QED BY <1>8, <2>2, <2>4, <3>4 DEF Upto
  <2> QED BY <2>3, <2>4
<1>12. Kept(n, t, e, d, h)
  <2>1. Stamp[t] <= Stamp[t]
    BY StampFacts
  <2> QED BY <1>3, <1>8, <2>1 DEF Kept, Upto
<1> QED BY <1>1, <1>6, <1>9, <1>10, <1>11, <1>12, StoreStep

(* checkAndSetAccountData with the final data of a receipt.                *)
LEMMA SavedCopies ==
  ASSUME VoteInv, WalkInv, ReadyInv, Faultless, NEW h \in Initial, CopiesInv(h),
         NEW n \in Node, NEW t \in Tx, IsNext(n, t), SavedFinal(n, t)
  PROVE  CopiesInv(h)'
<1> DEFINE o == entry[n][t]
           s == IF o.signedReceipt.applied THEN "pass" ELSE "fail"
           e == [o EXCEPT !.state = s]
           data == o.collectedFinalData
           d == Saved(store[n], data)
<1>1. /\ Become(n, t, e) /\ UNCHANGED <<now, msgs>> /\ store' = [store EXCEPT ![n] = Saved(@, data)]
      /\ o.state = "await final data" /\ pass[n].waiting
  BY DEF SavedFinal, Awaited
<1>2. DOMAIN o = Fields /\ EntryGood(t, o, h) /\ FinalGood(t, data, h)
  BY EntryShape, EntryFinalGood DEF CopiesInv
<1>3. o.signedReceipt # NoProposal /\ Keys[t] \cap Stores[n] \subseteq DOMAIN data
  BY <1>1 DEF ReadyInv, Ready, Complete
<1>4. o.signedReceipt = Outcome(t, h)
  BY <1>3, ReceiptIsOutcome
<1>5. /\ (s = "pass" /\ Applies(t, h)) \/ s = "fail"
      /\ \A a \in DOMAIN data : Moment(a, h, data[a])
      /\ Applies(t, h) => \A a \in DOMAIN data : t \in data[a]
  <2>1. Stamp[t] <= Stamp[t]
    BY StampFacts
  <2> QED BY <1>2, <1>4, <2>1, OutcomeIs DEF FinalGood, Upto
<1>6. o.repair # "running" /\ o.repair # "finished"
  BY <1>1, <1>2 DEF EntryGood
<1>7. /\ e.ourVote = o.ourVote /\ e.state = s /\ e.signedReceipt = o.signedReceipt
      /\ e.collectedFinalData = o.collectedFinalData /\ e.repair = o.repair
  BY <1>2, FieldNames
<1>8. NoTurn(n, t) /\ now - Stamp[t] >= timeM
  BY <1>1, NextTurn DEF IsNext, Ahead, Age
<1>9. DOMAIN store = Node /\ Copies(n, store[n], h)
  BY DEF CopiesInv
<1>10. Stored(n, d)
  BY <1>1, <1>9 DEF Stored
<1> HIDE DEF e, o, s, data
<1>11. EntryGood(t, e, h) /\ InTurn(n, t, o, e, h)
  <2>1. EntryGood(t, e, h)
    BY <1>2, <1>5, <1>6, <1>7 DEF EntryGood, Early
  <2> QED BY <1>5, <1>7, <1>8, <2>1 DEF InTurn, CanCommit, Queued
<1>12. /\ Copies(n, d, h)
       /\ \A a \in Stores[n] : store[n][a] \subseteq d[a]
       /\ \A a \in Stores[n] \cap DOMAIN data : data[a] \subseteq d[a]
  BY <1>5, <1>9, SavedHasBoth
<1> HIDE DEF d
<1>13. \A u \in Tx : Kept(n, u, entry[n][u], d, h)
  BY <1>12 DEF CopiesInv, Kept
<1>14. Kept(n, t, e, d, h)
  BY <1>3, <1>5, <1>6, <1>7, <1>12 DEF Kept, SettledHere
<1> QED BY <1>1, <1>10, <1>11, <1>12, <1>13, <1>14, StoreStep DEF o

(* Transactions enter the queue.  One that may still be committed comes    *)
(* before its sit time is over, when nothing newer has been walked.        *)
LEMMA InsertCopies ==
  ASSUME VoteInv, WalkInv, NEW h, CopiesInv(h), NEW n \in Node, InsertPending(n)
  PROVE  CopiesInv(h)'
<1>1. /\ UNCHANGED <<now, store, msgs>>
      /\ \A k \in Node, t \in Tx : entry'[k][t] =
           IF k = n /\ entry[k][t].state = "pending"
           THEN [entry[k][t] EXCEPT !.state = Inserted(t)] ELSE entry[k][t]
  BY DEF InsertPending, VoteInv, EntriesOK, Shaped
<1>2. ASSUME NEW k \in Node, NEW t \in Tx
      PROVE  \/ entry'[k][t] = entry[k][t]
             \/ LET o == entry[k][t]
                    e == entry'[k][t]
                IN  /\ o.state = "pending" /\ e.state = Inserted(t) /\ e.ourVote = o.ourVote
                    /\ e.collectedFinalData = o.collectedFinalData /\ e.repair = o.repair
  <2>1. CASE k = n /\ entry[k][t].state = "pending"
    <3>1. DOMAIN entry[k][t] = Fields
      BY EntryShape
    <3>2. entry'[k][t] = [entry[k][t] EXCEPT !.state = Inserted(t)]
      BY <1>1, <2>1
    <3> QED BY <2>1, <3>1, <3>2, FieldNames
  <2>2. CASE ~(k = n /\ entry[k][t].state = "pending")
    BY <1>1, <2>2
  <2> QED BY <2>1, <2>2
<1>3. \A t \in Tx : now \in Int /\ Stamp[t] \in Nat
  BY StampFacts DEF WalkInv
<1>4. \A t \in Tx : \/ Inserted(t) = "aging" /\ ~(now - Stamp[t] >= timeM)
                    \/ Inserted(t) = "await final data" /\ now - Stamp[t] >= timeM
  BY <1>3 DEF Inserted, Age, timeM
<1>5. ASSUME NEW k \in Node, NEW t \in Tx
      PROVE  /\ EntryGood(t, entry'[k][t], h)
             /\ Kept(k, t, entry'[k][t], store[k], h)
             /\ entry'[k][t].state \notin Young => now - Stamp[t] >= timeM
             /\ CanCommit(entry'[k][t]) => \/ CanCommit(entry[k][t])
                                           \/ ~(now - Stamp[t] >= timeM)
             /\ entry'[k][t].state \in {"await repair", "pass"} =>
                  entry[k][t].state \in {"await repair", "pass"} /\ now - Stamp[t] >= timeM
  <2> DEFINE o == entry[k][t]
             e == entry'[k][t]
  <2>1. /\ EntryGood(t, o, h) /\ Kept(k, t, o, store[k], h)
        /\ o.state \notin Young => now - Stamp[t] >= timeM
    BY DEF CopiesInv
  <2>2. CASE e = o
    BY <2>1, <2>2 DEF Young
  <2>3. CASE e # o
    <3>1. /\ o.state = "pending" /\ e.state = Inserted(t) /\ e.ourVote = o.ourVote
          /\ e.collectedFinalData = o.collectedFinalData /\ e.repair = o.repair
      BY <1>2, <2>3
    <3> HIDE DEF o, e
    <3>2. \/ e.state = "aging" /\ ~(now - Stamp[t] >= timeM)
          \/ e.state = "await final data" /\ now - Stamp[t] >= timeM
      BY <1>4, <3>1
    <3>3. o.ourVote = NoProposal /\ o.repair # "running" /\ o.repair # "finished"
      BY <2>1, <3>1 DEF EntryGood, Early
    <3>4. EntryGood(t, e, h)
      BY <2>1, <3>1, <3>2, <3>3 DEF EntryGood, Early
    <3>5. ~SettledHere(e)
      BY <3>1, <3>2, <3>3 DEF SettledHere
    <3>6. CanCommit(e) => ~(now - Stamp[t] >= timeM)
      BY <3>1, <3>2, <3>3 DEF CanCommit
    <3> QED BY <3>2, <3>4, <3>5, <3>6 DEF Kept, Young, o, e
  <2> QED BY <2>2, <2>3
<1>6. ASSUME NEW k \in Node PROVE Turns(entry'[k])
  <2>1. SUFFICES ASSUME NEW u \in Tx, NEW w \in Tx, CanCommit(entry'[k][u]), Conflict(u, w),
                        entry'[k][w].state \in {"await repair", "pass"}
                 PROVE  FALSE
    BY DEF Turns
  <2>2. entry[k][w].state \in {"await repair", "pass"} /\ now - Stamp[w] >= timeM
    BY <1>5, <2>1
  <2>3. ~CanCommit(entry[k][u])
    BY <2>1, <2>2 DEF CopiesInv, Turns
  <2>4. ~(now - Stamp[u] >= timeM) /\ Stamp[u] < Stamp[w]
    BY <1>5, <2>1, <2>3 DEF Conflict
  <2>5. now \in Int /\ Stamp[u] \in Nat /\ Stamp[w] \in Nat
    BY <1>3
  <2>6. \A i \in Int, j, l \in Nat : ~(i - j >= 1) /\ j < l => ~(i - l >= 1)
    OBVIOUS
  <2>7. ~(now - Stamp[w] >= 1)
    BY <2>4, <2>5, <2>6 DEF timeM
  <2> QED BY <2>2, <2>7 DEF timeM
<1>7. \A u : IsResult(msgs, u, Outcome(u, h))' = IsResult(msgs, u, Outcome(u, h))
  BY <1>1 DEF IsResult
<1> QED BY <1>1, <1>5, <1>6, <1>7 DEF CopiesInv, timeM

LEMMA PassCopies ==
  ASSUME VoteInv, WalkInv, ReadyInv, Faultless, NEW h \in Initial, CopiesInv(h),
         NEW n \in Node, NEW t \in Tx, Handle(n, t)
  PROVE  CopiesInv(h)'
<1>1. IsNext(n, t)
  BY DEF Handle
<1>2. CASE PassBlocked(n, t)
  BY <1>2, SameCopies DEF PassBlocked
<1>3. CASE Await(n, t)
  BY <1>3, SameCopies DEF Await
<1>4. CASE \/ PassAging(n, t) \/ PassNoData(n, t) \/ PassTooNew(n, t) \/ PassStuck(n, t)
           \/ At(n, t, "await final data") /\ MoveTo(n, t, "await final data")
  BY <1>1, <1>4, MovesCopy
<1>5. CASE PassTell(n, t)
  BY <1>1, <1>5, TellCopies
<1>6. CASE PassApply(n, t)
  <2>1. CASE Share(n, t, CannotApply(t, entry[n][t].collected))
    BY <1>1, <1>6, <2>1, ShareCopies DEF PassApply, At
  <2> QED BY <1>3, <1>6, <2>1 DEF PassApply
<1>7. CASE PreApplied(n, t)
  BY <1>1, <1>7, ShareCopies DEF PreApplied, Awaited
<1>8. CASE PassNoReceipt(n, t)
  BY <1>1, <1>8, NoReceiptCopies
<1>9. CASE PassReceipt(n, t)
  BY <1>1, <1>9, ReceiptCopies
<1>10. CASE PassCommit(n, t) \/ PassFinal(n, t)
  BY <1>3, <1>4, <1>10 DEF PassCommit, PassFinal
<1>11. CASE Committed(n, t)
  BY <1>1, <1>11, CommitStores
<1>12. CASE SavedFinal(n, t)
  BY <1>1, <1>12, SavedCopies
<1>13. CASE PassRepair(n, t)
  BY <1>1, <1>13, RepairedCopies
<1> QED BY NeverProduces, <1>2, <1>4, <1>5, <1>6, <1>7, <1>8, <1>9, <1>10, <1>11, <1>12, <1>13 DEF Handle

LEMMA CopiesStep ==
  ASSUME VoteInv, WalkInv, ReadyInv, Faultless, NEW h \in Initial, CopiesInv(h), [Next]_vars
  PROVE  CopiesInv(h)'
<1>1. CASE UNCHANGED vars
  BY <1>1, SameCopies DEF vars
<1>2. CASE Tick
  <2>1. \A t \in Tx : now \in Int /\ Stamp[t] \in Nat
    BY StampFacts DEF WalkInv
  <2>2. \A t \in Tx : now - Stamp[t] >= timeM => now' - Stamp[t] >= timeM
    BY <1>2, <2>1 DEF Tick, timeM
  <2> QED BY <1>2, <2>2, SameCopies DEF Tick
<1>3. ASSUME NEW n \in Node, NodeStep(n) PROVE CopiesInv(h)'
  <2>1. CASE InsertPending(n)
    BY <2>1, InsertCopies
  <2>2. ASSUME NEW m \in msgs, Hear(n, m) PROVE CopiesInv(h)'
    <3>1. /\ UNCHANGED <<now, store>> /\ msgs \subseteq msgs' /\ m.tx \in Tx
          /\ \E e : /\ Become(n, m.tx, e) /\ Grown(m.tx, entry[n][m.tx], e, h)
                    /\ e.repair = entry[n][m.tx].repair
      BY <2>2, HearGrows
    <3> QED BY <3>1, GrownStep
  <2>3. ASSUME NEW t \in Tx, Queue(n, t) \/ RequestFinalData(n, t) PROVE CopiesInv(h)'
    <3>1. /\ UNCHANGED <<now, store, msgs>>
          /\ \E e : /\ Become(n, t, e) /\ Grown(t, entry[n][t], e, h)
                    /\ e.repair = entry[n][t].repair
      BY <2>3, QueueGrows
    <3> QED BY <3>1, GrownStep
  <2>4. ASSUME NEW t \in Tx, Repair(n, t) PROVE CopiesInv(h)'
    BY <2>4, RepairStores
  <2> QED BY <1>3, <2>1, <2>2, <2>3, <2>4 DEF NodeStep
<1>4. ASSUME NEW n \in Node, NEW t \in Tx, PassStep(n, t) PROVE CopiesInv(h)'
  BY <1>4, PassCopies DEF PassStep
<1> QED BY <1>1, <1>2, <1>3, <1>4 DEF Next

-----------------------------------------------------------------------------
(* While a node waits to save final data, handlers only add to it.         *)
LEMMA HandlersReady ==
  ASSUME VoteInv, ReadyInv, NEW n \in Node, NEW t \in Tx, NEW e, Become(n, t, e), NEW h,
         Grown(t, entry[n][t], e, h), UNCHANGED <<now, pass>>
  PROVE  ReadyInv'
<1>1. /\ entry'[n][t] = e
      /\ \A k \in Node, u \in Tx : k # n \/ u # t => entry'[k][u] = entry[k][u]
  BY BecomeFields DEF VoteInv, EntriesOK
<1>2. ASSUME NEW k \in Node, NEW u \in Tx
      PROVE  /\ entry'[k][u].state \in Queued <=> entry[k][u].state \in Queued
             /\ entry'[k][u].state = "await final data" => entry[k][u].state = "await final data"
             /\ Ready(k, u) => Ready(k, u)'
  BY <1>1 DEF Grown, Queued, Ready, Complete
<1>3. ASSUME NEW k \in Node, NEW u \in Tx, IsNext(k, u)' PROVE IsNext(k, u)
  <2>1. InQueue(k)' = InQueue(k)
    BY <1>2 DEF InQueue
  <2>2. Ahead(k, pass[k].at)' = Ahead(k, pass[k].at)
    BY <2>1 DEF Ahead, Age
  <2> QED BY <1>3, <2>2 DEF IsNext
<1> QED BY <1>2, <1>3 DEF ReadyInv

LEMMA InsertReady ==
  ASSUME VoteInv, WalkInv, ReadyInv, NEW n \in Node, InsertPending(n)
  PROVE  ReadyInv'
<1>1. /\ pass' = pass /\ now' = now /\ ~pass[n].running
      /\ \A k \in Node \ {n}, t \in Tx : entry'[k][t] = entry[k][t]
  BY DEF InsertPending, VoteInv, EntriesOK, Shaped
<1>2. ~pass[n].waiting
  BY <1>1 DEF WalkInv, WalkOK
<1>3. SUFFICES ASSUME NEW k \in Node \ {n}, pass[k].waiting, NEW t \in Tx, IsNext(k, t)',
                      entry[k][t].state = "await final data"
               PROVE  Ready(k, t)'
  BY <1>1, <1>2 DEF ReadyInv
<1>4. IsNext(k, t)
  BY <1>1, <1>3 DEF IsNext, Ahead, InQueue, Age
<1>5. Ready(k, t)
  BY <1>3, <1>4 DEF ReadyInv
<1> QED BY <1>1, <1>5 DEF Ready, Complete

LEMMA TickReady ==
  ASSUME WalkInv, ReadyInv, Tick
  PROVE  ReadyInv'
<1>1. /\ now' = now + 1 /\ UNCHANGED <<entry, pass>>
  BY DEF Tick
<1>2. SUFFICES ASSUME NEW n \in Node, pass[n].waiting, NEW t \in Tx, IsNext(n, t)',
                      entry[n][t].state = "await final data"
               PROVE  Ready(n, t)
  BY <1>1 DEF ReadyInv, Ready, Complete
<1>3. PICK u \in Tx : IsNext(n, u)
  BY <1>2 DEF WalkInv, WalkOK
<1>4. IsNext(n, u)'
  BY <1>3, TickNext
<1>5. u = t
  <2>1. Stamp[t] <= Stamp[u] /\ Stamp[u] <= Stamp[t]
    BY <1>2, <1>4 DEF IsNext
  <2> QED BY <2>1, StampFacts
<1> QED BY <1>2, <1>3, <1>5 DEF ReadyInv

LEMMA PassReady ==
  ASSUME VoteInv, WalkInv, ReadyInv, NEW n \in Node, NEW t \in Tx, Handle(n, t)
  PROVE  ReadyInv'
<1>1. /\ IsNext(n, t) /\ now' = now
      /\ \/ Skips(n, t) \/ Waits(n, t)
         \/ \E e : Finishes(n, t, e) \/ Votes(n, t, e) \/ Commits(n, t, e)
  BY PassSteps
<1>2. Shaped /\ DOMAIN pass = Node
  BY DEF VoteInv, EntriesOK, WalkInv
<1>3. \A k \in Node, u \in Tx : k # n => entry'[k][u] = entry[k][u]
  BY <1>1, <1>2, BecomeFields DEF Skips, Waits, Await, Finishes, Votes, Commits
<1>4. \A k \in Node \ {n} : pass'[k] = pass[k]
  BY <1>1, <1>2, Zenon DEF Skips, Waits, Await, Finishes, Votes, Commits, Done, GoOn
<1>5. ASSUME NEW k \in Node \ {n}, pass'[k].waiting, NEW u \in Tx, IsNext(k, u)',
             entry'[k][u].state = "await final data"
      PROVE  Ready(k, u)'
  <2>1. IsNext(k, u)
    BY <1>1, <1>3, <1>4, <1>5 DEF IsNext, Ahead, InQueue, Age
  <2>2. Ready(k, u)
    BY <1>3, <1>4, <1>5, <2>1 DEF ReadyInv
  <2> QED BY <1>3, <2>2 DEF Ready, Complete
<1>6. SUFFICES ASSUME pass'[n].waiting, NEW u \in Tx, IsNext(n, u)',
                      entry'[n][u].state = "await final data"
               PROVE  Ready(n, u)'
  BY <1>5 DEF ReadyInv
<1>a. ASSUME NEW seen, GoOn(n, t, seen) PROVE FALSE
  BY <1>2, <1>6, <1>a DEF GoOn, NotRunning
<1>7. Waits(n, t)
  BY <1>1, <1>a DEF Skips, Finishes, Votes, Commits, Done
<1>8. entry' = entry /\ pass'[n].at = pass[n].at
  <2>1. DOMAIN pass[n] = {"running", "at", "seen", "waiting"}
    BY DEF WalkInv, WalkOK
  <2> QED BY <1>2, <1>7, <2>1 DEF Waits, Await
<1>9. IsNext(n, u)
  BY <1>1, <1>6, <1>8 DEF IsNext, Ahead, InQueue, Age
<1>10. u = t
  BY <1>1, <1>9, NextUnique
<1>11. Ready(n, t)
  <2>1. entry[n][t].state = "await final data" /\ ~pass[n].waiting
    BY <1>6, <1>7, <1>8, <1>10 DEF Waits
  <2>2. PassFinal(n, t)
    BY <1>7, <2>1 DEF Handle, At, Awaited, Waits, PassBlocked, PassAging, PassTell, PassNoData,
      PassTooNew, PassApply, PreApplied, PassProduce, PassNoReceipt, PassReceipt, PassStuck,
      PassCommit, Committed, SavedFinal, PassRepair
  <2>3. ~MoveTo(n, t, "await final data")
    BY <1>a DEF MoveTo, Done
  <2> QED BY <2>2, <2>3 DEF PassFinal, Ready
<1> QED BY <1>8, <1>10, <1>11 DEF Ready, Complete

-----------------------------------------------------------------------------
LEMMA CopiesInit ==
  ASSUME Faultless, Init
  PROVE  ReadyInv /\ \E h \in Initial : CopiesInv(h)
<1>1. PICK h \in Initial :
        /\ \E missed \in Missed : store = [n \in Node |-> [a \in Stores[n] |->
             IF <<n, a>> \in missed THEN {} ELSE h[a]]]
        /\ msgs = UNION {RemoteMessages(t, Ideal(t, h)) : t \in Tx}
  BY DEF Init
<1>2. DOMAIN store = Node /\ \A n \in Node : Copies(n, store[n], h)
  <2>1. \A a : Upto(a, h, 0) = h[a]
    <3>1. \A u \in Tx : ~(Stamp[u] <= 0)
      BY StampFacts
    <3> QED BY <3>1 DEF Upto
  <2>2. \A a : Moment(a, h, {}) /\ Moment(a, h, h[a])
    BY <2>1 DEF Moment
  <2> QED BY <1>1, <2>2 DEF Copies
<1>3. ASSUME NEW t \in Tx PROVE IsResult(msgs, t, Outcome(t, h))
  <2> DEFINE p == Outcome(t, h)
             k == Cardinality({Vote(t, r, p) : r \in Remote \cap Exec[t]})
  <2>1. k = Cardinality(Remote \cap Exec[t])
    BY RemoteVotes
  <2>2. k > MajorityCount(t)
    BY <2>1 DEF Faultless, Elected
  <2>3. Remote # {}
    <3>1. SUFFICES ASSUME Remote = {} PROVE FALSE
      OBVIOUS
    <3>2. Remote \cap Exec[t] = {}
      BY <3>1
    <3>3. k = 0 /\ MajorityCount(t) \in Nat
      BY <2>1, <3>2, FS_EmptySet, MajorityIsTwoThirds
    <3> HIDE DEF k
    <3> QED BY <2>2, <3>3
  <2>4. Receipt(t, p, k) \in RemoteMessages(t, Ideal(t, h))
    BY <2>2, <2>3 DEF RemoteMessages, Outcome
  <2>5. Receipt(t, p, k) \in msgs
    BY <1>1, <2>4
  <2> HIDE DEF p, k
  <2>6. /\ Receipt(t, p, k).type \in Results /\ Receipt(t, p, k).tx = t
        /\ Receipt(t, p, k).proposal = p
    BY DEF Receipt, Results
  <2> QED BY <2>5, <2>6 DEF IsResult, p
<1>4. ASSUME NEW n \in Node, NEW t \in Tx
      PROVE  /\ entry[n][t].state \in Young /\ entry[n][t].ourVote = NoProposal
             /\ entry[n][t].repair = "no" /\ DOMAIN entry[n][t].collectedFinalData = {}
  <2>1. entry[n][t] \in {NewEntry, [NewEntry EXCEPT !.state = "aging"]}
    BY DEF Init
  <2> QED BY <2>1 DEF NewEntry, Young
<1>5. ASSUME NEW n \in Node, NEW t \in Tx
      PROVE  /\ EntryGood(t, entry[n][t], h) /\ Kept(n, t, entry[n][t], store[n], h)
             /\ entry[n][t].state \in Young
  BY <1>4 DEF EntryGood, Kept, SettledHere, Young
<1>6. \A n \in Node : Turns(entry[n])
  BY <1>4 DEF Turns, Young
<1>7. ReadyInv
  BY DEF Init, ReadyInv, NotRunning
<1> QED BY <1>2, <1>3, <1>5, <1>6, <1>7 DEF CopiesInv

LEMMA ReadyStep ==
  ASSUME VoteInv, WalkInv, ReadyInv, Faultless, NEW h \in Initial, CopiesInv(h), [Next]_vars
  PROVE  ReadyInv'
<1>1. CASE UNCHANGED vars
  BY <1>1 DEF vars, ReadyInv, IsNext, Ahead, InQueue, Age, Ready, Complete
<1>2. CASE Tick
  BY <1>2, TickReady
<1>3. ASSUME NEW n \in Node, NodeStep(n) PROVE ReadyInv'
  <2>1. CASE InsertPending(n)
    BY <2>1, InsertReady
  <2>2. ASSUME NEW m \in msgs, Hear(n, m) PROVE ReadyInv'
    <3>1. /\ UNCHANGED <<now, pass>> /\ m.tx \in Tx
          /\ \E e : Become(n, m.tx, e) /\ Grown(m.tx, entry[n][m.tx], e, h)
      BY <2>2, HearGrows
    <3> QED BY <3>1, HandlersReady
  <2>3. ASSUME NEW t \in Tx, Queue(n, t) \/ RequestFinalData(n, t) \/ Repair(n, t)
        PROVE  ReadyInv'
    <3>1. /\ UNCHANGED <<now, pass>>
          /\ \E e : Become(n, t, e) /\ Grown(t, entry[n][t], e, h)
      BY <2>3, QueueGrows, RepairStores
    <3> QED BY <3>1, HandlersReady
  <2> QED BY <1>3, <2>1, <2>2, <2>3 DEF NodeStep
<1>4. ASSUME NEW n \in Node, NEW t \in Tx, PassStep(n, t) PROVE ReadyInv'
  BY <1>4, PassReady DEF PassStep
<1> QED BY <1>1, <1>2, <1>3, <1>4 DEF Next

StoreInv == VoteInv /\ WalkInv /\ ReadyInv /\ \E h \in Initial : CopiesInv(h)

LEMMA StoresHold ==
  ASSUME Faultless
  PROVE  Spec => []StoreInv
<1>1. Init => StoreInv
  BY VoteInit, WalkInit, CopiesInit DEF StoreInv
<1>2. StoreInv /\ [Next]_vars => StoreInv'
  <2>1. SUFFICES ASSUME StoreInv, [Next]_vars PROVE StoreInv'
    OBVIOUS
  <2>2. PICK h \in Initial : CopiesInv(h)
    BY <2>1 DEF StoreInv
  <2>3. VoteInv' /\ WalkInv' /\ ReadyInv' /\ CopiesInv(h)'
    BY <2>1, <2>2, VoteStep, WalkStep, ReadyStep, CopiesStep DEF StoreInv
  <2> QED BY <2>3 DEF StoreInv
<1> QED BY <1>1, <1>2, PTL DEF Spec

(* With a majority of every group that missed nothing and no transaction   *)
(* that fails: whatever the other nodes store and however late they are,   *)
(* committing, saving final data and repairing (commitConsensedTransaction,*)
(* checkAndSetAccountData, repairToMatchReceipt) leave two copies of an    *)
(* account as two moments of one history.                                  *)
THEOREM CopiesInOrder ==
  ASSUME Faultless
  PROVE  Spec => []StoredInOrder
<1>1. StoreInv => StoredInOrder
  <2>1. SUFFICES ASSUME StoreInv, NEW a \in Account, NEW d \in Moments(a), NEW e \in Moments(a)
                 PROVE  Prefix(d, e) \/ Prefix(e, d)
    BY DEF StoredInOrder
  <2>2. PICK h \in Initial : CopiesInv(h)
    BY <2>1 DEF StoreInv
  <2>3. ASSUME NEW x \in Moments(a) PROVE Moment(a, h, x)
    <3>1. CASE \E n \in Node : a \in Stores[n] /\ x = store[n][a]
      BY <2>2, <3>1 DEF CopiesInv, Copies
    <3>2. ASSUME NEW m \in msgs, m.type = "receipt", a \in Keys[m.tx], x = m.proposal.after[a]
          PROVE  Moment(a, h, x)
      <4>1. m.tx \in Tx
        BY <2>1 DEF StoreInv, VoteInv, Addressed
      <4>2. IsResult(msgs, m.tx, m.proposal)
        BY <3>2 DEF IsResult, Results
      <4>3. m.proposal = Outcome(m.tx, h)
        BY <2>1, <2>2, <4>1, <4>2, IsOutcome DEF StoreInv
      <4> QED BY <3>2, <4>1, <4>3, OutcomeIs
    <3> QED BY <2>3, <3>1, <3>2 DEF Moments
  <2> QED BY <2>3, MomentsOrdered
<1> QED BY <1>1, StoresHold, PTL

(* With the same majority: a transaction that has passed on a node is in   *)
(* each of its accounts that the node stores, and no commit, save or       *)
(* repair of an older one ever takes it out again.                         *)
THEOREM PassedStored ==
  ASSUME Faultless
  PROVE  Spec => []PassedIsStored
<1>1. StoreInv => PassedIsStored
  BY DEF StoreInv, CopiesInv, Kept, SettledHere, PassedIsStored
<1> QED BY <1>1, StoresHold, PTL
=============================================================================
