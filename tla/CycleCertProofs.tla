-------------------------- MODULE CycleCertProofs --------------------------
(***************************************************************************)
(* Proofs about CycleCert, for any network, any scores and any bounds: the *)
(* shape of the state (TypeOK), the best record being the best             *)
(* (BestIsMax), chains without gaps (ChainContiguous), and no node voting  *)
(* for two records of a cycle (OneVotePerCycle).  On a network that loses  *)
(* nothing and whose nodes keep up: the nodes have one ledger              *)
(* (ImplementsLedger, NoFork, ChainLinked), and the cached certificates    *)
(* match it (CachedCertsMatch).                                            *)
(*                                                                         *)
(* The three parts build on one another: CertInv (the shape of the state), *)
(* VoteInv (who has voted for what), AgreeInv (who knows which votes).     *)
(***************************************************************************)
EXTENDS CycleCert, MarkerCerts, SequenceTheorems, FiniteSetTheorems, WellFoundedInduction, TLAPS

(***************************************************************************)
(* The two kinds of list that certification keeps: chains of cycle         *)
(* records, and what inserting and merging certificates does to a list of  *)
(* them.  Lists of certificates are by owners of a set Owner, with scores  *)
(* in Nat.                                                                 *)
(***************************************************************************)
(* A chain is a non-empty sequence, of whatever records it holds.          *)
Contents(c) == {c[i] : i \in DOMAIN c}
IsChain(c) == c \in Seq(Contents(c)) /\ Len(c) > 0

LEMMA ChainSeq ==
  ASSUME NEW S, NEW c \in Seq(S), Len(c) > 0
  PROVE  IsChain(c)
<1>1. DOMAIN c = 1 .. Len(c) /\ \A i \in 1 .. Len(c) : c[i] \in Contents(c)
  BY DEF Contents
<1>2. c \in [1 .. Len(c) -> Contents(c)]
  BY <1>1
<1> QED
  BY <1>2 DEF IsChain

(* Appending keeps what was there.                                         *)
LEMMA ChainAppend ==
  ASSUME NEW c, IsChain(c), NEW r
  PROVE  /\ IsChain(Append(c, r))
         /\ Len(Append(c, r)) = Len(c) + 1
         /\ \A i \in 1 .. Len(c) : Append(c, r)[i] = c[i]
         /\ Append(c, r)[Len(c) + 1] = r
<1> DEFINE S == Contents(c) \cup {r}
<1>1. c \in Seq(S) /\ r \in S
  BY SeqMonotonic DEF IsChain
<1>2. Append(c, r) \in Seq(S) /\ Len(Append(c, r)) = Len(c) + 1
  BY <1>1
<1>3. Len(Append(c, r)) > 0
  BY <1>2 DEF IsChain
<1>4. IsChain(Append(c, r))
  <2> HIDE DEF S
  <2> QED
    BY <1>2, <1>3, ChainSeq
<1> QED
  BY <1>1, <1>2, <1>4

LEMMA ChainPrefix ==
  ASSUME NEW c, IsChain(c), NEW k \in 1 .. Len(c)
  PROVE  /\ IsChain(SubSeq(c, 1, k))
         /\ Len(SubSeq(c, 1, k)) = k
         /\ \A i \in 1 .. k : SubSeq(c, 1, k)[i] = c[i]
<1>1. SubSeq(c, 1, k) \in Seq(Contents(c)) /\ Len(SubSeq(c, 1, k)) = k
  <2>1. \A i \in 1 .. k : c[i] \in Contents(c)
    BY DEF IsChain
  <2> QED
    BY <2>1, SubSeqProperties DEF IsChain
<1>2. IsChain(SubSeq(c, 1, k))
  <2> Len(SubSeq(c, 1, k)) > 0
    BY <1>1
  <2> QED
    BY <1>1, ChainSeq
<1> QED
  BY <1>1, <1>2 DEF IsChain

(* A chain ends with the record appended last.                             *)
LEMMA ChainLast ==
  ASSUME NEW c, IsChain(c)
  PROVE  /\ Len(c) \in Nat \ {0} /\ DOMAIN c = 1 .. Len(c)
         /\ Len(c) \in 1 .. Len(c) /\ Last(c) = c[Len(c)]
BY DEF IsChain, Last

-----------------------------------------------------------------------------
Cert(Owner) == [owner : Owner, score : Nat]
Certs(Owner) == Seq(Cert(Owner))

LEMMA CertFields ==
  \A Owner : \A c \in Cert(Owner) : c.owner \in Owner /\ c.score \in Nat
BY DEF Cert

(* Lists of at most three are finite functions the provers can unroll.     *)
LEMMA CertListDomain ==
  ASSUME NEW Owner, NEW certs \in Certs(Owner), WellFormed(certs)
  PROVE  /\ Len(certs) \in 0 .. 3
         /\ DOMAIN certs = 1 .. Len(certs)
         /\ \A i \in 1 .. Len(certs) :
              certs[i] \in Cert(Owner) /\ certs[i].score \in Nat
<1>1. certs \in Seq(Cert(Owner)) /\ Len(certs) <= 3
  BY DEF Certs, WellFormed, BEST_CERTS_WANTED
<1>2. /\ Len(certs) \in 0 .. 3
      /\ DOMAIN certs = 1 .. Len(certs)
  <2>1. Len(certs) \in Nat /\ DOMAIN certs = 1 .. Len(certs)
    BY <1>1, LenProperties
  <2> QED
    BY <1>1, <2>1
<1>3. \A i \in 1 .. Len(certs) : certs[i] \in Cert(Owner)
  BY <1>1, ElementOfSeq
<1> QED
  BY <1>2, <1>3, CertFields

LEMMA TotalIsNat ==
  ASSUME NEW Owner, NEW certs \in Certs(Owner), WellFormed(certs)
  PROVE  TotalScore(certs) \in Nat
<1>1. /\ Len(certs) \in 0 .. 3 /\ DOMAIN certs = 1 .. Len(certs)
      /\ \A i \in 1 .. Len(certs) : certs[i].score \in Nat
  BY CertListDomain
<1> QED
  BY <1>1 DEF TotalScore, ScoreAt

(* There is a place to insert at: everything before it scores at least as  *)
(* much, the certificate now there scores less.                            *)
LEMMA PositionFound ==
  ASSUME NEW Owner, NEW certs \in Certs(Owner), WellFormed(certs), NEW score \in Nat
  PROVE  /\ Position(certs, score) \in 1 .. Len(certs) + 1
         /\ Position(certs, score) <= Len(certs) => certs[Position(certs, score)].score < score
         /\ \A j \in 1 .. Position(certs, score) - 1 : certs[j].score >= score
<1> DEFINE Here(i) == /\ i <= Len(certs) => certs[i].score < score
                      /\ \A j \in 1 .. i - 1 : certs[j].score >= score
           Below(i) == i \in 1 .. Len(certs) /\ certs[i].score < score
<1>1. Len(certs) \in 0 .. 3 /\ \A i \in 1 .. Len(certs) : certs[i].score \in Nat
  BY CertListDomain
<1>2. \E i \in 1 .. Len(certs) + 1 : Here(i)
  <2>1. CASE Below(1)
    <3> 1 \in 1 .. Len(certs) + 1 /\ Here(1)
      BY <1>1, <2>1
    <3> QED OBVIOUS
  <2>2. CASE ~Below(1) /\ Below(2)
    <3> 2 \in 1 .. Len(certs) + 1 /\ Here(2)
      BY <1>1, <2>2
    <3> QED OBVIOUS
  <2>3. CASE ~Below(1) /\ ~Below(2) /\ Below(3)
    <3> 3 \in 1 .. Len(certs) + 1 /\ Here(3)
      BY <1>1, <2>3
    <3> QED OBVIOUS
  <2>4. CASE ~Below(1) /\ ~Below(2) /\ ~Below(3)
    <3> Len(certs) + 1 \in 1 .. Len(certs) + 1 /\ Here(Len(certs) + 1)
      BY SMTT(30), <1>1, <2>4
    <3> QED OBVIOUS
  <2> QED
    BY <2>1, <2>2, <2>3, <2>4
<1>3. Position(certs, score) = CHOOSE i \in 1 .. Len(certs) + 1 : Here(i)
  BY DEF Position
<1> HIDE DEF Here
<1>4. Position(certs, score) \in 1 .. Len(certs) + 1 /\ Here(Position(certs, score))
  BY <1>2, <1>3
<1> QED
  BY <1>4 DEF Here

(* Where a vote goes: after those that score at least as much, and the     *)
(* others move down a place, the fourth out of the list.                   *)
LEMMA InsertShape ==
  ASSUME NEW Owner, NEW certs \in Certs(Owner), WellFormed(certs), NEW cert \in Cert(Owner)
  PROVE  \E pos, size :
           /\ pos \in 1 .. Len(certs) + 1
           /\ pos <= Len(certs) => certs[pos].score < cert.score
           /\ \A j \in 1 .. pos - 1 : certs[j].score >= cert.score
           /\ size = IF Len(certs) < 3 THEN Len(certs) + 1 ELSE 3
           /\ Insert(certs, cert) \in Certs(Owner)
           /\ Len(Insert(certs, cert)) = size /\ DOMAIN Insert(certs, cert) = 1 .. size
           /\ \A j \in 1 .. size :
                /\ j < pos => j \in 1 .. Len(certs) /\ Insert(certs, cert)[j] = certs[j]
                /\ j = pos => Insert(certs, cert)[j] = cert
                /\ j > pos => j - 1 \in 1 .. Len(certs) /\ Insert(certs, cert)[j] = certs[j - 1]
<1> DEFINE size == IF Len(certs) < BEST_CERTS_WANTED THEN Len(certs) + 1 ELSE BEST_CERTS_WANTED
           pos == Position(certs, cert.score)
           new == Insert(certs, cert)
<1>1. /\ Len(certs) \in 0 .. 3
      /\ DOMAIN certs = 1 .. Len(certs)
      /\ \A i \in 1 .. Len(certs) :
           certs[i] \in Cert(Owner) /\ certs[i].score \in Nat
  BY CertListDomain
<1>2. cert.score \in Nat
  BY CertFields
<1>3. /\ pos \in 1 .. Len(certs) + 1
      /\ pos <= Len(certs) => certs[pos].score < cert.score
      /\ \A j \in 1 .. pos - 1 : certs[j].score >= cert.score
  BY <1>2, PositionFound
<1>4. new = [j \in 1 .. size |-> IF j < pos THEN certs[j]
                                 ELSE IF j = pos THEN cert ELSE certs[j - 1]]
  BY DEF Insert
<1>5. size \in 1 .. 3 /\ size = IF Len(certs) < 3 THEN Len(certs) + 1 ELSE 3
  BY <1>1 DEF BEST_CERTS_WANTED
<1> HIDE DEF pos, new, size
<1>6. \A j \in 1 .. size :
        /\ j < pos => j \in 1 .. Len(certs) /\ new[j] = certs[j]
        /\ j = pos => new[j] = cert
        /\ j > pos => j - 1 \in 1 .. Len(certs) /\ new[j] = certs[j - 1]
  BY <1>1, <1>3, <1>4, <1>5
<1>7. new \in Certs(Owner) /\ Len(new) = size /\ DOMAIN new = 1 .. size
  <2>1. \A j \in 1 .. size : new[j] \in Cert(Owner)
    BY <1>1, <1>3, <1>5, <1>6
  <2>2. new \in [1 .. size -> Cert(Owner)]
    BY <1>4, <2>1
  <2>3. size \in Nat
    BY <1>5
  <2>4. new \in Seq(Cert(Owner))
    BY <2>2, <2>3, SeqDef
  <2> QED
    BY <2>2, <2>3, <2>4, LenProperties DEF Certs
<1> QED
  BY <1>3, <1>5, <1>6, <1>7 DEF new

(* Inserting the vote of a new owner keeps the list short, sorted and free *)
(* of repetitions, and never lowers its total.                             *)
LEMMA InsertKeeps ==
  ASSUME NEW Owner, NEW certs \in Certs(Owner), WellFormed(certs),
         NEW cert \in Cert(Owner), cert.owner \notin Owners(certs)
  PROVE  /\ Insert(certs, cert) \in Certs(Owner)
         /\ WellFormed(Insert(certs, cert))
         /\ Owners(Insert(certs, cert)) \subseteq Owners(certs) \cup {cert.owner}
         /\ TotalScore(Insert(certs, cert)) \in Nat
         /\ TotalScore(Insert(certs, cert)) >= TotalScore(certs)
<1> DEFINE new == Insert(certs, cert)
<1>1. /\ Len(certs) \in 0 .. 3
      /\ DOMAIN certs = 1 .. Len(certs)
      /\ \A i \in 1 .. Len(certs) :
           certs[i] \in Cert(Owner) /\ certs[i].score \in Nat
  BY CertListDomain
<1>2. cert.score \in Nat
  BY CertFields
<1> PICK pos, size :
      /\ pos \in 1 .. Len(certs) + 1
      /\ pos <= Len(certs) => certs[pos].score < cert.score
      /\ \A j \in 1 .. pos - 1 : certs[j].score >= cert.score
      /\ size = IF Len(certs) < 3 THEN Len(certs) + 1 ELSE 3
      /\ new \in Certs(Owner)
      /\ Len(new) = size /\ DOMAIN new = 1 .. size
      /\ \A j \in 1 .. size :
           /\ j < pos => j \in 1 .. Len(certs) /\ new[j] = certs[j]
           /\ j = pos => new[j] = cert
           /\ j > pos => j - 1 \in 1 .. Len(certs) /\ new[j] = certs[j - 1]
  BY InsertShape
<1> HIDE DEF new
<1>3. /\ pos \in 1 .. Len(certs) + 1
      /\ pos <= Len(certs) => certs[pos].score < cert.score
      /\ \A j \in 1 .. pos - 1 : certs[j].score >= cert.score
  OBVIOUS
<1>5. size \in 1 .. 3 /\ size >= Len(certs) /\ size <= Len(certs) + 1
  BY <1>1
<1>6. \A j \in 1 .. size :
        /\ j < pos => j \in 1 .. Len(certs) /\ new[j] = certs[j]
        /\ j = pos => new[j] = cert
        /\ j > pos => j - 1 \in 1 .. Len(certs) /\ new[j] = certs[j - 1]
  OBVIOUS
<1>7. new \in Certs(Owner) /\ Len(new) = size /\ DOMAIN new = 1 .. size
  OBVIOUS
<1>8. WellFormed(new)
  <2>1. ASSUME NEW i \in 1 .. size, NEW j \in 1 .. size, i < j
        PROVE  new[i].score >= new[j].score
    <3>1. \A k, l \in 1 .. Len(certs) : k < l => certs[k].score >= certs[l].score
      BY <1>1 DEF WellFormed
    <3>2. \A k \in 1 .. Len(certs) : k >= pos => cert.score > certs[k].score
      BY <1>1, <1>2, <1>3, <3>1
    <3>3. \A k \in 1 .. Len(certs) : k < pos => certs[k].score >= cert.score
      BY <1>3
    <3>4. CASE j < pos
      BY <1>3, <1>6, <2>1, <3>1, <3>4
    <3>5. CASE j = pos
      BY <1>6, <2>1, <3>3, <3>5
    <3>6. CASE j > pos /\ i < pos
      <4>1. CASE j - 1 = i
        BY <1>1, <1>6, <4>1, <3>6
      <4>2. CASE j - 1 > i
        BY <1>6, <4>2, <3>1, <3>6
      <4> QED
        BY <2>1, <4>1, <4>2
    <3>7. CASE j > pos /\ i = pos
      <4>1. j - 1 \in 1 .. Len(certs) /\ j - 1 >= pos /\ new[j] = certs[j - 1] /\ new[i] = cert
        BY <1>3, <1>6, <3>7
      <4>2. cert.score > certs[j - 1].score /\ certs[j - 1].score \in Nat
        BY <1>1, <3>2, <4>1
      <4> QED
        BY <1>2, <4>1, <4>2
    <3>8. CASE j > pos /\ i > pos
      BY <1>6, <2>1, <3>1, <3>8
    <3> QED
      BY <1>3, <3>4, <3>5, <3>6, <3>7, <3>8
  <2>2. ASSUME NEW i \in 1 .. size, NEW j \in 1 .. size, i < j
        PROVE  new[i].owner # new[j].owner
    <3>1. \A k, l \in 1 .. Len(certs) : k < l => certs[k].owner # certs[l].owner
      BY <1>1 DEF WellFormed
    <3>2. \A k \in 1 .. Len(certs) : certs[k].owner # cert.owner
      BY <1>1 DEF Owners
    <3> QED
      BY <1>3, <1>6, <2>2, <3>1, <3>2
  <2> QED
    BY <1>5, <1>7, <2>1, <2>2 DEF WellFormed, BEST_CERTS_WANTED
<1>9. Owners(new) \subseteq Owners(certs) \cup {cert.owner}
  BY <1>1, <1>3, <1>6, <1>7 DEF Owners
<1>10. TotalScore(new) \in Nat /\ TotalScore(new) >= TotalScore(certs)
  <2>1. \A i \in {1, 2, 3} : ScoreAt(certs, i) \in Nat /\ ScoreAt(new, i) \in Nat
    <3>1. \A j \in 1 .. size : new[j].score \in Nat
      BY <1>1, <1>2, <1>3, <1>6
    <3> QED
      BY <1>1, <1>7, <3>1 DEF ScoreAt
  <2>2. ASSUME NEW i \in {1, 2, 3}
        PROVE  ScoreAt(new, i) >= ScoreAt(certs, i)
    <3>1. CASE i \in 1 .. Len(certs)
      <4>1. i \in 1 .. size /\ ScoreAt(new, i) = new[i].score /\ ScoreAt(certs, i) = certs[i].score
        BY <1>1, <1>5, <1>7, <3>1 DEF ScoreAt
      <4>2. new[i].score >= certs[i].score
        <5>1. CASE i < pos
          BY <1>1, <1>6, <4>1, <5>1
        <5>2. CASE i = pos
          BY <1>1, <1>2, <1>3, <1>6, <3>1, <4>1, <5>2
        <5>3. CASE i > pos
          <6>1. i - 1 \in 1 .. Len(certs) /\ new[i] = certs[i - 1] /\ i - 1 < i
            BY <1>6, <4>1, <5>3
          <6>2. \A k, l \in 1 .. Len(certs) : k < l => certs[k].score >= certs[l].score
            BY <1>1 DEF WellFormed
          <6> QED
            BY <3>1, <6>1, <6>2
        <5> QED
          BY <1>3, <5>1, <5>2, <5>3
      <4> QED
        BY <4>1, <4>2
    <3>2. CASE i \notin 1 .. Len(certs)
      BY <1>1, <2>1, <3>2 DEF ScoreAt
    <3> QED
      BY <3>1, <3>2
  <2>3. ScoreAt(new, 1) >= ScoreAt(certs, 1) /\ ScoreAt(new, 2) >= ScoreAt(certs, 2)
          /\ ScoreAt(new, 3) >= ScoreAt(certs, 3)
    BY <2>2
  <2> QED
    BY SMTT(30), <2>1, <2>3 DEF TotalScore
<1> QED
  BY <1>7, <1>8, <1>9, <1>10 DEF new

(* Merging a batch: the certificates whose owners were already there are   *)
(* skipped, the others inserted one by one.                                *)
LEMMA MergeKeeps ==
  ASSUME NEW Owner, NEW certs \in Certs(Owner), WellFormed(certs),
         NEW received, 
         \A i \in DOMAIN received : received[i] \in Cert(Owner),
         \A i, j \in DOMAIN received : i # j => received[i].owner # received[j].owner
  PROVE  /\ Merge(certs, received) \in Certs(Owner)
         /\ WellFormed(Merge(certs, received))
         /\ TotalScore(Merge(certs, received)) \in Nat
         /\ TotalScore(Merge(certs, received)) >= TotalScore(certs)
         /\ Owners(Merge(certs, received)) \subseteq
              Owners(certs) \cup {received[j].owner : j \in DOMAIN received}
<1> DEFINE have == Owners(certs)
           Step(list, i) == IF i \in DOMAIN received /\ received[i].owner \notin have
                            THEN Insert(list, received[i]) ELSE list
           RecOwners(i) == {received[j].owner : j \in (1 .. i) \cap DOMAIN received}
           Good(list, i) == /\ list \in Certs(Owner)
                            /\ WellFormed(list)
                            /\ Owners(list) \subseteq have \cup RecOwners(i)
                            /\ TotalScore(list) \in Nat
                            /\ TotalScore(list) >= TotalScore(certs)
<1>1. Good(certs, 0)
  <2>1. TotalScore(certs) \in Nat
    BY TotalIsNat
  <2> QED
    BY <2>1
<1>2. ASSUME NEW list, NEW i \in 1 .. 3, Good(list, i - 1)
      PROVE  Good(Step(list, i), i)
  <2>1. RecOwners(i - 1) \subseteq RecOwners(i)
    OBVIOUS
  <2>2. CASE i \in DOMAIN received /\ received[i].owner \notin have
    <3> DEFINE cert == received[i]
    <3>1. cert \in Cert(Owner)
      BY <2>2
    <3>2. cert.owner \notin RecOwners(i - 1)
      BY <2>2
    <3>3. cert.owner \in RecOwners(i)
      BY <2>2
    <3>4. cert.owner \notin Owners(list)
      BY <1>2, <2>2, <3>2
    <3>5. Step(list, i) = Insert(list, cert)
      BY <2>2
    <3> HIDE DEF cert, Step, have, RecOwners
    <3>6. /\ Insert(list, cert) \in Certs(Owner)
          /\ WellFormed(Insert(list, cert))
          /\ Owners(Insert(list, cert)) \subseteq Owners(list) \cup {cert.owner}
          /\ TotalScore(Insert(list, cert)) \in Nat
          /\ TotalScore(Insert(list, cert)) >= TotalScore(list)
      BY <1>2, <3>1, <3>4, InsertKeeps
    <3>7. TotalScore(certs) \in Nat
      BY <1>1
    <3>8. TotalScore(Insert(list, cert)) >= TotalScore(certs)
      BY <1>2, <3>6, <3>7
    <3>9. Owners(Insert(list, cert)) \subseteq have \cup RecOwners(i)
      BY <1>2, <2>1, <3>3, <3>6
    <3> QED
      BY <3>5, <3>6, <3>8, <3>9
  <2>3. CASE ~(i \in DOMAIN received /\ received[i].owner \notin have)
    <3>1. Step(list, i) = list
      BY <2>3
    <3> HIDE DEF Step, have, RecOwners
    <3> QED
      BY <1>2, <2>1, <3>1
  <2> QED
    BY <2>2, <2>3
<1>3. Merge(certs, received) = Step(Step(Step(certs, 1), 2), 3)
  BY DEF Merge
<1> HIDE DEF Step, Good
<1>4. Good(Step(certs, 1), 1)
  <2> Good(certs, 1 - 1)
    BY <1>1
  <2> QED
    BY <1>2
<1>5. Good(Step(Step(certs, 1), 2), 2)
  <2> Good(Step(certs, 1), 2 - 1)
    BY <1>4
  <2> QED
    BY <1>2
<1>6. Good(Step(Step(Step(certs, 1), 2), 3), 3)
  <2> Good(Step(Step(certs, 1), 2), 3 - 1)
    BY <1>5
  <2> QED
    BY <1>2
<1>7. RecOwners(3) \subseteq {received[j].owner : j \in DOMAIN received}
  OBVIOUS
<1> QED
  BY <1>3, <1>6, <1>7 DEF Good

-----------------------------------------------------------------------------
(* A certificate is taken care of in a list if it is in it, or if the list *)
(* is full of better ones.                                                 *)
Covers(certs, c) ==
  \/ \E i \in DOMAIN certs : certs[i] = c
  \/ Len(certs) = BEST_CERTS_WANTED /\ certs[BEST_CERTS_WANTED].score >= c.score

(* Inserting a vote covers it and what was covered; it changes nothing if  *)
(* the vote was covered, and raises the total otherwise.                   *)
LEMMA InsertCovers ==
  ASSUME NEW Owner, NEW certs \in Certs(Owner), WellFormed(certs),
         NEW cert \in Cert(Owner), cert.owner \notin Owners(certs)
  PROVE  /\ Covers(Insert(certs, cert), cert)
         /\ \A c \in Cert(Owner) : Covers(certs, c) => Covers(Insert(certs, cert), c)
         /\ Covers(certs, cert) => Insert(certs, cert) = certs
         /\ TotalScore(Insert(certs, cert)) = TotalScore(certs) /\ cert.score > 0
              => Insert(certs, cert) = certs
<1> DEFINE new == Insert(certs, cert)
<1>1. /\ Len(certs) \in 0 .. 3
      /\ DOMAIN certs = 1 .. Len(certs)
      /\ \A i \in 1 .. Len(certs) :
           certs[i] \in Cert(Owner) /\ certs[i].score \in Nat
  BY CertListDomain
<1>2. cert.score \in Nat
  BY CertFields
<1> PICK pos, size :
      /\ pos \in 1 .. Len(certs) + 1
      /\ pos <= Len(certs) => certs[pos].score < cert.score
      /\ \A j \in 1 .. pos - 1 : certs[j].score >= cert.score
      /\ size = IF Len(certs) < 3 THEN Len(certs) + 1 ELSE 3
      /\ new \in Certs(Owner)
      /\ Len(new) = size /\ DOMAIN new = 1 .. size
      /\ \A j \in 1 .. size :
           /\ j < pos => j \in 1 .. Len(certs) /\ new[j] = certs[j]
           /\ j = pos => new[j] = cert
           /\ j > pos => j - 1 \in 1 .. Len(certs) /\ new[j] = certs[j - 1]
  BY InsertShape
<1> HIDE DEF new
<1>3. \A k, l \in 1 .. Len(certs) : k <= l => certs[k].score >= certs[l].score
  BY <1>1 DEF WellFormed
<1>4. size \in 1 .. 3
  BY <1>1
<1>5. CASE pos = 4
  <2>1. Len(certs) = 3 /\ size = 3
    BY <1>1, <1>5
  <2>2. new = certs
    <3>1. \A j \in 1 .. 3 : new[j] = certs[j]
      BY <1>5, <2>1
    <3>2. new \in Seq(Cert(Owner)) /\ certs \in Seq(Cert(Owner)) /\ Len(new) = 3 /\ Len(certs) = 3
      BY <2>1 DEF Certs
    <3> QED
      BY <3>1, <3>2
  <2>3. certs[3].score >= cert.score
    BY <1>5
  <2>4. Covers(certs, cert)
    BY <2>1, <2>3 DEF Covers, BEST_CERTS_WANTED
  <2>5. Insert(certs, cert) = certs
    BY <2>2 DEF new
  <2> QED
    BY <2>4, <2>5, Zenon
<1>6. CASE pos # 4
  <2>1. pos \in 1 .. size
    <3>1. CASE Len(certs) = 3
      BY <1>6, <3>1
    <3>2. CASE Len(certs) < 3
      BY <3>2
    <3> QED
      BY <1>1, <3>1, <3>2
  <2>2. new[pos] = cert
    BY <2>1
  <2>3. Covers(new, cert)
    BY <2>1, <2>2 DEF Covers
  <2>4. ~Covers(certs, cert)
    <3>1. \A i \in DOMAIN certs : certs[i] # cert
      BY DEF Owners
    <3>2. ~(Len(certs) = 3 /\ certs[3].score >= cert.score)
      <4> SUFFICES ASSUME Len(certs) = 3 PROVE certs[3].score < cert.score
        BY <1>1, <1>2
      <4>1. pos \in 1 .. 3 /\ certs[pos].score < cert.score /\ certs[pos].score >= certs[3].score
        BY <1>3, <1>6
      <4> QED
        BY <1>1, <1>2, <4>1
    <3> QED
      BY <3>1, <3>2 DEF Covers, BEST_CERTS_WANTED
  <2>5. ASSUME NEW c \in Cert(Owner), Covers(certs, c) PROVE Covers(new, c)
    <3>0. c.score \in Nat
      BY CertFields
    <3>1. ASSUME NEW i \in 1 .. Len(certs), certs[i] = c PROVE Covers(new, c)
      <4>1. CASE i < pos
        <5>1. i \in 1 .. size /\ new[i] = c
          BY <1>1, <1>4, <2>1, <3>1, <4>1
        <5> QED
          BY <5>1 DEF Covers
      <4>2. CASE i >= pos /\ i + 1 <= size
        <5>1. i + 1 \in 1 .. size /\ new[i + 1] = c
          BY <3>1, <4>2
        <5> QED
          BY <5>1 DEF Covers
      <4>3. CASE i >= pos /\ i + 1 > size
        <5>1. i = 3 /\ size = 3 /\ Len(certs) = 3
          BY SMTT(30), <1>1, <4>3
        <5>2. new[3].score >= c.score
          <6>1. CASE pos = 3
            <7>1. new[3] = cert /\ certs[3].score < cert.score
              BY <1>1, <5>1, <6>1
            <7> QED
              BY <1>2, <3>0, <3>1, <5>1, <7>1
          <6>2. CASE pos < 3
            <7>1. new[3] = certs[2] /\ certs[2].score >= certs[3].score
              BY <1>1, <1>3, <5>1, <6>2
            <7> QED
              BY <3>1, <5>1, <7>1
          <6> QED
            BY <4>3, <5>1, <6>1, <6>2
        <5> QED
          BY <5>1, <5>2 DEF Covers, BEST_CERTS_WANTED
      <4> QED
        BY <1>4, <4>1, <4>2, <4>3
    <3>2. ASSUME Len(certs) = 3, certs[3].score >= c.score PROVE Covers(new, c)
      <4>1. size = 3 /\ certs[3].score \in Nat
        BY <1>1, <3>2
      <4>2. new[3].score \in Nat /\ new[3].score >= certs[3].score
        <5>1. CASE pos = 3
          <6>1. new[3] = cert /\ certs[3].score < cert.score
            BY <3>2, <4>1, <5>1
          <6> QED
            BY <1>2, <4>1, <6>1
        <5>2. CASE pos < 3
          <6>1. new[3] = certs[2] /\ certs[2].score >= certs[3].score
            BY <1>1, <1>3, <3>2, <4>1, <5>2
          <6> QED
            BY <1>1, <3>2, <6>1
        <5> QED
          BY <1>6, <3>2, <5>1, <5>2
      <4>3. new[3].score >= c.score
        BY <3>0, <3>2, <4>1, <4>2
      <4> QED
        BY <4>1, <4>3 DEF Covers, BEST_CERTS_WANTED
    <3> QED
      BY <1>1, <2>5, <3>1, <3>2 DEF Covers, BEST_CERTS_WANTED
  <2>6. cert.score > 0 => TotalScore(new) > TotalScore(certs)
    <3> SUFFICES ASSUME cert.score > 0 PROVE TotalScore(new) > TotalScore(certs)
      OBVIOUS
    <3>1. \A i \in {1, 2, 3} : ScoreAt(certs, i) \in Nat /\ ScoreAt(new, i) \in Nat
      <4>1. \A j \in 1 .. size : new[j].score \in Nat
        BY <1>1, <1>2, <1>4
      <4> QED
        BY <1>1, <4>1 DEF ScoreAt
    <3>2. ASSUME NEW i \in {1, 2, 3} PROVE ScoreAt(new, i) >= ScoreAt(certs, i)
      <4>1. CASE i \in 1 .. Len(certs)
        <5>1. i \in 1 .. size /\ ScoreAt(new, i) = new[i].score /\ ScoreAt(certs, i) = certs[i].score
          BY <1>1, <1>4, <4>1 DEF ScoreAt
        <5>2. new[i].score >= certs[i].score
          <6>1. CASE i < pos
            BY <1>1, <5>1, <6>1
          <6>2. CASE i = pos
            BY <1>1, <1>2, <4>1, <5>1, <6>2
          <6>3. CASE i > pos
            <7>1. new[i] = certs[i - 1] /\ i - 1 \in 1 .. Len(certs)
              BY <5>1, <6>3
            <7> QED
              BY <1>3, <4>1, <7>1
          <6> QED
            BY <6>1, <6>2, <6>3
        <5> QED
          BY <5>1, <5>2
      <4>2. CASE i \notin 1 .. Len(certs)
        BY <1>1, <3>1, <4>2 DEF ScoreAt
      <4> QED
        BY <4>1, <4>2
    <3>3. ScoreAt(new, pos) > ScoreAt(certs, pos) /\ pos \in {1, 2, 3}
      <4>1. ScoreAt(new, pos) = cert.score
        BY <2>1, <2>2 DEF ScoreAt
      <4>2. ScoreAt(certs, pos) < cert.score
        BY <1>1, <1>2, <2>1 DEF ScoreAt
      <4>3. pos \in {1, 2, 3}
        BY <1>4, <2>1
      <4> QED
        BY <3>1, <4>1, <4>2, <4>3
    <3>4. /\ ScoreAt(new, 1) >= ScoreAt(certs, 1) /\ ScoreAt(new, 2) >= ScoreAt(certs, 2)
          /\ ScoreAt(new, 3) >= ScoreAt(certs, 3)
      BY <3>2
    <3>5. \/ ScoreAt(new, 1) > ScoreAt(certs, 1) \/ ScoreAt(new, 2) > ScoreAt(certs, 2)
          \/ ScoreAt(new, 3) > ScoreAt(certs, 3)
      BY <3>3
    <3> QED
      BY SMTT(30), <3>1, <3>4, <3>5 DEF TotalScore
  <2>7. TotalScore(new) \in Nat /\ TotalScore(certs) \in Nat
    BY TotalIsNat, InsertKeeps DEF new
  <2> QED
    BY <2>3, <2>4, <2>5, <2>6, <2>7 DEF new
<1> QED
  BY <1>1, <1>5, <1>6

(* Merging a batch covers what was covered and what is received, if the    *)
(* certificates of an owner are the same wherever they are.  It changes    *)
(* nothing if all that is received was covered, nor if the total stays.    *)
LEMMA MergeCovers ==
  ASSUME NEW Owner, NEW certs \in Certs(Owner), WellFormed(certs),
         NEW received,
         \A i \in DOMAIN received : received[i] \in Cert(Owner),
         \A i, j \in DOMAIN received : i # j => received[i].owner # received[j].owner,
         \A i \in DOMAIN certs, j \in DOMAIN received :
           certs[i].owner = received[j].owner => certs[i] = received[j]
  PROVE  /\ \A c \in Cert(Owner) : Covers(certs, c) => Covers(Merge(certs, received), c)
         /\ \A j \in DOMAIN received : j \in 1 .. 3 => Covers(Merge(certs, received), received[j])
         /\ (\A j \in DOMAIN received : Covers(certs, received[j])) => Merge(certs, received) = certs
         /\ /\ TotalScore(Merge(certs, received)) = TotalScore(certs)
            /\ \A j \in DOMAIN received : received[j].score > 0
            => Merge(certs, received) = certs
<1> DEFINE have == Owners(certs)
           Step(list, i) == IF i \in DOMAIN received /\ received[i].owner \notin have
                            THEN Insert(list, received[i]) ELSE list
           RecOwners(i) == {received[j].owner : j \in (1 .. i) \cap DOMAIN received}
           Known == \A j \in DOMAIN received : Covers(certs, received[j])
           Positive == \A j \in DOMAIN received : received[j].score > 0
           Keeps(list) == \A c \in Cert(Owner) : Covers(certs, c) => Covers(list, c)
           Has(list, i) == \A j \in DOMAIN received : j \in 1 .. i => Covers(list, received[j])
           Good(list, i) == /\ list \in Certs(Owner)
                            /\ WellFormed(list)
                            /\ Owners(list) \subseteq have \cup RecOwners(i)
                            /\ TotalScore(list) \in Nat
                            /\ TotalScore(list) >= TotalScore(certs)
                            /\ Keeps(list)
                            /\ Has(list, i)
                            /\ Known => list = certs
                            /\ TotalScore(list) = TotalScore(certs) /\ Positive => list = certs
<1>1. Good(certs, 0)
  <2>1. TotalScore(certs) \in Nat
    BY TotalIsNat
  <2> HIDE DEF Known, Positive
  <2> QED
    BY <2>1
<1>2. ASSUME NEW list, NEW i \in 1 .. 3, Good(list, i - 1)
      PROVE  Good(Step(list, i), i)
  <2>1. RecOwners(i - 1) \subseteq RecOwners(i)
    OBVIOUS
  <2>2. CASE i \in DOMAIN received /\ received[i].owner \notin have
    <3> DEFINE cert == received[i]
               new == Insert(list, cert)
    <3>1. cert \in Cert(Owner)
      BY <2>2
    <3>2. cert.owner \notin RecOwners(i - 1)
      BY <2>2
    <3>3. cert.owner \in RecOwners(i)
      BY <2>2
    <3>4. cert.owner \notin Owners(list)
      BY <1>2, <2>2, <3>2
    <3>5. Step(list, i) = new
      BY <2>2
    <3>6. Positive => cert.score > 0
      BY <2>2
    <3>7. Known => Covers(certs, cert)
      BY <2>2
    <3>8. \A j \in DOMAIN received : j \in 1 .. i => j \in 1 .. i - 1 \/ received[j] = cert
      OBVIOUS
    <3> HIDE DEF cert, Step, have, RecOwners, Known, Positive
    <3>9. /\ new \in Certs(Owner)
          /\ WellFormed(new)
          /\ Owners(new) \subseteq Owners(list) \cup {cert.owner}
          /\ TotalScore(new) \in Nat
          /\ TotalScore(new) >= TotalScore(list)
      BY <1>2, <3>1, <3>4, InsertKeeps
    <3>10. /\ Covers(new, cert)
           /\ \A c \in Cert(Owner) : Covers(list, c) => Covers(new, c)
           /\ Covers(list, cert) => new = list
           /\ TotalScore(new) = TotalScore(list) /\ cert.score > 0 => new = list
      BY <1>2, <3>1, <3>4, InsertCovers
    <3> HIDE DEF new
    <3>11. TotalScore(certs) \in Nat /\ TotalScore(list) \in Nat /\ TotalScore(list) >= TotalScore(certs)
      BY <1>1, <1>2
    <3>12. TotalScore(new) >= TotalScore(certs)
      BY <3>9, <3>11
    <3>13. Owners(new) \subseteq have \cup RecOwners(i)
      BY <1>2, <2>1, <3>3, <3>9
    <3>14. Keeps(new)
      BY <1>2, <3>10
    <3>15. Has(new, i)
      BY <1>2, <3>8, <3>10
    <3>16. Known => new = certs
      BY <1>2, <3>7, <3>10
    <3>17. TotalScore(new) = TotalScore(certs) /\ Positive => new = certs
      <4> SUFFICES ASSUME TotalScore(new) = TotalScore(certs), Positive PROVE new = certs
        OBVIOUS
      <4>1. TotalScore(list) = TotalScore(certs)
        BY <3>9, <3>11
      <4>2. list = certs
        BY <1>2, <4>1
      <4> QED
        BY <3>6, <3>10, <4>1, <4>2
    <3> HIDE DEF Keeps, Has
    <3> QED
      BY <3>5, <3>9, <3>12, <3>13, <3>14, <3>15, <3>16, <3>17
  <2>3. CASE ~(i \in DOMAIN received /\ received[i].owner \notin have)
    <3>1. Step(list, i) = list
      BY <2>3
    <3>2. Has(list, i)
      <4> SUFFICES ASSUME NEW j \in DOMAIN received, j \in 1 .. i PROVE Covers(list, received[j])
        OBVIOUS
      <4>1. CASE j \in 1 .. i - 1
        BY <1>2, <4>1
      <4>2. CASE j = i
        <5>1. PICK k \in DOMAIN certs : certs[k].owner = received[j].owner
          BY <2>3, <4>2 DEF Owners
        <5>2. certs[k] = received[j]
          BY <5>1
        <5>3. Covers(certs, received[j])
          BY <5>2 DEF Covers
        <5> QED
          BY <1>2, <5>3
      <4> QED
        BY <4>1, <4>2
    <3> HIDE DEF Step, have, RecOwners, Keeps, Has, Known, Positive
    <3> QED
      BY <1>2, <2>1, <3>1, <3>2
  <2> QED
    BY <2>2, <2>3
<1>3. Merge(certs, received) = Step(Step(Step(certs, 1), 2), 3)
  BY DEF Merge
<1> HIDE DEF Step, Good
<1>4. Good(Step(certs, 1), 1)
  <2> Good(certs, 1 - 1)
    BY <1>1
  <2> QED
    BY <1>2
<1>5. Good(Step(Step(certs, 1), 2), 2)
  <2> Good(Step(certs, 1), 2 - 1)
    BY <1>4
  <2> QED
    BY <1>2
<1>6. Good(Step(Step(Step(certs, 1), 2), 3), 3)
  <2> Good(Step(Step(certs, 1), 2), 3 - 1)
    BY <1>5
  <2> QED
    BY <1>2
<1> QED
  BY <1>3, <1>6 DEF Good

(* Merging invents nothing.                                                *)
LEMMA MergeFrom ==
  ASSUME NEW Owner, NEW certs \in Certs(Owner), WellFormed(certs),
         NEW received,
         \A i \in DOMAIN received : received[i] \in Cert(Owner),
         \A i, j \in DOMAIN received : i # j => received[i].owner # received[j].owner
  PROVE  \A i \in DOMAIN Merge(certs, received) :
           \/ \E k \in DOMAIN certs : Merge(certs, received)[i] = certs[k]
           \/ \E j \in DOMAIN received : Merge(certs, received)[i] = received[j]
<1> DEFINE have == Owners(certs)
           Step(list, i) == IF i \in DOMAIN received /\ received[i].owner \notin have
                            THEN Insert(list, received[i]) ELSE list
           RecOwners(i) == {received[j].owner : j \in (1 .. i) \cap DOMAIN received}
           Known(c) == \/ \E k \in DOMAIN certs : c = certs[k]
                       \/ \E j \in DOMAIN received : c = received[j]
           Good(list, i) == /\ list \in Certs(Owner)
                            /\ WellFormed(list)
                            /\ Owners(list) \subseteq have \cup RecOwners(i)
                            /\ \A k \in DOMAIN list : Known(list[k])
<1>1. Good(certs, 0)
  OBVIOUS
<1>2. ASSUME NEW list, NEW i \in 1 .. 3, Good(list, i - 1)
      PROVE  Good(Step(list, i), i)
  <2>1. RecOwners(i - 1) \subseteq RecOwners(i)
    OBVIOUS
  <2>2. CASE i \in DOMAIN received /\ received[i].owner \notin have
    <3> DEFINE cert == received[i]
               new == Insert(list, cert)
    <3>1. cert \in Cert(Owner) /\ cert.owner \in RecOwners(i) /\ Known(cert)
      BY <2>2
    <3>2. cert.owner \notin Owners(list)
      BY <1>2, <2>2
    <3>3. Step(list, i) = new
      BY <2>2
    <3>4. /\ Len(list) \in Nat /\ DOMAIN list = 1 .. Len(list)
          /\ \A k \in DOMAIN list : Known(list[k])
      BY <1>2, CertListDomain
    <3> HIDE DEF cert, Step, have, RecOwners, Known
    <3>5. /\ new \in Certs(Owner) /\ WellFormed(new)
          /\ Owners(new) \subseteq Owners(list) \cup {cert.owner}
      BY <1>2, <3>1, <3>2, InsertKeeps
    <3>6. \A k \in DOMAIN new : Known(new[k])
      <4> PICK pos, size :
            /\ pos \in 1 .. Len(list) + 1
            /\ DOMAIN new = 1 .. size
            /\ \A j \in 1 .. size :
                 /\ j < pos => j \in 1 .. Len(list) /\ new[j] = list[j]
                 /\ j = pos => new[j] = cert
                 /\ j > pos => j - 1 \in 1 .. Len(list) /\ new[j] = list[j - 1]
        BY <1>2, <3>1, InsertShape
      <4> HIDE DEF new
      <4>1. ASSUME NEW k \in 1 .. size PROVE Known(new[k])
        <5>1. CASE k < pos
          BY <3>4, <5>1
        <5>2. CASE k = pos
          BY <3>1, <5>2
        <5>3. CASE k > pos
          BY <3>4, <5>3
        <5> QED
          BY <3>4, <5>1, <5>2, <5>3
      <4> QED
        BY <4>1
    <3> HIDE DEF new
    <3> QED
      BY <1>2, <2>1, <3>1, <3>3, <3>5, <3>6
  <2>3. CASE ~(i \in DOMAIN received /\ received[i].owner \notin have)
    <3>1. Step(list, i) = list
      BY <2>3
    <3> HIDE DEF Step, have, RecOwners, Known
    <3> QED
      BY <1>2, <2>1, <3>1
  <2> QED
    BY <2>2, <2>3
<1>3. Merge(certs, received) = Step(Step(Step(certs, 1), 2), 3)
  BY DEF Merge
<1> HIDE DEF Step, Good
<1>4. Good(Step(certs, 1), 1)
  <2> Good(certs, 1 - 1)
    BY <1>1
  <2> QED
    BY <1>2
<1>5. Good(Step(Step(certs, 1), 2), 2)
  <2> Good(Step(certs, 1), 2 - 1)
    BY <1>4
  <2> QED
    BY <1>2
<1>6. Good(Step(Step(Step(certs, 1), 2), 3), 3)
  <2> Good(Step(Step(certs, 1), 2), 3 - 1)
    BY <1>5
  <2> QED
    BY <1>2
<1> QED
  BY <1>3, <1>6 DEF Good

(* A list of certificates descends, and nobody is in it twice.             *)
LEMMA WellFormedOrder ==
  ASSUME NEW certs, WellFormed(certs), DOMAIN certs = 1 .. Len(certs), Len(certs) \in Nat,
         \A i \in 1 .. Len(certs) : certs[i].score \in Nat
  PROVE  /\ \A k, l \in 1 .. Len(certs) : k <= l => certs[k].score >= certs[l].score
         /\ \A k, l \in 1 .. Len(certs) : k < l => certs[k].owner # certs[l].owner
<1>1. \A k, l \in 1 .. Len(certs) :
        k < l => certs[k].owner # certs[l].owner /\ certs[k].score >= certs[l].score
  BY DEF WellFormed
<1>2. ASSUME NEW k \in 1 .. Len(certs), NEW l \in 1 .. Len(certs), k <= l
      PROVE  certs[k].score >= certs[l].score
  <2>1. CASE k = l
    <3>1. certs[k].score \in Nat
      OBVIOUS
    <3> QED
      BY <2>1, <3>1
  <2>2. CASE k # l
    <3>1. k < l
      BY <1>2, <2>2
    <3> QED
      BY <1>1, <3>1
  <2> QED
    BY <2>1, <2>2
<1> QED
  BY <1>1, <1>2

(* A list that covers another has at least its total.                      *)
LEMMA CoversTotal ==
  ASSUME NEW Owner, NEW certs \in Certs(Owner), WellFormed(certs),
         NEW other \in Certs(Owner), WellFormed(other),
         \A i \in DOMAIN other : Covers(certs, other[i])
  PROVE  TotalScore(certs) >= TotalScore(other)
<1>1. /\ Len(certs) \in 0 .. 3 /\ DOMAIN certs = 1 .. Len(certs)
      /\ \A i \in 1 .. Len(certs) : certs[i].score \in Nat
  BY CertListDomain
<1>2. /\ Len(other) \in 0 .. 3 /\ DOMAIN other = 1 .. Len(other)
      /\ \A i \in 1 .. Len(other) : other[i].score \in Nat
  BY CertListDomain
<1>3. \A k, l \in 1 .. Len(certs) : k <= l => certs[k].score >= certs[l].score
  <2>1. Len(certs) \in Nat /\ DOMAIN certs = 1 .. Len(certs)
    BY <1>1
  <2>2. \A i \in 1 .. Len(certs) : certs[i].score \in Nat
    BY <1>1
  <2> QED
    BY <2>1, <2>2, WellFormedOrder
<1>4. /\ \A k, l \in 1 .. Len(other) : k <= l => other[k].score >= other[l].score
      /\ \A k, l \in 1 .. Len(other) : k < l => other[k].owner # other[l].owner
  <2>1. Len(other) \in Nat /\ DOMAIN other = 1 .. Len(other)
    BY <1>2
  <2>2. \A i \in 1 .. Len(other) : other[i].score \in Nat
    BY <1>2
  <2>3. WellFormed(other)
    OBVIOUS
  <2>4. \A k, l \in 1 .. Len(other) : k <= l => other[k].score >= other[l].score
    BY <2>1, <2>2, <2>3, WellFormedOrder
  <2>5. \A k, l \in 1 .. Len(other) : k < l => other[k].owner # other[l].owner
    BY <2>1, <2>2, <2>3, WellFormedOrder
  <2> QED
    BY <2>4, <2>5
<1> DEFINE At(j, i) == i \in 1 .. Len(certs) /\ certs[i] = other[j]
           Full(j) == Len(certs) = 3 /\ certs[3].score >= other[j].score
<1>5. ASSUME NEW j \in 1 .. Len(other)
      PROVE  (\E i \in 1 .. 3 : At(j, i)) \/ Full(j)
  <2>1. Covers(certs, other[j])
    BY <1>2
  <2> QED
    BY <1>1, <2>1 DEF Covers, BEST_CERTS_WANTED
<1>6. ASSUME NEW j \in 1 .. Len(other), NEW i \in 1 .. Len(certs), At(j, i), i >= j
      PROVE  ScoreAt(certs, j) >= other[j].score
  <2>1. j \in 1 .. Len(certs) /\ certs[j].score >= certs[i].score
    BY <1>1, <1>2, <1>3, <1>6
  <2> QED
    BY <1>1, <1>6, <2>1 DEF ScoreAt
<1>7. ASSUME NEW j \in 1 .. Len(other), NEW l \in 1 .. Len(other), l <= j, Full(l)
      PROVE  ScoreAt(certs, j) >= other[j].score
  <2>1. j \in 1 .. 3 /\ other[l].score >= other[j].score
    BY <1>2, <1>4, <1>7
  <2>2. certs[j].score >= certs[3].score
    BY <1>1, <1>3, <1>7, <2>1
  <2>3. certs[j].score >= other[j].score
    BY <1>1, <1>2, <1>7, <2>1, <2>2
  <2> QED
    BY <1>1, <1>7, <2>1, <2>3 DEF ScoreAt
<1>8. ASSUME NEW j \in 1 .. Len(other) PROVE ScoreAt(certs, j) >= other[j].score
  <2>1. CASE \E l \in 1 .. Len(other) : l <= j /\ Full(l)
    BY <1>7, <2>1
  <2>2. CASE \A l \in 1 .. Len(other) : l <= j => ~Full(l)
    <3>1. \A l \in 1 .. Len(other) : l <= j => \E i \in 1 .. 3 : At(l, i)
      BY <1>5, <2>2
    <3>2. \A k, l \in 1 .. Len(other) : \A i : k < l /\ At(k, i) => ~At(l, i)
      BY <1>4
    <3>3. \E l \in 1 .. Len(other) : l <= j /\ \E i \in 1 .. 3 : At(l, i) /\ i >= j
      <4>1. j \in 1 .. 3
        BY <1>2
      <4> HIDE DEF At, Full
      <4>2. CASE j = 1
        BY <3>1, <4>2
      <4>3. CASE j = 2
        <5>1. 1 \in 1 .. Len(other) /\ 2 \in 1 .. Len(other)
          BY <1>2, <4>3
        <5>2. PICK i1 \in 1 .. 3 : At(1, i1)
          BY <3>1, <4>3, <5>1
        <5>3. PICK i2 \in 1 .. 3 : At(2, i2)
          BY <3>1, <4>3, <5>1
        <5>4. i1 # i2
          BY <3>2, <5>1, <5>2, <5>3
        <5> QED
          BY <4>3, <5>1, <5>2, <5>3, <5>4
      <4>4. CASE j = 3
        <5>1. 1 \in 1 .. Len(other) /\ 2 \in 1 .. Len(other) /\ 3 \in 1 .. Len(other)
          BY <1>2, <4>4
        <5>2. PICK i1 \in 1 .. 3 : At(1, i1)
          BY <3>1, <4>4, <5>1
        <5>3. PICK i2 \in 1 .. 3 : At(2, i2)
          BY <3>1, <4>4, <5>1
        <5>4. PICK i3 \in 1 .. 3 : At(3, i3)
          BY <3>1, <4>4, <5>1
        <5>5. i1 # i2 /\ i1 # i3 /\ i2 # i3
          BY <3>2, <5>1, <5>2, <5>3, <5>4
        <5> QED
          BY <4>4, <5>1, <5>2, <5>3, <5>4, <5>5
      <4> QED
        BY <4>1, <4>2, <4>3, <4>4
    <3>4. PICK l \in 1 .. Len(other), i \in 1 .. 3 : l <= j /\ At(l, i) /\ i >= j
      BY <3>3
    <3>5. i \in 1 .. Len(certs) /\ certs[i].score = other[l].score /\ other[l].score >= other[j].score
      BY <1>4, <3>4
    <3>6. j \in 1 .. Len(certs) /\ certs[j].score >= certs[i].score
      BY <1>1, <1>2, <1>3, <3>4, <3>5
    <3> QED
      BY <1>1, <1>2, <3>5, <3>6 DEF ScoreAt
  <2> QED
    BY <2>1, <2>2
<1>9. \A j \in {1, 2, 3} : /\ ScoreAt(certs, j) \in Nat /\ ScoreAt(other, j) \in Nat
                           /\ ScoreAt(certs, j) >= ScoreAt(other, j)
  <2>1. \A j \in {1, 2, 3} : ScoreAt(certs, j) \in Nat /\ ScoreAt(other, j) \in Nat
    BY <1>1, <1>2 DEF ScoreAt
  <2>2. \A j \in {1, 2, 3} : ScoreAt(certs, j) >= ScoreAt(other, j)
    <3>1. \A j \in 1 .. Len(other) : ScoreAt(other, j) = other[j].score
      BY <1>2 DEF ScoreAt
    <3>2. \A j \in {1, 2, 3} : j \notin 1 .. Len(other) => ScoreAt(other, j) = 0
      BY <1>2 DEF ScoreAt
    <3> QED
      BY <1>8, <2>1, <3>1, <3>2
  <2> QED
    BY <2>1, <2>2
<1> QED
  BY <1>9 DEF TotalScore

-----------------------------------------------------------------------------
(***************************************************************************)
(* The list for one marker (MarkerCerts)                                   *)
(***************************************************************************)
Vote(v) == [owner |-> v, score |-> scoreOf[v]]
(* Every vote that has come is in the list, or the list is full of better  *)
(* ones.                                                                   *)
MarkerInv ==
  /\ scoreOf \in [Voter -> Nat]
  /\ arrived \subseteq Voter
  /\ bestCerts \in Certs(Voter) /\ WellFormed(bestCerts)
  /\ \A i \in DOMAIN bestCerts : bestCerts[i].owner \in arrived /\ bestCerts[i] = Vote(bestCerts[i].owner)
  /\ \A v \in arrived : Covers(bestCerts, Vote(v))

LEMMA VotesOf ==
  ASSUME MarkerInv, NEW voters \in VoteLists
  PROVE  /\ DOMAIN voters \subseteq 1 .. 3 /\ \A i \in DOMAIN voters : voters[i] \in Voter
         /\ DOMAIN CertsOf(voters) = DOMAIN voters
         /\ \A i \in DOMAIN voters : CertsOf(voters)[i] = Vote(voters[i])
         /\ \A i \in DOMAIN voters : CertsOf(voters)[i] \in Cert(Voter)
         /\ \A i, j \in DOMAIN voters : i # j => CertsOf(voters)[i].owner # CertsOf(voters)[j].owner
         /\ CertsOf(voters) \in Certs(Voter)
<1>1. PICK k \in 1 .. 3 : voters \in [1 .. k -> Voter]
  BY DEF VoteLists, BEST_CERTS_WANTED
<1>2. /\ DOMAIN voters = 1 .. k /\ \A i \in 1 .. k : voters[i] \in Voter
      /\ \A i, j \in 1 .. k : i # j => voters[i] # voters[j]
  BY <1>1 DEF VoteLists
<1>3. \A v \in Voter : Vote(v) \in Cert(Voter) /\ Vote(v).owner = v
  BY DEF Vote, Cert, MarkerInv
<1>4. CertsOf(voters) = [i \in 1 .. k |-> Vote(voters[i])]
  BY <1>2 DEF CertsOf, Vote
<1>5. CertsOf(voters) \in [1 .. k -> Cert(Voter)]
  BY <1>2, <1>3, <1>4
<1>6. k \in Nat
  BY <1>1
<1>7. CertsOf(voters) \in Seq(Cert(Voter))
  BY <1>5, <1>6
<1> QED
  BY <1>1, <1>2, <1>3, <1>4, <1>5, <1>7 DEF Certs

LEMMA ReceiveKeeps ==
  ASSUME MarkerInv, NEW voters \in VoteLists, Receive(voters)
  PROVE  MarkerInv'
<1> DEFINE received == CertsOf(voters)
           new == Merge(bestCerts, received)
<1>1. /\ scoreOf' = scoreOf /\ bestCerts' = new
      /\ arrived' = arrived \cup {voters[i] : i \in DOMAIN voters}
  BY DEF Receive
<1>2. /\ \A i \in DOMAIN received : received[i] \in Cert(Voter) /\ received[i] = Vote(voters[i])
      /\ \A i, j \in DOMAIN received : i # j => received[i].owner # received[j].owner
      /\ DOMAIN received = DOMAIN voters /\ DOMAIN voters \subseteq 1 .. 3
      /\ \A i \in DOMAIN voters : voters[i] \in Voter
  BY VotesOf
<1>3. /\ scoreOf \in [Voter -> Nat] /\ arrived \subseteq Voter
      /\ bestCerts \in Certs(Voter) /\ WellFormed(bestCerts)
      /\ \A i \in DOMAIN bestCerts : bestCerts[i].owner \in arrived /\ bestCerts[i] = Vote(bestCerts[i].owner)
      /\ \A v \in arrived : Covers(bestCerts, Vote(v))
  BY DEF MarkerInv
<1>4. \A v \in Voter : Vote(v).owner = v /\ Vote(v) \in Cert(Voter) /\ Vote(v)' = Vote(v)
  BY <1>1, <1>3 DEF Vote, Cert
<1> HIDE DEF received, new
<1>5. new \in Certs(Voter) /\ WellFormed(new)
  BY <1>2, <1>3, MergeKeeps DEF new
<1>6. \A i \in DOMAIN bestCerts, j \in DOMAIN received :
        bestCerts[i].owner = received[j].owner => bestCerts[i] = received[j]
  BY <1>2, <1>3, <1>4
<1>7. /\ \A c \in Cert(Voter) : Covers(bestCerts, c) => Covers(new, c)
      /\ \A j \in DOMAIN received : j \in 1 .. 3 => Covers(new, received[j])
  BY <1>2, <1>3, <1>6, MergeCovers DEF new
<1>8. \A i \in DOMAIN new : \/ \E k \in DOMAIN bestCerts : new[i] = bestCerts[k]
                            \/ \E j \in DOMAIN received : new[i] = received[j]
  BY <1>2, <1>3, MergeFrom DEF new
<1>9. \A i \in DOMAIN new : new[i].owner \in arrived' /\ new[i] = Vote(new[i].owner)
  BY <1>1, <1>2, <1>3, <1>4, <1>8
<1>10. \A v \in arrived' : v \in Voter /\ Covers(new, Vote(v))
  <2> SUFFICES ASSUME NEW v \in arrived' PROVE v \in Voter /\ Covers(new, Vote(v))
    OBVIOUS
  <2>1. CASE v \in arrived
    BY <1>3, <1>4, <1>7, <2>1
  <2>2. CASE v \notin arrived
    <3>1. PICK j \in DOMAIN voters : v = voters[j]
      BY <1>1, <2>2
    <3>2. j \in DOMAIN received /\ j \in 1 .. 3 /\ received[j] = Vote(v) /\ v \in Voter
      BY <1>2, <3>1
    <3> QED
      BY <1>7, <3>2
  <2> QED
    BY <2>1, <2>2
<1>11. scoreOf' \in [Voter -> Nat] /\ arrived' \subseteq Voter
  BY <1>1, <1>3, <1>10
<1>12. bestCerts' \in Certs(Voter) /\ WellFormed(bestCerts)'
  BY <1>1, <1>5
<1>13. \A i \in DOMAIN bestCerts' :
          /\ bestCerts'[i].owner \in arrived'
          /\ bestCerts'[i] = [owner |-> bestCerts'[i].owner, score |-> scoreOf'[bestCerts'[i].owner]]
  BY <1>1, <1>9 DEF Vote
<1>14. \A v \in arrived' : Covers(bestCerts', [owner |-> v, score |-> scoreOf'[v]])
  BY <1>1, <1>10 DEF Vote
<1> QED
  BY <1>11, <1>12, <1>13, <1>14 DEF MarkerInv, Vote

(* Whatever the order in which votes for a marker arrive, and however      *)
(* often, a node keeps three whose total no other three exceed, for any    *)
(* number of voters and any scores (improveBestCert).                      *)
THEOREM BestThreeKept == MarkerSpec => []BestThree
<1>1. MarkerInit => MarkerInv
  <2> SUFFICES ASSUME MarkerInit PROVE MarkerInv
    OBVIOUS
  <2>1. bestCerts = <<>> /\ arrived = {} /\ scoreOf \in [Voter -> 1 .. MaxScore]
    BY DEF MarkerInit
  <2>2. <<>> \in Certs(Voter) /\ WellFormed(<<>>) /\ DOMAIN <<>> = {}
    BY DEF Certs, WellFormed, BEST_CERTS_WANTED
  <2>3. scoreOf \in [Voter -> Nat]
    BY <2>1, ScoreAssumption
  <2> QED
    BY <2>1, <2>2, <2>3 DEF MarkerInv
<1>2. MarkerInv /\ [MarkerNext]_markerVars => MarkerInv'
  <2>1. ASSUME MarkerInv, UNCHANGED markerVars PROVE MarkerInv'
    BY <2>1 DEF MarkerInv, markerVars, Vote
  <2> QED
    BY <2>1, ReceiveKeeps DEF MarkerNext
<1>3. MarkerInv => BestThree
  <2> SUFFICES ASSUME MarkerInv,
                      NEW voters \in VoteLists,
                      Owners(CertsOf(voters)) \subseteq arrived, WellFormed(CertsOf(voters))
               PROVE  TotalScore(CertsOf(voters)) <= TotalScore(bestCerts)
    BY DEF BestThree, MarkerInv, Vote
  <2> DEFINE rival == CertsOf(voters)
  <2>1. /\ rival \in Certs(Voter)
        /\ \A i \in DOMAIN rival : rival[i] = Vote(voters[i]) /\ voters[i] = rival[i].owner
    <3>1. /\ rival \in Certs(Voter) /\ DOMAIN rival = DOMAIN voters
          /\ \A i \in DOMAIN voters : rival[i] = Vote(voters[i])
      BY VotesOf
    <3>2. \A v : Vote(v).owner = v
      BY DEF Vote
    <3> QED
      BY <3>1, <3>2
  <2>2. \A i \in DOMAIN rival : voters[i] \in arrived
    BY <2>1 DEF Owners
  <2>3. \A i \in DOMAIN rival : Covers(bestCerts, rival[i])
    BY <2>1, <2>2 DEF MarkerInv
  <2>4. bestCerts \in Certs(Voter) /\ WellFormed(bestCerts)
    BY DEF MarkerInv
  <2>5. TotalScore(bestCerts) >= TotalScore(rival)
    BY <2>1, <2>3, <2>4, CoversTotal
  <2>6. TotalScore(bestCerts) \in Nat /\ TotalScore(rival) \in Nat
    BY <2>1, <2>4, TotalIsNat
  <2> QED
    BY <2>5, <2>6
<1> QED
  BY <1>1, <1>2, <1>3, PTL DEF MarkerSpec

-----------------------------------------------------------------------------
(***************************************************************************)
(* The shape of the state                                                  *)
(***************************************************************************)
(* A record that names a previous record is its successor.                 *)
GoodRecord(r) ==
  /\ r = [counter |-> r.counter, previous |-> r.previous, txs |-> r.txs, lists |-> r.lists]
  /\ r.counter \in Nat
  /\ r.txs \in TxChoices
  /\ r.previous # NoMarker => r.counter = r.previous[1].counter + 1

GoodMarker(m) == m # NoMarker => m = Marker(m[1]) /\ GoodRecord(m[1])

(* A chain: the record of cycle i - 1 is at index i.                       *)
GoodChain(c) == IsChain(c) /\ \A i \in 1 .. Len(c) : GoodRecord(c[i]) /\ c[i].counter = i - 1

GoodMessage(msg) ==
  /\ msg.owners \in Seq(Node)
  /\ msg.owners # <<>> => GoodRecord(msg.record)

GoodCompare(c) ==
  \/ c = [state |-> "idle"]
  \/ c = [state |-> "retry", cycle |-> c.cycle]
  \/ /\ c = [state |-> "ask", cycle |-> c.cycle, todo |-> c.todo,
             matched |-> c.matched, errors |-> c.errors]
     /\ c.todo \subseteq Node
  \/ /\ c = [state |-> c.state, cycle |-> c.cycle, todo |-> c.todo, matched |-> c.matched,
             errors |-> c.errors, peer |-> c.peer, msg |-> c.msg]
     /\ c.state \in {"sent", "replied"}
     /\ c.todo \subseteq Node
     /\ c.peer \in Node
     /\ GoodMessage(c.msg)

(* The inductive invariant, one part per group of variables.               *)
Shape ==
  /\ clock \in Nat
  /\ creator \in [Node -> {"off", "timer", "fetch", "save", "gone"}]
  /\ timers \in [Node -> [base : Nat, pending : SUBSET (1 .. 5)]]
  /\ currentCycle \in [Node -> Nat]
  /\ currentQuarter \in [Node -> 0 .. 4]
  /\ madeCycle \in [Node -> BOOLEAN]
  /\ fetchFails \in [Node -> Nat]

Chains == DOMAIN chain = Node /\ \A n \in Node : GoodChain(chain[n])

PrevMarkers == DOMAIN prevMarkerCached = Node /\ \A n \in Node : GoodMarker(prevMarkerCached[n])

(* The best record is known once there is a best marker, and while the     *)
(* timers run it is the successor of the newest record.                    *)
Bests ==
  /\ DOMAIN bestRecord = Node /\ DOMAIN bestMarker = Node
  /\ DOMAIN bestCycleCert = Node /\ DOMAIN bestCertScore = Node
  /\ \A n \in Node :
       /\ IsCertTable(bestCycleCert[n])
       /\ bestRecord[n] # NoRecord => GoodRecord(bestRecord[n])
       /\ bestMarker[n] # NoMarker =>
            GoodRecord(bestRecord[n]) /\ bestMarker[n] \in DOMAIN bestCycleCert[n]

BestNext ==
  \A n \in Node : creator[n] = "timer" /\ bestRecord[n] # NoRecord
                    => bestRecord[n].counter = Len(chain[n])

Messages == \A g \in gossip : g.to \in Node /\ GoodMessage(g.msg)

Compares == DOMAIN compare = Node /\ \A n \in Node : GoodCompare(compare[n])

CertInv ==
  /\ Shape /\ Chains /\ PrevMarkers
  /\ Bests /\ BestIsMax /\ BestNext
  /\ Messages /\ Compares
-----------------------------------------------------------------------------
(* Scores are natural numbers.                                             *)
LEMMA ScoreIsNat ==
  ASSUME NEW o \in Node, NEW m, GoodMarker(m)
  PROVE  ScoreCert(o, m) \in Nat
<1>1. CASE m = NoMarker
  BY <1>1 DEF ScoreCert
<1>2. CASE m # NoMarker
  <2> DEFINE out == HashXor[o][<<m[1].counter % Epochs, m[1].txs>>]
  <2>1. m[1].counter % Epochs \in 0 .. Epochs - 1 /\ m[1].txs \in TxChoices
    BY <1>2, CertAssumption DEF GoodMarker, GoodRecord
  <2>2. <<m[1].counter % Epochs, m[1].txs>> \in (0 .. Epochs - 1) \X TxChoices
    BY <2>1
  <2>3. HashXor[o] \in [(0 .. Epochs - 1) \X TxChoices -> Nat]
    BY CertAssumption
  <2>4. out \in Nat
    BY <2>2, <2>3
  <2>5. ScoreCert(o, m) = IF o \in Foundation THEN out ELSE out % NerfModulus
    BY <1>2 DEF ScoreCert, Score
  <2> HIDE DEF out
  <2> QED
    BY <2>4, <2>5, CertAssumption
<1> QED
  BY <1>1, <1>2

LEMMA ScoredCerts ==
  ASSUME CertInv, NEW n \in Node, NEW owners \in Seq(Node)
  PROVE  /\ DOMAIN Scored(n, owners) = 1 .. Len(owners)
         /\ \A i \in 1 .. Len(owners) :
              /\ Scored(n, owners)[i] \in Cert(Node)
              /\ Scored(n, owners)[i].owner = owners[i]
<1>1. DOMAIN owners = 1 .. Len(owners) /\ \A i \in 1 .. Len(owners) : owners[i] \in Node
  BY LenProperties, ElementOfSeq
<1>2. GoodMarker(prevMarkerCached[n])
  BY DEF CertInv, PrevMarkers
<1>3. \A i \in 1 .. Len(owners) : ScoreCert(owners[i], prevMarkerCached[n]) \in Nat
  BY <1>1, <1>2, ScoreIsNat
<1> QED
  BY <1>1, <1>3 DEF Scored, Cert

(* What a node knows for a marker is a well-formed list.                   *)
LEMMA CertsForGood ==
  ASSUME CertInv, NEW n \in Node, NEW marker
  PROVE  CertsFor(n, marker) \in Certs(Node) /\ WellFormed(CertsFor(n, marker))
<1>1. CASE marker \in DOMAIN bestCycleCert[n]
  BY <1>1 DEF CertInv, Bests, IsCertTable, CertsFor, Certs, Cert
<1>2. CASE marker \notin DOMAIN bestCycleCert[n]
  <2>1. <<>> \in Certs(Node) /\ WellFormed(<<>>)
    BY DEF Certs, WellFormed, BEST_CERTS_WANTED
  <2> QED
    BY <1>2, <2>1 DEF CertsFor
<1> QED
  BY <1>1, <1>2

(* The message of a vote: by different owners, for the marker of a record. *)
GoodVote(msg) ==
  /\ msg.owners \in Seq(Node)
  /\ \A i, j \in DOMAIN msg.owners : i # j => msg.owners[i] # msg.owners[j]
  /\ GoodRecord(msg.record)
  /\ msg.marker = Marker(msg.record)

LEMMA MergedGood ==
  ASSUME CertInv, NEW n \in Node, NEW msg, GoodVote(msg)
  PROVE  /\ MergedCerts(n, msg) \in Certs(Node)
         /\ WellFormed(MergedCerts(n, msg))
         /\ TotalScore(MergedCerts(n, msg)) \in Nat
         /\ TotalScore(MergedCerts(n, msg)) >= TotalScore(CertsFor(n, msg.marker))
         /\ Owners(MergedCerts(n, msg)) \subseteq
              Owners(CertsFor(n, msg.marker)) \cup {msg.owners[i] : i \in DOMAIN msg.owners}
<1> DEFINE received == Scored(n, msg.owners)
<1>1. /\ CertsFor(n, msg.marker) \in Certs(Node)
      /\ WellFormed(CertsFor(n, msg.marker))
  BY CertsForGood
<1>2. msg.owners \in Seq(Node) /\ DOMAIN msg.owners = 1 .. Len(msg.owners)
  BY LenProperties DEF GoodVote
<1>3. /\ DOMAIN received = 1 .. Len(msg.owners)
      /\ \A i \in 1 .. Len(msg.owners) :
           received[i] \in Cert(Node) /\ received[i].owner = msg.owners[i]
  BY <1>2, ScoredCerts
<1>4. MergedCerts(n, msg) = Merge(CertsFor(n, msg.marker), received)
  BY DEF MergedCerts
<1> HIDE DEF received
<1>5. \A i, j \in DOMAIN received : i # j => received[i].owner # received[j].owner
  BY <1>2, <1>3 DEF GoodVote
<1>6. {received[i].owner : i \in DOMAIN received} = {msg.owners[i] : i \in DOMAIN msg.owners}
  BY <1>2, <1>3
<1> QED
  BY SMTT(30), <1>1, <1>3, <1>4, <1>5, <1>6, MergeKeeps

(* improveBestCert keeps the tables well formed and the best the best: the *)
(* total for a marker never falls, so the old best stays ahead of the rest.*)
LEMMA ImproveKeeps ==
  ASSUME CertInv, NEW n \in Node, NEW msg, GoodVote(msg), ImproveBestCert(n, msg)
  PROVE  /\ Bests' /\ BestIsMax'
         /\ bestRecord'[n] \in {bestRecord[n], msg.record}
         /\ bestMarker[n] # NoMarker => bestMarker'[n] # NoMarker
         /\ \A q \in Node \ {n} : bestRecord'[q] = bestRecord[q]
<1> DEFINE certs == MergedCerts(n, msg)
           m == msg.marker
           T == TotalScore(certs)
<1>1. /\ certs \in Certs(Node) /\ WellFormed(certs) /\ T \in Nat
      /\ T >= TotalScore(CertsFor(n, m))
  BY MergedGood
<1>2. m # NoMarker
  BY DEF GoodVote, Marker, NoMarker
<1>3. /\ DOMAIN bestRecord = Node /\ DOMAIN bestMarker = Node
      /\ DOMAIN bestCycleCert = Node /\ DOMAIN bestCertScore = Node
  BY DEF CertInv, Bests
<1>4. /\ bestCycleCert' = [bestCycleCert EXCEPT ![n] = Put(@, m, certs)]
      /\ bestCertScore' = [bestCertScore EXCEPT ![n] = Put(@, m, T)]
      /\ IF Improves(n, msg)
         THEN /\ bestMarker' = [bestMarker EXCEPT ![n] = m]
              /\ bestRecord' = [bestRecord EXCEPT ![n] = msg.record]
         ELSE UNCHANGED <<bestMarker, bestRecord>>
  BY DEF ImproveBestCert
<1>5. Improves(n, msg) <=> T > BestScore(n)
  BY DEF Improves
<1> DEFINE table  == bestCycleCert[n]
           scores == bestCertScore[n]
           table2  == Put(table, m, certs)
           scores2 == Put(scores, m, T)
           best   == BestScore(n)
<1>6. /\ DOMAIN table2 = DOMAIN table \cup {m}
      /\ table2[m] = certs
      /\ \A k \in DOMAIN table \ {m} : table2[k] = table[k]
      /\ DOMAIN scores2 = DOMAIN scores \cup {m}
      /\ scores2[m] = T
      /\ \A k \in DOMAIN scores \ {m} : scores2[k] = scores[k]
  BY DEF Put
<1>7. /\ DOMAIN scores = DOMAIN table
      /\ \A k \in DOMAIN scores : scores[k] = TotalScore(table[k]) /\ scores[k] <= best
  BY DEF CertInv, BestIsMax
<1>8. best = IF bestMarker[n] \in DOMAIN scores THEN scores[bestMarker[n]] ELSE 0
  BY DEF BestScore
<1>9. IsCertTable(table2)
  <2>1. IsCertTable(table)
    BY DEF CertInv, Bests
  <2> HIDE DEF table, table2, certs, m
  <2> QED
    BY <1>1, <1>6, <2>1 DEF IsCertTable, Certs, Cert
<1>10. \A k \in DOMAIN scores : scores[k] \in Nat
  <2>1. ASSUME NEW k \in DOMAIN scores PROVE scores[k] \in Nat
    <3>1. CertsFor(n, k) = table[k]
      BY <1>7, <2>1 DEF CertsFor
    <3>2. CertsFor(n, k) \in Certs(Node) /\ WellFormed(CertsFor(n, k))
      BY CertsForGood
    <3>3. TotalScore(CertsFor(n, k)) \in Nat
      BY <3>2, TotalIsNat
    <3> QED
      BY <1>7, <3>1, <3>3
  <2> QED
    BY <2>1
<1>11. best \in Nat
  BY <1>8, <1>10
<1>12. m \in DOMAIN scores => T >= scores[m]
  BY <1>1, <1>7 DEF CertsFor
<1>13. /\ bestCycleCert'[n] = table2 /\ bestCertScore'[n] = scores2
       /\ DOMAIN bestRecord' = Node /\ DOMAIN bestMarker' = Node
       /\ DOMAIN bestCycleCert' = Node /\ DOMAIN bestCertScore' = Node
       /\ bestMarker'[n] = IF T > best THEN m ELSE bestMarker[n]
       /\ bestRecord'[n] = IF T > best THEN msg.record ELSE bestRecord[n]
  BY <1>3, <1>4, <1>5
<1>14. \A q \in Node \ {n} :
         /\ bestCycleCert'[q] = bestCycleCert[q] /\ bestCertScore'[q] = bestCertScore[q]
         /\ bestMarker'[q] = bestMarker[q] /\ bestRecord'[q] = bestRecord[q]
  BY <1>3, <1>4
<1>15. GoodRecord(msg.record)
  BY DEF GoodVote
<1>16. Bests'
  <2>1. \A q \in Node :
          /\ IsCertTable(bestCycleCert[q])
          /\ bestRecord[q] # NoRecord => GoodRecord(bestRecord[q])
          /\ bestMarker[q] # NoMarker =>
               GoodRecord(bestRecord[q]) /\ bestMarker[q] \in DOMAIN bestCycleCert[q]
    BY DEF CertInv, Bests
  <2> HIDE DEF table2, scores2, best, T, m
  <2>2. \A q \in Node :
          /\ IsCertTable(bestCycleCert'[q])
          /\ bestRecord'[q] # NoRecord => GoodRecord(bestRecord'[q])
          /\ bestMarker'[q] # NoMarker =>
               GoodRecord(bestRecord'[q]) /\ bestMarker'[q] \in DOMAIN bestCycleCert'[q]
    BY <1>6, <1>9, <1>13, <1>14, <1>15, <2>1
  <2> QED
    BY <1>13, <2>2 DEF Bests
<1>17. BestScore(n)' = IF T > best THEN T ELSE best
  <2>1. BestScore(n)' = IF bestMarker'[n] \in DOMAIN scores2 THEN scores2[bestMarker'[n]] ELSE 0
    BY <1>13 DEF BestScore
  <2> HIDE DEF table2, scores2, scores, best, T, m
  <2>2. CASE T > best
    BY <1>6, <1>13, <2>1, <2>2
  <2>3. CASE ~(T > best) /\ bestMarker[n] # m
    BY <1>6, <1>8, <1>13, <2>1, <2>3
  <2>4. CASE ~(T > best) /\ bestMarker[n] = m
    BY <1>1, <1>6, <1>8, <1>11, <1>12, <1>13, <2>1, <2>4
  <2> QED
    BY <2>2, <2>3, <2>4
<1>18. BestIsMax'
  <2>1. /\ DOMAIN scores2 = DOMAIN table2
        /\ \A k \in DOMAIN scores2 : scores2[k] = TotalScore(table2[k]) /\ scores2[k] <= BestScore(n)'
    <3> HIDE DEF table2, scores2, table, scores, best, m, certs
    <3> QED
      BY <1>1, <1>6, <1>7, <1>10, <1>11, <1>17
  <2>2. \A q \in Node \ {n} : BestScore(q)' = BestScore(q)
    BY <1>14 DEF BestScore
  <2>3. \A q \in Node :
          /\ DOMAIN bestCertScore[q] = DOMAIN bestCycleCert[q]
          /\ \A k \in DOMAIN bestCertScore[q] :
               /\ bestCertScore[q][k] = TotalScore(bestCycleCert[q][k])
               /\ bestCertScore[q][k] <= BestScore(q)
    BY DEF CertInv, BestIsMax
  <2> HIDE DEF table2, scores2, T, best, m
  <2>4. \A q \in Node :
          /\ DOMAIN bestCertScore'[q] = DOMAIN bestCycleCert'[q]
          /\ \A k \in DOMAIN bestCertScore'[q] :
               /\ bestCertScore'[q][k] = TotalScore(bestCycleCert'[q][k])
               /\ bestCertScore'[q][k] <= BestScore(q)'
    BY <1>13, <1>14, <2>1, <2>2, <2>3
  <2> QED
    BY <2>4 DEF BestIsMax
<1> QED
  BY <1>2, <1>13, <1>14, <1>16, <1>18
-----------------------------------------------------------------------------
(* Making and digesting records.                                           *)
LEMMA NewestGood ==
  ASSUME NEW c, GoodChain(c)
  PROVE  /\ GoodRecord(Last(c)) /\ Last(c).counter = Len(c) - 1 /\ Len(c) \in Nat \ {0}
BY ChainLast DEF GoodChain

LEMMA MadeGood ==
  ASSUME NEW r, GoodRecord(r), NEW txs \in TxChoices
  PROVE  GoodRecord(MakeRecord(r, txs)) /\ MakeRecord(r, txs).counter = r.counter + 1
BY DEF GoodRecord, MakeRecord, Marker, NoMarker

LEMMA PatchedGood ==
  ASSUME NEW r, GoodRecord(r), NEW c
  PROVE  GoodRecord(Patched(c, r)) /\ Patched(c, r).counter = r.counter
<1> DEFINE l == <<UNION {c[i].txs : i \in DOMAIN c}>>
           p == [r EXCEPT !.lists = l]
<1>1. Patched(c, r) = p
  BY DEF Patched
<1> HIDE DEF l
<1>2. p = [counter |-> r.counter, previous |-> r.previous, txs |-> r.txs, lists |-> l]
  BY DEF GoodRecord
<1> QED
  BY <1>1, <1>2 DEF GoodRecord

LEMMA DigestedGood ==
  ASSUME NEW c, GoodChain(c), NEW r, GoodRecord(r), r.counter = Len(c)
  PROVE  GoodChain(Digested(c, r)) /\ Len(Digested(c, r)) = Len(c) + 1
<1> DEFINE p == Patched(c, r)
<1>1. GoodRecord(p) /\ p.counter = Len(c)
  BY PatchedGood
<1>2. Digested(c, r) = Append(c, p)
  BY DEF Digested
<1> HIDE DEF p
<1>3. /\ IsChain(Append(c, p)) /\ Len(Append(c, p)) = Len(c) + 1
      /\ \A i \in 1 .. Len(c) : Append(c, p)[i] = c[i]
      /\ Append(c, p)[Len(c) + 1] = p
  BY ChainAppend DEF GoodChain
<1>4. Len(c) \in Nat \ {0}
  BY NewestGood
<1> QED
  BY <1>1, <1>2, <1>3, <1>4 DEF GoodChain

(* A synced record is only digested where its hash fits, so its counter    *)
(* does too.                                                               *)
LEMMA DigestNewerGood ==
  ASSUME NEW c, GoodChain(c), NEW r, GoodRecord(r), NEW since \in Nat
  PROVE  GoodChain(DigestNewer(c, r, since))
<1>1. CASE r.counter > since /\ r.previous = Marker(Last(c))
  <2>1. r.previous # NoMarker /\ r.previous[1] = Last(c)
    BY <1>1 DEF Marker, NoMarker
  <2>2. Last(c).counter = Len(c) - 1 /\ Len(c) \in Nat \ {0}
    BY NewestGood
  <2>3. r.counter = Len(c)
    BY <2>1, <2>2 DEF GoodRecord
  <2> QED
    BY <1>1, <2>3, DigestedGood DEF DigestNewer
<1>2. CASE ~(r.counter > since /\ r.previous = Marker(Last(c)))
  BY <1>2 DEF DigestNewer
<1> QED
  BY <1>1, <1>2

(* Induction over the natural numbers, stated for a set.                   *)
LEMMA SetInduction ==
  ASSUME NEW T, 0 \in T, \A i \in Nat : i \in T => i + 1 \in T
  PROVE  \A i \in Nat : i \in T
<1> SUFFICES ASSUME Nat \ T # {} PROVE FALSE
  OBVIOUS
<1> DEFINE R == {ss \in Nat \X Nat : ss[1] < ss[2]}
<1>1. \A x, y \in Nat : x < y => <<x, y>> \in R
  OBVIOUS
<1>2. IsWellFoundedOn(R, Nat)
  BY NatLessThanWellFounded, Zenon DEF OpToRel
<1> HIDE DEF R
<1>3. PICK x \in Nat \ T : \A y \in Nat \ T : ~(<<y, x>> \in R)
  <2> Nat \ T \subseteq Nat
    OBVIOUS
  <2> QED
    BY <1>2, WFMin
<1>4. x - 1 \in Nat /\ x - 1 < x /\ (x - 1) + 1 = x
  BY <1>3
<1>5. x - 1 \notin T
  BY <1>3, <1>4
<1> QED
  BY <1>1, <1>3, <1>4, <1>5

(* The function Synced is defined with: what the sync holds after i        *)
(* records.  It exists, and all its values are good chains.                *)
SyncStep(u, c, theirs, since, N) ==
  [i \in 0 .. N |-> IF i = 0 THEN c ELSE DigestNewer(u[i - 1], theirs[i], since)]

LEMMA SyncExists ==
  ASSUME NEW c, NEW theirs, NEW since, NEW N \in Nat
  PROVE  \E u : u = SyncStep(u, c, theirs, since, N)
<1> DEFINE T == {k \in Nat : \E u : u = SyncStep(u, c, theirs, since, k)}
<1>1. 0 \in T
  <2> DEFINE u == [i \in 0 .. 0 |-> c]
  <2>1. u = SyncStep(u, c, theirs, since, 0)
    BY DEF SyncStep
  <2> QED
    BY <2>1
<1>2. ASSUME NEW k \in Nat, k \in T PROVE k + 1 \in T
  <2>1. PICK u : u = SyncStep(u, c, theirs, since, k)
    BY <1>2
  <2> DEFINE w == [i \in 0 .. k + 1 |-> IF i = k + 1 THEN DigestNewer(u[k], theirs[k + 1], since)
                                        ELSE u[i]]
             W == SyncStep(w, c, theirs, since, k + 1)
  <2>2. \A i \in 0 .. k : u[i] = IF i = 0 THEN c ELSE DigestNewer(u[i - 1], theirs[i], since)
    BY <2>1 DEF SyncStep
  <2>3. \A i \in 0 .. k : w[i] = u[i]
    OBVIOUS
  <2>4. w[k + 1] = DigestNewer(u[k], theirs[k + 1], since)
    OBVIOUS
  <2>5. ASSUME NEW i \in 0 .. k + 1 PROVE w[i] = W[i]
    <3>1. W[i] = IF i = 0 THEN c ELSE DigestNewer(w[i - 1], theirs[i], since)
      BY DEF SyncStep
    <3> HIDE DEF w, W
    <3>2. CASE i = k + 1
      <4>1. k + 1 # 0 /\ (k + 1) - 1 = k /\ k \in 0 .. k
        OBVIOUS
      <4>2. W[k + 1] = DigestNewer(w[k], theirs[k + 1], since)
        BY <3>1, <3>2, <4>1
      <4> QED
        BY <2>3, <2>4, <3>2, <4>1, <4>2
    <3>3. CASE i = 0
      BY <2>2, <2>3, <3>1, <3>3
    <3>4. CASE i \in 1 .. k
      <4>1. i \in 0 .. k /\ i - 1 \in 0 .. k /\ i # 0
        BY <3>4
      <4> QED
        BY <2>2, <2>3, <3>1, <4>1
    <3> QED
      BY <3>2, <3>3, <3>4
  <2>6. w = W
    BY <2>5 DEF SyncStep
  <2>7. \E v : v = SyncStep(v, c, theirs, since, k + 1)
    <3> HIDE DEF w
    <3> QED
      BY <2>6
  <2> QED
    BY <2>7
<1> HIDE DEF T
<1>3. N \in T
  BY <1>1, <1>2, SetInduction
<1> QED
  BY <1>3 DEF T

LEMMA SyncAllGood ==
  ASSUME NEW c, GoodChain(c), NEW theirs, GoodChain(theirs), NEW since \in Nat,
         NEW u, u = SyncStep(u, c, theirs, since, Len(theirs))
  PROVE  GoodChain(u[Len(theirs)])
<1> DEFINE N == Len(theirs)
           T == {i \in Nat : i \in 0 .. N => GoodChain(u[i])}
<1>1. N \in Nat /\ \A i \in 1 .. N : GoodRecord(theirs[i])
  BY NewestGood DEF GoodChain
<1>2. \A i \in 0 .. N : u[i] = IF i = 0 THEN c ELSE DigestNewer(u[i - 1], theirs[i], since)
  BY DEF SyncStep
<1> HIDE DEF N
<1>3. 0 \in T
  BY <1>1, <1>2
<1>4. ASSUME NEW i \in Nat, i \in T PROVE i + 1 \in T
  <2> SUFFICES ASSUME i + 1 \in 0 .. N PROVE GoodChain(u[i + 1])
    OBVIOUS
  <2>1. i \in 0 .. N /\ i + 1 \in 1 .. N /\ i + 1 # 0 /\ (i + 1) - 1 = i
    BY <1>1
  <2>2. u[i + 1] = DigestNewer(u[i], theirs[i + 1], since)
    BY <1>2, <2>1
  <2>3. GoodChain(u[i]) /\ GoodRecord(theirs[i + 1])
    BY <1>1, <1>4, <2>1
  <2> QED
    BY <2>2, <2>3, DigestNewerGood
<1> HIDE DEF T
<1>5. N \in T
  BY <1>1, <1>3, <1>4, SetInduction
<1> QED
  BY <1>1, <1>5 DEF T, N

LEMMA SyncedGood ==
  ASSUME Chains, NEW n \in Node, NEW p \in Node
  PROVE  GoodChain(Synced(n, p))
<1> DEFINE since == Newest(n).counter
           u == CHOOSE u : u = SyncStep(u, chain[n], chain[p], since, Len(chain[p]))
<1>1. GoodChain(chain[n]) /\ GoodChain(chain[p])
  BY DEF Chains
<1>2. since \in Nat /\ Len(chain[p]) \in Nat
  BY <1>1, NewestGood DEF Newest
<1>3. Synced(n, p) = u[Len(chain[p])]
  BY Zenon DEF Synced, SyncStep
<1>4. u = SyncStep(u, chain[n], chain[p], since, Len(chain[p]))
  <2> HIDE DEF since
  <2> QED
    BY <1>2, SyncExists
<1> HIDE DEF u, since
<1> QED
  BY <1>1, <1>2, <1>3, <1>4, SyncAllGood
-----------------------------------------------------------------------------
(* What a step that leaves a group of variables alone keeps.               *)
LEMMA KeepChains == ASSUME CertInv, UNCHANGED chain PROVE Chains'
BY DEF CertInv, Chains

LEMMA KeepMarkers == ASSUME CertInv, UNCHANGED prevMarkerCached PROVE PrevMarkers'
BY DEF CertInv, PrevMarkers

LEMMA KeepBests == ASSUME CertInv, UNCHANGED bestVars PROVE Bests' /\ BestIsMax'
BY DEF CertInv, Bests, BestIsMax, BestScore, bestVars

LEMMA KeepNext == ASSUME CertInv, UNCHANGED <<creator, chain, bestRecord>> PROVE BestNext'
BY DEF CertInv, BestNext

LEMMA KeepMessages == ASSUME CertInv, gossip' \subseteq gossip PROVE Messages'
BY DEF CertInv, Messages

LEMMA KeepCompares == ASSUME CertInv, UNCHANGED compare PROVE Compares'
BY DEF CertInv, Compares

LEMMA KeepShape ==
  ASSUME CertInv, UNCHANGED <<clock, creatorVars, madeCycle>>
  PROVE  Shape'
BY DEF CertInv, Shape, creatorVars

(* Messages made of the lists a node keeps.                                *)
LEMMA OwnersGood ==
  ASSUME NEW certs \in Certs(Node), WellFormed(certs)
  PROVE  OwnersOf(certs) \in Seq(Node)
<1>1. /\ Len(certs) \in 0 .. 3 /\ DOMAIN certs = 1 .. Len(certs)
      /\ \A i \in 1 .. Len(certs) : certs[i] \in Cert(Node)
  BY CertListDomain
<1>2. \A i \in 1 .. Len(certs) : certs[i].owner \in Node
  BY <1>1, CertFields
<1>3. OwnersOf(certs) \in [1 .. Len(certs) -> Node] /\ Len(certs) \in Nat
  BY <1>1, <1>2 DEF OwnersOf
<1> QED
  BY <1>3, SeqDef

LEMMA MyBestGood ==
  ASSUME CertInv, NEW n \in Node, bestMarker[n] # NoMarker
  PROVE  GoodMessage(MyBest(n))
<1>1. OwnersOf(CertsFor(n, bestMarker[n])) \in Seq(Node)
  BY CertsForGood, OwnersGood
<1>2. GoodRecord(bestRecord[n])
  BY DEF CertInv, Bests
<1> QED
  BY <1>1, <1>2 DEF MyBest, Message, GoodMessage

LEMMA BestGossipGood ==
  ASSUME CertInv, NEW n \in Node, NEW msg, GoodVote(msg)
  PROVE  \A g \in BestGossip(n, msg) : g.to \in Node /\ GoodMessage(g.msg)
<1>1. OwnersOf(MergedCerts(n, msg)) \in Seq(Node)
  BY MergedGood, OwnersGood
<1>2. GoodMessage(Message(msg.marker, MergedCerts(n, msg), msg.record))
  BY <1>1 DEF Message, GoodMessage, GoodVote
<1> QED
  BY <1>2 DEF BestGossip

(* A message that passes validateCerts is a vote for the next record.      *)
LEMMA ValidIsVote ==
  ASSUME CertInv, NEW n \in Node, NEW msg, GoodMessage(msg), ValidCerts(n, msg)
  PROVE  GoodVote(msg) /\ msg.record.counter = Len(chain[n])
<1>1. Newest(n).counter = Len(chain[n]) - 1 /\ Len(chain[n]) \in Nat \ {0}
  BY NewestGood DEF CertInv, Chains, Newest
<1> QED
  BY <1>1 DEF ValidCerts, GoodMessage, GoodVote

(* Improving the best record with the next record keeps it the next one.   *)
LEMMA ImproveKeepsNext ==
  ASSUME CertInv, NEW n \in Node, NEW msg, GoodVote(msg), ImproveBestCert(n, msg),
         msg.record.counter = Len(chain[n]), UNCHANGED <<creator, chain>>
  PROVE  BestNext'
<1>1. /\ bestRecord'[n] \in {bestRecord[n], msg.record}
      /\ \A q \in Node \ {n} : bestRecord'[q] = bestRecord[q]
  BY ImproveKeeps
<1> QED
  BY <1>1 DEF CertInv, BestNext
-----------------------------------------------------------------------------
(* One lemma per action.                                                   *)
LEMMA InitGood == ASSUME Init PROVE CertInv
<1>1. IsChain(<<Genesis>>) /\ Len(<<Genesis>>) = 1 /\ <<Genesis>>[1] = Genesis
  <2>1. <<Genesis>> \in Seq({Genesis}) /\ Len(<<Genesis>>) = 1 /\ Len(<<Genesis>>) > 0
    OBVIOUS
  <2> QED
    BY <2>1, ChainSeq
<1>2. GoodRecord(Genesis) /\ Genesis.counter = 0
  BY TxAssumption DEF Genesis, GoodRecord, NoMarker
<1>3. GoodChain(<<Genesis>>)
  BY <1>1, <1>2 DEF GoodChain
<1>4. Shape
  BY DEF Init, Shape, NoTimers
<1>5. Chains /\ PrevMarkers
  BY <1>3 DEF Init, Chains, PrevMarkers, GoodMarker
<1>6. DOMAIN <<>> = {}
  OBVIOUS
<1>7. Bests /\ BestNext
  BY <1>6 DEF Init, Bests, BestNext, IsCertTable
<1>8. BestIsMax
  BY <1>6 DEF Init, BestIsMax
<1>9. Messages /\ Compares
  BY DEF Init, Messages, Compares, GoodCompare, Idle
<1> QED
  BY <1>4, <1>5, <1>7, <1>8, <1>9 DEF CertInv

LEMMA RunQ1Keeps == ASSUME CertInv, NEW n \in Node, RunQ1(n) PROVE CertInv'
<1>1. Shape'
  BY DEF RunQ1, Fired, CertInv, Shape
<1> QED
  BY <1>1, KeepChains, KeepMarkers, KeepBests, KeepNext, KeepMessages, KeepCompares
     DEF RunQ1, CertInv, bestVars

LEMMA RunQ2Keeps == ASSUME CertInv, NEW n \in Node, RunQ2(n) PROVE CertInv'
<1>1. Shape'
  BY DEF RunQ2, Fired, CertInv, Shape
<1>2. PrevMarkers'
  <2>1. GoodRecord(Newest(n))
    BY NewestGood DEF CertInv, Chains, Newest
  <2>2. GoodMarker(Marker(Newest(n)))
    BY <2>1 DEF GoodMarker, Marker
  <2> QED
    BY <2>2 DEF RunQ2, CertInv, PrevMarkers
<1> QED
  BY <1>1, <1>2, KeepChains, KeepBests, KeepNext, KeepMessages, KeepCompares
     DEF RunQ2, CertInv, bestVars

LEMMA RunQ3Keeps == ASSUME CertInv, NEW n \in Node, RunQ3(n) PROVE CertInv'
<1>1. Shape'
  BY DEF RunQ3, Fired, CertInv, Shape
<1>2. Chains' /\ PrevMarkers' /\ Compares'
  BY KeepChains, KeepMarkers, KeepCompares DEF RunQ3
<1>3. CASE n \in Active
  <2> PICK txs \in TxChoices :
        LET record == MakeRecord(Newest(n), txs)
            mine   == [marker |-> Marker(record), owners |-> <<n>>, record |-> record]
        IN /\ ImproveBestCert(n, mine)
           /\ gossip' = gossip \cup (IF Improves(n, mine) THEN BestGossip(n, mine) ELSE {})
    BY <1>3 DEF RunQ3
  <2> DEFINE record == MakeRecord(Newest(n), txs)
             mine   == [marker |-> Marker(record), owners |-> <<n>>, record |-> record]
  <2>1. GoodRecord(record) /\ record.counter = Len(chain[n])
    <3>1. /\ GoodRecord(Newest(n)) /\ Newest(n).counter = Len(chain[n]) - 1
          /\ Len(chain[n]) \in Nat \ {0}
      BY NewestGood DEF CertInv, Chains, Newest
    <3> HIDE DEF record
    <3>2. GoodRecord(record) /\ record.counter = Newest(n).counter + 1
      BY <3>1, MadeGood DEF record
    <3> QED
      BY <3>1, <3>2
  <2> HIDE DEF record
  <2>2. mine.owners = <<n>> /\ mine.record = record /\ mine.marker = Marker(record)
    OBVIOUS
  <2>3. /\ ImproveBestCert(n, mine)
        /\ gossip' = gossip \cup (IF Improves(n, mine) THEN BestGossip(n, mine) ELSE {})
    BY DEF record
  <2> HIDE DEF mine
  <2>4. GoodVote(mine)
    BY <2>1, <2>2 DEF GoodVote
  <2>5. Bests' /\ BestIsMax'
    BY <2>3, <2>4, ImproveKeeps
  <2>6. BestNext'
    BY <2>1, <2>2, <2>3, <2>4, ImproveKeepsNext DEF RunQ3
  <2>7. Messages'
    BY <2>3, <2>4, BestGossipGood DEF CertInv, Messages
  <2> QED
    BY <1>1, <1>2, <2>5, <2>6, <2>7 DEF CertInv
<1>4. CASE n \notin Active
  BY <1>1, <1>2, <1>4, KeepBests, KeepNext, KeepMessages DEF RunQ3, CertInv, bestVars
<1> QED
  BY <1>3, <1>4

LEMMA ReceiveGossipKeeps ==
  ASSUME CertInv, NEW g \in gossip, ReceiveGossip(g) PROVE CertInv'
<1> DEFINE n == g.to
<1>1. n \in Node /\ GoodMessage(g.msg)
  BY DEF CertInv, Messages
<1>2. Shape' /\ Chains' /\ PrevMarkers' /\ Compares'
  BY KeepShape, KeepChains, KeepMarkers, KeepCompares DEF ReceiveGossip
<1>3. CASE Running(n) /\ ValidCerts(n, g.msg)
  <2>1. ImproveBestCert(n, g.msg)
    BY <1>3 DEF ReceiveGossip
  <2>2. gossip' \subseteq gossip \cup BestGossip(n, g.msg)
    BY <1>3 DEF ReceiveGossip
  <2>3. GoodVote(g.msg) /\ g.msg.record.counter = Len(chain[n])
    BY <1>1, <1>3, ValidIsVote
  <2>4. Bests' /\ BestIsMax'
    BY <1>1, <2>1, <2>3, ImproveKeeps
  <2>5. UNCHANGED <<creator, chain>>
    BY DEF ReceiveGossip, creatorVars
  <2>6. BestNext'
    BY <1>1, <2>1, <2>3, <2>5, ImproveKeepsNext
  <2>7. \A h \in BestGossip(n, g.msg) : h.to \in Node /\ GoodMessage(h.msg)
    BY <1>1, <2>3, BestGossipGood
  <2>8. Messages'
    BY <2>2, <2>7 DEF CertInv, Messages
  <2> QED
    BY <1>2, <2>4, <2>6, <2>8 DEF CertInv
<1>4. CASE ~(Running(n) /\ ValidCerts(n, g.msg))
  <2>1. gossip' \subseteq gossip /\ UNCHANGED <<bestVars, creator, chain>>
    BY <1>4 DEF ReceiveGossip, creatorVars
  <2> QED
    BY <1>2, <2>1, KeepBests, KeepNext, KeepMessages DEF CertInv, bestVars
<1> QED
  BY <1>3, <1>4
-----------------------------------------------------------------------------
(* The comparison: every way it goes on leaves it in one of its states.    *)
LEMMA PassGood ==
  ASSUME CertInv, NEW n \in Node, NEW c PROVE GoodCompare(Pass(n, c))
BY CertAssumption DEF Pass, Others, GoodCompare

LEMMA EndCompareGood ==
  ASSUME CertInv, NEW n \in Node, NEW errors, EndCompare(n, errors)
  PROVE  Compares'
<1> PICK c : GoodCompare(c) /\ compare' = [compare EXCEPT ![n] = c]
  <2>1. GoodCompare(Idle) /\ \A cycle : GoodCompare([state |-> "retry", cycle |-> cycle])
    BY DEF GoodCompare, Idle
  <2> QED
    BY <2>1 DEF EndCompare
<1> QED
  BY DEF CertInv, Compares

LEMMA NextNodeGood ==
  ASSUME CertInv, NEW n \in Node, NEW matched, NEW errors,
         compare[n].todo \subseteq Node, NextNode(n, matched, errors)
  PROVE  Compares'
<1>1. CASE compare[n].todo = {} \/ matched >= Matches(n)
  BY <1>1, EndCompareGood DEF NextNode
<1>2. CASE ~(compare[n].todo = {} \/ matched >= Matches(n))
  <2> DEFINE c == [state |-> "ask", cycle |-> compare[n].cycle, todo |-> compare[n].todo,
                   matched |-> matched, errors |-> errors]
  <2>1. GoodCompare(c)
    BY DEF GoodCompare
  <2>2. compare' = [compare EXCEPT ![n] = c]
    BY <1>2 DEF NextNode
  <2> QED
    BY <2>1, <2>2 DEF CertInv, Compares
<1> QED
  BY <1>1, <1>2

LEMMA RunQ4Keeps == ASSUME CertInv, NEW n \in Node, RunQ4(n) PROVE CertInv'
<1>1. Shape'
  BY DEF RunQ4, Fired, CertInv, Shape
<1>2. Compares'
  <2>1. GoodCompare(Pass(n, currentCycle[n]))
    BY PassGood
  <2> QED
    BY <2>1 DEF RunQ4, CertInv, Compares
<1> QED
  BY <1>1, <1>2, KeepChains, KeepMarkers, KeepBests, KeepNext, KeepMessages
     DEF RunQ4, CertInv, bestVars

LEMMA CompareRetryKeeps == ASSUME CertInv, NEW n \in Node, CompareRetry(n) PROVE CertInv'
<1>1. Compares'
  <2>1. GoodCompare(Pass(n, compare[n].cycle))
    BY PassGood
  <2> QED
    BY <2>1 DEF CompareRetry, CertInv, Compares
<1> QED
  BY <1>1, KeepShape, KeepChains, KeepMarkers, KeepBests, KeepNext, KeepMessages
     DEF CompareRetry, CertInv, bestVars, creatorVars

LEMMA CompareAskKeeps ==
  ASSUME CertInv, NEW n \in Node, NEW p \in Node, CompareAsk(n, p) PROVE CertInv'
<1> DEFINE c == compare[n]
<1>1. /\ c = [state |-> "ask", cycle |-> c.cycle, todo |-> c.todo,
              matched |-> c.matched, errors |-> c.errors]
      /\ c.todo \subseteq Node
  BY DEF CertInv, Compares, GoodCompare, CompareAsk
<1>2. Compares'
  <2>1. CASE bestMarker[n] # NoMarker
    <3> DEFINE d == [state |-> "sent", cycle |-> c.cycle, todo |-> c.todo \ {p},
                     matched |-> c.matched, errors |-> c.errors,
                     peer |-> p, msg |-> MyBest(n)]
    <3>1. GoodMessage(MyBest(n))
      BY <2>1, MyBestGood
    <3>2. GoodCompare(d)
      BY <1>1, <3>1 DEF GoodCompare
    <3>3. compare' = [compare EXCEPT ![n] = d]
      BY <2>1 DEF CompareAsk
    <3> QED
      BY <3>2, <3>3 DEF CertInv, Compares
  <2>2. CASE bestMarker[n] = NoMarker /\ (QuarterChanged(n) \/ c.todo = {p})
    <3> EndCompare(n, c.errors)
      BY <2>2 DEF CompareAsk
    <3> QED
      BY EndCompareGood
  <2>3. CASE bestMarker[n] = NoMarker /\ ~(QuarterChanged(n) \/ c.todo = {p})
    <3> DEFINE d == [c EXCEPT !.todo = @ \ {p}]
    <3>1. d = [state |-> "ask", cycle |-> c.cycle, todo |-> c.todo \ {p},
               matched |-> c.matched, errors |-> c.errors]
      BY <1>1
    <3>2. compare' = [compare EXCEPT ![n] = d]
      BY <2>3 DEF CompareAsk
    <3> HIDE DEF d
    <3>3. GoodCompare(d)
      BY <1>1, <3>1 DEF GoodCompare
    <3> QED
      BY <3>2, <3>3 DEF CertInv, Compares
  <2> QED
    BY <2>1, <2>2, <2>3
<1> QED
  BY <1>2, KeepShape, KeepChains, KeepMarkers, KeepBests, KeepNext, KeepMessages
     DEF CompareAsk, CertInv, bestVars, creatorVars

(* A request under way: who it was sent to, and with what.                 *)
LEMMA SentGood ==
  ASSUME CertInv, NEW n \in Node, compare[n].state \in {"sent", "replied"}
  PROVE  LET c == compare[n]
         IN  /\ c = [state |-> c.state, cycle |-> c.cycle, todo |-> c.todo,
                     matched |-> c.matched, errors |-> c.errors, peer |-> c.peer, msg |-> c.msg]
             /\ c.todo \subseteq Node /\ c.peer \in Node /\ GoodMessage(c.msg)
<1>1. GoodCompare(compare[n])
  BY DEF CertInv, Compares
<1> QED
  BY <1>1 DEF GoodCompare

LEMMA CompareServeKeeps == ASSUME CertInv, NEW n \in Node, CompareServe(n) PROVE CertInv'
<1> DEFINE c == compare[n]
           p == c.peer
           reply == Message(bestMarker'[p],
                            IF bestMarker[p] = NoMarker THEN <<>>
                            ELSE bestCycleCert'[p][bestMarker'[p]],
                            bestRecord'[p])
           d == [c EXCEPT !.state = "replied", !.msg = reply]
<1>1. /\ c = [state |-> c.state, cycle |-> c.cycle, todo |-> c.todo,
              matched |-> c.matched, errors |-> c.errors, peer |-> p, msg |-> c.msg]
      /\ c.todo \subseteq Node /\ p \in Node /\ GoodMessage(c.msg)
  BY SentGood DEF CompareServe
<1>2. UNCHANGED <<creator, chain>>
  BY DEF CompareServe, creatorVars
<1>3. /\ Bests' /\ BestIsMax' /\ BestNext'
      /\ bestMarker[p] # NoMarker => bestMarker'[p] # NoMarker
  <2>1. CASE bestMarker[p] # NoMarker /\ ValidCerts(p, c.msg)
    <3>1. ImproveBestCert(p, c.msg)
      BY <2>1 DEF CompareServe
    <3>2. GoodVote(c.msg) /\ c.msg.record.counter = Len(chain[p])
      BY <1>1, <2>1, ValidIsVote
    <3> QED
      BY <1>1, <1>2, <3>1, <3>2, ImproveKeeps, ImproveKeepsNext
  <2>2. CASE ~(bestMarker[p] # NoMarker /\ ValidCerts(p, c.msg))
    <3>1. UNCHANGED bestVars
      BY <2>2 DEF CompareServe
    <3> QED
      BY <1>2, <3>1, KeepBests, KeepNext DEF bestVars
  <2> QED
    BY <2>1, <2>2
<1>4. GoodMessage(reply)
  <2>1. CASE bestMarker[p] = NoMarker
    <3>1. reply.owners = <<>>
      <4>1. OwnersOf(<<>>) = <<>>
        BY DEF OwnersOf
      <4> QED
        BY <2>1, <4>1 DEF Message
    <3> HIDE DEF reply
    <3>2. <<>> \in Seq(Node)
      OBVIOUS
    <3> QED
      BY <3>1, <3>2 DEF GoodMessage
  <2>2. CASE bestMarker[p] # NoMarker
    <3> DEFINE certs == bestCycleCert'[p][bestMarker'[p]]
    <3>1. GoodRecord(bestRecord'[p])
      BY <1>1, <1>3, <2>2 DEF Bests
    <3>2. certs \in Certs(Node) /\ WellFormed(certs)
      <4>1. bestMarker'[p] \in DOMAIN bestCycleCert'[p]
        BY <1>1, <1>3, <2>2 DEF Bests
      <4> QED
        BY <1>1, <1>3, <4>1 DEF Bests, IsCertTable, Certs, Cert
    <3>3. OwnersOf(certs) \in Seq(Node)
      BY <3>2, OwnersGood
    <3> HIDE DEF certs
    <3>4. reply = Message(bestMarker'[p], certs, bestRecord'[p])
      BY <2>2 DEF certs
    <3> HIDE DEF reply
    <3> QED
      BY <3>1, <3>3, <3>4 DEF Message, GoodMessage
  <2> QED
    BY <2>1, <2>2
<1> HIDE DEF reply
<1>5. d = [state |-> "replied", cycle |-> c.cycle, todo |-> c.todo,
           matched |-> c.matched, errors |-> c.errors, peer |-> p, msg |-> reply]
  <2> DEFINE e == [c EXCEPT !.state = "replied"]
  <2>1. e = [state |-> "replied", cycle |-> c.cycle, todo |-> c.todo,
             matched |-> c.matched, errors |-> c.errors, peer |-> p, msg |-> c.msg]
    BY <1>1
  <2>2. d = [e EXCEPT !.msg = reply]
    BY <1>1
  <2> HIDE DEF d, e
  <2> QED
    BY <2>1, <2>2
<1>6. compare' = [compare EXCEPT ![n] = d]
  BY DEF CompareServe, reply
<1> HIDE DEF d
<1>7. Compares'
  <2>1. GoodCompare(d)
    BY <1>1, <1>4, <1>5 DEF GoodCompare
  <2> QED
    BY <1>6, <2>1 DEF CertInv, Compares
<1> QED
  BY <1>3, <1>7, KeepShape, KeepChains, KeepMarkers, KeepMessages DEF CompareServe, CertInv

LEMMA CompareReplyKeeps == ASSUME CertInv, NEW n \in Node, CompareReply(n) PROVE CertInv'
<1> DEFINE c == compare[n]
           empty == c.msg.owners = <<>>
           same  == c.msg.marker = bestMarker[n]
<1>1. c.todo \subseteq Node /\ GoodMessage(c.msg)
  BY SentGood DEF CompareReply
<1>2. UNCHANGED <<creator, chain>>
  BY DEF CompareReply, creatorVars
<1>3. Bests' /\ BestIsMax' /\ BestNext'
  <2>1. CASE ~empty /\ ~QuarterChanged(n) /\ ~same /\ ValidCerts(n, c.msg)
    <3>1. ImproveBestCert(n, c.msg)
      BY <2>1 DEF CompareReply
    <3>2. GoodVote(c.msg) /\ c.msg.record.counter = Len(chain[n])
      BY <1>1, <2>1, ValidIsVote
    <3> QED
      BY <1>2, <3>1, <3>2, ImproveKeeps, ImproveKeepsNext
  <2>2. CASE ~(~empty /\ ~QuarterChanged(n) /\ ~same /\ ValidCerts(n, c.msg))
    <3>1. UNCHANGED bestVars
      BY <2>2 DEF CompareReply
    <3> QED
      BY <1>2, <3>1, KeepBests, KeepNext DEF bestVars
  <2> QED
    BY <2>1, <2>2
<1>4. Compares'
  <2>1. CASE empty
    <3> NextNode(n, c.matched, c.errors \cup {c.peer})
      BY <2>1 DEF CompareReply
    <3> QED
      BY <1>1, NextNodeGood
  <2>2. CASE ~empty /\ QuarterChanged(n)
    <3> EndCompare(n, c.errors)
      BY <2>2 DEF CompareReply
    <3> QED
      BY EndCompareGood
  <2>3. CASE ~empty /\ ~QuarterChanged(n) /\ same
    <3> NextNode(n, c.matched + 1, c.errors)
      BY <2>3 DEF CompareReply
    <3> QED
      BY <1>1, NextNodeGood
  <2>4. CASE ~empty /\ ~QuarterChanged(n) /\ ~same /\ ValidCerts(n, c.msg) /\ Improves(n, c.msg)
    <3>1. compare' = [compare EXCEPT ![n] = Pass(n, c.cycle)]
      BY <2>4 DEF CompareReply
    <3>2. GoodCompare(Pass(n, c.cycle))
      BY PassGood
    <3> QED
      BY <3>1, <3>2 DEF CertInv, Compares
  <2>5. CASE ~empty /\ ~QuarterChanged(n) /\ ~same /\ ~(ValidCerts(n, c.msg) /\ Improves(n, c.msg))
    <3> NextNode(n, c.matched, c.errors)
      BY <2>5 DEF CompareReply
    <3> QED
      BY <1>1, NextNodeGood
  <2> QED
    BY <2>1, <2>2, <2>3, <2>4, <2>5
<1> QED
  BY <1>3, <1>4, KeepShape, KeepChains, KeepMarkers, KeepMessages DEF CompareReply, CertInv

LEMMA CompareFailKeeps == ASSUME CertInv, NEW n \in Node, CompareFail(n) PROVE CertInv'
<1>1. compare[n].todo \subseteq Node
  BY SentGood DEF CompareFail
<1>2. Compares'
  BY <1>1, NextNodeGood DEF CompareFail
<1> QED
  BY <1>2, KeepShape, KeepChains, KeepMarkers, KeepBests, KeepNext, KeepMessages
     DEF CompareFail, CertInv, bestVars, creatorVars
-----------------------------------------------------------------------------
(* cycleCreator and startCycles: what is digested is the next record.      *)
LEMMA StartCreatorGood ==
  ASSUME CertInv, NEW n \in Node, NEW history, GoodChain(history), NEW record,
         GoodRecord(record) \/ record = bestRecord[n],
         record # NoRecord => GoodRecord(record),
         record # NoRecord /\ Last(history).counter < record.counter =>
           record.counter = Len(history),
         StartCreator(n, history, record),
         UNCHANGED <<bestMarker, bestCycleCert, bestCertScore>>
  PROVE  /\ Chains' /\ Bests' /\ BestIsMax' /\ BestNext'
         /\ creator' \in [Node -> {"off", "timer", "fetch", "save", "gone"}]
         /\ currentQuarter' \in [Node -> 0 .. 4]
<1>1. DOMAIN chain = Node /\ DOMAIN bestRecord = Node
  BY DEF CertInv, Chains, Bests
<1>2. /\ creator \in [Node -> {"off", "timer", "fetch", "save", "gone"}]
      /\ currentQuarter \in [Node -> 0 .. 4]
  BY DEF CertInv, Shape
<1>3. PICK c, r, what :
        /\ chain' = [chain EXCEPT ![n] = c]
        /\ bestRecord' = [bestRecord EXCEPT ![n] = r]
        /\ creator' = [creator EXCEPT ![n] = what]
        /\ GoodChain(c)
        /\ r # NoRecord => GoodRecord(r)
        /\ GoodRecord(r) \/ r = bestRecord[n]
        /\ what \in {"fetch", "save"}
  <2>1. CASE record = NoRecord
    BY <2>1 DEF StartCreator
  <2>2. CASE record # NoRecord /\ Last(history).counter < record.counter
    <3>1. GoodRecord(record) /\ record.counter = Len(history)
      BY <2>2
    <3>2. GoodChain(Digested(history, record)) /\ GoodRecord(Patched(history, record))
      BY <3>1, DigestedGood, PatchedGood
    <3> QED
      BY <2>2, <3>2 DEF StartCreator
  <2>3. CASE record # NoRecord /\ ~(Last(history).counter < record.counter)
    BY <2>3 DEF StartCreator
  <2> QED
    BY <2>1, <2>2, <2>3
<1>4. Chains'
  BY <1>1, <1>3 DEF CertInv, Chains
<1>5. Bests' /\ BestIsMax'
  <2>1. \A q \in Node : bestRecord'[q] = IF q = n THEN r ELSE bestRecord[q]
    BY <1>1, <1>3
  <2>2. DOMAIN bestRecord' = Node
    BY <1>1, <1>3
  <2>3. Bests'
    BY <1>3, <2>1, <2>2 DEF CertInv, Bests
  <2> QED
    BY <2>3 DEF CertInv, BestIsMax, BestScore
<1>6. BestNext'
  <2>1. creator'[n] # "timer"
    BY <1>2, <1>3
  <2>2. \A q \in Node \ {n} :
          creator'[q] = creator[q] /\ bestRecord'[q] = bestRecord[q] /\ chain'[q] = chain[q]
    BY <1>1, <1>2, <1>3
  <2> QED
    BY <2>1, <2>2 DEF CertInv, BestNext
<1>7. currentQuarter' \in [Node -> 0 .. 4]
  BY <1>2 DEF StartCreator
<1> QED
  BY <1>2, <1>3, <1>4, <1>5, <1>6, <1>7

LEMMA CycleCreatorKeeps == ASSUME CertInv, NEW n \in Node, CycleCreator(n) PROVE CertInv'
<1>1. /\ StartCreator(n, chain[n], bestRecord[n])
      /\ UNCHANGED <<bestMarker, bestCycleCert, bestCertScore>>
  BY DEF CycleCreator
<1>2. /\ GoodChain(chain[n])
      /\ bestRecord[n] # NoRecord => GoodRecord(bestRecord[n])
      /\ bestRecord[n] # NoRecord => bestRecord[n].counter = Len(chain[n])
  BY DEF CertInv, Chains, Bests, BestNext, CycleCreator, Due
<1>3. /\ Chains' /\ Bests' /\ BestIsMax' /\ BestNext'
      /\ creator' \in [Node -> {"off", "timer", "fetch", "save", "gone"}]
      /\ currentQuarter' \in [Node -> 0 .. 4]
  BY <1>1, <1>2, StartCreatorGood
<1>4. timers' \in [Node -> [base : Nat, pending : SUBSET (1 .. 5)]]
  BY DEF CycleCreator, Fired, CertInv, Shape
<1>5. Shape'
  BY <1>3, <1>4 DEF CycleCreator, CertInv, Shape
<1> QED
  BY <1>3, <1>5, KeepMarkers, KeepMessages, KeepCompares DEF CycleCreator, CertInv

LEMMA StartCyclesKeeps ==
  ASSUME CertInv, NEW n \in Node, NEW p \in Node, StartCycles(n, p) PROVE CertInv'
<1>1. /\ StartCreator(n, chain[p], Newest(p))
      /\ UNCHANGED <<bestMarker, bestCycleCert, bestCertScore>>
  BY DEF StartCycles
<1>2. GoodChain(chain[p])
  BY DEF CertInv, Chains
<1>3. /\ GoodRecord(Newest(p)) /\ Newest(p).counter \in Nat
      /\ ~(Last(chain[p]).counter < Newest(p).counter)
  BY <1>2, NewestGood DEF Newest, GoodRecord
<1>4. /\ Chains' /\ Bests' /\ BestIsMax' /\ BestNext'
      /\ creator' \in [Node -> {"off", "timer", "fetch", "save", "gone"}]
      /\ currentQuarter' \in [Node -> 0 .. 4]
  BY <1>1, <1>2, <1>3, StartCreatorGood
<1>5. Shape'
  BY <1>4 DEF StartCycles, CertInv, Shape
<1> QED
  BY <1>4, <1>5, KeepMarkers, KeepMessages, KeepCompares DEF StartCycles, CertInv

LEMMA FetchFailedGood ==
  ASSUME CertInv, NEW n \in Node, FetchFailed(n)
  PROVE  /\ fetchFails' \in [Node -> Nat]
         /\ creator' \in [Node -> {"off", "timer", "fetch", "save", "gone"}]
         /\ \A q \in Node : creator'[q] = "timer" => creator[q] = "timer"
BY DEF FetchFailed, CertInv, Shape

LEMMA FetchLatestRecordKeeps ==
  ASSUME CertInv, NEW n \in Node, NEW p \in Node, FetchLatestRecord(n, p) PROVE CertInv'
<1>1. /\ creator \in [Node -> {"off", "timer", "fetch", "save", "gone"}]
      /\ fetchFails \in [Node -> Nat] /\ DOMAIN chain = Node
  BY DEF CertInv, Shape, Chains
<1>2. UNCHANGED bestVars
  BY DEF FetchLatestRecord
<1>3. /\ Chains' /\ BestNext'
      /\ creator' \in [Node -> {"off", "timer", "fetch", "save", "gone"}]
      /\ fetchFails' \in [Node -> Nat]
  <2>1. CASE Last(Synced(n, p)).counter > Newest(n).counter
    <3>1. /\ chain' = [chain EXCEPT ![n] = Synced(n, p)]
          /\ creator' = [creator EXCEPT ![n] = "save"]
          /\ fetchFails' = [fetchFails EXCEPT ![n] = 0]
      BY <2>1 DEF FetchLatestRecord
    <3>2. GoodChain(Synced(n, p))
      BY SyncedGood DEF CertInv
    <3>3. Chains'
      BY <1>1, <3>1, <3>2 DEF CertInv, Chains
    <3>4. BestNext'
      BY <1>1, <1>2, <3>1 DEF CertInv, BestNext, bestVars
    <3> QED
      BY <1>1, <3>1, <3>3, <3>4
  <2>2. CASE ~(Last(Synced(n, p)).counter > Newest(n).counter)
    <3>1. FetchFailed(n)
      BY <2>2 DEF FetchLatestRecord
    <3>2. UNCHANGED chain
      BY <3>1 DEF FetchFailed
    <3>3. BestNext'
      BY <1>2, <3>1, <3>2, FetchFailedGood DEF CertInv, BestNext, bestVars
    <3> QED
      BY <3>1, <3>2, <3>3, FetchFailedGood, KeepChains
  <2> QED
    BY <2>1, <2>2
<1>4. Shape'
  BY <1>3 DEF FetchLatestRecord, CertInv, Shape
<1> QED
  BY <1>2, <1>3, <1>4, KeepMarkers, KeepBests, KeepMessages, KeepCompares
     DEF FetchLatestRecord, CertInv

LEMMA FetchErrorKeeps == ASSUME CertInv, NEW n \in Node, FetchError(n) PROVE CertInv'
<1>1. FetchFailed(n) /\ UNCHANGED bestVars
  BY DEF FetchError
<1>2. UNCHANGED chain
  BY <1>1 DEF FetchFailed
<1>3. Shape'
  BY <1>1, FetchFailedGood DEF FetchError, CertInv, Shape
<1>4. BestNext'
  BY <1>1, <1>2, FetchFailedGood DEF CertInv, BestNext, bestVars
<1> QED
  BY <1>1, <1>2, <1>3, <1>4, KeepChains, KeepMarkers, KeepBests, KeepMessages, KeepCompares
     DEF FetchError, CertInv

LEMMA StoredCycleKeeps == ASSUME CertInv, NEW n \in Node, StoredCycle(n) PROVE CertInv'
<1>1. /\ creator \in [Node -> {"off", "timer", "fetch", "save", "gone"}]
      /\ DOMAIN bestRecord = Node /\ DOMAIN bestMarker = Node
      /\ DOMAIN bestCycleCert = Node /\ DOMAIN bestCertScore = Node
  BY DEF CertInv, Shape, Bests
<1>2. /\ bestRecord' = [bestRecord EXCEPT ![n] = NoRecord]
      /\ bestMarker' = [bestMarker EXCEPT ![n] = NoMarker]
      /\ bestCycleCert' = [bestCycleCert EXCEPT ![n] = <<>>]
      /\ bestCertScore' = [bestCertScore EXCEPT ![n] = <<>>]
      /\ creator' = [creator EXCEPT ![n] = "timer"]
      /\ UNCHANGED chain
  BY DEF StoredCycle
<1>3. Shape'
  <2> DEFINE base == 4 * Newest(n).counter
  <2>1. base \in Nat
    <3>1. GoodRecord(Newest(n))
      BY NewestGood DEF CertInv, Chains, Newest
    <3>2. Newest(n).counter \in Nat
      BY <3>1 DEF GoodRecord
    <3> QED
      BY <3>2
  <2> HIDE DEF base
  <2>2. timers' = [timers EXCEPT ![n] = [base |-> base, pending |-> Scheduled(base)]]
    BY DEF StoredCycle, base
  <2>3. Scheduled(base) \subseteq 1 .. 5
    BY DEF Scheduled
  <2>4. timers' \in [Node -> [base : Nat, pending : SUBSET (1 .. 5)]]
    BY <2>1, <2>2, <2>3 DEF CertInv, Shape
  <2>5. clock \in Nat
    BY DEF CertInv, Shape
  <2>6. (clock \div 4) + 1 \in Nat /\ (clock % 4) + 1 \in 0 .. 4
    BY <2>5
  <2>7. /\ currentCycle' \in [Node -> Nat]
        /\ currentQuarter' \in [Node -> 0 .. 4]
    BY <2>6 DEF StoredCycle, CertInv, Shape
  <2>8. madeCycle' \in [Node -> BOOLEAN]
    BY DEF StoredCycle, CertInv, Shape
  <2> QED
    BY <1>1, <1>2, <2>4, <2>7, <2>8 DEF StoredCycle, CertInv, Shape
<1>4. DOMAIN <<>> = {}
  OBVIOUS
<1>5. \A q \in Node \ {n} :
        /\ bestRecord'[q] = bestRecord[q] /\ bestMarker'[q] = bestMarker[q]
        /\ bestCycleCert'[q] = bestCycleCert[q] /\ bestCertScore'[q] = bestCertScore[q]
        /\ creator'[q] = creator[q]
  BY <1>1, <1>2
<1>6. /\ bestRecord'[n] = NoRecord /\ bestMarker'[n] = NoMarker
      /\ bestCycleCert'[n] = <<>> /\ bestCertScore'[n] = <<>>
  BY <1>1, <1>2
<1>7. /\ DOMAIN bestRecord' = Node /\ DOMAIN bestMarker' = Node
      /\ DOMAIN bestCycleCert' = Node /\ DOMAIN bestCertScore' = Node
  BY <1>1, <1>2
<1>8. Bests'
  <2>1. IsCertTable(<<>>)
    BY <1>4 DEF IsCertTable
  <2> QED
    BY <1>5, <1>6, <1>7, <2>1 DEF CertInv, Bests
<1>9. BestIsMax'
  BY <1>4, <1>5, <1>6 DEF CertInv, BestIsMax, BestScore
<1>10. BestNext'
  BY <1>2, <1>5, <1>6 DEF CertInv, BestNext
<1> QED
  BY <1>2, <1>3, <1>8, <1>9, <1>10, KeepChains, KeepMarkers, KeepMessages, KeepCompares
     DEF StoredCycle, CertInv

LEMMA TickKeeps == ASSUME CertInv, Tick PROVE CertInv'
<1>1. Shape'
  BY DEF Tick, creatorVars, CertInv, Shape
<1>2. gossip' \subseteq gossip
  BY DEF Tick
<1> QED
  BY <1>1, <1>2, KeepChains, KeepMarkers, KeepBests, KeepNext, KeepMessages, KeepCompares
     DEF Tick, CertInv, bestVars, creatorVars

LEMMA StutterKeeps == ASSUME CertInv, UNCHANGED vars PROVE CertInv'
BY KeepShape, KeepChains, KeepMarkers, KeepBests, KeepNext, KeepMessages, KeepCompares
   DEF vars, CertInv, bestVars, creatorVars
-----------------------------------------------------------------------------
LEMMA NextKeeps == CertInv /\ [Next]_vars => CertInv'
<1> SUFFICES ASSUME CertInv, [Next]_vars PROVE CertInv'
  OBVIOUS
<1>1. ASSUME NEW n \in Node, CreatorStep(n) PROVE CertInv'
  BY <1>1, RunQ1Keeps, RunQ2Keeps, RunQ3Keeps, RunQ4Keeps, CycleCreatorKeeps, StoredCycleKeeps,
     FetchLatestRecordKeeps, FetchErrorKeeps DEF CreatorStep
<1>2. ASSUME NEW n \in Node, CompareStep(n) PROVE CertInv'
  BY <1>2, CompareAskKeeps, CompareServeKeeps, CompareReplyKeeps, CompareFailKeeps,
     CompareRetryKeeps DEF CompareStep
<1>3. ASSUME NEW n \in Node, NEW p \in Node, StartCycles(n, p) PROVE CertInv'
  BY <1>3, StartCyclesKeeps
<1>4. ASSUME NEW g \in gossip, ReceiveGossip(g) PROVE CertInv'
  BY <1>4, ReceiveGossipKeeps
<1>5. CASE Tick
  BY <1>5, TickKeeps
<1>6. CASE EndOfRun
  BY <1>6, StutterKeeps DEF EndOfRun
<1>7. CASE UNCHANGED vars
  BY <1>7, StutterKeeps
<1> QED
  BY <1>1, <1>2, <1>3, <1>4, <1>5, <1>6, <1>7 DEF Next

(* The inductive invariant holds of every run: Init establishes it and no  *)
(* handler, timer or message of cycle creation breaks it.                  *)
THEOREM CertInvariant == Spec => []CertInv
BY InitGood, NextKeeps, PTL DEF Spec

(* The state keeps its shape, and the certificates kept for a marker are   *)
(* few, sorted by score and by different owners, whatever improveBestCert  *)
(* receives and in whatever order.                                         *)
THEOREM TypeCorrect == Spec => []TypeOK
<1>1. CertInv => TypeOK
  BY DEF CertInv, Shape, Bests, TypeOK
<1> QED
  BY <1>1, CertInvariant, PTL

(* The record cycleCreator will digest is the one of the marker with the   *)
(* highest total among those improveBestCert has scored.                   *)
THEOREM BestStaysBest == Spec => []BestIsMax
<1>1. CertInv => BestIsMax
  BY DEF CertInv
<1> QED
  BY <1>1, CertInvariant, PTL

(* Neither digesting a best record nor syncing after a failure, a loss or  *)
(* a delay leaves a gap in the chain or repeats a cycle.                   *)
THEOREM NoGaps == Spec => []ChainContiguous
<1>1. CertInv => ChainContiguous
  <2> SUFFICES ASSUME CertInv, NEW n \in Node, NEW i \in DOMAIN chain[n]
               PROVE  chain[n][i].counter = i - 1
    BY DEF ChainContiguous
  <2>1. GoodChain(chain[n])
    BY DEF CertInv, Chains
  <2> QED
    BY <2>1, ChainLast DEF GoodChain
<1> QED
  BY <1>1, CertInvariant, PTL

-----------------------------------------------------------------------------
(* No node votes for two records of a cycle, whatever is lost or late: the *)
(* vote of a node is made once per scheduled cycle, and a new cycle is     *)
(* only scheduled on a longer chain.                                       *)

(* Where the certificate of owner o for marker m may be found.             *)
InMessage(msg, o, m) == msg.marker = m /\ \E i \in DOMAIN msg.owners : msg.owners[i] = o
InTable(table, o, m) == m \in DOMAIN table /\ o \in Owners(table[m])
InCompare(c, o, m) == c.state \in {"sent", "replied"} /\ InMessage(c.msg, o, m)

Voted(o, m) ==
  \/ \E g \in gossip : InMessage(g.msg, o, m)
  \/ \E n \in Node : InTable(bestCycleCert[n], o, m)
  \/ \E n \in Node : InCompare(compare[n], o, m)

(* runQ3 is over for the cycle after the newest record.                    *)
Q3Over(n) == creator[n] \in {"fetch", "gone"} \/ (creator[n] = "timer" /\ 3 \notin timers[n].pending)

OffListens == \A n \in Node : creator[n] = "off" => n \notin Active

(* The votes of a node are for records up to the next one, and for the     *)
(* next one only after runQ3.                                              *)
VotesUpToNext ==
  \A o, m : Voted(o, m) =>
    /\ o \in Active
    /\ m = Marker(m[1])
    /\ m[1].counter \in Nat
    /\ m[1].counter <= Len(chain[o])
    /\ m[1].counter = Len(chain[o]) => Q3Over(o)

VotesOnce ==
  \A o, m1, m2 : Voted(o, m1) /\ Voted(o, m2) /\ m1[1].counter = m2[1].counter => m1 = m2

VoteInv == OffListens /\ VotesUpToNext /\ VotesOnce
-----------------------------------------------------------------------------
(* An action that makes no vote keeps the invariant if chains only grow    *)
(* and a node that has voted cannot get back before runQ3.                 *)
GoesOn ==
  \A n \in Active : /\ Len(chain'[n]) >= Len(chain[n])
                    /\ Len(chain'[n]) = Len(chain[n]) /\ Q3Over(n) => Q3Over(n)'

NoNewVotes == \A o, m : Voted(o, m)' => Voted(o, m)

LEMMA ChainLength ==
  ASSUME CertInv, NEW n \in Node
  PROVE  Len(chain[n]) \in Nat \ {0} /\ Newest(n).counter = Len(chain[n]) - 1 /\ GoodRecord(Newest(n))
BY NewestGood DEF CertInv, Chains, Newest

LEMMA VotesKept ==
  ASSUME CertInv, CertInv', VoteInv, OffListens', GoesOn, NoNewVotes
  PROVE  VoteInv'
<1>1. VotesUpToNext'
  <2> SUFFICES ASSUME NEW o, NEW m, Voted(o, m)'
               PROVE  /\ o \in Active
                      /\ m = Marker(m[1])
                      /\ m[1].counter \in Nat
                      /\ m[1].counter <= Len(chain'[o])
                      /\ m[1].counter = Len(chain'[o]) => Q3Over(o)'
    BY DEF VotesUpToNext
  <2>1. /\ o \in Active /\ m = Marker(m[1]) /\ m[1].counter \in Nat
        /\ m[1].counter <= Len(chain[o])
        /\ m[1].counter = Len(chain[o]) => Q3Over(o)
    BY DEF NoNewVotes, VoteInv, VotesUpToNext
  <2>2. Len(chain[o]) \in Nat /\ Len(chain'[o]) \in Nat
    <3>1. o \in Node
      BY <2>1, CertAssumption
    <3>2. GoodChain(chain[o]) /\ GoodChain(chain'[o])
      BY <3>1 DEF CertInv, Chains
    <3> QED
      BY <3>2, NewestGood
  <2>3. /\ Len(chain'[o]) >= Len(chain[o])
        /\ Len(chain'[o]) = Len(chain[o]) /\ Q3Over(o) => Q3Over(o)'
    BY <2>1 DEF GoesOn
  <2> HIDE DEF Q3Over
  <2> QED
    BY <2>1, <2>2, <2>3
<1>2. VotesOnce'
  BY DEF NoNewVotes, VoteInv, VotesOnce
<1> QED
  BY <1>1, <1>2 DEF VoteInv
-----------------------------------------------------------------------------
(* Where certificates go: a message carries those of a table, a table those *)
(* of messages.                                                            *)
LEMMA MessageVotes ==
  ASSUME NEW k, NEW certs, NEW r, NEW o, NEW m, InMessage(Message(k, certs, r), o, m)
  PROVE  m = k /\ o \in Owners(certs)
BY DEF InMessage, Message, OwnersOf, Owners

LEMMA MyBestVotes ==
  ASSUME NEW n \in Node, NEW o, NEW m, InMessage(MyBest(n), o, m)
  PROVE  InTable(bestCycleCert[n], o, m)
<1>1. m = bestMarker[n] /\ o \in Owners(CertsFor(n, m))
  BY MessageVotes DEF MyBest
<1>2. DOMAIN <<>> = {}
  OBVIOUS
<1> QED
  BY <1>1, <1>2 DEF CertsFor, InTable, Owners

LEMMA MergedVotes ==
  ASSUME CertInv, NEW n \in Node, NEW msg, GoodVote(msg),
         NEW o, o \in Owners(MergedCerts(n, msg))
  PROVE  InTable(bestCycleCert[n], o, msg.marker) \/ InMessage(msg, o, msg.marker)
<1>1. o \in Owners(CertsFor(n, msg.marker)) \/ \E i \in DOMAIN msg.owners : msg.owners[i] = o
  BY MergedGood
<1>2. DOMAIN <<>> = {}
  OBVIOUS
<1> QED
  BY <1>1, <1>2 DEF CertsFor, InTable, InMessage, Owners

LEMMA ImproveVotes ==
  ASSUME CertInv, NEW n \in Node, NEW msg, GoodVote(msg), ImproveBestCert(n, msg),
         NEW q \in Node, NEW o, NEW m, InTable(bestCycleCert'[q], o, m)
  PROVE  InTable(bestCycleCert[q], o, m) \/ InMessage(msg, o, m)
<1> DEFINE certs == MergedCerts(n, msg)
           table == Put(bestCycleCert[n], msg.marker, certs)
<1>1. DOMAIN bestCycleCert = Node
  BY DEF CertInv, Bests
<1>2. bestCycleCert' = [bestCycleCert EXCEPT ![n] = table]
  BY DEF ImproveBestCert
<1>3. CASE q # n
  BY <1>1, <1>2, <1>3
<1>4. CASE q = n
  <2>1. bestCycleCert'[q] = table
    BY <1>1, <1>2, <1>4
  <2>2. InTable(table, o, m)
    BY <2>1
  <2>3. CASE m = msg.marker
    <3>1. table[m] = certs
      BY <2>3 DEF Put
    <3>2. o \in Owners(certs)
      BY <2>2, <3>1 DEF InTable
    <3> QED
      BY <1>4, <2>3, <3>2, MergedVotes
  <2>4. CASE m # msg.marker
    <3>1. m \in DOMAIN bestCycleCert[n] /\ table[m] = bestCycleCert[n][m]
      BY <2>2, <2>4 DEF Put, InTable
    <3> QED
      BY <1>4, <2>2, <3>1 DEF InTable
  <2> QED
    BY <2>3, <2>4
<1> QED
  BY <1>3, <1>4

LEMMA BestGossipVotes ==
  ASSUME CertInv, NEW n \in Node, NEW msg, GoodVote(msg), NEW g \in BestGossip(n, msg),
         NEW o, NEW m, InMessage(g.msg, o, m)
  PROVE  InTable(bestCycleCert[n], o, m) \/ InMessage(msg, o, m)
<1>1. InMessage(Message(msg.marker, MergedCerts(n, msg), msg.record), o, m)
  BY DEF BestGossip
<1>2. m = msg.marker /\ o \in Owners(MergedCerts(n, msg))
  BY <1>1, MessageVotes
<1> QED
  BY <1>2, MergedVotes

(* A comparison that goes on without a request carries nothing.            *)
QuietCompare ==
  \A q \in Node : \A o, m : InCompare(compare'[q], o, m) => InCompare(compare[q], o, m)

LEMMA QuietChange ==
  ASSUME CertInv, NEW n \in Node, NEW c, c.state \notin {"sent", "replied"},
         compare' = [compare EXCEPT ![n] = c]
  PROVE  QuietCompare
BY DEF CertInv, Compares, QuietCompare, InCompare

LEMMA EndCompareVotes ==
  ASSUME CertInv, NEW n \in Node, NEW errors, EndCompare(n, errors) PROVE QuietCompare
<1> PICK c : c.state \in {"idle", "retry"} /\ compare' = [compare EXCEPT ![n] = c]
  <2>1. Idle.state = "idle" /\ \A cycle : [state |-> "retry", cycle |-> cycle].state = "retry"
    BY DEF Idle
  <2> QED
    BY <2>1 DEF EndCompare
<1> QED
  BY QuietChange

LEMMA NextNodeVotes ==
  ASSUME CertInv, NEW n \in Node, NEW matched, NEW errors, NextNode(n, matched, errors)
  PROVE  QuietCompare
<1>1. CASE compare[n].todo = {} \/ matched >= Matches(n)
  BY <1>1, EndCompareVotes DEF NextNode
<1>2. CASE ~(compare[n].todo = {} \/ matched >= Matches(n))
  <2> DEFINE c == [state |-> "ask", cycle |-> compare[n].cycle, todo |-> compare[n].todo,
                   matched |-> matched, errors |-> errors]
  <2>1. compare' = [compare EXCEPT ![n] = c] /\ c.state = "ask"
    BY <1>2 DEF NextNode
  <2> HIDE DEF c
  <2> QED
    BY <2>1, QuietChange
<1> QED
  BY <1>1, <1>2

LEMMA PassVotes ==
  ASSUME CertInv, NEW n \in Node, NEW cycle, compare' = [compare EXCEPT ![n] = Pass(n, cycle)]
  PROVE  QuietCompare
<1>1. Pass(n, cycle).state = "ask"
  BY DEF Pass
<1> QED
  BY <1>1, QuietChange
-----------------------------------------------------------------------------
(* How the creator goes on.                                                *)
LEMMA SameCreator ==
  ASSUME CertInv, VoteInv, UNCHANGED <<creator, chain, timers>>
  PROVE  OffListens' /\ GoesOn
<1>1. \A n \in Active : Len(chain[n]) \in Nat
  BY ChainLength, CertAssumption
<1> QED
  BY <1>1 DEF VoteInv, OffListens, GoesOn, Q3Over

LEMMA SameChain ==
  ASSUME CertInv, VoteInv, NEW n \in Node, NEW k, UNCHANGED <<creator, chain>>,
         timers' = [timers EXCEPT ![n].pending = @ \ {k}]
  PROVE  OffListens' /\ GoesOn
<1>1. \A q \in Active : Len(chain[q]) \in Nat
  BY ChainLength, CertAssumption
<1>2. \A q \in Node : timers'[q].pending \subseteq timers[q].pending
  <2>1. timers \in [Node -> [base : Nat, pending : SUBSET (1 .. 5)]]
    BY DEF CertInv, Shape
  <2>2. \A q \in Node \ {n} : timers'[q] = timers[q]
    BY <2>1
  <2>3. timers'[n] = [timers[n] EXCEPT !.pending = @ \ {k}]
    BY <2>1
  <2>4. timers[n] \in [base : Nat, pending : SUBSET (1 .. 5)]
    BY <2>1
  <2>5. timers'[n].pending = timers[n].pending \ {k}
    BY <2>3, <2>4
  <2> QED
    BY <2>2, <2>5
<1> QED
  BY <1>1, <1>2, CertAssumption DEF VoteInv, OffListens, GoesOn, Q3Over

(* One node's creator goes to another state, its chain grows or it may not *)
(* reach runQ3 for the same cycle again.                                   *)
LEMMA NodeGoesOn ==
  ASSUME CertInv, CertInv', VoteInv, NEW n \in Node,
         \A q \in Node \ {n} :
           chain'[q] = chain[q] /\ creator'[q] = creator[q] /\ timers'[q] = timers[q],
         creator'[n] # "off",
         n \in Active =>
           \/ Len(chain'[n]) > Len(chain[n])
           \/ chain'[n] = chain[n] /\ (creator'[n] \in {"fetch", "gone"} \/ ~Q3Over(n))
  PROVE  OffListens' /\ GoesOn
<1>1. \A q \in Node : Len(chain[q]) \in Nat /\ Len(chain'[q]) \in Nat
  <2>1. \A q \in Node : GoodChain(chain[q]) /\ GoodChain(chain'[q])
    BY DEF CertInv, Chains
  <2> QED
    BY <2>1, NewestGood
<1>2. OffListens'
  BY DEF VoteInv, OffListens
<1>3. ASSUME NEW q \in Active
      PROVE  /\ Len(chain'[q]) >= Len(chain[q])
             /\ Len(chain'[q]) = Len(chain[q]) /\ Q3Over(q) => Q3Over(q)'
  <2>1. q \in Node
    BY CertAssumption
  <2>2. CASE q = n
    <3>1. creator'[n] \in {"fetch", "gone"} => Q3Over(q)'
      BY <2>2 DEF Q3Over
    <3> HIDE DEF Q3Over
    <3> QED
      BY <1>1, <2>1, <2>2, <3>1
  <2>3. CASE q # n
    <3>1. chain'[q] = chain[q] /\ (Q3Over(q) => Q3Over(q)')
      BY <2>1, <2>3 DEF Q3Over
    <3> QED
      BY <1>1, <2>1, <3>1
  <2> QED
    BY <2>2, <2>3
<1> QED
  BY <1>2, <1>3 DEF GoesOn

LEMMA SameVotes ==
  ASSUME UNCHANGED <<bestVars, gossip, compare>>
  PROVE  NoNewVotes
BY DEF NoNewVotes, Voted, bestVars

LEMMA QuietVotes ==
  ASSUME UNCHANGED <<bestCycleCert, gossip>>, QuietCompare
  PROVE  NoNewVotes
BY DEF NoNewVotes, Voted, QuietCompare
-----------------------------------------------------------------------------
(* One lemma per action.                                                   *)
LEMMA InitVotes == ASSUME Init PROVE VoteInv
<1>1. DOMAIN <<>> = {}
  OBVIOUS
<1>2. \A o, m : ~Voted(o, m)
  BY <1>1 DEF Init, Voted, InTable, InCompare, Idle
<1>3. OffListens
  BY DEF Init, OffListens
<1> QED
  BY <1>2, <1>3 DEF VoteInv, VotesUpToNext, VotesOnce

LEMMA TimerVotes ==
  ASSUME CertInv, CertInv', VoteInv, NEW n \in Node, RunQ1(n) \/ RunQ2(n) \/ RunQ4(n)
  PROVE  NoNewVotes /\ VoteInv'
<1>1. UNCHANGED <<creator, chain, bestCycleCert, gossip>>
  BY DEF RunQ1, RunQ2, RunQ4, bestVars
<1>2. QuietCompare
  <2>1. CASE UNCHANGED compare
    BY <2>1 DEF QuietCompare
  <2>2. CASE compare' = [compare EXCEPT ![n] = Pass(n, currentCycle[n])]
    BY <2>2, PassVotes
  <2> QED
    BY <2>1, <2>2 DEF RunQ1, RunQ2, RunQ4
<1>3. PICK k : timers' = [timers EXCEPT ![n].pending = @ \ {k}]
  BY DEF RunQ1, RunQ2, RunQ4, Fired
<1>4. OffListens' /\ GoesOn
  BY <1>1, <1>3, SameChain
<1> QED
  BY <1>1, <1>2, <1>4, QuietVotes, VotesKept

LEMMA ReceiveGossipVotes ==
  ASSUME CertInv, CertInv', VoteInv, NEW g \in gossip, ReceiveGossip(g) PROVE NoNewVotes /\ VoteInv'
<1> DEFINE n == g.to
<1>1. n \in Node /\ GoodMessage(g.msg)
  BY DEF CertInv, Messages
<1>2. UNCHANGED <<creator, chain, timers, compare>>
  BY DEF ReceiveGossip, creatorVars
<1>3. NoNewVotes
  <2>1. CASE Running(n) /\ ValidCerts(n, g.msg)
    <3>1. GoodVote(g.msg) /\ ImproveBestCert(n, g.msg)
          /\ gossip' \subseteq gossip \cup BestGossip(n, g.msg)
      BY <1>1, <2>1, ValidIsVote DEF ReceiveGossip
    <3>2. \A o, m : InMessage(g.msg, o, m) => Voted(o, m)
      BY DEF Voted
    <3>3. \A q \in Node : \A o, m : InTable(bestCycleCert'[q], o, m) => Voted(o, m)
      BY <1>1, <3>1, <3>2, ImproveVotes DEF Voted
    <3>4. \A h \in gossip' : \A o, m : InMessage(h.msg, o, m) => Voted(o, m)
      BY <1>1, <3>1, <3>2, BestGossipVotes DEF Voted
    <3>5. \A q \in Node : \A o, m : InCompare(compare'[q], o, m) => Voted(o, m)
      BY <1>2 DEF Voted
    <3> QED
      BY <3>3, <3>4, <3>5 DEF NoNewVotes, Voted
  <2>2. CASE ~(Running(n) /\ ValidCerts(n, g.msg))
    <3>1. gossip' \subseteq gossip /\ UNCHANGED bestCycleCert
      BY <2>2 DEF ReceiveGossip, bestVars
    <3> QED
      BY <1>2, <3>1 DEF NoNewVotes, Voted
  <2> QED
    BY <2>1, <2>2
<1> QED
  BY <1>2, <1>3, SameCreator, VotesKept

LEMMA CompareAskVotes ==
  ASSUME CertInv, CertInv', VoteInv, NEW n \in Node, NEW p \in Node, CompareAsk(n, p)
  PROVE  NoNewVotes /\ VoteInv'
<1> DEFINE c == compare[n]
<1>1. UNCHANGED <<creator, chain, timers, bestCycleCert, gossip>>
  BY DEF CompareAsk, creatorVars, bestVars
<1>2. DOMAIN compare = Node
  BY DEF CertInv, Compares
<1>3. NoNewVotes
  <2>1. CASE bestMarker[n] # NoMarker
    <3> DEFINE d == [state |-> "sent", cycle |-> c.cycle, todo |-> c.todo \ {p},
                     matched |-> c.matched, errors |-> c.errors,
                     peer |-> p, msg |-> MyBest(n)]
    <3>1. compare' = [compare EXCEPT ![n] = d] /\ d.msg = MyBest(n)
      BY <2>1 DEF CompareAsk
    <3> HIDE DEF d
    <3>2. \A o, m : InCompare(d, o, m) => InTable(bestCycleCert[n], o, m)
      BY <3>1, MyBestVotes DEF InCompare
    <3>3. \A q \in Node : compare'[q] = IF q = n THEN d ELSE compare[q]
      BY <1>2, <3>1
    <3> QED
      BY <1>1, <3>2, <3>3 DEF NoNewVotes, Voted
  <2>2. CASE bestMarker[n] = NoMarker /\ (QuarterChanged(n) \/ c.todo = {p})
    <3>1. EndCompare(n, c.errors)
      BY <2>2 DEF CompareAsk
    <3> QED
      BY <1>1, <3>1, EndCompareVotes, QuietVotes
  <2>3. CASE bestMarker[n] = NoMarker /\ ~(QuarterChanged(n) \/ c.todo = {p})
    <3> DEFINE d == [c EXCEPT !.todo = @ \ {p}]
    <3>1. c = [state |-> "ask", cycle |-> c.cycle, todo |-> c.todo,
               matched |-> c.matched, errors |-> c.errors]
      BY DEF CertInv, Compares, GoodCompare, CompareAsk
    <3>2. d.state = "ask"
      BY <3>1
    <3>3. compare' = [compare EXCEPT ![n] = d]
      BY <2>3 DEF CompareAsk
    <3> HIDE DEF d
    <3>4. QuietCompare
      BY <3>2, <3>3, QuietChange
    <3> QED
      BY <1>1, <3>4, QuietVotes
  <2> QED
    BY <2>1, <2>2, <2>3
<1> QED
  BY <1>1, <1>3, SameCreator, VotesKept

LEMMA CompareServeVotes ==
  ASSUME CertInv, CertInv', VoteInv, NEW n \in Node, CompareServe(n) PROVE NoNewVotes /\ VoteInv'
<1> DEFINE c == compare[n]
           p == c.peer
           certs == IF bestMarker[p] = NoMarker THEN <<>> ELSE bestCycleCert'[p][bestMarker'[p]]
           reply == Message(bestMarker'[p], certs, bestRecord'[p])
           d == [c EXCEPT !.state = "replied", !.msg = reply]
<1>1. /\ c = [state |-> c.state, cycle |-> c.cycle, todo |-> c.todo,
              matched |-> c.matched, errors |-> c.errors, peer |-> p, msg |-> c.msg]
      /\ p \in Node /\ GoodMessage(c.msg)
  BY SentGood DEF CompareServe
<1>2. UNCHANGED <<creator, chain, timers, gossip>> /\ c.state = "sent" /\ DOMAIN compare = Node
  BY DEF CompareServe, creatorVars, CertInv, Compares
<1>3. \A o, m : InMessage(c.msg, o, m) => Voted(o, m)
  BY <1>2 DEF Voted, InCompare
<1>4. \A q \in Node : \A o, m : InTable(bestCycleCert'[q], o, m) => Voted(o, m)
  <2>1. CASE bestMarker[p] # NoMarker /\ ValidCerts(p, c.msg)
    <3>1. GoodVote(c.msg) /\ ImproveBestCert(p, c.msg)
      BY <1>1, <2>1, ValidIsVote DEF CompareServe
    <3> QED
      BY <1>1, <1>3, <3>1, ImproveVotes DEF Voted
  <2>2. CASE ~(bestMarker[p] # NoMarker /\ ValidCerts(p, c.msg))
    <3>1. UNCHANGED bestCycleCert
      BY <2>2 DEF CompareServe, bestVars
    <3> QED
      BY <3>1 DEF Voted
  <2> QED
    BY <2>1, <2>2
<1>5. \A o, m : InMessage(reply, o, m) => Voted(o, m)
  <2> SUFFICES ASSUME NEW o, NEW m, InMessage(reply, o, m)
               PROVE  Voted(o, m)
    OBVIOUS
  <2>1. m = bestMarker'[p] /\ o \in Owners(certs)
    <3> HIDE DEF certs
    <3> QED
      BY MessageVotes
  <2>2. DOMAIN <<>> = {}
    OBVIOUS
  <2>3. bestMarker[p] # NoMarker
    BY <2>1, <2>2 DEF Owners
  <2>4. bestMarker'[p] \in DOMAIN bestCycleCert'[p]
    <3>1. bestMarker'[p] # NoMarker
      <4>1. CASE ValidCerts(p, c.msg)
        <5>1. GoodVote(c.msg) /\ ImproveBestCert(p, c.msg)
          BY <1>1, <2>3, <4>1, ValidIsVote DEF CompareServe
        <5> QED
          BY <1>1, <2>3, <5>1, ImproveKeeps
      <4>2. CASE ~ValidCerts(p, c.msg)
        BY <2>3, <4>2 DEF CompareServe, bestVars
      <4> QED
        BY <4>1, <4>2
    <3> QED
      BY <1>1, <3>1 DEF CertInv, Bests
  <2>5. InTable(bestCycleCert'[p], o, m)
    BY <2>1, <2>3, <2>4 DEF InTable
  <2> QED
    BY <1>1, <1>4, <2>5
<1> HIDE DEF reply
<1>6. d.msg = reply
  BY <1>1
<1>7. compare' = [compare EXCEPT ![n] = d]
  BY DEF CompareServe, reply
<1> HIDE DEF d
<1>8. \A q \in Node : \A o, m : InCompare(compare'[q], o, m) => Voted(o, m)
  <2>1. \A q \in Node : compare'[q] = IF q = n THEN d ELSE compare[q]
    BY <1>2, <1>7
  <2> QED
    BY <1>5, <1>6, <2>1 DEF Voted, InCompare
<1>9. NoNewVotes
  BY <1>2, <1>4, <1>8 DEF NoNewVotes, Voted
<1> QED
  BY <1>2, <1>9, SameCreator, VotesKept

LEMMA CompareReplyVotes ==
  ASSUME CertInv, CertInv', VoteInv, NEW n \in Node, CompareReply(n) PROVE NoNewVotes /\ VoteInv'
<1> DEFINE c == compare[n]
           empty == c.msg.owners = <<>>
           same  == c.msg.marker = bestMarker[n]
<1>1. GoodMessage(c.msg) /\ c.state = "replied"
  BY SentGood DEF CompareReply
<1>2. UNCHANGED <<creator, chain, timers, gossip>>
  BY DEF CompareReply, creatorVars
<1>3. \A o, m : InMessage(c.msg, o, m) => Voted(o, m)
  BY <1>1 DEF Voted, InCompare
<1>4. \A q \in Node : \A o, m : InTable(bestCycleCert'[q], o, m) => Voted(o, m)
  <2>1. CASE ~empty /\ ~QuarterChanged(n) /\ ~same /\ ValidCerts(n, c.msg)
    <3>1. GoodVote(c.msg) /\ ImproveBestCert(n, c.msg)
      BY <1>1, <2>1, ValidIsVote DEF CompareReply
    <3> QED
      BY <1>3, <3>1, ImproveVotes DEF Voted
  <2>2. CASE ~(~empty /\ ~QuarterChanged(n) /\ ~same /\ ValidCerts(n, c.msg))
    <3>1. UNCHANGED bestCycleCert
      BY <2>2 DEF CompareReply, bestVars
    <3> QED
      BY <3>1 DEF Voted
  <2> QED
    BY <2>1, <2>2
<1>5. QuietCompare
  <2>1. CASE empty
    <3> NextNode(n, c.matched, c.errors \cup {c.peer})
      BY <2>1 DEF CompareReply
    <3> QED
      BY NextNodeVotes
  <2>2. CASE ~empty /\ QuarterChanged(n)
    <3> EndCompare(n, c.errors)
      BY <2>2 DEF CompareReply
    <3> QED
      BY EndCompareVotes
  <2>3. CASE ~empty /\ ~QuarterChanged(n) /\ same
    <3> NextNode(n, c.matched + 1, c.errors)
      BY <2>3 DEF CompareReply
    <3> QED
      BY NextNodeVotes
  <2>4. CASE ~empty /\ ~QuarterChanged(n) /\ ~same /\ ValidCerts(n, c.msg) /\ Improves(n, c.msg)
    <3> compare' = [compare EXCEPT ![n] = Pass(n, c.cycle)]
      BY <2>4 DEF CompareReply
    <3> QED
      BY PassVotes
  <2>5. CASE ~empty /\ ~QuarterChanged(n) /\ ~same /\ ~(ValidCerts(n, c.msg) /\ Improves(n, c.msg))
    <3> NextNode(n, c.matched, c.errors)
      BY <2>5 DEF CompareReply
    <3> QED
      BY NextNodeVotes
  <2> QED
    BY <2>1, <2>2, <2>3, <2>4, <2>5
<1>6. NoNewVotes
  BY <1>2, <1>4, <1>5 DEF NoNewVotes, Voted, QuietCompare
<1> QED
  BY <1>2, <1>6, SameCreator, VotesKept

LEMMA CompareEndsVotes ==
  ASSUME CertInv, CertInv', VoteInv, NEW n \in Node, CompareFail(n) \/ CompareRetry(n)
  PROVE  NoNewVotes /\ VoteInv'
<1>1. UNCHANGED <<creator, chain, timers, bestCycleCert, gossip>>
  BY DEF CompareFail, CompareRetry, creatorVars, bestVars
<1>2. QuietCompare
  BY NextNodeVotes, PassVotes DEF CompareFail, CompareRetry
<1> QED
  BY <1>1, <1>2, SameCreator, QuietVotes, VotesKept

LEMMA CycleCreatorVotes ==
  ASSUME CertInv, CertInv', VoteInv, NEW n \in Node, CycleCreator(n) PROVE NoNewVotes /\ VoteInv'
<1>1. GoodChain(chain[n]) /\ Last(chain[n]).counter = Len(chain[n]) - 1 /\ Len(chain[n]) \in Nat \ {0}
  BY NewestGood DEF CertInv, Chains
<1>2. DOMAIN chain = Node /\ DOMAIN creator = Node /\ DOMAIN timers = Node
  BY DEF CertInv, Chains, Shape
<1>3. \A q \in Node \ {n} :
        chain'[q] = chain[q] /\ creator'[q] = creator[q] /\ timers'[q] = timers[q]
  BY <1>2 DEF CycleCreator, StartCreator, Fired
<1>4. \/ creator'[n] = "fetch" /\ chain'[n] = chain[n]
      \/ creator'[n] = "save" /\ Len(chain'[n]) = Len(chain[n]) + 1
  <2> DEFINE record == bestRecord[n]
  <2>1. StartCreator(n, chain[n], record)
    BY DEF CycleCreator
  <2>2. record # NoRecord => GoodRecord(record) /\ record.counter = Len(chain[n])
    BY DEF CertInv, Bests, BestNext, CycleCreator, Due
  <2>3. CASE record = NoRecord
    BY <1>2, <2>1, <2>3 DEF StartCreator
  <2>4. CASE record # NoRecord
    <3>1. Last(chain[n]).counter < record.counter
      BY <1>1, <2>2, <2>4
    <3>2. Len(Digested(chain[n], record)) = Len(chain[n]) + 1
      BY <1>1, <2>2, <2>4, DigestedGood
    <3> QED
      BY <1>2, <2>1, <2>4, <3>1, <3>2 DEF StartCreator
  <2> QED
    BY <2>3, <2>4
<1>5. creator'[n] # "off"
      /\ (Len(chain'[n]) > Len(chain[n]) \/ (chain'[n] = chain[n] /\ creator'[n] \in {"fetch", "gone"}))
  BY <1>1, <1>4
<1>6. OffListens' /\ GoesOn
  BY <1>3, <1>5, NodeGoesOn
<1>7. NoNewVotes
  BY DEF CycleCreator, NoNewVotes, Voted
<1> QED
  BY <1>6, <1>7, VotesKept

LEMMA StartCyclesVotes ==
  ASSUME CertInv, CertInv', VoteInv, NEW n \in Node, NEW p \in Node, StartCycles(n, p)
  PROVE  NoNewVotes /\ VoteInv'
<1>1. n \notin Active
  BY DEF StartCycles, VoteInv, OffListens
<1>2. DOMAIN chain = Node /\ DOMAIN creator = Node
  BY DEF CertInv, Chains, Shape
<1>3. creator'[n] # "off" /\ \A q \in Node \ {n} :
        chain'[q] = chain[q] /\ creator'[q] = creator[q] /\ timers'[q] = timers[q]
  BY <1>2 DEF StartCycles, StartCreator
<1>4. OffListens' /\ GoesOn
  BY <1>1, <1>3, NodeGoesOn
<1>5. NoNewVotes
  BY DEF StartCycles, NoNewVotes, Voted
<1> QED
  BY <1>4, <1>5, VotesKept

LEMMA FetchVotes ==
  ASSUME CertInv, CertInv', VoteInv, NEW n \in Node,
         FetchError(n) \/ \E p \in Node : FetchLatestRecord(n, p)
  PROVE  NoNewVotes /\ VoteInv'
<1>1. UNCHANGED <<timers, bestVars, compare, gossip>> /\ creator[n] = "fetch"
  BY DEF FetchError, FetchLatestRecord
<1>2. DOMAIN chain = Node /\ DOMAIN creator = Node
  BY DEF CertInv, Chains, Shape
<1>3. /\ \A q \in Node \ {n} : chain'[q] = chain[q] /\ creator'[q] = creator[q]
      /\ \/ chain'[n] = chain[n] /\ creator'[n] \in {"fetch", "gone"}
         \/ Len(chain'[n]) > Len(chain[n]) /\ creator'[n] = "save"
  <2>1. CASE FetchFailed(n)
    BY <1>1, <1>2, <2>1 DEF FetchFailed
  <2>2. CASE ~FetchFailed(n)
    <3> PICK p \in Node : FetchLatestRecord(n, p)
      BY <2>2 DEF FetchError
    <3>1. /\ Last(Synced(n, p)).counter > Newest(n).counter
          /\ chain' = [chain EXCEPT ![n] = Synced(n, p)]
          /\ creator' = [creator EXCEPT ![n] = "save"]
      BY <2>2 DEF FetchLatestRecord
    <3>2. GoodChain(Synced(n, p))
      BY SyncedGood DEF CertInv
    <3>3. Last(Synced(n, p)).counter = Len(Synced(n, p)) - 1 /\ Len(Synced(n, p)) \in Nat \ {0}
      BY <3>2, NewestGood
    <3>4. Len(Synced(n, p)) > Len(chain[n])
      BY <3>1, <3>3, ChainLength
    <3> QED
      BY <1>2, <3>1, <3>4
  <2> QED
    BY <2>1, <2>2
<1>4. creator'[n] # "off"
      /\ (Len(chain'[n]) > Len(chain[n]) \/ (chain'[n] = chain[n] /\ creator'[n] \in {"fetch", "gone"}))
  BY <1>3
<1>5. OffListens' /\ GoesOn
  BY <1>1, <1>3, <1>4, NodeGoesOn
<1> QED
  BY <1>1, <1>5, SameVotes, VotesKept

LEMMA StoredCycleVotes ==
  ASSUME CertInv, CertInv', VoteInv, NEW n \in Node, StoredCycle(n) PROVE NoNewVotes /\ VoteInv'
<1>1. /\ creator[n] = "save" /\ UNCHANGED <<chain, compare, gossip>>
      /\ creator' = [creator EXCEPT ![n] = "timer"]
      /\ bestCycleCert' = [bestCycleCert EXCEPT ![n] = <<>>]
  BY DEF StoredCycle
<1>2. DOMAIN creator = Node /\ DOMAIN bestCycleCert = Node /\ DOMAIN timers = Node
  BY DEF CertInv, Shape, Bests
<1>3. ~Q3Over(n) /\ creator'[n] # "off"
  BY <1>1, <1>2 DEF Q3Over
<1>4. \A q \in Node \ {n} : creator'[q] = creator[q] /\ timers'[q] = timers[q]
  BY <1>2 DEF StoredCycle
<1>5. OffListens' /\ GoesOn
  BY <1>1, <1>3, <1>4, NodeGoesOn
<1>6. NoNewVotes
  <2>1. DOMAIN <<>> = {}
    OBVIOUS
  <2>2. \A q \in Node : \A o, m : InTable(bestCycleCert'[q], o, m) => InTable(bestCycleCert[q], o, m)
    BY <1>1, <1>2, <2>1 DEF InTable
  <2> QED
    BY <1>1, <2>2 DEF NoNewVotes, Voted
<1> QED
  BY <1>5, <1>6, VotesKept

LEMMA TickVotes == ASSUME CertInv, CertInv', VoteInv, Tick PROVE NoNewVotes /\ VoteInv'
<1>1. UNCHANGED <<creator, chain, timers, bestCycleCert, compare>> /\ gossip' \subseteq gossip
  BY DEF Tick, creatorVars, bestVars
<1>2. NoNewVotes
  BY <1>1 DEF NoNewVotes, Voted
<1> QED
  BY <1>1, <1>2, SameCreator, VotesKept

LEMMA StutterVotes == ASSUME CertInv, CertInv', VoteInv, UNCHANGED vars PROVE NoNewVotes /\ VoteInv'
<1>1. UNCHANGED <<creator, chain, timers, bestVars, compare, gossip>>
  BY DEF vars, creatorVars
<1> QED
  BY <1>1, SameCreator, SameVotes, VotesKept

(* What an active node votes for.                                          *)
OwnVote(n, txs) ==
  [marker |-> Marker(MakeRecord(Newest(n), txs)), owners |-> <<n>>,
   record |-> MakeRecord(Newest(n), txs)]

LEMMA RunQ3Makes ==
  ASSUME CertInv, NEW n \in Node, RunQ3(n), n \in Active
  PROVE  \E mine :
           /\ \E txs \in TxChoices : mine = OwnVote(n, txs)
           /\ GoodVote(mine) /\ mine.record.counter = Len(chain[n])
           /\ ImproveBestCert(n, mine)
           /\ gossip' = gossip \cup (IF Improves(n, mine) THEN BestGossip(n, mine) ELSE {})
           /\ \A o, m : Voted(o, m)' => Voted(o, m) \/ (o = n /\ m = mine.marker)
<1> PICK txs \in TxChoices :
      LET record == MakeRecord(Newest(n), txs)
          mine   == [marker |-> Marker(record), owners |-> <<n>>, record |-> record]
      IN /\ ImproveBestCert(n, mine)
         /\ gossip' = gossip \cup (IF Improves(n, mine) THEN BestGossip(n, mine) ELSE {})
  BY DEF RunQ3
<1> DEFINE record == MakeRecord(Newest(n), txs)
           mine   == OwnVote(n, txs)
<1>1. GoodRecord(record) /\ record.counter = Len(chain[n])
  <2>1. GoodRecord(Newest(n)) /\ Newest(n).counter = Len(chain[n]) - 1 /\ Len(chain[n]) \in Nat \ {0}
    BY ChainLength
  <2> HIDE DEF record
  <2>2. GoodRecord(record) /\ record.counter = Newest(n).counter + 1
    BY <2>1, MadeGood DEF record
  <2> QED
    BY <2>1, <2>2
<1> HIDE DEF record
<1>2. mine.owners = <<n>> /\ mine.record = record /\ mine.marker = Marker(record)
  BY DEF OwnVote, record
<1>3. /\ ImproveBestCert(n, mine)
      /\ gossip' = gossip \cup (IF Improves(n, mine) THEN BestGossip(n, mine) ELSE {})
  BY DEF OwnVote
<1> HIDE DEF mine
<1>4. GoodVote(mine)
  BY <1>1, <1>2 DEF GoodVote
<1>5. \A o, m : InMessage(mine, o, m) => o = n /\ m = mine.marker
  BY <1>2 DEF InMessage
<1>6. ASSUME NEW o, NEW m, Voted(o, m)' PROVE Voted(o, m) \/ (o = n /\ m = mine.marker)
  <2>1. \A q \in Node : InTable(bestCycleCert'[q], o, m)
          => InTable(bestCycleCert[q], o, m) \/ InMessage(mine, o, m)
    BY <1>3, <1>4, ImproveVotes
  <2>2. \A g \in gossip' : InMessage(g.msg, o, m)
          => g \in gossip \/ InTable(bestCycleCert[n], o, m) \/ InMessage(mine, o, m)
    BY <1>3, <1>4, BestGossipVotes
  <2>3. UNCHANGED compare
    BY DEF RunQ3
  <2> QED
    BY <1>5, <1>6, <2>1, <2>2, <2>3 DEF Voted
<1>7. mine = OwnVote(n, txs)
  BY DEF mine
<1> QED
  BY <1>1, <1>2, <1>3, <1>4, <1>6, <1>7

(* The one action that makes a vote: it is due, so the node has none yet   *)
(* for the next record, and will not be due again before that is digested. *)
LEMMA RunQ3Votes ==
  ASSUME CertInv, CertInv', VoteInv, NEW n \in Node, RunQ3(n) PROVE VoteInv'
<1>1. UNCHANGED <<creator, chain, compare>>
      /\ timers' = [timers EXCEPT ![n].pending = @ \ {3}]
  BY DEF RunQ3, Fired
<1>2. OffListens' /\ GoesOn
  BY <1>1, SameChain
<1>3. CASE n \notin Active
  BY <1>1, <1>2, <1>3, SameVotes, VotesKept DEF RunQ3
<1>4. CASE n \in Active
  <2> PICK mine :
        /\ \E txs \in TxChoices : mine = OwnVote(n, txs)
        /\ GoodVote(mine) /\ mine.record.counter = Len(chain[n])
        /\ \A o, m : Voted(o, m)' => Voted(o, m) \/ (o = n /\ m = mine.marker)
    BY <1>4, RunQ3Makes
  <2> DEFINE record == mine.record
             Mine(o, m) == o = n /\ m = Marker(record)
  <2>1. GoodRecord(record) /\ record.counter = Len(chain[n])
    BY DEF GoodVote
  <2>6. \A o, m : Voted(o, m)' => Voted(o, m) \/ Mine(o, m)
    BY DEF GoodVote
  <2> HIDE DEF record
  <2>7. creator[n] = "timer" /\ 3 \in timers[n].pending /\ ~Q3Over(n)
    BY DEF RunQ3, Due, Q3Over
  <2>8. Q3Over(n)'
    <3>1. timers \in [Node -> [base : Nat, pending : SUBSET (1 .. 5)]]
      BY DEF CertInv, Shape
    <3>2. timers'[n] = [timers[n] EXCEPT !.pending = @ \ {3}]
      BY <1>1, <3>1
    <3>3. timers[n] \in [base : Nat, pending : SUBSET (1 .. 5)]
      BY <3>1
    <3>4. 3 \notin timers'[n].pending
      BY <3>2, <3>3
    <3> QED
      BY <1>1, <2>7, <3>4 DEF Q3Over
  <2>9. \A m : Voted(n, m) => m[1].counter # record.counter
    BY <2>1, <2>7 DEF VoteInv, VotesUpToNext
  <2>10. Marker(record)[1] = record
    BY DEF Marker
  <2>11. VotesUpToNext'
    <3> SUFFICES ASSUME NEW o, NEW m, Voted(o, m)'
                 PROVE  /\ o \in Active
                        /\ m = Marker(m[1])
                        /\ m[1].counter \in Nat
                        /\ m[1].counter <= Len(chain'[o])
                        /\ m[1].counter = Len(chain'[o]) => Q3Over(o)'
      BY DEF VotesUpToNext
    <3>1. CASE Mine(o, m)
      <4>1. record.counter \in Nat
        BY <2>1 DEF GoodRecord
      <4> QED
        BY <1>1, <1>4, <2>1, <2>8, <2>10, <3>1, <4>1
    <3>2. CASE Voted(o, m)
      <4>1. /\ o \in Active /\ m = Marker(m[1]) /\ m[1].counter \in Nat
            /\ m[1].counter <= Len(chain[o])
            /\ m[1].counter = Len(chain[o]) => Q3Over(o)
        BY <3>2 DEF VoteInv, VotesUpToNext
      <4>2. chain'[o] = chain[o] /\ (Q3Over(o) => Q3Over(o)')
        BY <1>1, <1>2, <4>1 DEF GoesOn
      <4> HIDE DEF Q3Over
      <4> QED
        BY <4>1, <4>2
    <3> QED
      BY <2>6, <3>1, <3>2
  <2>12. VotesOnce'
    <3> SUFFICES ASSUME NEW o, NEW m1, NEW m2, Voted(o, m1)', Voted(o, m2)',
                        m1[1].counter = m2[1].counter
                 PROVE  m1 = m2
      BY DEF VotesOnce
    <3>1. (Voted(o, m1) \/ Mine(o, m1)) /\ (Voted(o, m2) \/ Mine(o, m2))
      BY <2>6
    <3>2. CASE Voted(o, m1) /\ Voted(o, m2)
      BY <3>2 DEF VoteInv, VotesOnce
    <3>3. CASE Mine(o, m1) /\ Mine(o, m2)
      BY <3>3
    <3>4. CASE Mine(o, m1) /\ Voted(o, m2)
      BY <2>9, <2>10, <3>4
    <3>5. CASE Voted(o, m1) /\ Mine(o, m2)
      BY <2>9, <2>10, <3>5
    <3> HIDE DEF Mine
    <3> QED
      BY <3>1, <3>2, <3>3, <3>4, <3>5
  <2> QED
    BY <1>2, <2>11, <2>12 DEF VoteInv
<1> QED
  BY <1>3, <1>4
-----------------------------------------------------------------------------
LEMMA NextVotes == CertInv /\ CertInv' /\ VoteInv /\ [Next]_vars => VoteInv'
<1> SUFFICES ASSUME CertInv, CertInv', VoteInv, [Next]_vars PROVE VoteInv'
  OBVIOUS
<1>1. ASSUME NEW n \in Node, CreatorStep(n) PROVE VoteInv'
  BY <1>1, TimerVotes, RunQ3Votes, CycleCreatorVotes, StoredCycleVotes, FetchVotes DEF CreatorStep
<1>2. ASSUME NEW n \in Node, CompareStep(n) PROVE VoteInv'
  BY <1>2, CompareAskVotes, CompareServeVotes, CompareReplyVotes, CompareEndsVotes DEF CompareStep
<1>3. ASSUME NEW n \in Node, NEW p \in Node, StartCycles(n, p) PROVE VoteInv'
  BY <1>3, StartCyclesVotes
<1>4. ASSUME NEW g \in gossip, ReceiveGossip(g) PROVE VoteInv'
  BY <1>4, ReceiveGossipVotes
<1>5. CASE Tick
  BY <1>5, TickVotes
<1>6. CASE EndOfRun
  BY <1>6, StutterVotes DEF EndOfRun
<1>7. CASE UNCHANGED vars
  BY <1>7, StutterVotes
<1> QED
  BY <1>1, <1>2, <1>3, <1>4, <1>5, <1>6, <1>7 DEF Next

(* A node never vouches for two records of one cycle number, wherever its  *)
(* certificates are: a late node does not run runQ3 again for a cycle it   *)
(* has voted in, because it only schedules one on a longer chain.          *)
THEOREM OneVote == Spec => []OneVotePerCycle
<1>1. VoteInv => OneVotePerCycle
  <2> SUFFICES ASSUME VoteInv, NEW v \in Votes, NEW w \in Votes,
                      v[1] = w[1], v[2][1].counter = w[2][1].counter
               PROVE  v[2] = w[2]
    BY DEF OneVotePerCycle
  <2>1. ASSUME NEW u \in Votes PROVE Voted(u[1], u[2])
    <3>1. u \in GossipVotes \/ \E n \in Node : u \in TableVotes(n)
      BY DEF Votes
    <3>2. CASE u \in GossipVotes
      BY <3>2 DEF GossipVotes, Voted, InMessage
    <3>3. CASE \E n \in Node : u \in TableVotes(n)
      BY <3>3 DEF TableVotes, Voted, InTable
    <3> QED
      BY <3>1, <3>2, <3>3
  <2> QED
    BY <2>1 DEF VoteInv, VotesOnce
<1>2. CertInv /\ VoteInv /\ [Next]_vars => (CertInv /\ VoteInv)'
  BY NextKeeps, NextVotes
<1>3. Init => CertInv /\ VoteInv
  BY InitGood, InitVotes
<1> QED
  BY <1>1, <1>2, <1>3, PTL DEF Spec
-----------------------------------------------------------------------------
(* On a network that loses nothing and whose nodes keep up, the nodes with *)
(* the same chain have the same best record when they digest it: whoever   *)
(* improves its best certificate gossips all votes it has for it.          *)

Reliable == ~Lossy /\ Late = {} /\ NoTies /\ ~GoodRecord(NoRecord)

(* The quarter in which the cycle after the newest record began, and a     *)
(* node that scores the votes of that cycle.                               *)
Base(n) == 4 * (Len(chain[n]) - 1)
Current(n) == creator[n] = "timer" /\ prevMarkerCached[n] = Marker(Newest(n))

(* Nodes keep up with the clock.  One that joins within a cycle has no     *)
(* previous marker until the next one begins.                              *)
OnTime(n) ==
  /\ Base(n) <= clock
  /\ Running(n) => clock <= Base(n) + 4
  /\ creator[n] = "fetch" => clock = Base(n) + 4
  /\ creator[n] = "save" => clock = Base(n) \/ prevMarkerCached[n] = NoMarker
  /\ creator[n] = "off" => /\ Len(chain[n]) = 1
                           /\ prevMarkerCached[n] = NoMarker /\ cacheOfCycleCerts[n] = <<>>
  /\ creator[n] = "timer" =>
       /\ timers[n].base = Base(n)
       /\ 5 \in timers[n].pending
       /\ \A q \in timers[n].pending : clock <= Base(n) + q - 1
       /\ 2 \in timers[n].pending \/ prevMarkerCached[n] \in {NoMarker, Marker(Newest(n))}
       /\ clock < Base(n) + 4 => currentCycle[n] = Len(chain[n])

(* Active nodes never miss a cycle.                                        *)
ActiveOnTime(n) ==
  /\ creator[n] \in {"timer", "save"}
  /\ creator[n] = "save" => clock = Base(n)
  /\ creator[n] = "timer" => 2 \in timers[n].pending \/ Current(n)
  /\ creator[n] = "timer" /\ 3 \notin timers[n].pending => bestMarker[n] # NoMarker

OnTimeInv ==
  /\ clock <= MaxClock
  /\ \A n \in Node : OnTime(n)
  /\ \A n \in Active : ActiveOnTime(n)

(* The votes that are kept are scored against the newest record, so who    *)
(* has no previous marker has no best record.                              *)
Scoring(n) ==
  \/ creator[n] \in {"off", "timer", "fetch"}
  \/ creator[n] = "save" /\ prevMarkerCached[n] = NoMarker
IsScored(certs, prev) == \A i \in DOMAIN certs : certs[i].score = ScoreCert(certs[i].owner, prev)
Scores(n) ==
  /\ Scoring(n) =>
       /\ \A m \in DOMAIN bestCycleCert[n] :
            bestCycleCert[n][m] # <<>> /\ IsScored(bestCycleCert[n][m], prevMarkerCached[n])
       /\ bestMarker[n] # NoMarker => BestScore(n) > 0
  /\ creator[n] \in {"timer", "fetch"} =>
       /\ \A m \in DOMAIN bestCycleCert[n] : m[1].counter = Len(chain[n])
       /\ bestMarker[n] = NoMarker => bestRecord[n] = NoRecord
       /\ bestMarker[n] # NoMarker => bestMarker[n] = Marker(bestRecord[n])
  /\ creator[n] = "fetch" => bestMarker[n] = NoMarker
ScoreInv == \A n \in Node : Scores(n)

(* Votes are made from Q3 on, for records that build on the newest one.    *)
MadeOnTime(m) ==
  /\ m[1].counter > 0 /\ clock >= 4 * m[1].counter - 2
  /\ m[1].lists = <<>> /\ m[1].txs \in TxChoices
  /\ \A n \in Node : Len(chain[n]) >= m[1].counter => m[1].previous = Marker(chain[n][m[1].counter])
MadeInv ==
  /\ \A o, m : Voted(o, m) => MadeOnTime(m)
  /\ gossip # {} => clock % 4 = 2

(* What one node knows for its best marker, the others know or will get.   *)
CoversBest(p, n) ==
  \A i \in DOMAIN CertsFor(n, bestMarker[n]) :
    Covers(CertsFor(p, bestMarker[n]), CertsFor(n, bestMarker[n])[i])
Heard(n, p) ==
  /\ Current(n) /\ Current(p) /\ n # p
  /\ Len(chain[n]) = Len(chain[p]) /\ bestMarker[n] # NoMarker
  => [to |-> p, msg |-> MyBest(n)] \in gossip \/ CoversBest(p, n)
HeardInv == \A n, p \in Node : Heard(n, p)

(* Comparisons run in Q4 and find no errors.                               *)
Comparing(n) ==
  LET c == compare[n] IN c.state # "idle" =>
    /\ c.state \in {"ask", "sent", "replied"}
    /\ creator[n] = "timer" /\ clock = Base(n) + 3
    /\ c.cycle = currentCycle[n] /\ currentQuarter[n] = 4
    /\ c.errors = {} /\ c.todo \subseteq Others(n)
    /\ c.state \in {"sent", "replied"} => c.peer \in Others(n) /\ bestMarker[n] # NoMarker
    /\ c.state = "sent" => c.msg = MyBest(n)
    /\ c.state = "replied" => c.msg = MyBest(c.peer)
CompareInv == \A n \in Node : Comparing(n)

(* The chains are one, and who has still to digest a record that others    *)
(* have digested has the same one for its best.                            *)
Decided(n, p) ==
  creator[n] = "timer" /\ bestMarker[n] # NoMarker /\ Len(chain[p]) > Len(chain[n]) =>
    chain[p][Len(chain[n]) + 1] = Patched(chain[n], bestRecord[n])
(* Every record but the first lists the txs of all records before it, as   *)
(* Patched fills them in.                                                  *)
Filled(history) ==
  \A i \in 1 .. Len(history) - 1 :
    history[i + 1].lists = <<UNION {history[j].txs : j \in 1 .. i}>>

DecidedInv ==
  /\ \A n, p \in Node : Decided(n, p) /\ SameLedger(chain[n], chain[p])
  /\ \A n \in Node : Linked(chain[n]) /\ Filled(chain[n])
  /\ chain = [n \in Node |-> chain[n]]

(* The cache is written in Q4, when the best record does not change any    *)
(* more.                                                                   *)
CachedOnTime(n) ==
  \A k \in DOMAIN cacheOfCycleCerts[n] :
    /\ k \in Nat /\ k <= Len(chain[n])
    /\ k = Len(chain[n]) =>
         /\ creator[n] = "timer" /\ bestMarker[n] # NoMarker /\ clock >= Base(n) + 3
         /\ cacheOfCycleCerts[n][k].marker = bestMarker[n]
    /\ creator[n] = "save" /\ k = Len(chain[n]) - 1 =>
         cacheOfCycleCerts[n][k].marker = Marker(Unpatched(Newest(n)))
CacheInv == DOMAIN cacheOfCycleCerts = Node /\ \A n \in Node : CachedOnTime(n)

AgreeInv == OnTimeInv /\ ScoreInv /\ MadeInv /\ HeardInv /\ CompareInv /\ DecidedInv /\ CacheInv

ReliableInv == CertInv /\ VoteInv /\ AgreeInv
-----------------------------------------------------------------------------
(* The four quarters of a cycle.                                           *)
LEMMA Quarters ==
  \A k \in Nat : (4 * k) % 4 = 0 /\ (4 * k + 1) % 4 = 1 /\ (4 * k + 2) % 4 = 2 /\ (4 * k + 3) % 4 = 3
OBVIOUS

LEMMA BaseIsNat ==
  ASSUME CertInv, NEW n \in Node
  PROVE  /\ Base(n) \in Nat /\ Base(n) = 4 * (Len(chain[n]) - 1) /\ clock \in Nat
         /\ Len(chain[n]) \in Nat \ {0}
         /\ Base(n) % 4 = 0 /\ (Base(n) + 2) % 4 = 2 /\ (Base(n) + 3) % 4 = 3 /\ (Base(n) + 4) % 4 = 0
<1>1. Len(chain[n]) \in Nat \ {0} /\ clock \in Nat
  BY ChainLength DEF CertInv, Shape
<1> DEFINE k == Len(chain[n]) - 1
<1>2. k \in Nat /\ k + 1 \in Nat /\ Base(n) = 4 * k /\ 4 * k + 4 = 4 * (k + 1) /\ 4 * k \in Nat
  BY <1>1 DEF Base
<1> HIDE DEF k
<1>3. /\ (4 * k) % 4 = 0 /\ (4 * k + 2) % 4 = 2 /\ (4 * k + 3) % 4 = 3
      /\ (4 * (k + 1)) % 4 = 0
  BY <1>2, Quarters
<1> QED
  BY <1>1, <1>2, <1>3 DEF Base

(* Scores add up as NoTies has it.                                         *)
Epoch(m) == <<m[1].counter % Epochs, m[1].txs>>

LEMMA EpochGood ==
  ASSUME NEW m, GoodMarker(m), m # NoMarker
  PROVE  /\ Epoch(m) \in (0 .. Epochs - 1) \X TxChoices
         /\ \A o : ScoreCert(o, m) = Score(o, Epoch(m))
<1>1. m[1].counter % Epochs \in 0 .. Epochs - 1 /\ m[1].txs \in TxChoices
  BY CertAssumption DEF GoodMarker, GoodRecord
<1> QED
  BY <1>1 DEF Epoch, ScoreCert

LEMMA TallyIsTotal ==
  ASSUME NEW certs \in Certs(Node), WellFormed(certs), NEW m, GoodMarker(m), m # NoMarker,
         IsScored(certs, m), Owners(certs) \subseteq Active
  PROVE  OwnersOf(certs) \in Ballots /\ Tally(OwnersOf(certs), Epoch(m)) = TotalScore(certs)
<1> DEFINE b == OwnersOf(certs)
<1>1. /\ Len(certs) \in 0 .. 3 /\ DOMAIN certs = 1 .. Len(certs)
      /\ \A i \in 1 .. Len(certs) : certs[i] \in Cert(Node)
  BY CertListDomain
<1>2. DOMAIN b = 1 .. Len(certs) /\ \A i \in 1 .. Len(certs) : b[i] = certs[i].owner
  BY <1>1 DEF OwnersOf
<1>3. b \in [1 .. Len(certs) -> Active]
  BY <1>1 DEF OwnersOf, Owners
<1>4. \A i, j \in DOMAIN b : b[i] = b[j] => i = j
  BY <1>1, <1>2 DEF WellFormed
<1>5. b \in Ballots
  BY <1>1, <1>3, <1>4 DEF Ballots, BEST_CERTS_WANTED
<1>6. \A i \in 1 .. Len(certs) : certs[i].score = Score(b[i], Epoch(m))
  BY <1>1, <1>2, EpochGood DEF IsScored
<1> HIDE DEF b
<1>7. Tally(b, Epoch(m)) = TotalScore(certs)
  BY <1>1, <1>2, <1>6 DEF Tally, TotalScore, ScoreAt
<1> QED
  BY <1>5, <1>7 DEF b

LEMMA TotalsDiffer ==
  ASSUME Reliable, NEW m, GoodMarker(m), m # NoMarker,
         NEW one \in Certs(Node), WellFormed(one), IsScored(one, m), Owners(one) \subseteq Active,
         NEW other \in Certs(Node), WellFormed(other), IsScored(other, m), Owners(other) \subseteq Active,
         Len(one) > 0, Owners(one) \cap Owners(other) = {}
  PROVE  TotalScore(one) # TotalScore(other)
<1> DEFINE b == OwnersOf(one)
           c == OwnersOf(other)
<1>1. b \in Ballots /\ Tally(b, Epoch(m)) = TotalScore(one)
  BY TallyIsTotal
<1>2. c \in Ballots /\ Tally(c, Epoch(m)) = TotalScore(other)
  BY TallyIsTotal
<1>3. /\ DOMAIN b = DOMAIN one /\ \A i \in DOMAIN one : b[i] \in Owners(one)
      /\ DOMAIN c = DOMAIN other /\ \A i \in DOMAIN other : c[i] \in Owners(other)
  BY DEF OwnersOf, Owners
<1>4. 1 \in DOMAIN one
  BY CertListDomain
<1>5. Epoch(m) \in (0 .. Epochs - 1) \X TxChoices
  BY EpochGood
<1> HIDE DEF b, c
<1>6. b # <<>>
  BY <1>3, <1>4
<1>7. \A i \in DOMAIN b, j \in DOMAIN c : b[i] # c[j]
  BY <1>3
<1> QED
  BY <1>1, <1>2, <1>5, <1>6, <1>7 DEF Reliable, NoTies

LEMMA ScorePositive ==
  ASSUME Reliable, NEW o \in Active, NEW m, GoodMarker(m), m # NoMarker
  PROVE  ScoreCert(o, m) \in Nat /\ ScoreCert(o, m) > 0
<1> DEFINE one == <<[owner |-> o, score |-> ScoreCert(o, m)]>>
<1>1. o \in Node /\ ScoreCert(o, m) \in Nat
  BY ScoreIsNat, CertAssumption
<1>2. one \in Certs(Node) /\ Len(one) = 1 /\ DOMAIN one = {1}
  BY <1>1 DEF Certs, Cert
<1>3. WellFormed(one) /\ IsScored(one, m) /\ Owners(one) = {o}
  BY <1>2 DEF WellFormed, IsScored, Owners, BEST_CERTS_WANTED
<1>4. /\ <<>> \in Certs(Node) /\ WellFormed(<<>>) /\ IsScored(<<>>, m) /\ Owners(<<>>) = {}
      /\ TotalScore(<<>>) = 0
  BY DEF Certs, WellFormed, IsScored, Owners, BEST_CERTS_WANTED, TotalScore, ScoreAt
<1>5. TotalScore(one) = ScoreCert(o, m)
  BY <1>1, <1>2 DEF TotalScore, ScoreAt
<1> HIDE DEF one
<1>6. TotalScore(one) # TotalScore(<<>>)
  BY <1>2, <1>3, <1>4, TotalsDiffer
<1> QED
  BY <1>1, <1>4, <1>5, <1>6

(* Lists with no previous marker to score against add up to nothing, lists *)
(* of active nodes with one to something.                                  *)
LEMMA NoMarkerTotal ==
  ASSUME NEW certs \in Certs(Node), WellFormed(certs), IsScored(certs, NoMarker)
  PROVE  TotalScore(certs) = 0
<1>1. \A i \in DOMAIN certs : certs[i].score = 0
  BY DEF IsScored, ScoreCert
<1> QED
  BY <1>1 DEF TotalScore, ScoreAt

LEMMA TotalPositive ==
  ASSUME Reliable, NEW m, GoodMarker(m), m # NoMarker,
         NEW certs \in Certs(Node), WellFormed(certs), IsScored(certs, m),
         Owners(certs) \subseteq Active, Len(certs) > 0
  PROVE  TotalScore(certs) > 0
<1>1. /\ <<>> \in Certs(Node) /\ WellFormed(<<>>) /\ IsScored(<<>>, m) /\ Owners(<<>>) = {}
      /\ TotalScore(<<>>) = 0
  BY DEF Certs, WellFormed, IsScored, Owners, BEST_CERTS_WANTED, TotalScore, ScoreAt
<1>2. TotalScore(certs) # 0
  BY <1>1, TotalsDiffer
<1> QED
  BY <1>2, TotalIsNat
-----------------------------------------------------------------------------
(* What the invariant says of the tables.                                  *)
LEMMA TableFacts ==
  ASSUME CertInv, VoteInv, ScoreInv, MadeInv, NEW n \in Node, Scoring(n),
         NEW m \in DOMAIN bestCycleCert[n]
  PROVE  /\ bestCycleCert[n][m] \in Certs(Node) /\ WellFormed(bestCycleCert[n][m])
         /\ Len(bestCycleCert[n][m]) \in 1 .. 3
         /\ IsScored(bestCycleCert[n][m], prevMarkerCached[n])
         /\ Owners(bestCycleCert[n][m]) \subseteq Active
         /\ \A o \in Owners(bestCycleCert[n][m]) : Voted(o, m)
         /\ m = Marker(m[1]) /\ m # NoMarker /\ MadeOnTime(m)
<1> DEFINE certs == bestCycleCert[n][m]
<1>1. certs \in Certs(Node) /\ WellFormed(certs)
  BY DEF CertInv, Bests, IsCertTable, Certs, Cert
<1>2. certs # <<>> /\ IsScored(certs, prevMarkerCached[n])
  BY DEF ScoreInv, Scores
<1>3. Len(certs) \in 1 .. 3 /\ DOMAIN certs = 1 .. Len(certs)
  <2>1. Len(certs) \in 0 .. 3 /\ DOMAIN certs = 1 .. Len(certs)
    BY <1>1, CertListDomain
  <2>2. Len(certs) # 0
    BY <1>1, <1>2 DEF Certs
  <2> QED
    BY <2>1, <2>2
<1>4. \A o \in Owners(certs) : Voted(o, m)
  BY DEF Voted, InTable
<1>5. \A o \in Owners(certs) : o \in Active /\ m = Marker(m[1]) /\ MadeOnTime(m)
  BY <1>4 DEF VoteInv, VotesUpToNext, MadeInv
<1>6. certs[1].owner \in Owners(certs)
  BY <1>3 DEF Owners
<1>7. m = Marker(m[1]) /\ MadeOnTime(m)
  BY <1>5, <1>6
<1>8. m # NoMarker
  BY <1>7 DEF Marker, NoMarker
<1> QED
  BY <1>1, <1>2, <1>3, <1>4, <1>5, <1>7, <1>8

LEMMA CertsForScored ==
  ASSUME CertInv, VoteInv, ScoreInv, MadeInv, NEW n \in Node, Scoring(n), NEW m
  PROVE  /\ CertsFor(n, m) \in Certs(Node) /\ WellFormed(CertsFor(n, m))
         /\ IsScored(CertsFor(n, m), prevMarkerCached[n])
         /\ Owners(CertsFor(n, m)) \subseteq Active
         /\ \A o \in Owners(CertsFor(n, m)) : Voted(o, m)
<1>1. CASE m \in DOMAIN bestCycleCert[n]
  BY <1>1, TableFacts DEF CertsFor
<1>2. CASE m \notin DOMAIN bestCycleCert[n]
  <2>1. CertsFor(n, m) = <<>> /\ DOMAIN <<>> = {}
    BY <1>2 DEF CertsFor
  <2>2. IsScored(<<>>, prevMarkerCached[n]) /\ Owners(<<>>) = {}
    BY <2>1 DEF IsScored, Owners
  <2> QED
    BY <2>1, <2>2, CertsForGood
<1> QED
  BY <1>1, <1>2

(* A best marker has a list that adds up to the best score.                *)
LEMMA BestFacts ==
  ASSUME CertInv, VoteInv, ScoreInv, MadeInv, NEW n \in Node, Scoring(n),
         bestMarker[n] # NoMarker
  PROVE  /\ bestMarker[n] \in DOMAIN bestCycleCert[n]
         /\ CertsFor(n, bestMarker[n]) = bestCycleCert[n][bestMarker[n]]
         /\ BestScore(n) = TotalScore(CertsFor(n, bestMarker[n]))
         /\ BestScore(n) \in Nat /\ BestScore(n) > 0
         /\ prevMarkerCached[n] # NoMarker /\ GoodMarker(prevMarkerCached[n])
<1> DEFINE m == bestMarker[n]
<1>1. m \in DOMAIN bestCycleCert[n] /\ GoodMarker(prevMarkerCached[n])
  BY DEF CertInv, Bests, PrevMarkers
<1>2. CertsFor(n, m) = bestCycleCert[n][m]
  BY <1>1 DEF CertsFor
<1>3. BestScore(n) = TotalScore(bestCycleCert[n][m])
  BY <1>1 DEF CertInv, BestIsMax, BestScore
<1>4. /\ CertsFor(n, m) \in Certs(Node) /\ WellFormed(CertsFor(n, m))
      /\ IsScored(CertsFor(n, m), prevMarkerCached[n])
  BY CertsForScored
<1>5. BestScore(n) \in Nat /\ BestScore(n) > 0
  BY <1>2, <1>3, <1>4, TotalIsNat DEF ScoreInv, Scores
<1>6. prevMarkerCached[n] # NoMarker
  BY <1>2, <1>3, <1>4, <1>5, NoMarkerTotal
<1> QED
  BY <1>1, <1>2, <1>3, <1>5, <1>6

(* A node without a best marker has a best score of 0.                     *)
LEMMA NoBestScore ==
  ASSUME CertInv, VoteInv, ScoreInv, MadeInv, NEW n \in Node, Scoring(n)
  PROVE  /\ BestScore(n) \in Nat
         /\ bestMarker[n] = NoMarker => BestScore(n) = 0
         /\ \A m : TotalScore(CertsFor(n, m)) <= BestScore(n)
<1>1. bestMarker[n] = NoMarker => BestScore(n) = 0
  <2>1. bestMarker[n] = NoMarker => bestMarker[n] \notin DOMAIN bestCertScore[n]
    BY TableFacts DEF CertInv, BestIsMax
  <2> QED
    BY <2>1 DEF BestScore
<1>2. BestScore(n) \in Nat
  BY <1>1, BestFacts
<1>3. ASSUME NEW m PROVE TotalScore(CertsFor(n, m)) <= BestScore(n)
  <2>1. CASE m \in DOMAIN bestCycleCert[n]
    BY <2>1 DEF CertInv, BestIsMax, CertsFor
  <2>2. CASE m \notin DOMAIN bestCycleCert[n]
    <3>1. CertsFor(n, m) = <<>> /\ DOMAIN <<>> = {}
      BY <2>2 DEF CertsFor
    <3>2. TotalScore(CertsFor(n, m)) = 0
      BY <3>1 DEF TotalScore, ScoreAt
    <3> QED
      BY <1>2, <3>2
  <2> QED
    BY <2>1, <2>2
<1> QED
  BY <1>1, <1>2, <1>3

(* A best marker is for the next record, scored by a node that keeps up.   *)
LEMMA BestCurrent ==
  ASSUME ReliableInv, NEW n \in Node, creator[n] = "timer", bestMarker[n] # NoMarker
  PROVE  /\ Current(n) /\ clock >= Base(n) + 2
         /\ bestMarker[n] = Marker(bestRecord[n]) /\ GoodRecord(bestRecord[n])
         /\ MadeOnTime(bestMarker[n]) /\ bestMarker[n][1] = bestRecord[n]
         /\ bestRecord[n].counter = Len(chain[n])
         /\ \E o \in Active : Voted(o, bestMarker[n])
<1> DEFINE m == bestMarker[n]
<1> USE DEF ReliableInv, AgreeInv
<1>1. Scoring(n)
  BY DEF Scoring
<1>2. m \in DOMAIN bestCycleCert[n] /\ prevMarkerCached[n] # NoMarker
  BY <1>1, BestFacts
<1>3. MadeOnTime(m) /\ Len(bestCycleCert[n][m]) \in 1 .. 3
      /\ Owners(bestCycleCert[n][m]) \subseteq Active
      /\ \A o \in Owners(bestCycleCert[n][m]) : Voted(o, m)
      /\ bestCycleCert[n][m] \in Certs(Node) /\ WellFormed(bestCycleCert[n][m])
  BY <1>1, <1>2, TableFacts
<1>4. m[1].counter = Len(chain[n]) /\ m = Marker(bestRecord[n])
  BY <1>2 DEF ScoreInv, Scores
<1>5. Base(n) \in Nat /\ Base(n) = 4 * (Len(chain[n]) - 1) /\ clock \in Nat /\ Len(chain[n]) \in Nat \ {0}
  BY BaseIsNat
<1>6. clock >= Base(n) + 2
  BY <1>3, <1>4, <1>5 DEF MadeOnTime
<1>7. 2 \notin timers[n].pending
  <2>1. 2 \in timers[n].pending => clock <= Base(n) + 2 - 1
    BY DEF OnTimeInv, OnTime
  <2> QED
    BY <1>5, <1>6, <2>1
<1>8. Current(n)
  BY <1>2, <1>7 DEF OnTimeInv, OnTime, Current
<1>9. GoodRecord(bestRecord[n])
  BY DEF CertInv, Bests
<1>10. m[1] = bestRecord[n]
  BY <1>4 DEF Marker
<1>11. \E o \in Active : Voted(o, m)
  <2>1. 1 \in DOMAIN bestCycleCert[n][m]
    BY <1>3, CertListDomain
  <2> QED
    BY <1>3, <2>1 DEF Owners
<1> QED
  BY <1>3, <1>4, <1>6, <1>8, <1>9, <1>10, <1>11
-----------------------------------------------------------------------------
(* Nodes that keep up with each other.                                     *)
LEMMA SameChains ==
  ASSUME CertInv, DecidedInv, NEW n \in Node, NEW p \in Node, Len(chain[n]) = Len(chain[p])
  PROVE  chain[n] = chain[p]
<1>1. GoodChain(chain[n]) /\ GoodChain(chain[p])
  BY DEF CertInv, Chains
<1>2. /\ chain[n] \in Seq(Contents(chain[n])) /\ DOMAIN chain[n] = 1 .. Len(chain[n])
      /\ chain[p] \in Seq(Contents(chain[p])) /\ DOMAIN chain[p] = 1 .. Len(chain[p])
  BY <1>1, ChainLast DEF GoodChain, IsChain
<1>3. \A i \in 1 .. Len(chain[n]) : chain[n][i] = chain[p][i]
  BY <1>2 DEF DecidedInv, SameLedger
<1>4. /\ chain[n] = [i \in 1 .. Len(chain[n]) |-> chain[n][i]]
      /\ chain[p] = [i \in 1 .. Len(chain[p]) |-> chain[p][i]]
  BY <1>2
<1> QED
  BY <1>3, <1>4

LEMMA SameScale ==
  ASSUME CertInv, DecidedInv, NEW n \in Node, NEW p \in Node, Current(n), Current(p),
         Len(chain[n]) = Len(chain[p])
  PROVE  prevMarkerCached[n] = prevMarkerCached[p]
BY SameChains DEF Current, Newest

(* The list p keeps for the best marker of n covers that of n, so its      *)
(* total is no less.                                                       *)
LEMMA CoveredTotal ==
  ASSUME ReliableInv, NEW n \in Node, NEW p \in Node, Scoring(n), Scoring(p),
         bestMarker[n] # NoMarker, CoversBest(p, n)
  PROVE  BestScore(n) <= TotalScore(CertsFor(p, bestMarker[n]))
         /\ bestMarker[p] # NoMarker /\ BestScore(n) <= BestScore(p)
<1> USE DEF ReliableInv, AgreeInv
<1> DEFINE m == bestMarker[n]
<1>1. BestScore(n) = TotalScore(CertsFor(n, m)) /\ BestScore(n) \in Nat /\ BestScore(n) > 0
  BY BestFacts
<1>2. CertsFor(n, m) \in Certs(Node) /\ WellFormed(CertsFor(n, m))
      /\ CertsFor(p, m) \in Certs(Node) /\ WellFormed(CertsFor(p, m))
  BY CertsForGood
<1>3. TotalScore(CertsFor(p, m)) >= TotalScore(CertsFor(n, m))
  BY <1>2, CoversTotal DEF CoversBest
<1>4. TotalScore(CertsFor(p, m)) <= BestScore(p) /\ BestScore(p) \in Nat
      /\ (bestMarker[p] = NoMarker => BestScore(p) = 0)
  BY NoBestScore
<1>5. TotalScore(CertsFor(p, m)) \in Nat
  BY <1>2, TotalIsNat
<1> QED
  BY <1>1, <1>3, <1>4, <1>5

(* With no gossip on its way the nodes with the same chain have the same   *)
(* best record.                                                            *)
LEMMA Converge ==
  ASSUME Reliable, ReliableInv, gossip = {}, NEW n \in Node, NEW p \in Node,
         Current(n), Current(p), Len(chain[n]) = Len(chain[p]), bestMarker[n] # NoMarker
  PROVE  bestMarker[p] = bestMarker[n] /\ bestRecord[p] = bestRecord[n]
<1> USE DEF ReliableInv, AgreeInv
<1>1. CASE n = p
  BY <1>1
<1>2. CASE n # p
  <2> DEFINE m == bestMarker[n]
             k == bestMarker[p]
  <2>1. Scoring(n) /\ Scoring(p)
    BY DEF Scoring, Current
  <2>2. CoversBest(p, n)
    BY <1>2 DEF HeardInv, Heard
  <2>3. k # NoMarker /\ BestScore(n) <= TotalScore(CertsFor(p, m)) /\ BestScore(n) <= BestScore(p)
    BY <2>1, <2>2, CoveredTotal
  <2>4. CoversBest(n, p)
    BY <1>2, <2>3 DEF HeardInv, Heard
  <2>5. BestScore(p) <= BestScore(n)
    BY <2>1, <2>3, <2>4, CoveredTotal
  <2>6. /\ BestScore(p) = TotalScore(CertsFor(p, k)) /\ BestScore(p) \in Nat
        /\ BestScore(n) \in Nat /\ BestScore(n) > 0
        /\ prevMarkerCached[p] # NoMarker /\ GoodMarker(prevMarkerCached[p])
    BY <2>1, <2>3, BestFacts
  <2>7. TotalScore(CertsFor(p, m)) <= BestScore(p)
    BY <2>1, NoBestScore
  <2>8. \A l \in {m, k} :
          /\ CertsFor(p, l) \in Certs(Node) /\ WellFormed(CertsFor(p, l))
          /\ IsScored(CertsFor(p, l), prevMarkerCached[p])
          /\ Owners(CertsFor(p, l)) \subseteq Active
          /\ \A o \in Owners(CertsFor(p, l)) : Voted(o, l)
    BY <2>1, CertsForScored
  <2>9. TotalScore(CertsFor(p, m)) \in Nat
    BY <2>8, TotalIsNat
  <2>10. TotalScore(CertsFor(p, m)) = TotalScore(CertsFor(p, k))
    BY <2>3, <2>5, <2>6, <2>7, <2>9
  <2>11. m[1].counter = k[1].counter /\ m = Marker(bestRecord[n]) /\ k = Marker(bestRecord[p])
    BY <2>3, BestCurrent DEF Current
  <2>12. ASSUME m # k PROVE FALSE
    <3>1. Owners(CertsFor(p, m)) \cap Owners(CertsFor(p, k)) = {}
      BY <2>8, <2>11, <2>12 DEF VoteInv, VotesOnce
    <3>2. Len(CertsFor(p, m)) > 0
      <4>1. Len(CertsFor(p, m)) \in 0 .. 3 /\ DOMAIN CertsFor(p, m) = 1 .. Len(CertsFor(p, m))
        BY <2>8, CertListDomain
      <4>2. Len(CertsFor(p, m)) # 0
        <5> SUFFICES ASSUME Len(CertsFor(p, m)) = 0 PROVE FALSE
          OBVIOUS
        <5>1. TotalScore(CertsFor(p, m)) = 0
          BY <4>1 DEF TotalScore, ScoreAt
        <5> QED
          BY <2>3, <2>6, <5>1
      <4> QED
        BY <4>1, <4>2
    <3> QED
      BY <2>6, <2>8, <2>10, <3>1, <3>2, TotalsDiffer
  <2>13. m = k
    BY <2>12
  <2> QED
    BY <2>11, <2>13 DEF Marker
<1> QED
  BY <1>1, <1>2

(* The best votes of a node are good ones to those with the same chain.    *)
LEMMA MyBestValid ==
  ASSUME Reliable, ReliableInv, NEW n \in Node, NEW p \in Node,
         Current(n), Len(chain[n]) = Len(chain[p]), bestMarker[n] # NoMarker
  PROVE  /\ ValidCerts(p, MyBest(n)) /\ GoodVote(MyBest(n))
         /\ MyBest(n).marker = bestMarker[n] /\ MyBest(n).record = bestRecord[n]
         /\ DOMAIN MyBest(n).owners = DOMAIN CertsFor(n, bestMarker[n])
         /\ \A i \in DOMAIN CertsFor(n, bestMarker[n]) :
              /\ MyBest(n).owners[i] = CertsFor(n, bestMarker[n])[i].owner
              /\ MyBest(n).owners[i] \in Active
<1> USE DEF ReliableInv, AgreeInv
<1> DEFINE m == bestMarker[n]
           certs == CertsFor(n, m)
<1>1. /\ MyBest(n).marker = m /\ MyBest(n).record = bestRecord[n]
      /\ DOMAIN MyBest(n).owners = DOMAIN certs
      /\ \A i \in DOMAIN certs : MyBest(n).owners[i] = certs[i].owner
  BY DEF MyBest, Message, OwnersOf
<1>2. Scoring(n) /\ creator[n] = "timer"
  BY DEF Scoring, Current
<1>3. m \in DOMAIN bestCycleCert[n] /\ certs = bestCycleCert[n][m]
  BY <1>2, BestFacts
<1>4. Len(certs) \in 1 .. 3 /\ certs \in Certs(Node) /\ WellFormed(certs) /\ Owners(certs) \subseteq Active
  BY <1>2, <1>3, TableFacts
<1>5. /\ m = Marker(bestRecord[n]) /\ GoodRecord(bestRecord[n])
      /\ bestRecord[n].counter = Len(chain[n])
  BY <1>2, BestCurrent
<1>6. DOMAIN certs = 1 .. Len(certs)
  BY <1>4, CertListDomain
<1>7. MyBest(n).owners \in Seq(Node)
  BY MyBestGood DEF GoodMessage
<1>9. \A i, j \in DOMAIN certs : i # j => certs[i].owner # certs[j].owner
  BY <1>4, <1>6 DEF WellFormed
<1>10. Newest(p).counter = Len(chain[n]) - 1 /\ Len(chain[n]) \in Nat \ {0}
  BY ChainLength
<1> HIDE DEF m, certs
<1>8. MyBest(n).owners # <<>>
  <2>1. 1 \in DOMAIN MyBest(n).owners
    <3> 1 \in DOMAIN certs
      BY <1>4, <1>6
    <3> QED
      BY <1>1
  <2>2. DOMAIN <<>> = {}
    OBVIOUS
  <2> QED
    BY <2>1, <2>2
<1>11. ValidCerts(p, MyBest(n))
  BY <1>1, <1>5, <1>8, <1>9, <1>10 DEF ValidCerts
<1>12. GoodVote(MyBest(n))
  BY <1>1, <1>5, <1>7, <1>9 DEF GoodVote
<1> QED
  BY <1>1, <1>4, <1>11, <1>12 DEF Owners, m, certs
-----------------------------------------------------------------------------
(* What a node makes of the votes it receives.                             *)
Rated(n, o) == [owner |-> o, score |-> ScoreCert(o, prevMarkerCached[n])]

LEMMA MergedFacts ==
  ASSUME CertInv, VoteInv, ScoreInv, MadeInv, NEW n \in Node, Scoring(n),
         NEW msg, GoodVote(msg)
  PROVE  /\ IsScored(MergedCerts(n, msg), prevMarkerCached[n])
         /\ \A c \in Cert(Node) :
              Covers(CertsFor(n, msg.marker), c) => Covers(MergedCerts(n, msg), c)
         /\ \A j \in DOMAIN msg.owners \cap (1 .. 3) :
              Covers(MergedCerts(n, msg), Rated(n, msg.owners[j]))
         /\ msg.owners # <<>> => MergedCerts(n, msg) # <<>>
         /\ (\A j \in DOMAIN msg.owners : Covers(CertsFor(n, msg.marker), Rated(n, msg.owners[j])))
              => MergedCerts(n, msg) = CertsFor(n, msg.marker)
         /\ /\ TotalScore(MergedCerts(n, msg)) = TotalScore(CertsFor(n, msg.marker))
            /\ \A j \in DOMAIN msg.owners : Rated(n, msg.owners[j]).score > 0
            => MergedCerts(n, msg) = CertsFor(n, msg.marker)
<1> DEFINE certs == CertsFor(n, msg.marker)
           received == Scored(n, msg.owners)
           merged == MergedCerts(n, msg)
<1>1. /\ certs \in Certs(Node) /\ WellFormed(certs) /\ IsScored(certs, prevMarkerCached[n])
  BY CertsForScored
<1>2. msg.owners \in Seq(Node) /\ DOMAIN msg.owners = 1 .. Len(msg.owners) /\ Len(msg.owners) \in Nat
  BY LenProperties DEF GoodVote
<1>3. /\ DOMAIN received = DOMAIN msg.owners
      /\ \A i \in DOMAIN received : received[i] \in Cert(Node) /\ received[i].owner = msg.owners[i]
  BY <1>2, ScoredCerts
<1>4. \A i \in DOMAIN received : received[i] = Rated(n, msg.owners[i])
  BY <1>3 DEF Scored, Rated
<1>5. merged = Merge(certs, received)
  BY DEF MergedCerts
<1>6. \A i, j \in DOMAIN received : i # j => received[i].owner # received[j].owner
  BY <1>3 DEF GoodVote
<1>7. DOMAIN certs = 1 .. Len(certs) /\ \A i \in DOMAIN certs : certs[i] \in Cert(Node)
  BY <1>1, CertListDomain
<1>8. \A i \in DOMAIN certs : certs[i] = Rated(n, certs[i].owner)
  BY <1>1, <1>7 DEF IsScored, Rated, Cert
<1> HIDE DEF certs, received, merged
<1>9. \A i \in DOMAIN certs, j \in DOMAIN received :
        certs[i].owner = received[j].owner => certs[i] = received[j]
  BY <1>3, <1>4, <1>8
<1>10. /\ \A c \in Cert(Node) : Covers(certs, c) => Covers(merged, c)
       /\ \A j \in DOMAIN received : j \in 1 .. 3 => Covers(merged, received[j])
       /\ (\A j \in DOMAIN received : Covers(certs, received[j])) => merged = certs
       /\ /\ TotalScore(merged) = TotalScore(certs)
          /\ \A j \in DOMAIN received : received[j].score > 0
          => merged = certs
  BY <1>1, <1>3, <1>5, <1>6, <1>9, MergeCovers
<1>11. IsScored(merged, prevMarkerCached[n])
  <2>1. \A i \in DOMAIN merged : \/ \E k \in DOMAIN certs : merged[i] = certs[k]
                                 \/ \E j \in DOMAIN received : merged[i] = received[j]
    BY <1>1, <1>3, <1>5, <1>6, MergeFrom
  <2>2. \A i \in DOMAIN merged : \E o : merged[i] = Rated(n, o)
    BY <1>4, <1>8, <2>1
  <2> QED
    BY <2>2 DEF IsScored, Rated
<1>12. msg.owners # <<>> => merged # <<>>
  <2> SUFFICES ASSUME msg.owners # <<>> PROVE merged # <<>>
    OBVIOUS
  <2>1. 1 \in DOMAIN msg.owners
    <3>1. Len(msg.owners) # 0
      BY <1>2
    <3> QED
      BY <1>2, <3>1
  <2>2. Covers(merged, received[1])
    BY <1>3, <1>10, <2>1
  <2>3. DOMAIN <<>> = {} /\ Len(<<>>) = 0
    OBVIOUS
  <2> QED
    BY <2>2, <2>3 DEF Covers, BEST_CERTS_WANTED
<1> QED
  BY <1>3, <1>4, <1>10, <1>11, <1>12 DEF certs, merged

(* In the third quarter all that runs keeps up, and nobody compares.       *)
LEMMA ThirdQuarter ==
  ASSUME ReliableInv, clock % 4 = 2, NEW n \in Node
  PROVE  /\ compare[n].state = "idle"
         /\ Len(chain[n]) \notin DOMAIN cacheOfCycleCerts[n]
         /\ Running(n) => /\ Scoring(n) /\ creator[n] # "fetch"
                          /\ \A p \in Node : Len(chain[p]) <= Len(chain[n])
<1> USE DEF ReliableInv, AgreeInv
<1>1. \A q \in Node :
        /\ Base(q) \in Nat /\ Base(q) = 4 * (Len(chain[q]) - 1) /\ clock \in Nat
        /\ Len(chain[q]) \in Nat \ {0}
        /\ Base(q) % 4 = 0 /\ (Base(q) + 2) % 4 = 2 /\ (Base(q) + 3) % 4 = 3 /\ (Base(q) + 4) % 4 = 0
  BY BaseIsNat
<1>2. OnTime(n) /\ \A p \in Node : Base(p) <= clock
  BY DEF OnTimeInv, OnTime
<1> clock # Base(n) + 3 /\ clock # Base(n) + 4
  <2>1. (Base(n) + 3) % 4 = 3 /\ (Base(n) + 4) % 4 = 0
    BY <1>1
  <2>2. \A b : b % 4 = 3 \/ b % 4 = 0 => clock # b
    OBVIOUS
  <2> QED
    BY <2>1, <2>2
<1>3. compare[n].state = "idle"
  BY DEF CompareInv, Comparing
<1>4. Running(n) => clock <= Base(n) + 2
  <2> SUFFICES ASSUME Running(n) PROVE clock <= Base(n) + 2
    OBVIOUS
  <2>1. clock <= Base(n) + 4
    BY <1>2 DEF OnTime
  <2>2. clock \in Nat /\ Base(n) \in Nat
    BY <1>1
  <2> QED
    BY <2>1, <2>2
<1>5. Len(chain[n]) \notin DOMAIN cacheOfCycleCerts[n]
  <2> SUFFICES ASSUME Len(chain[n]) \in DOMAIN cacheOfCycleCerts[n] PROVE FALSE
    OBVIOUS
  <2>1. creator[n] = "timer" /\ clock >= Base(n) + 3
    BY DEF CacheInv, CachedOnTime
  <2> QED
    BY <1>1, <1>4, <2>1 DEF Running
<1>6. Running(n) => Scoring(n) /\ creator[n] # "fetch"
  <2>1. creator[n] # "fetch"
    BY <1>2 DEF OnTime
  <2>2. creator[n] = "save" => prevMarkerCached[n] = NoMarker
    <3>1. clock # Base(n)
      <4>1. Base(n) % 4 = 0
        BY <1>1
      <4> QED
        BY <4>1
    <3> QED
      BY <1>2, <3>1 DEF OnTime
  <2>3. creator[n] \in {"off", "timer", "fetch", "save", "gone"}
    BY DEF CertInv, Shape
  <2> QED
    BY <2>1, <2>2, <2>3 DEF Scoring, Running
<1>7. Running(n) => \A p \in Node : Len(chain[p]) <= Len(chain[n])
  <2> SUFFICES ASSUME Running(n), NEW p \in Node PROVE Len(chain[p]) <= Len(chain[n])
    OBVIOUS
  <2>1. Base(p) <= clock /\ clock <= Base(n) + 2
    BY <1>2, <1>4
  <2>2. /\ Base(p) = 4 * (Len(chain[p]) - 1) /\ Len(chain[p]) \in Nat /\ clock \in Nat
        /\ Base(n) = 4 * (Len(chain[n]) - 1) /\ Len(chain[n]) \in Nat
    BY <1>1
  <2> QED
    BY <2>1, <2>2
<1> QED
  BY <1>3, <1>5, <1>6, <1>7
-----------------------------------------------------------------------------
(* What improveBestCert does to the tables.                                *)
LEMMA ImproveEffect ==
  ASSUME CertInv, NEW n \in Node, NEW msg, GoodVote(msg), ImproveBestCert(n, msg)
  PROVE  /\ \A q \in Node \ {n} :
              /\ bestMarker'[q] = bestMarker[q] /\ bestRecord'[q] = bestRecord[q]
              /\ bestCycleCert'[q] = bestCycleCert[q] /\ bestCertScore'[q] = bestCertScore[q]
         /\ DOMAIN bestCycleCert'[n] = DOMAIN bestCycleCert[n] \cup {msg.marker}
         /\ bestCycleCert'[n][msg.marker] = MergedCerts(n, msg)
         /\ \A m \in DOMAIN bestCycleCert[n] \ {msg.marker} :
              bestCycleCert'[n][m] = bestCycleCert[n][m]
         /\ Improves(n, msg) => bestMarker'[n] = msg.marker /\ bestRecord'[n] = msg.record
         /\ ~Improves(n, msg) => bestMarker' = bestMarker /\ bestRecord' = bestRecord
<1>1. /\ DOMAIN bestRecord = Node /\ DOMAIN bestMarker = Node
      /\ DOMAIN bestCycleCert = Node /\ DOMAIN bestCertScore = Node
  BY DEF CertInv, Bests
<1> DEFINE certs == MergedCerts(n, msg)
           table == Put(bestCycleCert[n], msg.marker, certs)
<1>2. /\ bestCycleCert' = [bestCycleCert EXCEPT ![n] = table]
      /\ \A q \in Node \ {n} : bestCertScore'[q] = bestCertScore[q]
  BY <1>1 DEF ImproveBestCert
<1>3. /\ DOMAIN table = DOMAIN bestCycleCert[n] \cup {msg.marker}
      /\ table[msg.marker] = certs
      /\ \A m \in DOMAIN bestCycleCert[n] \ {msg.marker} : table[m] = bestCycleCert[n][m]
  BY DEF Put
<1>4. IF Improves(n, msg)
      THEN /\ bestMarker' = [bestMarker EXCEPT ![n] = msg.marker]
           /\ bestRecord' = [bestRecord EXCEPT ![n] = msg.record]
      ELSE UNCHANGED <<bestMarker, bestRecord>>
  BY DEF ImproveBestCert
<1> HIDE DEF table, certs
<1>5. bestCycleCert'[n] = table /\ \A q \in Node \ {n} : bestCycleCert'[q] = bestCycleCert[q]
  BY <1>1, <1>2
<1>6. \A q \in Node \ {n} : bestMarker'[q] = bestMarker[q] /\ bestRecord'[q] = bestRecord[q]
  BY <1>1, <1>4
<1>7. Improves(n, msg) => bestMarker'[n] = msg.marker /\ bestRecord'[n] = msg.record
  BY <1>1, <1>4
<1> QED
  BY <1>2, <1>3, <1>4, <1>5, <1>6, <1>7 DEF certs

LEMMA ImproveCertsFor ==
  ASSUME CertInv, NEW n \in Node, NEW msg, GoodVote(msg), ImproveBestCert(n, msg)
  PROVE  /\ \A q \in Node \ {n} : \A m : CertsFor(q, m)' = CertsFor(q, m)
         /\ \A m : CertsFor(n, m)' = IF m = msg.marker THEN MergedCerts(n, msg) ELSE CertsFor(n, m)
BY ImproveEffect DEF CertsFor

LEMMA ImproveScores ==
  ASSUME ReliableInv, CertInv', NEW n \in Node, Scoring(n),
         NEW msg, GoodVote(msg), msg.owners # <<>>, ImproveBestCert(n, msg),
         msg.record.counter = Len(chain[n]), creator[n] # "fetch",
         UNCHANGED <<creator, chain, prevMarkerCached>>
  PROVE  ScoreInv'
<1> USE DEF ReliableInv, AgreeInv
<1> DEFINE merged == MergedCerts(n, msg)
<1>1. /\ \A q \in Node \ {n} :
           /\ bestMarker'[q] = bestMarker[q] /\ bestRecord'[q] = bestRecord[q]
           /\ bestCycleCert'[q] = bestCycleCert[q] /\ bestCertScore'[q] = bestCertScore[q]
      /\ DOMAIN bestCycleCert'[n] = DOMAIN bestCycleCert[n] \cup {msg.marker}
      /\ bestCycleCert'[n][msg.marker] = merged
      /\ \A m \in DOMAIN bestCycleCert[n] \ {msg.marker} : bestCycleCert'[n][m] = bestCycleCert[n][m]
      /\ Improves(n, msg) => bestMarker'[n] = msg.marker /\ bestRecord'[n] = msg.record
      /\ ~Improves(n, msg) => bestMarker'[n] = bestMarker[n] /\ bestRecord'[n] = bestRecord[n]
  BY ImproveEffect
<1>2. merged # <<>> /\ IsScored(merged, prevMarkerCached[n])
  BY MergedFacts
<1>3. ASSUME NEW q \in Node, q # n PROVE Scores(q)'
  <2>1. Scores(q)
    BY DEF ScoreInv
  <2>2. BestScore(q)' = BestScore(q) /\ (Scoring(q)' <=> Scoring(q))
    BY <1>1, <1>3 DEF BestScore, Scoring
  <2> QED
    BY <1>1, <1>3, <2>1, <2>2 DEF Scores, IsScored
<1>4. Scores(n)'
  <2>1. Scores(n)
    BY DEF ScoreInv
  <2>2. ASSUME NEW m \in DOMAIN bestCycleCert'[n]
        PROVE  bestCycleCert'[n][m] # <<>> /\ IsScored(bestCycleCert'[n][m], prevMarkerCached[n])
    <3>1. CASE m = msg.marker
      BY <1>1, <1>2, <3>1
    <3>2. CASE m # msg.marker
      BY <1>1, <2>1, <3>2 DEF Scores
    <3> QED
      BY <3>1, <3>2
  <2>3. ASSUME bestMarker'[n] # NoMarker PROVE BestScore(n)' > 0
    <3> DEFINE m == bestMarker'[n]
    <3>1. m \in DOMAIN bestCycleCert'[n] /\ BestScore(n)' = TotalScore(bestCycleCert'[n][m])
      BY <2>3 DEF CertInv, Bests, BestIsMax, BestScore
    <3>2. TotalScore(merged) \in Nat /\ TotalScore(merged) >= TotalScore(CertsFor(n, msg.marker))
      BY MergedGood
    <3>3. BestScore(n) \in Nat
      BY NoBestScore
    <3> HIDE DEF merged
    <3>4. CASE Improves(n, msg)
      <4>1. TotalScore(merged) > BestScore(n)
        BY <3>4 DEF Improves, merged
      <4> QED
        BY <1>1, <3>1, <3>2, <3>3, <3>4, <4>1
    <3>5. CASE ~Improves(n, msg)
      <4>1. m = bestMarker[n] /\ m # NoMarker
        BY <1>1, <2>3, <3>5
      <4>2. /\ BestScore(n) = TotalScore(bestCycleCert[n][m]) /\ BestScore(n) > 0
            /\ CertsFor(n, m) = bestCycleCert[n][m] /\ m \in DOMAIN bestCycleCert[n]
        BY <4>1, BestFacts
      <4>3. CASE m = msg.marker
        BY <1>1, <3>1, <3>2, <3>3, <4>2, <4>3
      <4>4. CASE m # msg.marker
        BY <1>1, <3>1, <4>2, <4>4
      <4> QED
        BY <4>3, <4>4
    <3> QED
      BY <3>4, <3>5
  <2>4. creator[n] \in {"timer", "fetch"} =>
          /\ \A m \in DOMAIN bestCycleCert'[n] : m[1].counter = Len(chain[n])
          /\ bestMarker'[n] = NoMarker => bestRecord'[n] = NoRecord
          /\ bestMarker'[n] # NoMarker => bestMarker'[n] = Marker(bestRecord'[n])
    <3>1. msg.marker = Marker(msg.record) /\ msg.marker[1] = msg.record /\ msg.marker # NoMarker
      BY DEF GoodVote, Marker, NoMarker
    <3> QED
      BY <1>1, <2>1, <3>1 DEF Scores
  <2> QED
    BY <2>2, <2>3, <2>4 DEF Scores
<1> QED
  BY <1>3, <1>4 DEF ScoreInv
-----------------------------------------------------------------------------
(* MyBest and CoversBest after a step, for a given marker.                 *)
LEMMA MyBestNext ==
  ASSUME NEW n \in Node, NEW m, m = bestMarker'[n]
  PROVE  MyBest(n)' = Message(m, CertsFor(n, m)', bestRecord'[n])
BY DEF MyBest, CertsFor, Message, OwnersOf

LEMMA MyBestNow ==
  ASSUME NEW n \in Node, NEW m, m = bestMarker[n]
  PROVE  MyBest(n) = Message(m, CertsFor(n, m), bestRecord[n])
BY DEF MyBest

LEMMA CoversBestNext ==
  ASSUME NEW n \in Node, NEW p \in Node, NEW m, m = bestMarker'[n]
  PROVE  CoversBest(p, n)' <=>
           \A i \in DOMAIN (CertsFor(n, m)') : Covers(CertsFor(p, m)', CertsFor(n, m)'[i])
BY DEF CoversBest, CertsFor, Covers

LEMMA CoversBestNow ==
  ASSUME NEW n \in Node, NEW p \in Node, NEW m, m = bestMarker[n]
  PROVE  CoversBest(p, n) <=>
           \A i \in DOMAIN CertsFor(n, m) : Covers(CertsFor(p, m), CertsFor(n, m)[i])
BY DEF CoversBest

(* Who improves its best gossips all of it, and who receives the best of   *)
(* another has it covered from then on.                                    *)
LEMMA ImproveHeard ==
  ASSUME Reliable, ReliableInv, NEW n \in Node, Running(n), Scoring(n),
         NEW msg, GoodVote(msg), \A i \in DOMAIN msg.owners : msg.owners[i] \in Active,
         ImproveBestCert(n, msg),
         NEW lost, \A h \in lost : h.to = n /\ h.msg = msg,
         gossip' = (gossip \ lost) \cup (IF Improves(n, msg) THEN BestGossip(n, msg) ELSE {}),
         UNCHANGED <<creator, chain, prevMarkerCached>>
  PROVE  HeardInv'
<1> USE DEF ReliableInv, AgreeInv
<1> DEFINE merged == MergedCerts(n, msg)
<1> SUFFICES ASSUME NEW a \in Node, NEW b \in Node, a # b,
                    Current(a), Current(b), Len(chain[a]) = Len(chain[b]), bestMarker'[a] # NoMarker
             PROVE  [to |-> b, msg |-> MyBest(a)'] \in gossip' \/ CoversBest(b, a)'
  BY DEF HeardInv, Heard, Current, Newest
<1>1. /\ \A q \in Node \ {n} : bestMarker'[q] = bestMarker[q] /\ bestRecord'[q] = bestRecord[q]
      /\ Improves(n, msg) => bestMarker'[n] = msg.marker /\ bestRecord'[n] = msg.record
      /\ ~Improves(n, msg) => bestMarker'[n] = bestMarker[n] /\ bestRecord'[n] = bestRecord[n]
  BY ImproveEffect
<1>2. /\ \A q \in Node \ {n} : \A m : CertsFor(q, m)' = CertsFor(q, m)
      /\ \A m : CertsFor(n, m)' = IF m = msg.marker THEN merged ELSE CertsFor(n, m)
  BY ImproveCertsFor
<1> PICK m : m = bestMarker[a]
  OBVIOUS
<1>4. CASE a = n /\ Improves(n, msg)
  <2>1. MyBest(a)' = Message(msg.marker, merged, msg.record)
    <3> PICK k : k = msg.marker
      OBVIOUS
    <3>1. k = bestMarker'[n] /\ bestRecord'[n] = msg.record
      BY <1>1, <1>4
    <3>2. CertsFor(n, k)' = merged
      BY <1>2
    <3>3. MyBest(n)' = Message(k, CertsFor(n, k)', bestRecord'[n])
      BY <3>1, MyBestNext
    <3> QED
      BY <1>4, <3>1, <3>2, <3>3
  <2>2. [to |-> b, msg |-> MyBest(a)'] \in BestGossip(n, msg)
    BY <1>4, <2>1 DEF BestGossip, Running, Current
  <2> QED
    BY <1>4, <2>2
<1>5. CASE a = n /\ ~Improves(n, msg)
  <2>1. m = bestMarker[n] /\ m # NoMarker /\ bestMarker'[n] = m /\ bestRecord'[n] = bestRecord[n]
    BY <1>1, <1>5
  <2>2. CertsFor(n, m)' = CertsFor(n, m)
    <3>1. CASE m # msg.marker
      BY <1>2, <3>1
    <3>2. CASE m = msg.marker
      <4>1. /\ TotalScore(merged) \in Nat
            /\ TotalScore(merged) >= TotalScore(CertsFor(n, m))
        BY <3>2, MergedGood
      <4>2. /\ BestScore(n) = TotalScore(CertsFor(n, m)) /\ BestScore(n) \in Nat
            /\ prevMarkerCached[n] # NoMarker /\ GoodMarker(prevMarkerCached[n])
        BY <2>1, BestFacts
      <4>3. ~(TotalScore(merged) > BestScore(n))
        BY <1>5 DEF Improves
      <4>4. TotalScore(merged) = TotalScore(CertsFor(n, msg.marker))
        BY <3>2, <4>1, <4>2, <4>3
      <4>5. \A j \in DOMAIN msg.owners : Rated(n, msg.owners[j]).score > 0
        BY <4>2, ScorePositive DEF Rated
      <4>6. merged = CertsFor(n, msg.marker)
        BY <4>4, <4>5, MergedFacts
      <4> QED
        BY <1>2, <3>2, <4>6
    <3> QED
      BY <3>1, <3>2
  <2>3. MyBest(n)' = MyBest(n)
    BY <2>1, <2>2, MyBestNow, MyBestNext
  <2>4. [to |-> b, msg |-> MyBest(n)] \in gossip \/ CoversBest(b, n)
    BY <1>5, <2>1 DEF HeardInv, Heard
  <2>5. CASE CoversBest(b, n)
    <3>1. CertsFor(b, m)' = CertsFor(b, m)
      BY <1>2, <1>5
    <3>2. CoversBest(b, n)'
      BY <2>1, <2>2, <2>5, <3>1, CoversBestNow, CoversBestNext
    <3> QED
      BY <1>5, <3>2
  <2>6. CASE [to |-> b, msg |-> MyBest(n)] \in gossip
    BY <1>5, <2>3, <2>6
  <2> QED
    BY <2>4, <2>5, <2>6
<1>6. CASE a # n
  <2>1. m # NoMarker /\ bestMarker'[a] = m /\ bestRecord'[a] = bestRecord[a]
        /\ CertsFor(a, m)' = CertsFor(a, m)
    BY <1>1, <1>2, <1>6
  <2>2. MyBest(a)' = MyBest(a)
    BY <2>1, MyBestNow, MyBestNext
  <2>3. [to |-> b, msg |-> MyBest(a)] \in gossip \/ CoversBest(b, a)
    BY <2>1 DEF HeardInv, Heard
  <2>4. Scoring(a)
    BY DEF Scoring, Current
  <2>5. CASE CoversBest(b, a)
    <3>1. \A i \in DOMAIN CertsFor(a, m) : CertsFor(a, m)[i] \in Cert(Node)
      <4>1. CertsFor(a, m) \in Certs(Node) /\ WellFormed(CertsFor(a, m))
        BY CertsForGood
      <4> QED
        BY <4>1, CertListDomain
    <3>2. \A i \in DOMAIN CertsFor(a, m) : Covers(CertsFor(b, m), CertsFor(a, m)[i])
      BY <2>5, CoversBestNow
    <3>3. \A i \in DOMAIN CertsFor(a, m) : Covers(CertsFor(b, m)', CertsFor(a, m)[i])
      <4>1. CASE b = n /\ m = msg.marker
        <5>1. CertsFor(b, m)' = merged
          BY <1>2, <4>1
        <5>2. \A c \in Cert(Node) : Covers(CertsFor(b, m), c) => Covers(merged, c)
          BY <4>1, MergedFacts
        <5> QED
          BY <3>1, <3>2, <5>1, <5>2
      <4>2. CASE ~(b = n /\ m = msg.marker)
        <5>1. CertsFor(b, m)' = CertsFor(b, m)
          BY <1>2, <4>2
        <5> QED
          BY <3>2, <5>1
      <4> QED
        BY <4>1, <4>2
    <3>4. CoversBest(b, a)'
      BY <2>1, <3>3, CoversBestNext
    <3> QED
      BY <3>4
  <2>6. CASE [to |-> b, msg |-> MyBest(a)] \in gossip \ lost
    BY <2>2, <2>6
  <2>7. CASE [to |-> b, msg |-> MyBest(a)] \in lost
    <3>1. b = n /\ msg = MyBest(a)
      BY <2>7
    <3>2. /\ msg.marker = m /\ DOMAIN msg.owners = DOMAIN CertsFor(a, m)
          /\ \A i \in DOMAIN CertsFor(a, m) : msg.owners[i] = CertsFor(a, m)[i].owner
      BY <2>1, <3>1, MyBestValid
    <3>3. /\ CertsFor(a, m) \in Certs(Node) /\ WellFormed(CertsFor(a, m))
          /\ IsScored(CertsFor(a, m), prevMarkerCached[a])
      BY <2>4, CertsForScored
    <3>4. prevMarkerCached[a] = prevMarkerCached[n]
      BY <3>1, SameScale
    <3>5. /\ DOMAIN CertsFor(a, m) \subseteq 1 .. 3
          /\ \A i \in DOMAIN CertsFor(a, m) : CertsFor(a, m)[i] \in Cert(Node)
      BY <3>3, CertListDomain
    <3>6. \A i \in DOMAIN CertsFor(a, m) : CertsFor(a, m)[i] = Rated(n, msg.owners[i])
      BY <3>2, <3>3, <3>4, <3>5 DEF IsScored, Rated, Cert
    <3>7. \A j \in DOMAIN msg.owners \cap (1 .. 3) : Covers(merged, Rated(n, msg.owners[j]))
      BY MergedFacts
    <3>8. \A i \in DOMAIN CertsFor(a, m) : Covers(merged, CertsFor(a, m)[i])
      BY <3>2, <3>5, <3>6, <3>7
    <3>9. CertsFor(n, m)' = merged
      BY <1>2, <3>2
    <3>10. CoversBest(b, a)'
      BY <2>1, <3>1, <3>8, <3>9, CoversBestNext
    <3> QED
      BY <3>10
  <2> QED
    BY <2>3, <2>5, <2>6, <2>7
<1> QED
  BY <1>4, <1>5, <1>6
-----------------------------------------------------------------------------
(* What keeps the parts of the invariant.                                  *)
LEMMA KeepOnTime ==
  ASSUME CertInv, OnTimeInv, UNCHANGED <<clock, chain, creator, timers, prevMarkerCached, currentCycle>>,
         \A q \in Node : creator[q] = "off" => cacheOfCycleCerts'[q] = cacheOfCycleCerts[q],
         \A q \in Node : bestMarker[q] # NoMarker => bestMarker'[q] # NoMarker
  PROVE  OnTimeInv'
<1>1. \A q \in Node : OnTime(q)'
  BY DEF OnTimeInv, OnTime, Running, Base, Newest
<1>2. \A q \in Active : ActiveOnTime(q)'
  BY CertAssumption DEF OnTimeInv, ActiveOnTime, Current, Base, Newest
<1> QED
  BY <1>1, <1>2 DEF OnTimeInv

LEMMA FiredOnTime ==
  ASSUME CertInv, OnTimeInv, NEW n \in Node, NEW k \in {1, 3, 4}, Fired(n, k), creator[n] = "timer",
         UNCHANGED <<clock, chain, creator, prevMarkerCached, currentCycle>>,
         \A q \in Node : creator[q] = "off" => cacheOfCycleCerts'[q] = cacheOfCycleCerts[q],
         \A q \in Node : bestMarker[q] # NoMarker => bestMarker'[q] # NoMarker,
         k = 3 /\ n \in Active => bestMarker'[n] # NoMarker
  PROVE  OnTimeInv'
<1>1. /\ \A q \in Node \ {n} : timers'[q] = timers[q]
      /\ timers'[n].base = timers[n].base /\ timers'[n].pending = timers[n].pending \ {k}
  <2>1. timers \in [Node -> [base : Nat, pending : SUBSET (1 .. 5)]]
    BY DEF CertInv, Shape
  <2>2. timers[n] \in [base : Nat, pending : SUBSET (1 .. 5)]
    BY <2>1
  <2>3. timers'[n] = [timers[n] EXCEPT !.pending = @ \ {k}]
    BY <2>1 DEF Fired
  <2> QED
    BY <2>1, <2>2, <2>3 DEF Fired
<1>2. ASSUME NEW q \in Node PROVE OnTime(q)'
  <2>1. OnTime(q)
    BY DEF OnTimeInv
  <2>2. CASE q # n
    BY <1>1, <2>1, <2>2 DEF OnTime, Running, Base, Newest
  <2>3. CASE q = n
    BY <1>1, <2>1, <2>3 DEF OnTime, Running, Base, Newest
  <2> QED
    BY <2>2, <2>3
<1>3. ASSUME NEW q \in Active PROVE ActiveOnTime(q)'
  <2>1. ActiveOnTime(q) /\ q \in Node
    BY CertAssumption DEF OnTimeInv
  <2>2. CASE q # n
    BY <1>1, <2>1, <2>2 DEF ActiveOnTime, Current, Base, Newest
  <2>3. CASE q = n
    BY <1>1, <2>1, <2>3 DEF ActiveOnTime, Current, Base, Newest
  <2> QED
    BY <2>2, <2>3
<1> QED
  BY <1>2, <1>3 DEF OnTimeInv

LEMMA KeepScores ==
  ASSUME ScoreInv, UNCHANGED <<creator, chain, prevMarkerCached, bestVars>>
  PROVE  ScoreInv'
BY DEF ScoreInv, Scores, Scoring, IsScored, BestScore, bestVars

LEMMA KeepMade ==
  ASSUME MadeInv, CertInv, UNCHANGED chain, NoNewVotes, clock' \in Nat, clock' >= clock,
         gossip' # {} => clock' % 4 = 2, VoteInv
  PROVE  MadeInv'
<1> SUFFICES ASSUME NEW o, NEW m, Voted(o, m)' PROVE MadeOnTime(m)'
  BY DEF MadeInv
<1>1. Voted(o, m) /\ MadeOnTime(m) /\ m[1].counter \in Nat /\ clock \in Nat
  BY DEF NoNewVotes, MadeInv, VoteInv, VotesUpToNext, CertInv, Shape
<1> QED
  BY <1>1 DEF MadeOnTime

LEMMA KeepHeard ==
  ASSUME HeardInv, UNCHANGED <<creator, chain, prevMarkerCached, bestVars, gossip>>
  PROVE  HeardInv'
<1>1. \A q \in Node : MyBest(q)' = MyBest(q)
  BY DEF MyBest, CertsFor, bestVars
<1>2. \A q, p \in Node : CoversBest(p, q)' <=> CoversBest(p, q)
  BY DEF CoversBest, CertsFor, bestVars
<1>3. \A q \in Node : Current(q)' <=> Current(q)
  BY DEF Current, Newest
<1> SUFFICES ASSUME NEW a \in Node, NEW b \in Node PROVE Heard(a, b)'
  BY DEF HeardInv
<1>4. Heard(a, b)
  BY DEF HeardInv
<1>5. /\ Current(a)' <=> Current(a)
      /\ Current(b)' <=> Current(b)
      /\ MyBest(a)' = MyBest(a)
      /\ CoversBest(b, a)' <=> CoversBest(b, a)
  BY <1>1, <1>2, <1>3
<1> SUFFICES ASSUME Current(a)', Current(b)', a # b, (Len(chain[a]) = Len(chain[b]))',
                    (bestMarker[a] # NoMarker)'
             PROVE  ([to |-> b, msg |-> MyBest(a)] \in gossip)' \/ CoversBest(b, a)'
  BY DEF Heard
<1>6. [to |-> b, msg |-> MyBest(a)] \in gossip \/ CoversBest(b, a)
  BY <1>4, <1>5 DEF Heard, bestVars
<1> QED
  BY <1>5, <1>6

LEMMA KeepComparing ==
  ASSUME CompareInv,
         UNCHANGED <<compare, creator, clock, chain, currentCycle, currentQuarter, bestVars>>
  PROVE  CompareInv'
<1>1. \A q : MyBest(q)' = MyBest(q)
  BY DEF MyBest, CertsFor, bestVars
<1> SUFFICES ASSUME NEW q \in Node PROVE Comparing(q)'
  BY DEF CompareInv
<1>2. Comparing(q)
  BY DEF CompareInv
<1>3. MyBest(q)' = MyBest(q) /\ MyBest(compare[q].peer)' = MyBest(compare[q].peer)
  BY <1>1
<1>4. UNCHANGED <<compare, creator, clock, chain, currentCycle, currentQuarter, bestMarker>>
  BY DEF bestVars
<1> QED
  BY <1>2, <1>3, <1>4 DEF Comparing, Base, Others

LEMMA NoneComparing ==
  ASSUME UNCHANGED compare, \A q \in Node : compare[q].state = "idle"
  PROVE  CompareInv'
BY DEF CompareInv, Comparing

LEMMA KeepDecided ==
  ASSUME DecidedInv, UNCHANGED <<creator, chain, bestVars>>
  PROVE  DecidedInv'
BY DEF DecidedInv, Decided, bestVars

LEMMA KeepCached ==
  ASSUME CacheInv, UNCHANGED <<cacheOfCycleCerts, creator, chain, clock, bestMarker>>
  PROVE  CacheInv'
BY DEF CacheInv, CachedOnTime, Base, Newest

(* Improving certificates in the third quarter.                            *)
LEMMA ImproveAgrees ==
  ASSUME Reliable, ReliableInv, CertInv', NEW n \in Node, Running(n), clock % 4 = 2,
         NEW msg, GoodVote(msg), msg.owners # <<>>, msg.record.counter = Len(chain[n]),
         \A i \in DOMAIN msg.owners : msg.owners[i] \in Active,
         ImproveBestCert(n, msg),
         NEW lost, \A h \in lost : h.to = n /\ h.msg = msg,
         gossip' = (gossip \ lost) \cup (IF Improves(n, msg) THEN BestGossip(n, msg) ELSE {}),
         UNCHANGED <<clock, creator, chain, prevMarkerCached, compare, cacheOfCycleCerts>>
  PROVE  /\ ScoreInv' /\ HeardInv' /\ CompareInv' /\ DecidedInv' /\ CacheInv'
         /\ \A q \in Node : bestMarker[q] # NoMarker => bestMarker'[q] # NoMarker
         /\ Current(n) => bestMarker'[n] # NoMarker
<1> USE DEF ReliableInv, AgreeInv
<1>1. \A q \in Node :
        /\ compare[q].state = "idle"
        /\ Len(chain[q]) \notin DOMAIN cacheOfCycleCerts[q]
        /\ Running(q) => /\ Scoring(q) /\ creator[q] # "fetch"
                         /\ \A p \in Node : Len(chain[p]) <= Len(chain[q])
  BY ThirdQuarter
<1>2. ScoreInv'
  BY <1>1, ImproveScores
<1>3. HeardInv'
  BY <1>1, ImproveHeard
<1>4. CompareInv'
  BY <1>1, NoneComparing
<1>5. DecidedInv'
  <2>1. \A q, p \in Node : Decided(q, p)'
    <3> SUFFICES ASSUME NEW q \in Node, NEW p \in Node, creator[q] = "timer",
                        Len(chain[p]) > Len(chain[q])
                 PROVE  FALSE
      BY DEF Decided
    <3>1. Running(q) /\ Len(chain[q]) \in Nat /\ Len(chain[p]) \in Nat
      BY ChainLength DEF Running
    <3> QED
      BY <1>1, <3>1
  <2> QED
    BY <2>1 DEF DecidedInv
<1>6. CacheInv'
  BY <1>1 DEF CacheInv, CachedOnTime, Base, Newest
<1>7. \A q \in Node : bestMarker[q] # NoMarker => bestMarker'[q] # NoMarker
  BY ImproveKeeps, ImproveEffect
<1>8. Current(n) => bestMarker'[n] # NoMarker
  <2> SUFFICES ASSUME Current(n), bestMarker[n] = NoMarker PROVE bestMarker'[n] # NoMarker
    BY <1>7
  <2>1. Scoring(n) /\ GoodMarker(prevMarkerCached[n]) /\ prevMarkerCached[n] # NoMarker
    BY DEF Scoring, Current, CertInv, PrevMarkers, Marker, NoMarker
  <2>2. BestScore(n) = 0
    BY <2>1, NoBestScore
  <2> DEFINE merged == MergedCerts(n, msg)
  <2>3. /\ merged \in Certs(Node) /\ WellFormed(merged)
        /\ Owners(merged) \subseteq
             Owners(CertsFor(n, msg.marker)) \cup {msg.owners[i] : i \in DOMAIN msg.owners}
    BY MergedGood
  <2>4. IsScored(merged, prevMarkerCached[n]) /\ merged # <<>>
    BY <2>1, MergedFacts
  <2>5. Owners(merged) \subseteq Active
    BY <2>1, <2>3, CertsForScored
  <2>6. Len(merged) > 0
    <3> HIDE DEF merged
    <3> QED
      BY <2>3, <2>4 DEF Certs
  <2>7. TotalScore(merged) > 0
    BY <2>1, <2>3, <2>4, <2>5, <2>6, TotalPositive
  <2>8. Improves(n, msg)
    BY <2>2, <2>7 DEF Improves
  <2>9. bestMarker'[n] = msg.marker
    BY <2>8, ImproveEffect
  <2> QED
    BY <2>9 DEF GoodVote, Marker, NoMarker
<1> QED
  BY <1>2, <1>3, <1>4, <1>5, <1>6, <1>7, <1>8
-----------------------------------------------------------------------------
(* The timers.                                                             *)
LEMMA DueNow ==
  ASSUME ReliableInv, NEW n \in Node, NEW k \in 1 .. 5, Due(n, k)
  PROVE  /\ clock = Base(n) + k - 1 /\ creator[n] = "timer"
         /\ Base(n) \in Nat /\ clock \in Nat /\ Len(chain[n]) \in Nat \ {0}
         /\ clock % 4 = IF k = 5 THEN 0 ELSE k - 1
         /\ timers[n].base = Base(n) /\ k \in timers[n].pending
         /\ \A q \in timers[n].pending : k <= q
<1> USE DEF ReliableInv, AgreeInv
<1>1. OnTime(n)
  BY DEF OnTimeInv
<1>2. creator[n] = "timer" /\ k \in timers[n].pending /\ clock >= timers[n].base + k - 1
      /\ \A q \in timers[n].pending : k <= q
  BY DEF Due
<1>3. timers[n].base = Base(n) /\ clock <= Base(n) + k - 1
  BY <1>1, <1>2 DEF OnTime
<1>4. Base(n) \in Nat /\ clock \in Nat /\ Len(chain[n]) \in Nat \ {0} /\ Base(n) = 4 * (Len(chain[n]) - 1)
  BY BaseIsNat
<1>5. clock = Base(n) + k - 1
  BY <1>2, <1>3, <1>4
<1>6. clock % 4 = IF k = 5 THEN 0 ELSE k - 1
  <2> DEFINE j == Len(chain[n]) - 1
  <2>1. j \in Nat /\ j + 1 \in Nat /\ Base(n) = 4 * j
    BY <1>4
  <2> HIDE DEF j
  <2>2. (4 * j) % 4 = 0 /\ (4 * j + 1) % 4 = 1 /\ (4 * j + 2) % 4 = 2 /\ (4 * j + 3) % 4 = 3
        /\ (4 * (j + 1)) % 4 = 0
    BY <2>1, Quarters
  <2>3. CASE k = 5
    <3>1. clock = 4 * (j + 1)
      BY <1>5, <2>1, <2>3
    <3> QED
      BY <2>2, <2>3, <3>1
  <2>4. CASE k = 1
    <3>1. clock = 4 * j
      BY <1>5, <2>1, <2>4
    <3> QED
      BY <2>2, <2>4, <3>1
  <2>5. CASE k \in 2 .. 4
    <3>1. clock = 4 * j + (k - 1)
      BY <1>5, <2>1, <2>5
    <3> QED
      BY <2>2, <2>5, <3>1
  <2> QED
    BY <2>3, <2>4, <2>5
<1> QED
  BY <1>2, <1>3, <1>4, <1>5, <1>6

LEMMA IdleBefore ==
  ASSUME ReliableInv, NEW n \in Node, clock # Base(n) + 3 \/ creator[n] # "timer"
  PROVE  compare[n].state = "idle"
BY DEF ReliableInv, AgreeInv, CompareInv, Comparing

LEMMA OthersComparing ==
  ASSUME CompareInv, NEW n \in Node, compare[n].state = "idle", UNCHANGED <<compare, clock>>,
         \A q \in Node \ {n} :
           /\ creator'[q] = creator[q] /\ chain'[q] = chain[q] /\ currentCycle'[q] = currentCycle[q]
           /\ currentQuarter'[q] = currentQuarter[q] /\ bestMarker'[q] = bestMarker[q]
           /\ MyBest(q)' = MyBest(q),
         n \notin Active \/ MyBest(n)' = MyBest(n)
  PROVE  CompareInv'
<1> SUFFICES ASSUME NEW q \in Node PROVE Comparing(q)'
  BY DEF CompareInv
<1>1. CASE q = n
  BY <1>1 DEF Comparing
<1>2. CASE q # n
  <2>1. Comparing(q)
    BY DEF CompareInv
  <2>2. compare[q].state = "replied" => MyBest(compare[q].peer)' = MyBest(compare[q].peer)
    BY <2>1, CertAssumption DEF Comparing, Others
  <2> QED
    BY <1>2, <2>1, <2>2 DEF Comparing, Base, Others
<1> QED
  BY <1>1, <1>2

LEMMA SameMyBest ==
  ASSUME UNCHANGED bestVars
  PROVE  \A q : MyBest(q)' = MyBest(q)
BY DEF MyBest, CertsFor, bestVars

LEMMA RunQ1Agrees ==
  ASSUME Reliable, ReliableInv, CertInv', VoteInv', NEW n \in Node, RunQ1(n) PROVE AgreeInv'
<1> USE DEF ReliableInv, AgreeInv
<1>1. /\ Due(n, 1) /\ Fired(n, 1)
      /\ UNCHANGED <<clock, creator, currentCycle, chain, prevMarkerCached, bestVars, compare,
                     cacheOfCycleCerts, gossip, bestMarker>>
      /\ currentQuarter' = [currentQuarter EXCEPT ![n] = 1]
  BY DEF RunQ1, bestVars
<1>2. creator[n] = "timer" /\ clock = Base(n) /\ clock \in Nat /\ Base(n) \in Nat
  BY <1>1, DueNow
<1>3. OnTimeInv'
  BY <1>1, <1>2, FiredOnTime
<1>4. MadeInv'
  <2>1. NoNewVotes
    BY TimerVotes
  <2> QED
    BY <1>1, <1>2, <2>1, KeepMade DEF MadeInv
<1>5. CompareInv'
  <2>1. compare[n].state = "idle"
    BY <1>2, IdleBefore
  <2>2. \A q : MyBest(q)' = MyBest(q)
    BY <1>1, SameMyBest
  <2>3. \A q \in Node \ {n} : currentQuarter'[q] = currentQuarter[q]
    BY <1>1 DEF CertInv, Shape
  <2> QED
    BY <1>1, <2>1, <2>2, <2>3, OthersComparing
<1> QED
  BY <1>1, <1>3, <1>4, <1>5, KeepScores, KeepHeard, KeepDecided, KeepCached

(* No votes of the cycle are known before the third quarter.               *)
LEMMA EmptyBefore ==
  ASSUME ReliableInv, NEW n \in Node, creator[n] = "timer", clock < Base(n) + 2
  PROVE  DOMAIN bestCycleCert[n] = {} /\ bestMarker[n] = NoMarker
<1> USE DEF ReliableInv, AgreeInv
<1>1. Base(n) \in Nat /\ clock \in Nat /\ Len(chain[n]) \in Nat \ {0} /\ Base(n) = 4 * (Len(chain[n]) - 1)
  BY BaseIsNat
<1>2. ASSUME NEW m \in DOMAIN bestCycleCert[n] PROVE FALSE
  <2>1. MadeOnTime(m)
    BY TableFacts DEF Scoring
  <2>2. m[1].counter = Len(chain[n])
    BY DEF ScoreInv, Scores
  <2> QED
    BY <1>1, <2>1, <2>2 DEF MadeOnTime
<1> QED
  BY <1>2 DEF CertInv, Bests

LEMMA RunQ2Agrees ==
  ASSUME Reliable, ReliableInv, CertInv', VoteInv', NEW n \in Node, RunQ2(n) PROVE AgreeInv'
<1> USE DEF ReliableInv, AgreeInv
<1>1. /\ Due(n, 2) /\ timers' = [timers EXCEPT ![n].pending = @ \ {2}]
      /\ UNCHANGED <<clock, creator, currentCycle, chain, bestVars, compare,
                     cacheOfCycleCerts, gossip, bestMarker, bestRecord, bestCycleCert, bestCertScore>>
      /\ currentQuarter' = [currentQuarter EXCEPT ![n] = 2]
      /\ prevMarkerCached' = [prevMarkerCached EXCEPT ![n] = Marker(Newest(n))]
  BY DEF RunQ2, Fired, bestVars
<1>2. /\ creator[n] = "timer" /\ clock = Base(n) + 1 /\ clock \in Nat /\ Base(n) \in Nat
      /\ clock < Base(n) + 2
  BY <1>1, DueNow
<1>3. /\ prevMarkerCached'[n] = Marker(Newest(n))
      /\ \A q \in Node \ {n} : prevMarkerCached'[q] = prevMarkerCached[q]
  BY <1>1 DEF CertInv, PrevMarkers
<1>4. DOMAIN bestCycleCert[n] = {} /\ bestMarker[n] = NoMarker
  BY <1>2, EmptyBefore
<1>5. OnTimeInv'
  <2>1. /\ \A q \in Node \ {n} : timers'[q] = timers[q]
        /\ timers'[n].base = timers[n].base /\ timers'[n].pending = timers[n].pending \ {2}
    <3>1. timers \in [Node -> [base : Nat, pending : SUBSET (1 .. 5)]]
      BY DEF CertInv, Shape
    <3>2. timers[n] \in [base : Nat, pending : SUBSET (1 .. 5)]
      BY <3>1
    <3>3. timers'[n] = [timers[n] EXCEPT !.pending = @ \ {2}]
      BY <1>1, <3>1
    <3> QED
      BY <1>1, <3>1, <3>2, <3>3
  <2>2. ASSUME NEW q \in Node PROVE OnTime(q)'
    <3>1. OnTime(q)
      BY DEF OnTimeInv
    <3>2. CASE q # n
      BY <1>1, <1>3, <2>1, <3>1, <3>2 DEF OnTime, Running, Base, Newest
    <3>3. CASE q = n
      BY <1>1, <1>2, <1>3, <2>1, <3>1, <3>3 DEF OnTime, Running, Base, Newest
    <3> QED
      BY <3>2, <3>3
  <2>3. ASSUME NEW q \in Active PROVE ActiveOnTime(q)'
    <3>1. ActiveOnTime(q) /\ q \in Node
      BY CertAssumption DEF OnTimeInv
    <3>2. CASE q # n
      BY <1>1, <1>3, <2>1, <3>1, <3>2 DEF ActiveOnTime, Current, Base, Newest
    <3>3. CASE q = n
      BY <1>1, <1>2, <1>3, <2>1, <3>1, <3>3 DEF ActiveOnTime, Current, Base, Newest
    <3> QED
      BY <3>2, <3>3
  <2> QED
    BY <1>1, <2>2, <2>3 DEF OnTimeInv
<1>6. ScoreInv'
  <2> SUFFICES ASSUME NEW q \in Node PROVE Scores(q)'
    BY DEF ScoreInv
  <2>1. Scores(q)
    BY DEF ScoreInv
  <2>2. CASE q # n
    BY <1>1, <1>3, <2>1, <2>2 DEF Scores, Scoring, IsScored, BestScore
  <2>3. CASE q = n
    BY <1>1, <1>2, <1>4, <2>1, <2>3 DEF Scores, Scoring, IsScored, BestScore
  <2> QED
    BY <2>2, <2>3
<1>7. MadeInv'
  <2>1. NoNewVotes
    BY TimerVotes
  <2> QED
    BY <1>1, <1>2, <2>1, KeepMade DEF MadeInv
<1>8. \A q : MyBest(q)' = MyBest(q)
  BY <1>1, SameMyBest
<1>9. HeardInv'
  <2> SUFFICES ASSUME NEW a \in Node, NEW b \in Node, Current(a)', Current(b)', a # b,
                      Len(chain[a]) = Len(chain[b]), bestMarker[a] # NoMarker
               PROVE  ([to |-> b, msg |-> MyBest(a)] \in gossip)' \/ CoversBest(b, a)'
    BY <1>1 DEF HeardInv, Heard
  <2>1. a # n
    BY <1>4
  <2>2. creator[a] = "timer" /\ Base(a) \in Nat
    BY <1>1, BaseIsNat DEF Current
  <2>3. Current(a) /\ clock >= Base(a) + 2
    BY <2>2, BestCurrent
  <2>4. b # n
    BY <1>2, <2>2, <2>3 DEF Base
  <2>5. Current(b)
    BY <1>1, <1>3, <2>4 DEF Current, Newest
  <2>6. [to |-> b, msg |-> MyBest(a)] \in gossip \/ CoversBest(b, a)
    BY <2>3, <2>5 DEF HeardInv, Heard
  <2>7. CoversBest(b, a)' <=> CoversBest(b, a)
    BY <1>1 DEF CoversBest, CertsFor
  <2>8. MyBest(a)' = MyBest(a)
    BY <1>8
  <2> QED
    BY <1>1, <2>6, <2>7, <2>8
<1>10. CompareInv'
  <2>1. compare[n].state = "idle"
    BY <1>2, IdleBefore
  <2>2. \A q \in Node \ {n} : currentQuarter'[q] = currentQuarter[q]
    BY <1>1 DEF CertInv, Shape
  <2> QED
    BY <1>1, <1>8, <2>1, <2>2, OthersComparing
<1> QED
  BY <1>1, <1>5, <1>6, <1>7, <1>9, <1>10, KeepDecided, KeepCached

LEMMA RunQ3Agrees ==
  ASSUME Reliable, ReliableInv, CertInv', VoteInv', NEW n \in Node, RunQ3(n) PROVE AgreeInv'
<1> USE DEF ReliableInv, AgreeInv
<1>1. /\ Due(n, 3) /\ Fired(n, 3)
      /\ UNCHANGED <<clock, creator, currentCycle, chain, prevMarkerCached, compare,
                     cacheOfCycleCerts>>
      /\ currentQuarter' = [currentQuarter EXCEPT ![n] = 3]
  BY DEF RunQ3
<1>2. /\ creator[n] = "timer" /\ clock = Base(n) + 2 /\ clock \in Nat /\ Base(n) \in Nat
      /\ clock % 4 = 2 /\ \A q \in timers[n].pending : 3 <= q
      /\ Len(chain[n]) \in Nat \ {0}
  BY <1>1, DueNow
<1>3. CASE n \notin Active
  <2>1. UNCHANGED <<bestVars, gossip, bestMarker>>
    BY <1>3 DEF RunQ3, bestVars
  <2>2. OnTimeInv'
    BY <1>1, <1>2, <1>3, <2>1, FiredOnTime
  <2>3. MadeInv'
    <3>1. NoNewVotes
      BY <1>1, <2>1, SameVotes
    <3> QED
      BY <1>1, <1>2, <2>1, <3>1, KeepMade DEF MadeInv
  <2>4. CompareInv'
    <3>1. \A q \in Node : compare[q].state = "idle"
      BY <1>2, ThirdQuarter
    <3> QED
      BY <1>1, <3>1, NoneComparing
  <2> QED
    BY <1>1, <2>1, <2>2, <2>3, <2>4, KeepScores, KeepHeard, KeepDecided, KeepCached
<1>4. CASE n \in Active
  <2>1. Current(n) /\ Running(n)
    BY <1>2, <1>4 DEF OnTimeInv, ActiveOnTime, Running
  <2> PICK mine :
        /\ \E txs \in TxChoices : mine = OwnVote(n, txs)
        /\ GoodVote(mine) /\ mine.record.counter = Len(chain[n])
        /\ ImproveBestCert(n, mine)
        /\ gossip' = gossip \cup (IF Improves(n, mine) THEN BestGossip(n, mine) ELSE {})
        /\ \A o, m : Voted(o, m)' => Voted(o, m) \/ (o = n /\ m = mine.marker)
    BY <1>4, RunQ3Makes
  <2>2. mine.owners # <<>> /\ \A i \in DOMAIN mine.owners : mine.owners[i] \in Active
    <3>1. mine.owners = <<n>> /\ DOMAIN <<n>> = {1} /\ <<n>> # <<>>
      BY DEF OwnVote
    <3> QED
      BY <1>4, <3>1
  <2> PICK lost : lost = {}
    OBVIOUS
  <2>3. gossip' = (gossip \ lost) \cup (IF Improves(n, mine) THEN BestGossip(n, mine) ELSE {})
        /\ \A h \in lost : h.to = n /\ h.msg = mine
    OBVIOUS
  <2>4. /\ ScoreInv' /\ HeardInv' /\ CompareInv' /\ DecidedInv' /\ CacheInv'
        /\ \A q \in Node : bestMarker[q] # NoMarker => bestMarker'[q] # NoMarker
        /\ bestMarker'[n] # NoMarker
    BY <1>1, <1>2, <2>1, <2>2, <2>3, ImproveAgrees
  <2>5. OnTimeInv'
    BY <1>1, <1>2, <2>4, FiredOnTime
  <2>6. MadeInv'
    <3>1. MadeOnTime(mine.marker)'
      <4> PICK txs \in TxChoices : mine = OwnVote(n, txs)
        OBVIOUS
      <4> DEFINE r == MakeRecord(Newest(n), txs)
      <4>1. mine.marker[1] = r /\ r.counter = Len(chain[n]) /\ mine.record = r
        BY DEF OwnVote, Marker
      <4>2. r.lists = <<>> /\ r.txs = txs /\ r.previous = Marker(Newest(n))
        BY DEF MakeRecord
      <4>3. ASSUME NEW q \in Node, Len(chain[q]) >= Len(chain[n])
            PROVE  Newest(n) = chain[q][Len(chain[n])]
        <5>1. IsChain(chain[q]) /\ IsChain(chain[n])
          BY DEF CertInv, Chains, GoodChain
        <5>2. /\ Len(chain[n]) \in DOMAIN chain[n] \cap DOMAIN chain[q]
              /\ Last(chain[n]) = chain[n][Len(chain[n])]
          BY <4>3, <5>1, ChainLast
        <5> QED
          BY <5>2 DEF DecidedInv, SameLedger, Newest
      <4>4. clock >= 4 * Len(chain[n]) - 2
        BY <1>2 DEF Base
      <4> HIDE DEF r
      <4> QED
        BY SMTT(30), <1>1, <1>2, <4>1, <4>2, <4>3, <4>4 DEF MadeOnTime
    <3>2. ASSUME NEW o, NEW m, Voted(o, m)' PROVE MadeOnTime(m)'
      <4>1. CASE m = mine.marker
        <5> PICK k : k = mine.marker
          OBVIOUS
        <5>1. MadeOnTime(k)'
          BY <3>1 DEF MadeOnTime
        <5> QED
          BY <4>1, <5>1
      <4>2. CASE Voted(o, m)
        <5>1. MadeOnTime(m)
          BY <4>2 DEF MadeInv
        <5> QED
          BY <1>1, <5>1 DEF MadeOnTime
      <4> QED
        BY <3>2, <4>1, <4>2
    <3> QED
      BY <1>1, <1>2, <3>2 DEF MadeInv
  <2> QED
    BY <2>4, <2>5, <2>6
<1> QED
  BY <1>3, <1>4

LEMMA ReceiveGossipAgrees ==
  ASSUME Reliable, ReliableInv, CertInv', VoteInv', NEW g \in gossip, ReceiveGossip(g)
  PROVE  AgreeInv'
<1> USE DEF ReliableInv, AgreeInv
<1> PICK n : n = g.to
  OBVIOUS
<1>1. /\ UNCHANGED <<clock, creator, timers, currentCycle, currentQuarter, chain, prevMarkerCached,
                     compare, cacheOfCycleCerts>>
      /\ n \in Node /\ GoodMessage(g.msg) /\ clock % 4 = 2 /\ clock \in Nat
  BY DEF ReceiveGossip, creatorVars, CertInv, Messages, MadeInv, Shape
<1>2. MadeInv'
  <2>1. NoNewVotes
    BY ReceiveGossipVotes
  <2> QED
    BY <1>1, <2>1, KeepMade DEF MadeInv
<1>3. CASE Running(n) /\ ValidCerts(n, g.msg)
  <2> PICK msg : msg = g.msg
    OBVIOUS
  <2>1. GoodVote(msg) /\ msg.record.counter = Len(chain[n]) /\ msg.owners # <<>>
    BY <1>1, <1>3, ValidIsVote DEF ValidCerts
  <2>2. ASSUME NEW i \in DOMAIN msg.owners PROVE msg.owners[i] \in Active
    <3>1. Voted(msg.owners[i], msg.marker)
      BY DEF Voted, InMessage
    <3> QED
      BY <3>1 DEF VoteInv, VotesUpToNext
  <2> PICK lost : lost = {g}
    OBVIOUS
  <2>3. /\ gossip' = (gossip \ lost) \cup (IF Improves(n, msg) THEN BestGossip(n, msg) ELSE {})
        /\ \A h \in lost : h.to = n /\ h.msg = msg
        /\ ImproveBestCert(n, msg)
    BY <1>3 DEF ReceiveGossip
  <2>4. /\ ScoreInv' /\ HeardInv' /\ CompareInv' /\ DecidedInv' /\ CacheInv'
        /\ \A q \in Node : bestMarker[q] # NoMarker => bestMarker'[q] # NoMarker
    BY <1>1, <1>3, <2>1, <2>2, <2>3, ImproveAgrees
  <2>5. OnTimeInv'
    BY <1>1, <2>4, KeepOnTime
  <2> QED
    BY <1>2, <2>4, <2>5
<1>4. CASE ~(Running(n) /\ ValidCerts(n, g.msg))
  <2>1. gossip' = gossip \ {g} /\ UNCHANGED <<bestVars, bestMarker>>
    BY <1>4 DEF ReceiveGossip, bestVars
  <2>2. OnTimeInv'
    BY <1>1, <2>1, KeepOnTime
  <2>3. HeardInv'
    <3> SUFFICES ASSUME NEW a \in Node, NEW b \in Node, Current(a)', Current(b)', a # b,
                        Len(chain[a]) = Len(chain[b]), bestMarker[a] # NoMarker
                 PROVE  ([to |-> b, msg |-> MyBest(a)] \in gossip)' \/ CoversBest(b, a)'
      BY <1>1, <2>1 DEF HeardInv, Heard
    <3>1. Current(a) /\ Current(b)
      BY <1>1 DEF Current, Newest
    <3>2. [to |-> b, msg |-> MyBest(a)] \in gossip \/ CoversBest(b, a)
      BY <3>1 DEF HeardInv, Heard
    <3>3. MyBest(a)' = MyBest(a)
      BY <2>1, SameMyBest
    <3>4. CoversBest(b, a)' <=> CoversBest(b, a)
      BY <2>1 DEF CoversBest, CertsFor, bestVars
    <3>5. ASSUME g = [to |-> b, msg |-> MyBest(a)] PROVE FALSE
      <4>1. n = b /\ g.msg = MyBest(a)
        BY <3>5
      <4>2. ValidCerts(b, MyBest(a))
        BY <3>1, MyBestValid
      <4>3. Running(b)
        BY <3>1 DEF Running, Current
      <4> QED
        BY <1>4, <4>1, <4>2, <4>3
    <3> QED
      BY <2>1, <3>2, <3>3, <3>4, <3>5
  <2>4. CompareInv'
    BY <1>1, <2>1, KeepComparing
  <2> QED
    BY <1>1, <1>2, <2>1, <2>2, <2>3, <2>4, KeepScores, KeepDecided, KeepCached
<1> QED
  BY <1>3, <1>4
-----------------------------------------------------------------------------
(* The fourth quarter.                                                     *)
LEMMA CacheCertsAgrees ==
  ASSUME CertInv, CacheInv, NEW n \in Node, CacheCerts(n), creator[n] = "timer",
         clock >= Base(n) + 3, currentCycle[n] = Len(chain[n]),
         UNCHANGED <<creator, chain, clock, bestMarker>>
  PROVE  CacheInv' /\ \A q \in Node \ {n} : cacheOfCycleCerts'[q] = cacheOfCycleCerts[q]
<1> DEFINE old == cacheOfCycleCerts[n]
           new == IF bestMarker[n] = NoMarker
                  THEN [c \in DOMAIN old \ {currentCycle[n]} |-> old[c]]
                  ELSE Put(old, currentCycle[n], MyBest(n))
<1>1. cacheOfCycleCerts' = [cacheOfCycleCerts EXCEPT ![n] = new] /\ DOMAIN cacheOfCycleCerts = Node
  BY DEF CacheCerts, CacheInv
<1>2. MyBest(n).marker = bestMarker[n]
  BY DEF MyBest, Message
<1>3. Len(chain[n]) \in Nat \ {0}
  BY ChainLength
<1>4. ASSUME NEW k \in DOMAIN new
      PROVE  \/ k \in DOMAIN old /\ k # Len(chain[n]) /\ new[k] = old[k]
             \/ k = Len(chain[n]) /\ bestMarker[n] # NoMarker /\ new[k].marker = bestMarker[n]
  <2>1. CASE bestMarker[n] = NoMarker
    BY <1>4, <2>1
  <2>2. CASE bestMarker[n] # NoMarker
    <3>1. new = [k2 \in DOMAIN old \cup {currentCycle[n]} |->
                   IF k2 = currentCycle[n] THEN MyBest(n) ELSE old[k2]]
      BY <2>2 DEF Put
    <3> QED
      BY <1>2, <1>4, <2>2, <3>1
  <2> QED
    BY <2>1, <2>2
<1> HIDE DEF new
<1>5. cacheOfCycleCerts'[n] = new /\ DOMAIN cacheOfCycleCerts' = Node
      /\ \A q \in Node \ {n} : cacheOfCycleCerts'[q] = cacheOfCycleCerts[q]
  BY <1>1
<1>6. CachedOnTime(n)'
  <2>1. CachedOnTime(n)
    BY DEF CacheInv
  <2> QED
    BY <1>3, <1>4, <1>5, <2>1 DEF CachedOnTime, Base, Newest
<1>7. \A q \in Node \ {n} : CachedOnTime(q)'
  <2>1. \A q \in Node \ {n} : CachedOnTime(q)
    BY DEF CacheInv
  <2> QED
    BY <1>5, <2>1 DEF CachedOnTime, Base, Newest
<1> QED
  BY <1>5, <1>6, <1>7 DEF CacheInv

LEMMA ChangedComparing ==
  ASSUME CertInv, CompareInv, NEW n \in Node, NEW c, compare' = [compare EXCEPT ![n] = c],
         UNCHANGED <<creator, clock, chain, currentCycle, bestMarker>>,
         \A q \in Node : MyBest(q)' = MyBest(q),
         \A q \in Node \ {n} : currentQuarter'[q] = currentQuarter[q],
         c.state # "idle" =>
           /\ c.state \in {"ask", "sent", "replied"}
           /\ creator[n] = "timer" /\ clock = Base(n) + 3
           /\ c.cycle = currentCycle[n] /\ currentQuarter'[n] = 4
           /\ c.errors = {} /\ c.todo \subseteq Others(n)
           /\ c.state \in {"sent", "replied"} => c.peer \in Others(n) /\ bestMarker[n] # NoMarker
           /\ c.state = "sent" => c.msg = MyBest(n)
           /\ c.state = "replied" => c.msg = MyBest(c.peer)
  PROVE  CompareInv'
<1>1. compare'[n] = c /\ \A q \in Node \ {n} : compare'[q] = compare[q]
  BY DEF CertInv, Compares
<1> SUFFICES ASSUME NEW q \in Node PROVE Comparing(q)'
  BY DEF CompareInv
<1>2. CASE q = n
  <2>1. c.state = "replied" => MyBest(c.peer)' = MyBest(c.peer)
    BY CertAssumption DEF Others
  <2> QED
    BY <1>1, <1>2, <2>1 DEF Comparing, Base, Others
<1>3. CASE q # n
  <2>1. Comparing(q)
    BY DEF CompareInv
  <2> PICK p : p = compare[q].peer
    OBVIOUS
  <2>2. compare[q].state = "replied" => MyBest(p)' = MyBest(p)
    BY <2>1, CertAssumption DEF Comparing, Others
  <2> QED
    BY <1>1, <1>3, <2>1, <2>2 DEF Comparing, Base, Others
<1> QED
  BY <1>2, <1>3

LEMMA PassAgrees ==
  ASSUME CertInv, CompareInv, NEW n \in Node, creator[n] = "timer", clock = Base(n) + 3,
         compare' = [compare EXCEPT ![n] = Pass(n, currentCycle[n])], currentQuarter'[n] = 4,
         \A q \in Node \ {n} : currentQuarter'[q] = currentQuarter[q],
         UNCHANGED <<creator, clock, chain, currentCycle, bestVars>>
  PROVE  CompareInv'
<1> PICK c : c = Pass(n, currentCycle[n])
  OBVIOUS
<1>1. c.state = "ask" /\ c.cycle = currentCycle[n] /\ c.errors = {} /\ c.todo = Others(n)
  BY DEF Pass
<1>2. \A q \in Node : MyBest(q)' = MyBest(q)
  BY SameMyBest
<1> QED
  BY <1>1, <1>2, ChangedComparing DEF bestVars

LEMMA RunQ4Agrees ==
  ASSUME Reliable, ReliableInv, CertInv', VoteInv', NEW n \in Node, RunQ4(n) PROVE AgreeInv'
<1> USE DEF ReliableInv, AgreeInv
<1>1. /\ Due(n, 4) /\ Fired(n, 4)
      /\ UNCHANGED <<clock, creator, currentCycle, chain, prevMarkerCached, bestVars, bestMarker, gossip>>
      /\ currentQuarter' = [currentQuarter EXCEPT ![n] = 4]
  BY DEF RunQ4, bestVars
<1>2. /\ creator[n] = "timer" /\ clock = Base(n) + 3 /\ clock \in Nat /\ Base(n) \in Nat
      /\ Len(chain[n]) \in Nat \ {0}
  BY <1>1, DueNow
<1>3. currentCycle[n] = Len(chain[n])
  BY <1>2 DEF OnTimeInv, OnTime
<1>4. currentQuarter'[n] = 4 /\ \A q \in Node \ {n} : currentQuarter'[q] = currentQuarter[q]
  BY <1>1 DEF CertInv, Shape
<1>5. CacheInv' /\ \A q \in Node \ {n} : cacheOfCycleCerts'[q] = cacheOfCycleCerts[q]
  <2>1. CASE UNCHANGED cacheOfCycleCerts
    BY <1>1, <2>1, KeepCached
  <2>2. CASE CacheCerts(n)
    BY <1>1, <1>2, <1>3, <2>2, CacheCertsAgrees
  <2> QED
    BY <2>1, <2>2 DEF RunQ4
<1>6. CompareInv'
  <2>1. CASE compare' = [compare EXCEPT ![n] = Pass(n, currentCycle[n])]
    BY <1>1, <1>2, <1>4, <2>1, PassAgrees
  <2>2. CASE UNCHANGED compare
    <3> SUFFICES ASSUME NEW q \in Node PROVE Comparing(q)'
      BY DEF CompareInv
    <3>1. Comparing(q)
      BY DEF CompareInv
    <3>2. \A r : MyBest(r)' = MyBest(r)
      BY <1>1, SameMyBest
    <3> PICK p : p = compare[q].peer
      OBVIOUS
    <3>3. MyBest(q)' = MyBest(q) /\ MyBest(p)' = MyBest(p)
      BY <3>2
    <3>4. currentQuarter[q] = 4 => currentQuarter'[q] = 4
      BY <1>4
    <3> QED
      BY <1>1, <2>2, <3>1, <3>3, <3>4 DEF Comparing, Base, Others
  <2> QED
    BY <2>1, <2>2 DEF RunQ4
<1>7. OnTimeInv'
  BY <1>1, <1>2, <1>5, FiredOnTime
<1>8. MadeInv'
  <2>1. NoNewVotes
    BY TimerVotes
  <2> QED
    BY <1>1, <1>2, <2>1, KeepMade DEF MadeInv
<1> QED
  BY <1>1, <1>5, <1>6, <1>7, <1>8, KeepScores, KeepHeard, KeepDecided
-----------------------------------------------------------------------------
(* Comparisons.  Nothing fails, so one always ends with a match.           *)
LEMMA AlwaysMatched ==
  ASSUME NEW n \in Node
  PROVE  Matched(n, {})
<1>1. IsFiniteSet(Others(n))
  <2>1. Others(n) \subseteq Node /\ IsFiniteSet(Node)
    BY CertAssumption DEF Others
  <2> QED
    BY <2>1, FS_Subset
<1>2. Cardinality(Others(n)) \in Nat /\ Cardinality({}) = 0
  BY <1>1, FS_CardinalityType, FS_EmptySet
<1> QED
  BY <1>2 DEF Matched, Matches, DESIRED_CERT_MATCHES

LEMMA EndCompareAgrees ==
  ASSUME ReliableInv, NEW n \in Node, compare[n].state # "idle", EndCompare(n, {}),
         UNCHANGED <<creator, clock, chain, currentCycle, currentQuarter, bestVars>>
  PROVE  /\ CompareInv' /\ CacheInv'
         /\ \A q \in Node \ {n} : cacheOfCycleCerts'[q] = cacheOfCycleCerts[q]
<1> USE DEF ReliableInv, AgreeInv
<1>1. CacheCerts(n) /\ compare' = [compare EXCEPT ![n] = Idle]
  BY AlwaysMatched DEF EndCompare
<1>2. creator[n] = "timer" /\ clock = Base(n) + 3 /\ Base(n) \in Nat /\ clock \in Nat
  BY BaseIsNat DEF CompareInv, Comparing
<1>3. currentCycle[n] = Len(chain[n])
  BY <1>2 DEF OnTimeInv, OnTime
<1>4. CacheInv' /\ \A q \in Node \ {n} : cacheOfCycleCerts'[q] = cacheOfCycleCerts[q]
  BY <1>1, <1>2, <1>3, CacheCertsAgrees DEF bestVars
<1>5. CompareInv'
  <2> PICK c : c = Idle
    OBVIOUS
  <2>1. c.state = "idle"
    BY DEF Idle
  <2>2. \A q \in Node : MyBest(q)' = MyBest(q)
    BY SameMyBest
  <2> QED
    BY <1>1, <2>1, <2>2, ChangedComparing DEF bestVars
<1> QED
  BY <1>4, <1>5

LEMMA NextNodeAgrees ==
  ASSUME ReliableInv, NEW n \in Node, compare[n].state # "idle", NEW matched,
         NextNode(n, matched, {}),
         UNCHANGED <<creator, clock, chain, currentCycle, currentQuarter, bestVars>>
  PROVE  /\ CompareInv' /\ CacheInv'
         /\ \A q \in Node \ {n} : cacheOfCycleCerts'[q] = cacheOfCycleCerts[q]
<1> USE DEF ReliableInv, AgreeInv
<1>1. CASE compare[n].todo = {} \/ matched >= Matches(n)
  BY <1>1, EndCompareAgrees DEF NextNode
<1>2. CASE ~(compare[n].todo = {} \/ matched >= Matches(n))
  <2> PICK c : c = [state |-> "ask", cycle |-> compare[n].cycle, todo |-> compare[n].todo,
                    matched |-> matched, errors |-> {}]
    OBVIOUS
  <2>1. compare' = [compare EXCEPT ![n] = c] /\ UNCHANGED cacheOfCycleCerts
    BY <1>2 DEF NextNode
  <2>2. c.state = "ask" /\ c.cycle = compare[n].cycle /\ c.todo = compare[n].todo /\ c.errors = {}
    OBVIOUS
  <2>3. \A q \in Node : MyBest(q)' = MyBest(q)
    BY SameMyBest
  <2>4. CompareInv'
    BY <2>1, <2>2, <2>3, ChangedComparing DEF bestVars, CompareInv, Comparing
  <2>5. CacheInv'
    BY <2>1, KeepCached DEF bestVars
  <2> QED
    BY <2>1, <2>4, <2>5
<1> QED
  BY <1>1, <1>2

(* The rest of the invariant, for a step of a comparison.                  *)
LEMMA CompareFrame ==
  ASSUME Reliable, ReliableInv, CertInv', NoNewVotes, CompareInv', CacheInv', NEW n \in Node,
         creator[n] = "timer", \A q \in Node \ {n} : cacheOfCycleCerts'[q] = cacheOfCycleCerts[q],
         UNCHANGED <<clock, creatorVars, chain, prevMarkerCached, bestVars, gossip>>
  PROVE  AgreeInv'
<1> USE DEF ReliableInv, AgreeInv
<1>1. UNCHANGED <<clock, creator, timers, currentCycle, chain, prevMarkerCached, bestMarker, gossip>>
  BY DEF creatorVars, bestVars
<1>2. OnTimeInv'
  BY <1>1, KeepOnTime
<1>3. MadeInv'
  <2>1. clock \in Nat
    BY DEF CertInv, Shape
  <2> QED
    BY <1>1, <2>1, KeepMade DEF MadeInv
<1> QED
  BY <1>1, <1>2, <1>3, KeepScores, KeepHeard, KeepDecided

LEMMA CompareAskAgrees ==
  ASSUME Reliable, ReliableInv, CertInv', VoteInv', NEW n \in Node, NEW p \in Node, CompareAsk(n, p)
  PROVE  AgreeInv'
<1> USE DEF ReliableInv, AgreeInv
<1>1. /\ UNCHANGED <<clock, creatorVars, chain, prevMarkerCached, bestVars, gossip>>
      /\ compare[n].state = "ask" /\ p \in compare[n].todo
  BY DEF CompareAsk
<1>2. UNCHANGED <<creator, currentCycle, currentQuarter, bestMarker>>
  BY <1>1 DEF creatorVars, bestVars
<1>3. NoNewVotes
  BY CompareAskVotes
<1>4. /\ creator[n] = "timer" /\ clock = Base(n) + 3
      /\ compare[n].cycle = currentCycle[n] /\ currentQuarter[n] = 4
      /\ compare[n].errors = {} /\ compare[n].todo \subseteq Others(n)
  BY <1>1 DEF CompareInv, Comparing
<1>5. \A q \in Node : MyBest(q)' = MyBest(q)
  BY <1>1, SameMyBest
<1>6. CASE bestMarker[n] # NoMarker
  <2> PICK c : c = [state |-> "sent", cycle |-> compare[n].cycle, todo |-> compare[n].todo \ {p},
                    matched |-> compare[n].matched, errors |-> compare[n].errors,
                    peer |-> p, msg |-> MyBest(n)]
    OBVIOUS
  <2>1. compare' = [compare EXCEPT ![n] = c] /\ UNCHANGED cacheOfCycleCerts
    BY <1>6 DEF CompareAsk
  <2>2. /\ c.state = "sent" /\ c.cycle = compare[n].cycle /\ c.todo = compare[n].todo \ {p}
        /\ c.errors = compare[n].errors /\ c.peer = p /\ c.msg = MyBest(n)
    OBVIOUS
  <2>3. c.todo \subseteq Others(n) /\ c.peer \in Others(n)
    BY <1>1, <1>4, <2>2
  <2>4. CompareInv'
    BY <1>1, <1>2, <1>4, <1>5, <1>6, <2>1, <2>2, <2>3, ChangedComparing
  <2>5. CacheInv'
    BY <1>1, <1>2, <2>1, KeepCached
  <2> QED
    BY <1>1, <1>3, <1>4, <2>1, <2>4, <2>5, CompareFrame
<1>7. CASE bestMarker[n] = NoMarker /\ (QuarterChanged(n) \/ compare[n].todo = {p})
  <2>1. EndCompare(n, {})
    BY <1>4, <1>7 DEF CompareAsk
  <2>2. /\ CompareInv' /\ CacheInv'
        /\ \A q \in Node \ {n} : cacheOfCycleCerts'[q] = cacheOfCycleCerts[q]
    BY <1>1, <1>2, <2>1, EndCompareAgrees
  <2> QED
    BY <1>1, <1>3, <1>4, <2>2, CompareFrame
<1>8. CASE bestMarker[n] = NoMarker /\ ~(QuarterChanged(n) \/ compare[n].todo = {p})
  <2> PICK c : c = [compare[n] EXCEPT !.todo = @ \ {p}]
    OBVIOUS
  <2>1. compare' = [compare EXCEPT ![n] = c] /\ UNCHANGED cacheOfCycleCerts
    BY <1>8 DEF CompareAsk
  <2>2. compare[n] = [state |-> "ask", cycle |-> compare[n].cycle, todo |-> compare[n].todo,
                      matched |-> compare[n].matched, errors |-> compare[n].errors]
    BY <1>1 DEF CertInv, Compares, GoodCompare
  <2>3. /\ c.state = "ask" /\ c.cycle = compare[n].cycle /\ c.todo = compare[n].todo \ {p}
        /\ c.errors = compare[n].errors
    BY <2>2
  <2>4. c.todo \subseteq Others(n)
    BY <1>4, <2>3
  <2>5. CompareInv'
    BY <1>1, <1>2, <1>4, <1>5, <2>1, <2>3, <2>4, ChangedComparing
  <2>6. CacheInv'
    BY <1>1, <1>2, <2>1, KeepCached
  <2> QED
    BY <1>1, <1>3, <1>4, <2>1, <2>5, <2>6, CompareFrame
<1> QED
  BY <1>6, <1>7, <1>8

(* The node that is asked is in the same quarter, and knows the same best. *)
LEMMA PeerAgrees ==
  ASSUME Reliable, ReliableInv, NEW n \in Node, compare[n].state \in {"sent", "replied"},
         NEW p, p = compare[n].peer
  PROVE  /\ p \in Node /\ p # n /\ creator[n] = "timer" /\ creator[p] = "timer" /\ gossip = {}
         /\ Current(n) /\ Current(p) /\ Len(chain[n]) = Len(chain[p])
         /\ bestMarker[n] # NoMarker
         /\ bestMarker[p] = bestMarker[n] /\ bestRecord[p] = bestRecord[n]
<1> USE DEF ReliableInv, AgreeInv
<1>1. /\ p \in Active /\ p \in Node /\ p # n
      /\ creator[n] = "timer" /\ clock = Base(n) + 3 /\ bestMarker[n] # NoMarker
  BY CertAssumption DEF CompareInv, Comparing, Others
<1>2. /\ Base(n) \in Nat /\ clock \in Nat /\ Base(n) = 4 * (Len(chain[n]) - 1)
      /\ Len(chain[n]) \in Nat \ {0} /\ (Base(n) + 3) % 4 = 3
      /\ Base(p) \in Nat /\ Base(p) = 4 * (Len(chain[p]) - 1) /\ Base(p) % 4 = 0
      /\ Len(chain[p]) \in Nat \ {0}
  BY <1>1, BaseIsNat
<1>3. ActiveOnTime(p) /\ OnTime(p)
  BY <1>1 DEF OnTimeInv
<1>4. creator[p] = "timer"
  BY <1>1, <1>2, <1>3 DEF ActiveOnTime
<1>5. Len(chain[p]) = Len(chain[n])
  <2>1. Base(p) <= clock /\ clock <= Base(p) + 4
    BY <1>3, <1>4 DEF OnTime, Running
  <2>2. clock # Base(p) + 4
    <3>1. (Base(p) + 4) % 4 = 0
      BY <1>1, BaseIsNat
    <3> QED
      BY <1>1, <1>2, <3>1
  <2> QED
    BY <1>1, <1>2, <2>1, <2>2
<1>6. 2 \notin timers[p].pending /\ 3 \notin timers[p].pending
  BY <1>1, <1>2, <1>3, <1>4, <1>5 DEF OnTime
<1>7. Current(p) /\ Current(n)
  BY <1>1, <1>3, <1>4, <1>6, BestCurrent DEF ActiveOnTime
<1>8. gossip = {}
  <2>1. clock % 4 = 3
    BY <1>1, <1>2
  <2> QED
    BY <2>1 DEF MadeInv
<1> QED
  BY <1>1, <1>4, <1>5, <1>7, <1>8, Converge

LEMMA CompareReplyAgrees ==
  ASSUME Reliable, ReliableInv, CertInv', VoteInv', NEW n \in Node, CompareReply(n) PROVE AgreeInv'
<1> USE DEF ReliableInv, AgreeInv
<1> PICK p : p = compare[n].peer
  OBVIOUS
<1> PICK c : c = compare[n]
  OBVIOUS
<1>1. UNCHANGED <<clock, creatorVars, chain, prevMarkerCached, gossip>> /\ c.state = "replied"
  BY DEF CompareReply
<1>2. /\ p \in Node /\ creator[n] = "timer" /\ Current(p) /\ Len(chain[n]) = Len(chain[p])
      /\ bestMarker[n] # NoMarker /\ bestMarker[p] = bestMarker[n]
  BY <1>1, PeerAgrees
<1>3. /\ c.msg = MyBest(p) /\ ~QuarterChanged(n) /\ c.errors = {}
  BY <1>1 DEF CompareInv, Comparing, QuarterChanged
<1>4. c.msg.owners # <<>> /\ c.msg.marker = bestMarker[n]
  <2>1. ValidCerts(n, MyBest(p)) /\ MyBest(p).marker = bestMarker[p]
    BY <1>2, MyBestValid
  <2> QED
    BY <1>2, <1>3, <2>1 DEF ValidCerts
<1>5. UNCHANGED bestVars /\ NextNode(n, c.matched + 1, {})
  BY <1>3, <1>4 DEF CompareReply
<1>6. UNCHANGED <<creator, currentCycle, currentQuarter>>
  BY <1>1 DEF creatorVars
<1>7. /\ CompareInv' /\ CacheInv'
      /\ \A q \in Node \ {n} : cacheOfCycleCerts'[q] = cacheOfCycleCerts[q]
  BY <1>1, <1>5, <1>6, NextNodeAgrees
<1>8. NoNewVotes
  BY CompareReplyVotes
<1> QED
  BY <1>1, <1>2, <1>5, <1>7, <1>8, CompareFrame

LEMMA NoCompareEnds ==
  ASSUME Reliable, ReliableInv, NEW n \in Node PROVE ~CompareFail(n) /\ ~CompareRetry(n)
<1>1. ~CompareRetry(n)
  BY DEF ReliableInv, AgreeInv, CompareInv, Comparing, CompareRetry
<1>2. ASSUME CompareFail(n) PROVE FALSE
  <2> PICK p : p = compare[n].peer
    OBVIOUS
  <2>1. creator[p] = "timer"
    BY <1>2, PeerAgrees DEF CompareFail
  <2> QED
    BY <1>2, <2>1 DEF CompareFail, Running, Reliable
<1> QED
  BY <1>1, <1>2

(* The node that is asked has all that is sent, so nothing changes there.  *)
LEMMA ServeSame ==
  ASSUME Reliable, ReliableInv, CertInv', NEW n \in Node, NEW p \in Node, n # p,
         creator[p] = "timer", gossip = {}, Current(n), Current(p), Len(chain[n]) = Len(chain[p]),
         bestMarker[n] # NoMarker, bestMarker[p] = bestMarker[n], bestRecord[p] = bestRecord[n],
         NEW msg, msg = MyBest(n), ImproveBestCert(p, msg),
         UNCHANGED <<creator, chain, prevMarkerCached>>
  PROVE  /\ UNCHANGED <<bestMarker, bestRecord>>
         /\ \A q \in Node : \A m : CertsFor(q, m)' = CertsFor(q, m)
         /\ bestCycleCert'[p][msg.marker] = CertsFor(p, msg.marker)
         /\ ScoreInv'
<1> USE DEF ReliableInv, AgreeInv
<1> PICK m : m = bestMarker[n]
  OBVIOUS
<1>1. /\ GoodVote(msg) /\ msg.marker = m /\ msg.owners # <<>> /\ msg.record = bestRecord[n]
      /\ DOMAIN msg.owners = DOMAIN CertsFor(n, m)
      /\ \A i \in DOMAIN CertsFor(n, m) : msg.owners[i] = CertsFor(n, m)[i].owner
  BY MyBestValid DEF ValidCerts
<1>2. creator[n] = "timer" /\ Scoring(n) /\ Scoring(p)
  BY DEF Current, Scoring
<1>3. msg.record.counter = Len(chain[p])
  BY <1>1, <1>2, BestCurrent
<1>4. \A i \in DOMAIN CertsFor(n, m) : CertsFor(n, m)[i] = Rated(p, msg.owners[i])
  <2>1. /\ CertsFor(n, m) \in Certs(Node) /\ WellFormed(CertsFor(n, m))
        /\ IsScored(CertsFor(n, m), prevMarkerCached[n])
    BY <1>2, CertsForScored
  <2>2. prevMarkerCached[n] = prevMarkerCached[p]
    BY SameScale
  <2>3. \A i \in DOMAIN CertsFor(n, m) : CertsFor(n, m)[i] \in Cert(Node)
    BY <2>1, CertListDomain
  <2> QED
    BY <1>1, <2>1, <2>2, <2>3 DEF IsScored, Rated, Cert
<1>5. \A i \in DOMAIN CertsFor(n, m) : Covers(CertsFor(p, m), CertsFor(n, m)[i])
  <2>1. CoversBest(p, n)
    BY DEF HeardInv, Heard
  <2> QED
    BY <2>1, CoversBestNow
<1>6. MergedCerts(p, msg) = CertsFor(p, msg.marker)
  <2>1. \A j \in DOMAIN msg.owners : Covers(CertsFor(p, msg.marker), Rated(p, msg.owners[j]))
    BY <1>1, <1>4, <1>5
  <2> QED
    BY <1>1, <1>2, <2>1, MergedFacts
<1>7. ~Improves(p, msg)
  <2>1. BestScore(p) = TotalScore(CertsFor(p, m)) /\ BestScore(p) \in Nat
    BY <1>2, BestFacts
  <2> QED
    BY <1>1, <1>6, <2>1 DEF Improves
<1>8. UNCHANGED <<bestMarker, bestRecord>> /\ bestCycleCert'[p][msg.marker] = MergedCerts(p, msg)
  BY <1>1, <1>7, ImproveEffect
<1>9. \A q \in Node : \A k : CertsFor(q, k)' = CertsFor(q, k)
  <2>1. /\ \A q \in Node \ {p} : \A k : CertsFor(q, k)' = CertsFor(q, k)
        /\ \A k : CertsFor(p, k)' = IF k = msg.marker THEN MergedCerts(p, msg) ELSE CertsFor(p, k)
    BY <1>1, ImproveCertsFor
  <2>2. \A k : CertsFor(p, k)' = CertsFor(p, k)
    BY <1>6, <2>1
  <2> QED
    BY <2>1, <2>2
<1>10. ScoreInv'
  BY <1>1, <1>2, <1>3, ImproveScores
<1> QED
  BY <1>6, <1>8, <1>9, <1>10

LEMMA CompareServeAgrees ==
  ASSUME Reliable, ReliableInv, CertInv', VoteInv', NEW n \in Node, CompareServe(n) PROVE AgreeInv'
<1> USE DEF ReliableInv, AgreeInv
<1> PICK p : p = compare[n].peer
  OBVIOUS
<1> PICK msg : msg = compare[n].msg
  OBVIOUS
<1>1. /\ UNCHANGED <<clock, creator, timers, currentCycle, currentQuarter, chain, prevMarkerCached,
                     cacheOfCycleCerts, gossip>>
      /\ compare[n].state = "sent"
  BY DEF CompareServe, creatorVars
<1>2. /\ p \in Node /\ p # n /\ creator[n] = "timer" /\ creator[p] = "timer" /\ gossip = {}
      /\ Current(n) /\ Current(p) /\ Len(chain[n]) = Len(chain[p]) /\ bestMarker[n] # NoMarker
      /\ bestMarker[p] = bestMarker[n] /\ bestRecord[p] = bestRecord[n]
  BY <1>1, PeerAgrees
<1>3. msg = MyBest(n) /\ msg.marker = bestMarker[n]
  <2>1. msg = MyBest(n)
    BY <1>1 DEF CompareInv, Comparing
  <2>2. MyBest(n).marker = bestMarker[n]
    BY DEF MyBest, Message
  <2> QED
    BY <2>1, <2>2
<1>4. ValidCerts(p, msg)
  BY <1>2, <1>3, MyBestValid
<1>5. ImproveBestCert(p, msg)
  BY <1>2, <1>4 DEF CompareServe
<1>6. /\ UNCHANGED <<bestMarker, bestRecord>>
      /\ \A q \in Node : \A m : CertsFor(q, m)' = CertsFor(q, m)
      /\ bestCycleCert'[p][msg.marker] = CertsFor(p, msg.marker)
      /\ ScoreInv'
  BY <1>1, <1>2, <1>3, <1>5, ServeSame
<1>7. ASSUME NEW q \in Node PROVE MyBest(q)' = MyBest(q)
  <2> PICK m : m = bestMarker[q]
    OBVIOUS
  <2>1. bestMarker'[q] = m /\ bestRecord'[q] = bestRecord[q] /\ CertsFor(q, m)' = CertsFor(q, m)
    BY <1>6
  <2> QED
    BY <2>1, MyBestNow, MyBestNext
<1>8. HeardInv'
  <2> SUFFICES ASSUME NEW a \in Node, NEW b \in Node, Current(a)', Current(b)', a # b,
                      Len(chain[a]) = Len(chain[b]), bestMarker[a] # NoMarker
               PROVE  ([to |-> b, msg |-> MyBest(a)] \in gossip)' \/ CoversBest(b, a)'
    BY <1>1, <1>6 DEF HeardInv, Heard
  <2> PICK m : m = bestMarker[a]
    OBVIOUS
  <2>1. Current(a) /\ Current(b)
    BY <1>1 DEF Current, Newest
  <2>2. CoversBest(b, a)
    BY <1>2, <2>1 DEF HeardInv, Heard
  <2>3. CertsFor(a, m)' = CertsFor(a, m) /\ CertsFor(b, m)' = CertsFor(b, m) /\ bestMarker'[a] = m
    BY <1>6
  <2>4. CoversBest(b, a)'
    BY ZenonT(60), <2>2, <2>3, CoversBestNow, CoversBestNext
  <2> QED
    BY <2>4
<1>9. CompareInv'
  <2> PICK c : c = [compare[n] EXCEPT !.state = "replied",
                                      !.msg = Message(bestMarker'[p], bestCycleCert'[p][bestMarker'[p]],
                                                      bestRecord'[p])]
    OBVIOUS
  <2>1. compare' = [compare EXCEPT ![n] = c]
    BY <1>2 DEF CompareServe
  <2>2. compare[n] = [state |-> compare[n].state, cycle |-> compare[n].cycle, todo |-> compare[n].todo,
                      matched |-> compare[n].matched, errors |-> compare[n].errors,
                      peer |-> compare[n].peer, msg |-> compare[n].msg]
    BY <1>1, SentGood
  <2>3. /\ c.state = "replied" /\ c.cycle = compare[n].cycle /\ c.todo = compare[n].todo
        /\ c.errors = compare[n].errors /\ c.peer = p
        /\ c.msg = Message(bestMarker'[p], bestCycleCert'[p][bestMarker'[p]], bestRecord'[p])
    BY <2>2
  <2>4. c.msg = MyBest(p)
    BY <1>2, <1>3, <1>6, <2>3 DEF MyBest
  <2>5. /\ clock = Base(n) + 3 /\ compare[n].cycle = currentCycle[n] /\ currentQuarter[n] = 4
        /\ compare[n].errors = {} /\ compare[n].todo \subseteq Others(n) /\ p \in Others(n)
    BY <1>1 DEF CompareInv, Comparing
  <2> QED
    BY ZenonT(60), <1>1, <1>2, <1>6, <1>7, <2>1, <2>3, <2>4, <2>5, ChangedComparing
<1>10. DecidedInv'
  BY <1>1, <1>6 DEF DecidedInv, Decided
<1>11. MadeInv'
  <2>1. NoNewVotes /\ clock \in Nat
    BY CompareServeVotes DEF CertInv, Shape
  <2> QED
    BY <1>1, <2>1, KeepMade DEF MadeInv
<1>12. OnTimeInv' /\ CacheInv'
  BY <1>1, <1>6, KeepOnTime, KeepCached
<1> QED
  BY <1>6, <1>8, <1>9, <1>10, <1>11, <1>12
-----------------------------------------------------------------------------
(* A node's cycleCreator goes on, and its chain may grow.                  *)
LEMMA ChainsEqual ==
  ASSUME NEW c, IsChain(c), NEW d, IsChain(d), Len(c) = Len(d), \A i \in 1 .. Len(c) : c[i] = d[i]
  PROVE  c = d
<1>1. c \in Seq(Contents(c)) /\ d \in Seq(Contents(d)) /\ DOMAIN c = 1 .. Len(c) /\ DOMAIN d = 1 .. Len(d)
  BY ChainLast DEF IsChain
<1>2. c = [i \in 1 .. Len(c) |-> c[i]] /\ d = [i \in 1 .. Len(d) |-> d[i]]
  BY <1>1
<1> QED
  BY <1>2

(* n follows p: its new chain is the beginning of that of p.               *)
Follows(n, p, c) ==
  /\ IsChain(c) /\ Len(c) <= Len(chain[p]) /\ SameLedger(c, chain[p])
  /\ chain' = [chain EXCEPT ![n] = c]

LEMMA FollowStep ==
  ASSUME CertInv, NEW n \in Node, NEW p \in Node, NEW c, Follows(n, p, c), Len(c) > Len(chain[n])
  PROVE  Ledger!Next
<1>1. IsChain(chain[p]) /\ IsChain(c) /\ Len(c) \in Nat \ {0} /\ Len(chain[n]) \in Nat
      /\ Len(chain[p]) \in Nat /\ Len(c) <= Len(chain[p])
  BY ChainLast, ChainLength DEF CertInv, Chains, GoodChain, Follows
<1>2. /\ IsChain(SubSeq(chain[p], 1, Len(c))) /\ Len(SubSeq(chain[p], 1, Len(c))) = Len(c)
      /\ \A i \in 1 .. Len(c) : SubSeq(chain[p], 1, Len(c))[i] = chain[p][i]
  BY <1>1, ChainPrefix
<1>3. \A i \in 1 .. Len(c) : c[i] = chain[p][i]
  <2>1. DOMAIN c = 1 .. Len(c) /\ DOMAIN chain[p] = 1 .. Len(chain[p])
    BY <1>1, ChainLast
  <2> QED
    BY <1>1, <2>1 DEF Follows, SameLedger
<1>4. c = SubSeq(chain[p], 1, Len(c))
  BY <1>1, <1>2, <1>3, ChainsEqual
<1>5. Len(c) \in Len(chain[n]) + 1 .. Len(chain[p])
  BY <1>1
<1>6. Ledger!Follow(n, p)
  BY <1>4, <1>5 DEF Ledger!Follow, Follows
<1> QED
  BY <1>6 DEF Ledger!Next

LEMMA FollowDecided ==
  ASSUME CertInv, DecidedInv, NEW n \in Node, NEW p \in Node, NEW c, Follows(n, p, c),
         creator'[n] # "timer", UNCHANGED bestMarker,
         \A q \in Node \ {n} : creator'[q] = creator[q] /\ bestRecord'[q] = bestRecord[q]
  PROVE  DecidedInv'
<1>1. chain'[n] = c /\ \A q \in Node \ {n} : chain'[q] = chain[q]
  BY DEF Follows, CertInv, Chains
<1>2. /\ Len(c) \in Nat \ {0} /\ DOMAIN c = 1 .. Len(c) /\ Len(c) <= Len(chain[p])
      /\ \A q \in Node : Len(chain[q]) \in Nat \ {0} /\ DOMAIN chain[q] = 1 .. Len(chain[q])
  BY ChainLast DEF CertInv, Chains, GoodChain, Follows
<1>3. \A i \in 1 .. Len(c) : c[i] = chain[p][i]
  BY <1>2 DEF Follows, SameLedger
<1>4. \A q \in Node : SameLedger(c, chain[q]) /\ SameLedger(chain[q], c)
  <2> SUFFICES ASSUME NEW q \in Node PROVE SameLedger(c, chain[q]) /\ SameLedger(chain[q], c)
    OBVIOUS
  <2>1. SameLedger(chain[p], chain[q])
    BY DEF DecidedInv
  <2> QED
    BY <1>2, <1>3, <2>1 DEF SameLedger
<1>5. Linked(c) /\ Filled(c)
  <2>1. Linked(chain[p]) /\ Filled(chain[p])
    BY DEF DecidedInv
  <2>2. \A i \in 1 .. Len(c) - 1 :
          /\ i \in 1 .. Len(c) /\ i + 1 \in 1 .. Len(c) /\ i \in 1 .. Len(chain[p]) - 1
          /\ \A j \in 1 .. i : j \in 1 .. Len(c)
    BY <1>2
  <2>3. Linked(c)
    BY <1>3, <2>1, <2>2 DEF Linked
  <2>4. ASSUME NEW i \in 1 .. Len(c) - 1
        PROVE  c[i + 1].lists = <<UNION {c[j].txs : j \in 1 .. i}>>
    <3>1. {c[j].txs : j \in 1 .. i} = {chain[p][j].txs : j \in 1 .. i}
      BY <1>3, <2>2
    <3>2. c[i + 1] = chain[p][i + 1] /\ chain[p][i + 1].lists = <<UNION {chain[p][j].txs : j \in 1 .. i}>>
      BY <1>3, <2>1, <2>2 DEF Filled
    <3> QED
      BY <3>1, <3>2
  <2> QED
    BY <2>3, <2>4 DEF Filled
<1>6. ASSUME NEW q \in Node, NEW r \in Node PROVE SameLedger(chain'[q], chain'[r])
  <2>1. SameLedger(chain[q], chain[r]) /\ SameLedger(c, c)
    BY DEF DecidedInv, SameLedger
  <2> QED
    BY <1>1, <1>4, <2>1
<1>7. ASSUME NEW q \in Node, NEW r \in Node PROVE Decided(q, r)'
  <2>1. CASE q = n
    BY <2>1 DEF Decided
  <2>2. CASE q # n /\ r # n
    BY <1>1, <2>2 DEF Decided, DecidedInv
  <2>3. CASE q # n /\ r = n
    <3> SUFFICES ASSUME creator[q] = "timer", bestMarker[q] # NoMarker, Len(c) > Len(chain[q])
                 PROVE  c[Len(chain[q]) + 1] = Patched(chain[q], bestRecord[q])
      BY <1>1, <2>3 DEF Decided
    <3>1. Decided(q, p) /\ Len(chain[p]) > Len(chain[q])
      BY <1>2 DEF DecidedInv
    <3>2. Len(chain[q]) + 1 \in 1 .. Len(c)
      BY <1>2
    <3> QED
      BY <1>3, <3>1, <3>2 DEF Decided
  <2> QED
    BY <2>1, <2>2, <2>3
<1>8. \A q \in Node : Linked(chain'[q]) /\ Filled(chain'[q])
  BY <1>1, <1>5 DEF DecidedInv
<1>9. chain' = [q \in Node |-> chain'[q]]
  BY DEF Follows, DecidedInv, CertInv, Chains
<1> QED
  BY <1>6, <1>7, <1>8, <1>9 DEF DecidedInv

LEMMA GrownMade ==
  ASSUME CertInv, VoteInv, MadeInv, NoNewVotes, UNCHANGED <<clock, gossip>>, NEW n \in Node,
         \A q \in Node \ {n} : chain'[q] = chain[q],
         \A m : MadeOnTime(m) /\ m[1].counter \in Nat /\ Len(chain'[n]) >= m[1].counter
                  => m[1].previous = Marker(chain'[n][m[1].counter])
  PROVE  MadeInv'
<1> SUFFICES ASSUME NEW o, NEW m, Voted(o, m)' PROVE MadeOnTime(m)'
  BY DEF MadeInv
<1>1. MadeOnTime(m) /\ m[1].counter \in Nat
  BY DEF NoNewVotes, MadeInv, VoteInv, VotesUpToNext
<1>2. \A q \in Node : Len(chain'[q]) >= m[1].counter => m[1].previous = Marker(chain'[q][m[1].counter])
  BY <1>1 DEF MadeOnTime
<1> QED
  BY <1>1, <1>2 DEF MadeOnTime

LEMMA FollowMade ==
  ASSUME CertInv, VoteInv, MadeInv, NoNewVotes, UNCHANGED <<clock, gossip>>, NEW n \in Node,
         NEW p \in Node, NEW c, Follows(n, p, c)
  PROVE  MadeInv'
<1>1. chain'[n] = c /\ \A q \in Node \ {n} : chain'[q] = chain[q]
  BY DEF Follows, CertInv, Chains
<1>2. /\ Len(c) \in Nat \ {0} /\ DOMAIN c = 1 .. Len(c) /\ Len(c) <= Len(chain[p])
      /\ Len(chain[p]) \in Nat \ {0} /\ DOMAIN chain[p] = 1 .. Len(chain[p])
  BY ChainLast DEF CertInv, Chains, GoodChain, Follows
<1>3. ASSUME NEW m, MadeOnTime(m), m[1].counter \in Nat, Len(c) >= m[1].counter
      PROVE  m[1].previous = Marker(c[m[1].counter])
  <2>1. m[1].counter > 0 /\ m[1].counter \in DOMAIN c \cap DOMAIN chain[p] /\ Len(chain[p]) >= m[1].counter
    BY <1>2, <1>3 DEF MadeOnTime
  <2>2. c[m[1].counter] = chain[p][m[1].counter]
    BY <2>1 DEF Follows, SameLedger
  <2> QED
    BY <1>3, <2>1, <2>2 DEF MadeOnTime
<1> QED
  BY <1>1, <1>3, GrownMade

(* The rest of the invariant, of which only the parts of n change.         *)
LEMMA NodeMoves ==
  ASSUME ReliableInv, CertInv', NEW n \in Node, creator'[n] # "timer",
         UNCHANGED <<clock, prevMarkerCached, bestMarker, bestCycleCert, bestCertScore,
                     cacheOfCycleCerts, compare, gossip>>,
         \A q \in Node \ {n} :
           /\ creator'[q] = creator[q] /\ chain'[q] = chain[q] /\ timers'[q] = timers[q]
           /\ currentCycle'[q] = currentCycle[q] /\ currentQuarter'[q] = currentQuarter[q]
           /\ bestRecord'[q] = bestRecord[q],
         OnTime(n)', n \in Active => ActiveOnTime(n)', Scores(n)', CachedOnTime(n)',
         compare[n].state = "idle", n \notin Active \/ \A q \in Node : compare[q].state = "idle"
  PROVE  OnTimeInv' /\ ScoreInv' /\ HeardInv' /\ CacheInv' /\ CompareInv'
<1> USE DEF ReliableInv, AgreeInv
<1>1. OnTimeInv'
  <2>1. ASSUME NEW q \in Node PROVE OnTime(q)'
    <3>1. OnTime(q)
      BY DEF OnTimeInv
    <3>2. CASE q # n
      BY <3>1, <3>2 DEF OnTime, Running, Base, Newest
    <3>3. CASE q = n
      BY <3>3
    <3> QED
      BY <3>2, <3>3
  <2>2. ASSUME NEW q \in Active PROVE ActiveOnTime(q)'
    <3>1. ActiveOnTime(q) /\ q \in Node
      BY CertAssumption DEF OnTimeInv
    <3>2. CASE q # n
      BY <3>1, <3>2 DEF ActiveOnTime, Current, Base, Newest
    <3>3. CASE q = n
      BY <2>2, <3>3
    <3> QED
      BY <3>2, <3>3
  <2> QED
    BY <2>1, <2>2 DEF OnTimeInv
<1>2. ScoreInv'
  <2> SUFFICES ASSUME NEW q \in Node \ {n} PROVE Scores(q)'
    BY DEF ScoreInv
  <2>1. Scores(q)
    BY DEF ScoreInv
  <2> QED
    BY <2>1 DEF Scores, Scoring, IsScored, BestScore
<1>3. \A q \in Node \ {n} : MyBest(q)' = MyBest(q)
  BY DEF MyBest, CertsFor
<1>4. HeardInv'
  <2> SUFFICES ASSUME NEW a \in Node, NEW b \in Node, Current(a)', Current(b)', a # b,
                      (Len(chain[a]) = Len(chain[b]))', bestMarker[a] # NoMarker
               PROVE  ([to |-> b, msg |-> MyBest(a)] \in gossip)' \/ CoversBest(b, a)'
    BY DEF HeardInv, Heard
  <2>1. a # n /\ b # n
    BY DEF Current
  <2>2. Current(a) /\ Current(b) /\ Len(chain[a]) = Len(chain[b])
    BY <2>1 DEF Current, Newest
  <2>3. [to |-> b, msg |-> MyBest(a)] \in gossip \/ CoversBest(b, a)
    BY <2>2 DEF HeardInv, Heard
  <2>4. MyBest(a)' = MyBest(a)
    BY <1>3, <2>1
  <2>5. CoversBest(b, a)' <=> CoversBest(b, a)
    BY DEF CoversBest, CertsFor
  <2> QED
    BY <2>3, <2>4, <2>5
<1>5. CacheInv'
  <2> SUFFICES ASSUME NEW q \in Node \ {n} PROVE CachedOnTime(q)'
    BY DEF CacheInv
  <2>1. CachedOnTime(q)
    BY DEF CacheInv
  <2> QED
    BY <2>1 DEF CachedOnTime, Base, Newest
<1>6. CompareInv'
  <2>1. CASE n \notin Active
    BY <1>3, <2>1, OthersComparing
  <2>2. CASE \A q \in Node : compare[q].state = "idle"
    BY <2>2, NoneComparing
  <2> QED
    BY <2>1, <2>2
<1> QED
  BY <1>1, <1>2, <1>4, <1>5, <1>6

LEMMA IdleOnTheHour ==
  ASSUME ReliableInv, clock % 4 = 0
  PROVE  gossip = {} /\ \A q \in Node : compare[q].state = "idle"
<1> USE DEF ReliableInv, AgreeInv
<1>1. gossip = {}
  BY DEF MadeInv
<1>2. ASSUME NEW q \in Node PROVE compare[q].state = "idle"
  <2>1. (Base(q) + 3) % 4 = 3
    BY BaseIsNat
  <2>2. clock # Base(q) + 3
    BY <2>1
  <2> QED
    BY <2>2, IdleBefore
<1> QED
  BY <1>1, <1>2
-----------------------------------------------------------------------------
(* cycleCreator.                                                           *)
LEMMA DigestShape ==
  ASSUME NEW c, IsChain(c), NEW r
  PROVE  /\ IsChain(Digested(c, r)) /\ Len(Digested(c, r)) = Len(c) + 1
         /\ Len(c) \in Nat \ {0} /\ DOMAIN c = 1 .. Len(c)
         /\ DOMAIN Digested(c, r) = 1 .. Len(c) + 1
         /\ \A i \in 1 .. Len(c) : Digested(c, r)[i] = c[i]
         /\ Digested(c, r)[Len(c) + 1] = Patched(c, r)
         /\ Last(Digested(c, r)) = Patched(c, r)
<1> DEFINE p == Patched(c, r)
<1>1. Digested(c, r) = Append(c, p)
  BY DEF Digested
<1> HIDE DEF p
<1>2. IsChain(Append(c, p)) /\ Len(Append(c, p)) = Len(c) + 1
      /\ \A i \in 1 .. Len(c) : Append(c, p)[i] = c[i]
      /\ Append(c, p)[Len(c) + 1] = p
  BY ChainAppend
<1>3. DOMAIN Append(c, p) = 1 .. Len(c) + 1 /\ Last(Append(c, p)) = p
      /\ Len(c) \in Nat \ {0} /\ DOMAIN c = 1 .. Len(c)
  BY <1>2, ChainLast
<1> QED
  BY <1>1, <1>2, <1>3 DEF p

(* The record a node is about to digest.                                   *)
LEMMA BestDigest ==
  ASSUME ReliableInv, NEW n \in Node, creator[n] = "timer", bestMarker[n] # NoMarker
  PROVE  /\ bestRecord[n] = MakeRecord(Newest(n), bestRecord[n].txs) /\ bestRecord[n].txs \in TxChoices
         /\ bestRecord[n].previous = Marker(chain[n][Len(chain[n])])
         /\ bestRecord[n].counter = Len(chain[n])
         /\ Unpatched(Patched(chain[n], bestRecord[n])) = bestRecord[n]
         /\ Patched(chain[n], bestRecord[n]).previous = bestRecord[n].previous
         /\ Patched(chain[n], bestRecord[n]).lists = <<UNION {chain[n][i].txs : i \in DOMAIN chain[n]}>>
<1> USE DEF ReliableInv, AgreeInv
<1> PICK r : r = bestRecord[n]
  OBVIOUS
<1>1. /\ GoodRecord(r) /\ MadeOnTime(bestMarker[n]) /\ bestMarker[n][1] = r
      /\ r.counter = Len(chain[n])
  BY BestCurrent
<1>2. Len(chain[n]) \in Nat \ {0} /\ Newest(n).counter = Len(chain[n]) - 1
  BY ChainLength
<1>3. r.lists = <<>> /\ r.txs \in TxChoices /\ r.previous = Marker(chain[n][Len(chain[n])])
  BY <1>1, <1>2 DEF MadeOnTime
<1>4. r = [counter |-> r.counter, previous |-> r.previous, txs |-> r.txs, lists |-> <<>>]
  BY <1>1, <1>3 DEF GoodRecord
<1>5. r = MakeRecord(Newest(n), r.txs)
  BY <1>1, <1>2, <1>3, <1>4 DEF MakeRecord, Newest, Last
<1>6. /\ Unpatched(Patched(chain[n], r)) = r
      /\ Patched(chain[n], r).previous = r.previous
      /\ Patched(chain[n], r).lists = <<UNION {chain[n][i].txs : i \in DOMAIN chain[n]}>>
  <2> DEFINE l == <<UNION {chain[n][i].txs : i \in DOMAIN chain[n]}>>
             d == [r EXCEPT !.lists = l]
  <2>1. Patched(chain[n], r) = d
    BY DEF Patched
  <2> HIDE DEF l
  <2>2. d = [counter |-> r.counter, previous |-> r.previous, txs |-> r.txs, lists |-> l]
    BY <1>4
  <2>3. Unpatched(d) = [counter |-> r.counter, previous |-> r.previous, txs |-> r.txs, lists |-> <<>>]
    <3>1. \A e, a, b, t, k : e = [counter |-> a, previous |-> b, txs |-> t, lists |-> k]
            => [e EXCEPT !.lists = <<>>] = [counter |-> a, previous |-> b, txs |-> t, lists |-> <<>>]
      OBVIOUS
    <3>2. Unpatched(d) = [d EXCEPT !.lists = <<>>]
      BY DEF Unpatched
    <3> HIDE DEF d
    <3> QED
      BY <2>2, <3>1, <3>2
  <2> HIDE DEF d
  <2>4. d.previous = r.previous /\ d.lists = l
    BY <2>2
  <2> QED
    BY <1>4, <2>1, <2>3, <2>4 DEF l
<1> QED
  BY <1>1, <1>3, <1>5, <1>6

(* With a record longer than any chain, the step decides the next one.     *)
LEMMA DecideStep ==
  ASSUME ReliableInv, NEW n \in Node, creator[n] = "timer", bestMarker[n] # NoMarker,
         clock = Base(n) + 4, \A p \in Node : Len(chain[p]) <= Len(chain[n]),
         chain' = [chain EXCEPT ![n] = Digested(chain[n], bestRecord[n])]
  PROVE  Ledger!Next
<1> PICK txs : txs = bestRecord[n].txs
  OBVIOUS
<1>1. bestRecord[n] = MakeRecord(Last(chain[n]), txs) /\ txs \in TxChoices
  BY BestDigest DEF Newest
<1>2. Len(chain[n]) <= MaxClock
  <2>1. clock = 4 * Len(chain[n]) /\ Len(chain[n]) \in Nat
    BY BaseIsNat DEF ReliableInv, Base
  <2>2. clock <= MaxClock
    BY DEF ReliableInv, AgreeInv, OnTimeInv
  <2> QED
    BY <2>1, <2>2, CertAssumption
<1>3. chain' = [chain EXCEPT ![n] = Digested(@, MakeRecord(Last(@), txs))]
  BY <1>1
<1>4. Ledger!Decide(n)
  BY <1>1, <1>2, <1>3
     DEF Ledger!Decide, Ledger!Digested, Ledger!Patched, Ledger!MakeRecord, Ledger!Marker,
         Ledger!Last, Digested, Patched, MakeRecord, Marker, Last
<1> QED
  BY <1>4 DEF Ledger!Next

LEMMA CycleCreatorAgrees ==
  ASSUME Reliable, ReliableInv, CertInv', VoteInv', NEW n \in Node, CycleCreator(n)
  PROVE  AgreeInv' /\ (Ledger!Next \/ UNCHANGED chain)
<1> USE DEF ReliableInv, AgreeInv
<1>1. /\ Due(n, 5) /\ timers' = [timers EXCEPT ![n].pending = @ \ {5}]
      /\ StartCreator(n, chain[n], bestRecord[n])
      /\ UNCHANGED <<clock, currentCycle, prevMarkerCached, bestMarker, bestCycleCert,
                     bestCertScore, compare, cacheOfCycleCerts, gossip>>
  BY DEF CycleCreator, Fired
<1>2. /\ clock = Base(n) + 4 /\ creator[n] = "timer" /\ clock % 4 = 0
      /\ Base(n) \in Nat /\ clock \in Nat /\ Len(chain[n]) \in Nat \ {0}
      /\ \A q \in timers[n].pending : 5 <= q
  BY <1>1, DueNow
<1>3. gossip = {} /\ \A q \in Node : compare[q].state = "idle"
  BY <1>2, IdleOnTheHour
<1>4. /\ DOMAIN chain = Node /\ DOMAIN creator = Node /\ DOMAIN bestRecord = Node
      /\ DOMAIN timers = Node /\ DOMAIN currentQuarter = Node /\ IsChain(chain[n])
      /\ chain = [q \in Node |-> chain[q]]
  BY DEF CertInv, Chains, GoodChain, Shape, Bests, DecidedInv
<1>5. NoNewVotes
  BY CycleCreatorVotes
<1>6. /\ \A q \in Node \ {n} :
           /\ creator'[q] = creator[q] /\ chain'[q] = chain[q] /\ timers'[q] = timers[q]
           /\ currentCycle'[q] = currentCycle[q] /\ currentQuarter'[q] = currentQuarter[q]
           /\ bestRecord'[q] = bestRecord[q]
  BY <1>1, <1>4 DEF StartCreator
<1>7. OnTime(n) /\ Scores(n) /\ CachedOnTime(n) /\ (n \in Active => ActiveOnTime(n))
  BY DEF OnTimeInv, ScoreInv, CacheInv
<1>8. CASE bestMarker[n] = NoMarker
  <2>1. bestRecord[n] = NoRecord /\ n \notin Active
    BY <1>2, <1>7, <1>8 DEF Scores, ActiveOnTime
  <2>2. /\ creator'[n] = "fetch" /\ chain'[n] = chain[n] /\ bestRecord'[n] = NoRecord
        /\ chain' = chain /\ bestRecord' = [bestRecord EXCEPT ![n] = NoRecord]
    BY <1>1, <1>4, <2>1 DEF StartCreator
  <2>3. OnTime(n)'
    BY <1>1, <1>2, <1>7, <2>2 DEF OnTime, Running, Base, Newest
  <2>4. Scores(n)'
    BY <1>1, <1>2, <1>7, <1>8, <2>2 DEF Scores, Scoring, IsScored, BestScore
  <2>5. CachedOnTime(n)'
    BY <1>1, <1>7, <1>8, <2>2 DEF CachedOnTime, Base, Newest
  <2>6. OnTimeInv' /\ ScoreInv' /\ HeardInv' /\ CacheInv' /\ CompareInv'
    BY <1>1, <1>3, <1>6, <2>1, <2>2, <2>3, <2>4, <2>5, NodeMoves
  <2>7. MadeInv'
    BY <1>1, <1>2, <1>5, <2>2, KeepMade DEF MadeInv
  <2>8. DecidedInv'
    BY <1>1, <1>6, <2>2 DEF DecidedInv, Decided
  <2> QED
    BY <2>2, <2>6, <2>7, <2>8
<1>9. CASE bestMarker[n] # NoMarker
  <2> PICK r : r = bestRecord[n]
    OBVIOUS
  <2> PICK c : c = Digested(chain[n], r)
    OBVIOUS
  <2>1. /\ r.previous = Marker(chain[n][Len(chain[n])]) /\ r.counter = Len(chain[n])
        /\ Unpatched(Patched(chain[n], r)) = r
        /\ Patched(chain[n], r).previous = r.previous
        /\ Patched(chain[n], r).lists = <<UNION {chain[n][i].txs : i \in DOMAIN chain[n]}>>
    BY <1>2, <1>9, BestDigest
  <2>2. GoodRecord(r) /\ Current(n) /\ bestMarker[n] = Marker(r)
    BY <1>2, <1>9, BestCurrent
  <2>3. r # NoRecord /\ Last(chain[n]).counter < r.counter
    <3>1. Last(chain[n]).counter = Len(chain[n]) - 1
      BY ChainLength DEF Newest
    <3> QED
      BY <1>2, <2>1, <2>2, <3>1 DEF Reliable
  <2>4. /\ creator'[n] = "save" /\ chain' = [chain EXCEPT ![n] = c] /\ chain'[n] = c
    BY <1>1, <1>4, <2>3 DEF StartCreator
  <2>5. /\ IsChain(c) /\ Len(c) = Len(chain[n]) + 1
        /\ DOMAIN chain[n] = 1 .. Len(chain[n]) /\ DOMAIN c = 1 .. Len(chain[n]) + 1
        /\ \A i \in 1 .. Len(chain[n]) : c[i] = chain[n][i]
        /\ c[Len(chain[n]) + 1] = Patched(chain[n], r) /\ Last(c) = Patched(chain[n], r)
    BY <1>4, DigestShape
  <2>6. OnTime(n)' /\ ActiveOnTime(n)'
    <3>1. Base(n)' = clock
      BY <1>2, <2>4, <2>5 DEF Base
    <3> QED
      BY <1>1, <1>2, <2>4, <3>1 DEF OnTime, ActiveOnTime, Running
  <2>7. Scores(n)'
    <3>1. prevMarkerCached[n] # NoMarker
      BY <2>2 DEF Current, Marker, NoMarker
    <3> QED
      BY <1>1, <2>4, <3>1 DEF Scores, Scoring
  <2>8. CachedOnTime(n)'
    <3>1. ASSUME NEW k \in DOMAIN cacheOfCycleCerts[n]
          PROVE  k \in Nat /\ k <= Len(chain[n])
                 /\ (k = Len(chain[n]) => cacheOfCycleCerts[n][k].marker = Marker(Unpatched(Last(c))))
      BY <1>7, <2>1, <2>2, <2>5 DEF CachedOnTime
    <3>2. Newest(n)' = Last(c)
      BY <2>4 DEF Newest
    <3> PICK u : u = Marker(Unpatched(Last(c)))
      OBVIOUS
    <3>3. Marker(Unpatched(Newest(n)))' = u
      BY <3>2 DEF Marker, Unpatched
    <3> QED
      BY <1>1, <1>2, <2>4, <2>5, <3>1, <3>3 DEF CachedOnTime
  <2>9. OnTimeInv' /\ ScoreInv' /\ HeardInv' /\ CacheInv' /\ CompareInv'
    BY <1>1, <1>3, <1>6, <2>4, <2>6, <2>7, <2>8, NodeMoves
  <2>10. MadeInv'
    <3>1. ASSUME NEW m, MadeOnTime(m), m[1].counter \in Nat, Len(c) >= m[1].counter
          PROVE  m[1].previous = Marker(c[m[1].counter])
      <4>1. clock >= 4 * m[1].counter - 2 /\ clock = 4 * Len(chain[n]) /\ m[1].counter > 0
        BY <1>2, <3>1 DEF MadeOnTime, Base
      <4>2. m[1].counter <= Len(chain[n])
        BY <1>2, <3>1, <4>1
      <4>3. m[1].previous = Marker(chain[n][m[1].counter])
        BY <1>2, <3>1, <4>2 DEF MadeOnTime
      <4> QED
        BY SMTT(30), <1>2, <2>5, <3>1, <4>1, <4>2, <4>3
    <3> QED
      BY <1>1, <1>5, <1>6, <2>4, <3>1, GrownMade
  <2>11. CASE \E p \in Node : Len(chain[p]) > Len(chain[n])
    <3> PICK p \in Node : Len(chain[p]) > Len(chain[n])
      BY <2>11
    <3>1. Len(chain[p]) \in Nat \ {0} /\ DOMAIN chain[p] = 1 .. Len(chain[p])
      BY ChainLast DEF CertInv, Chains, GoodChain
    <3>2. Len(c) <= Len(chain[p])
      BY <1>2, <2>5, <3>1
    <3>3. SameLedger(c, chain[p])
      <4>1. chain[p][Len(chain[n]) + 1] = Patched(chain[n], r)
        BY <1>2, <1>9 DEF DecidedInv, Decided
      <4>2. \A i \in 1 .. Len(chain[n]) : i \in DOMAIN chain[p] => chain[n][i] = chain[p][i]
        BY <2>5 DEF DecidedInv, SameLedger
      <4> QED
        BY SMTT(30), <1>2, <2>5, <4>1, <4>2 DEF SameLedger
    <3>4. Follows(n, p, c)
      BY <2>4, <2>5, <3>2, <3>3 DEF Follows
    <3>5. Ledger!Next
      BY <1>2, <2>5, <3>4, FollowStep
    <3>6. DecidedInv'
      BY <1>1, <1>6, <2>4, <3>4, FollowDecided
    <3> QED
      BY <2>9, <2>10, <3>5, <3>6
  <2>12. CASE \A p \in Node : ~(Len(chain[p]) > Len(chain[n]))
    <3>1. \A q \in Node : Len(chain[q]) \in Nat \ {0} /\ DOMAIN chain[q] = 1 .. Len(chain[q])
                          /\ Len(chain[q]) <= Len(chain[n])
      BY <1>2, <2>12, ChainLast DEF CertInv, Chains, GoodChain
    <3>2. Ledger!Next
      BY <1>2, <1>9, <2>4, <3>1, DecideStep
    <3>3. ASSUME NEW q \in Node PROVE SameLedger(c, chain[q]) /\ SameLedger(chain[q], c)
      <4>1. SameLedger(chain[n], chain[q])
        BY DEF DecidedInv
      <4> QED
        BY SMTT(30), <2>5, <3>1, <4>1 DEF SameLedger
    <3>4. ASSUME NEW q \in Node, NEW p \in Node PROVE SameLedger(chain'[q], chain'[p])
      <4>1. SameLedger(chain[q], chain[p]) /\ SameLedger(c, c)
        BY DEF DecidedInv, SameLedger
      <4> QED
        BY <1>6, <2>4, <3>3, <4>1
    <3>5. Linked(c)
      <4>1. \A i \in 1 .. Len(chain[n]) - 1 : chain[n][i + 1].previous = Marker(chain[n][i])
        BY DEF DecidedInv, Linked
      <4> SUFFICES ASSUME NEW i \in 1 .. Len(chain[n]) PROVE c[i + 1].previous = Marker(c[i])
        BY <1>2, <2>5 DEF Linked
      <4>2. CASE i = Len(chain[n])
        BY <1>2, <2>1, <2>5, <4>2
      <4>3. CASE i # Len(chain[n])
        <5>1. i \in 1 .. Len(chain[n]) - 1 /\ i + 1 \in 1 .. Len(chain[n])
          BY <1>2, <4>3
        <5> QED
          BY <2>5, <4>1, <5>1
      <4> QED
        BY <4>2, <4>3
    <3>6. Filled(c)
      <4> SUFFICES ASSUME NEW i \in 1 .. Len(chain[n])
                   PROVE  c[i + 1].lists = <<UNION {c[j].txs : j \in 1 .. i}>>
        BY <1>2, <2>5 DEF Filled
      <4>1. {c[j].txs : j \in 1 .. i} = {chain[n][j].txs : j \in 1 .. i}
        <5>1. \A j \in 1 .. i : j \in 1 .. Len(chain[n])
          BY <1>2
        <5>2. \A j \in 1 .. i : c[j] = chain[n][j]
          BY <2>5, <5>1
        <5> QED
          BY <5>2
      <4>2. CASE i = Len(chain[n])
        BY <2>1, <2>5, <4>1, <4>2
      <4>3. CASE i # Len(chain[n])
        <5>1. i \in 1 .. Len(chain[n]) - 1 /\ i + 1 \in 1 .. Len(chain[n])
          BY <1>2, <4>3
        <5>2. chain[n][i + 1].lists = <<UNION {chain[n][j].txs : j \in 1 .. i}>>
          BY <5>1 DEF DecidedInv, Filled
        <5>3. c[i + 1] = chain[n][i + 1]
          BY <2>5, <5>1
        <5> QED
          BY <4>1, <5>2, <5>3
      <4> QED
        BY <4>2, <4>3
    <3>7. ASSUME NEW q \in Node, NEW p \in Node PROVE Decided(q, p)'
      <4>1. CASE q = n
        BY <2>4, <4>1 DEF Decided
      <4>2. CASE q # n /\ p # n
        BY <1>1, <1>6, <4>2 DEF DecidedInv, Decided
      <4>3. CASE q # n /\ p = n
        <5> SUFFICES ASSUME creator[q] = "timer", bestMarker[q] # NoMarker, Len(c) > Len(chain[q])
                     PROVE  c[Len(chain[q]) + 1] = Patched(chain[q], bestRecord[q])
          BY <1>1, <1>6, <2>4, <4>3 DEF Decided
        <5>1. CASE Len(chain[q]) = Len(chain[n])
          <6>1. Current(q)
            BY BestCurrent
          <6>2. chain[q] = chain[n] /\ bestRecord[q] = r
            BY <1>3, <1>9, <2>2, <5>1, <6>1, SameChains, Converge
          <6> QED
            BY <2>5, <6>2
        <5>2. CASE Len(chain[q]) < Len(chain[n])
          <6>1. chain[n][Len(chain[q]) + 1] = Patched(chain[q], bestRecord[q])
            BY <3>1, <5>2 DEF DecidedInv, Decided
          <6>2. Len(chain[q]) + 1 \in 1 .. Len(chain[n])
            BY <3>1, <5>2
          <6> QED
            BY <2>5, <6>1, <6>2
        <5> QED
          BY <3>1, <5>1, <5>2
      <4> QED
        BY <4>1, <4>2, <4>3
    <3>8. \A q \in Node : Linked(chain'[q]) /\ Filled(chain'[q])
      BY <1>6, <2>4, <3>5, <3>6 DEF DecidedInv
    <3>9. chain' = [q \in Node |-> chain'[q]]
      BY <1>4, <2>4
    <3>10. DecidedInv'
      BY <3>4, <3>7, <3>8, <3>9 DEF DecidedInv
    <3> QED
      BY <2>9, <2>10, <3>2, <3>10
  <2> QED
    BY <2>11, <2>12
<1> QED
  BY <1>8, <1>9
-----------------------------------------------------------------------------
(* Nodes that join and nodes that fetch a record.                          *)
LEMMA StartCyclesAgrees ==
  ASSUME Reliable, ReliableInv, CertInv', VoteInv', NEW n \in Node, NEW p \in Node, StartCycles(n, p)
  PROVE  AgreeInv' /\ (Ledger!Next \/ UNCHANGED chain)
<1> USE DEF ReliableInv, AgreeInv
<1>1. /\ creator[n] = "off" /\ Running(p) /\ StartCreator(n, chain[p], Newest(p))
      /\ UNCHANGED <<clock, timers, currentCycle, prevMarkerCached, bestMarker, bestCycleCert,
                     bestCertScore, compare, cacheOfCycleCerts, gossip>>
  BY DEF StartCycles
<1>2. /\ DOMAIN chain = Node /\ DOMAIN creator = Node /\ DOMAIN bestRecord = Node
      /\ DOMAIN currentQuarter = Node /\ IsChain(chain[n]) /\ IsChain(chain[p])
      /\ chain = [q \in Node |-> chain[q]]
  BY DEF CertInv, Chains, GoodChain, Shape, Bests, DecidedInv
<1>3. NoNewVotes /\ n \notin Active
  BY <1>1, StartCyclesVotes DEF VoteInv, OffListens
<1>4. /\ \A q \in Node \ {n} :
           /\ creator'[q] = creator[q] /\ chain'[q] = chain[q] /\ timers'[q] = timers[q]
           /\ currentCycle'[q] = currentCycle[q] /\ currentQuarter'[q] = currentQuarter[q]
           /\ bestRecord'[q] = bestRecord[q]
  BY <1>1, <1>2 DEF StartCreator
<1>5. /\ Len(chain[n]) \in Nat /\ Len(chain[p]) \in Nat \ {0} /\ clock \in Nat
      /\ GoodRecord(Newest(p)) /\ Newest(p).counter = Len(chain[p]) - 1
  BY ChainLength DEF CertInv, Shape
<1>6. /\ creator'[n] = "save" /\ chain' = [chain EXCEPT ![n] = chain[p]] /\ chain'[n] = chain[p]
  <2>1. Newest(p) # NoRecord /\ ~(Last(chain[p]).counter < Newest(p).counter)
    BY <1>5 DEF Reliable, Newest
  <2> QED
    BY <1>1, <1>2, <2>1 DEF StartCreator
<1>7. /\ OnTime(n) /\ OnTime(p) /\ Scores(n) /\ Len(chain[n]) = 1
      /\ prevMarkerCached[n] = NoMarker /\ cacheOfCycleCerts[n] = <<>>
  BY <1>1 DEF OnTimeInv, OnTime, ScoreInv
<1>8. OnTime(n)'
  <2>1. Base(n)' = Base(p)
    BY <1>6 DEF Base
  <2>2. Base(p) <= clock /\ clock <= Base(p) + 4
    BY <1>1, <1>7 DEF OnTime
  <2> QED
    BY <1>1, <1>6, <1>7, <2>1, <2>2 DEF OnTime
<1>9. Scores(n)'
  BY <1>1, <1>6, <1>7 DEF Scores, Scoring, IsScored, BestScore
<1>10. CachedOnTime(n)'
  <2>1. DOMAIN <<>> = {}
    OBVIOUS
  <2> QED
    BY <1>1, <1>7, <2>1 DEF CachedOnTime
<1>11. compare[n].state = "idle"
  BY <1>1, IdleBefore
<1>12. OnTimeInv' /\ ScoreInv' /\ HeardInv' /\ CacheInv' /\ CompareInv'
  BY <1>1, <1>3, <1>4, <1>6, <1>8, <1>9, <1>10, <1>11, NodeMoves
<1> PICK c : c = chain[p]
  OBVIOUS
<1>13. Follows(n, p, c)
  BY <1>2, <1>5, <1>6 DEF Follows, SameLedger
<1>14. DecidedInv' /\ MadeInv'
  BY <1>1, <1>3, <1>4, <1>6, <1>13, FollowDecided, FollowMade
<1>15. CASE Len(c) > Len(chain[n])
  BY <1>12, <1>13, <1>14, <1>15, FollowStep
<1>16. CASE ~(Len(c) > Len(chain[n]))
  <2>1. Len(chain[n]) = Len(chain[p])
    <3>1. \A k \in Nat \ {0} : ~(k > 1) => k = 1
      OBVIOUS
    <3>2. Len(chain[p]) \in Nat \ {0} /\ ~(Len(chain[p]) > 1)
      BY <1>5, <1>7, <1>16
    <3> QED
      BY <1>7, <3>1, <3>2, Zenon
  <2>2. chain[n] = chain[p]
    BY <2>1, SameChains
  <2>3. UNCHANGED chain
    BY <1>2, <1>6, <2>2
  <2> QED
    BY <1>12, <1>14, <2>3
<1> QED
  BY <1>15, <1>16

(* Syncing with a node one record ahead gives that node's chain.           *)
Syncing(u, c, theirs, since, N) == u = SyncStep(u, c, theirs, since, N)
Known(theirs, k, s) == \A i \in 1 .. k : ~(theirs[i].counter > s)
LEMMA SyncUpTo ==
  ASSUME NEW c, NEW theirs, NEW s, NEW k \in Nat, NEW m \in Nat, k <= m,
         NEW v, Syncing(v, c, theirs, s, m), Known(theirs, k, s)
  PROVE  v[k] = c
<1> DEFINE T == {i \in Nat : i <= k => v[i] = c}
<1>1. \A i \in 0 .. m : v[i] = IF i = 0 THEN c ELSE DigestNewer(v[i - 1], theirs[i], s)
  BY DEF Syncing, SyncStep
<1>2. 0 \in T
  BY <1>1
<1>3. ASSUME NEW i \in Nat, i \in T PROVE i + 1 \in T
  <2> SUFFICES ASSUME i + 1 <= k PROVE v[i + 1] = c
    OBVIOUS
  <2>1. i + 1 \in 0 .. m /\ i + 1 # 0 /\ (i + 1) - 1 = i /\ i <= k /\ i + 1 \in 1 .. k
    OBVIOUS
  <2>2. v[i + 1] = DigestNewer(v[i], theirs[i + 1], s)
    BY <1>1, <2>1
  <2>3. v[i] = c /\ ~(theirs[i + 1].counter > s)
    BY <1>3, <2>1 DEF Known
  <2> QED
    BY <2>2, <2>3 DEF DigestNewer
<1> HIDE DEF T
<1>4. k \in T
  BY <1>2, <1>3, SetInduction
<1> QED
  BY <1>4 DEF T

LEMMA SyncedFollows ==
  ASSUME CertInv, DecidedInv, NEW n \in Node, NEW p \in Node,
         Len(chain[p]) \in {Len(chain[n]), Len(chain[n]) + 1}
  PROVE  \/ Synced(n, p) = chain[n]
         \/ /\ Len(Synced(n, p)) = Len(chain[n]) + 1 /\ Len(chain[p]) = Len(chain[n]) + 1
            /\ SameLedger(Synced(n, p), chain[p])
<1> DEFINE L == Len(chain[n])
           N == Len(chain[p])
           since == Newest(n).counter
           u == CHOOSE u : u = SyncStep(u, chain[n], chain[p], since, N)
<1>1. /\ IsChain(chain[n]) /\ IsChain(chain[p]) /\ L \in Nat \ {0} /\ N \in Nat \ {0} /\ since = L - 1
      /\ DOMAIN chain[p] = 1 .. N /\ DOMAIN chain[n] = 1 .. L /\ Last(chain[n]) = chain[n][L]
      /\ \A i \in 1 .. N : chain[p][i].counter = i - 1 /\ GoodRecord(chain[p][i])
  BY ChainLength, ChainLast DEF CertInv, Chains, GoodChain
<1>2. Synced(n, p) = u[N]
  BY Zenon DEF Synced, SyncStep
<1>3. u = SyncStep(u, chain[n], chain[p], since, N)
  <2> HIDE DEF since, N
  <2> QED
    BY <1>1, SyncExists
<1> HIDE DEF u, since
<1>4. u[L] = chain[n]
  <2>1. Known(chain[p], L, since)
    BY <1>1 DEF Known
  <2>2. L <= N /\ L \in Nat /\ N \in Nat
    BY <1>1
  <2>3. Syncing(u, chain[n], chain[p], since, N)
    BY <1>3 DEF Syncing
  <2> HIDE DEF L, N
  <2> QED
    BY <2>1, <2>2, <2>3, SyncUpTo
<1>5. CASE N = L
  BY <1>2, <1>4, <1>5
<1>6. CASE N = L + 1
  <2> PICK r : r = chain[p][L + 1]
    OBVIOUS
  <2>1. u[N] = DigestNewer(chain[n], r, since)
    <3>1. \A i \in 0 .. N : u[i] = IF i = 0 THEN chain[n] ELSE DigestNewer(u[i - 1], chain[p][i], since)
      BY <1>3 DEF SyncStep
    <3>2. L + 1 \in 0 .. N /\ L + 1 # 0 /\ (L + 1) - 1 = L
      BY <1>1, <1>6
    <3> QED
      BY <1>4, <1>6, <3>1, <3>2
  <2>2. \A i \in 1 .. L : chain[n][i] = chain[p][i]
    <3>1. \A i \in 1 .. L : i \in DOMAIN chain[n] \cap DOMAIN chain[p]
      BY <1>1, <1>6
    <3>2. SameLedger(chain[n], chain[p])
      BY DEF DecidedInv
    <3> QED
      BY <3>1, <3>2 DEF SameLedger
  <2>3. r.counter > since /\ r.previous = Marker(Last(chain[n]))
    <3>1. r.counter = L /\ L \in 1 .. N - 1
      BY <1>1, <1>6
    <3>2. r.previous = Marker(chain[p][L])
      BY <3>1 DEF DecidedInv, Linked
    <3> QED
      BY <1>1, <2>2, <3>1, <3>2
  <2>4. Synced(n, p) = Digested(chain[n], r)
    BY <1>2, <2>1, <2>3 DEF DigestNewer
  <2>5. Patched(chain[n], r) = r
    <3>1. L \in 1 .. N - 1 /\ L + 1 \in 1 .. N
      BY <1>1, <1>6
    <3>2. r.lists = <<UNION {chain[p][j].txs : j \in 1 .. L}>>
      BY <3>1 DEF DecidedInv, Filled
    <3>3. {chain[p][j].txs : j \in 1 .. L} = {chain[n][i].txs : i \in DOMAIN chain[n]}
      BY <1>1, <2>2
    <3>4. GoodRecord(r)
      BY <1>1, <3>1
    <3>5. r = [counter |-> r.counter, previous |-> r.previous, txs |-> r.txs, lists |-> r.lists]
      BY <3>4 DEF GoodRecord
    <3>6. Patched(chain[n], r) = [r EXCEPT !.lists = r.lists]
      BY <3>2, <3>3 DEF Patched
    <3>7. \A l : l = r.lists => [r EXCEPT !.lists = l] = r
      BY <3>5
    <3> QED
      BY <3>6, <3>7
  <2>6. /\ Len(Digested(chain[n], r)) = L + 1 /\ DOMAIN Digested(chain[n], r) = 1 .. L + 1
        /\ \A i \in 1 .. L : Digested(chain[n], r)[i] = chain[n][i]
        /\ Digested(chain[n], r)[L + 1] = Patched(chain[n], r)
    BY <1>1, DigestShape
  <2>7. \A i \in 1 .. L + 1 : Digested(chain[n], r)[i] = chain[p][i]
    BY <1>1, <2>2, <2>5, <2>6
  <2> QED
    BY <1>6, <2>4, <2>6, <2>7 DEF SameLedger
<1> QED
  BY <1>5, <1>6

LEMMA FetchLatestRecordAgrees ==
  ASSUME Reliable, ReliableInv, CertInv', VoteInv', NEW n \in Node, NEW p \in Node, FetchLatestRecord(n, p)
  PROVE  AgreeInv' /\ (Ledger!Next \/ UNCHANGED chain)
<1> USE DEF ReliableInv, AgreeInv
<1>1. /\ creator[n] = "fetch" /\ Running(p)
      /\ UNCHANGED <<clock, timers, currentCycle, currentQuarter, prevMarkerCached,
                     bestVars, compare, cacheOfCycleCerts, gossip>>
      /\ UNCHANGED <<bestRecord, bestMarker, bestCycleCert, bestCertScore>>
  BY DEF FetchLatestRecord, bestVars
<1>2. /\ DOMAIN chain = Node /\ DOMAIN creator = Node /\ IsChain(chain[n]) /\ IsChain(chain[p])
      /\ Len(chain[n]) \in Nat \ {0} /\ Len(chain[p]) \in Nat \ {0} /\ clock \in Nat
      /\ Newest(n).counter = Len(chain[n]) - 1
  BY ChainLength DEF CertInv, Chains, GoodChain, Shape
<1>3. NoNewVotes
  BY FetchVotes
<1>4. n \notin Active
  BY <1>1 DEF OnTimeInv, ActiveOnTime
<1>5. /\ clock = Base(n) + 4 /\ Base(n) = 4 * (Len(chain[n]) - 1)
      /\ Len(chain[p]) \in {Len(chain[n]), Len(chain[n]) + 1}
  <2>1. clock = Base(n) + 4 /\ Base(p) <= clock /\ clock <= Base(p) + 4
    BY <1>1 DEF OnTimeInv, OnTime
  <2> QED
    BY <1>2, <2>1 DEF Base
<1>6. compare[n].state = "idle"
  BY <1>1, IdleBefore
<1>7. OnTime(n) /\ Scores(n) /\ CachedOnTime(n)
  BY DEF OnTimeInv, ScoreInv, CacheInv
<1>8. bestMarker[n] = NoMarker /\ Len(chain[n]) \notin DOMAIN cacheOfCycleCerts[n]
  BY <1>1, <1>7 DEF Scores, CachedOnTime
<1>9. CASE Last(Synced(n, p)).counter > Newest(n).counter
  <2> PICK c : c = Synced(n, p)
    OBVIOUS
  <2>1. creator' = [creator EXCEPT ![n] = "save"] /\ chain' = [chain EXCEPT ![n] = c]
    BY <1>9 DEF FetchLatestRecord
  <2>2. /\ creator'[n] = "save" /\ chain'[n] = c
        /\ \A q \in Node \ {n} : creator'[q] = creator[q] /\ chain'[q] = chain[q]
    BY <1>2, <2>1
  <2>3. /\ Len(c) = Len(chain[n]) + 1 /\ Len(chain[p]) = Len(chain[n]) + 1 /\ SameLedger(c, chain[p])
    <3>1. ~(Newest(n).counter > Newest(n).counter)
      BY <1>2
    <3>2. c # chain[n]
      BY <1>9, <3>1 DEF Newest
    <3> QED
      BY <1>5, <3>2, SyncedFollows
  <2>4. IsChain(c)
    BY <2>2 DEF CertInv, Chains, GoodChain
  <2>5. Follows(n, p, c)
    BY <1>2, <2>1, <2>3, <2>4 DEF Follows
  <2>6. Base(n)' = clock
    BY <1>2, <1>5, <2>2, <2>3 DEF Base
  <2>7. OnTime(n)'
    BY <1>1, <1>2, <2>2, <2>6 DEF OnTime
  <2>8. Scores(n)'
    BY <1>1, <1>7, <1>8, <2>2 DEF Scores, Scoring, IsScored
  <2>9. CachedOnTime(n)'
    <3>1. \A k \in DOMAIN cacheOfCycleCerts[n] :
            k \in Nat /\ k <= Len(c) /\ k # Len(c) /\ k # Len(c) - 1
      BY <1>2, <1>7, <1>8, <2>3 DEF CachedOnTime
    <3> QED
      BY <1>1, <2>2, <3>1 DEF CachedOnTime
  <2>10. OnTimeInv' /\ ScoreInv' /\ HeardInv' /\ CacheInv' /\ CompareInv'
    BY <1>1, <1>4, <1>6, <2>2, <2>7, <2>8, <2>9, NodeMoves
  <2>11. DecidedInv' /\ MadeInv'
    BY <1>1, <1>3, <2>2, <2>5, FollowDecided, FollowMade
  <2>12. Ledger!Next
    BY <1>2, <2>3, <2>5, FollowStep
  <2> QED
    BY <2>10, <2>11, <2>12
<1>10. CASE ~(Last(Synced(n, p)).counter > Newest(n).counter)
  <2>1. /\ UNCHANGED chain /\ creator'[n] \in {"fetch", "gone"}
        /\ \A q \in Node \ {n} : creator'[q] = creator[q]
    BY <1>1, <1>2, <1>10 DEF FetchLatestRecord, FetchFailed
  <2>2. OnTime(n)'
    BY <1>1, <1>5, <1>7, <2>1 DEF OnTime, Running, Base
  <2>3. Scores(n)'
    BY <1>1, <1>7, <1>8, <2>1 DEF Scores, Scoring, IsScored
  <2>4. CachedOnTime(n)'
    BY <1>1, <1>7, <1>8, <2>1 DEF CachedOnTime
  <2>5. OnTimeInv' /\ ScoreInv' /\ HeardInv' /\ CacheInv' /\ CompareInv'
    BY <1>1, <1>4, <1>6, <2>1, <2>2, <2>3, <2>4, NodeMoves
  <2>6. MadeInv'
    BY <1>1, <1>2, <1>3, <2>1, KeepMade DEF MadeInv
  <2>7. DecidedInv'
    BY <1>1, <2>1 DEF DecidedInv, Decided
  <2> QED
    BY <2>1, <2>5, <2>6, <2>7
<1> QED
  BY <1>9, <1>10

LEMMA StoredCycleAgrees ==
  ASSUME Reliable, ReliableInv, CertInv', VoteInv', NEW n \in Node, StoredCycle(n)
  PROVE  AgreeInv' /\ UNCHANGED chain
<1> USE DEF ReliableInv, AgreeInv
<1>1. /\ creator[n] = "save"
      /\ UNCHANGED <<clock, chain, prevMarkerCached, compare, cacheOfCycleCerts, gossip>>
  BY DEF StoredCycle
<1>2. /\ DOMAIN chain = Node /\ DOMAIN creator = Node /\ DOMAIN currentCycle = Node
      /\ DOMAIN currentQuarter = Node /\ DOMAIN timers = Node
      /\ DOMAIN bestRecord = Node /\ DOMAIN bestMarker = Node
      /\ DOMAIN bestCycleCert = Node /\ DOMAIN bestCertScore = Node
      /\ Len(chain[n]) \in Nat \ {0} /\ clock \in Nat
      /\ Base(n) \in Nat /\ Base(n) = 4 * (Len(chain[n]) - 1) /\ Base(n) % 4 = 0
      /\ Newest(n).counter = Len(chain[n]) - 1
  BY BaseIsNat, ChainLength DEF CertInv, Chains, Shape, Bests
<1>3. /\ \A q \in Node \ {n} :
           /\ creator'[q] = creator[q] /\ timers'[q] = timers[q]
           /\ currentCycle'[q] = currentCycle[q] /\ currentQuarter'[q] = currentQuarter[q]
           /\ bestRecord'[q] = bestRecord[q] /\ bestMarker'[q] = bestMarker[q]
           /\ bestCycleCert'[q] = bestCycleCert[q] /\ bestCertScore'[q] = bestCertScore[q]
      /\ creator'[n] = "timer" /\ currentCycle'[n] = (clock \div 4) + 1
      /\ timers'[n] = [base |-> Base(n), pending |-> Scheduled(Base(n))]
      /\ bestRecord'[n] = NoRecord /\ bestMarker'[n] = NoMarker /\ bestCycleCert'[n] = <<>>
  BY <1>2 DEF StoredCycle
<1>4. NoNewVotes
  BY StoredCycleVotes
<1>5. /\ OnTime(n) /\ Base(n) <= clock /\ clock <= Base(n) + 4
      /\ clock = Base(n) \/ prevMarkerCached[n] = NoMarker
      /\ n \in Active => clock = Base(n)
  BY <1>1 DEF OnTimeInv, OnTime, ActiveOnTime, Running
<1>6. Base(n)' = Base(n) /\ (Current(n)' => clock = Base(n))
  <2>1. Marker(Newest(n)) # NoMarker
    BY DEF Marker, NoMarker
  <2> QED
    BY <1>1, <1>5, <2>1 DEF Base, Current, Newest
<1>7. /\ 5 \in timers'[n].pending /\ timers'[n].base = Base(n)
      /\ \A q \in timers'[n].pending : clock <= Base(n) + q - 1
      /\ clock = Base(n) => 2 \in timers'[n].pending /\ 3 \in timers'[n].pending
      /\ clock < Base(n) + 4 => currentCycle'[n] = Len(chain[n])
  <2>1. clock < Base(n) + 4 => clock \div 4 = Len(chain[n]) - 1
    BY <1>2, <1>5
  <2> QED
    BY <1>2, <1>3, <1>5, <2>1 DEF Scheduled
<1>8. OnTime(n)' /\ (n \in Active => ActiveOnTime(n)')
  BY <1>1, <1>3, <1>5, <1>6, <1>7 DEF OnTime, ActiveOnTime, Running
<1>9. OnTimeInv'
  <2>1. ASSUME NEW q \in Node PROVE OnTime(q)'
    <3>1. OnTime(q)
      BY DEF OnTimeInv
    <3>2. CASE q # n
      BY <1>1, <1>3, <3>1, <3>2 DEF OnTime, Running, Base, Newest
    <3> QED
      BY <1>8, <3>2
  <2>2. ASSUME NEW q \in Active PROVE ActiveOnTime(q)'
    <3>1. ActiveOnTime(q) /\ q \in Node
      BY CertAssumption DEF OnTimeInv
    <3>2. CASE q # n
      BY <1>1, <1>3, <3>1, <3>2 DEF ActiveOnTime, Current, Base, Newest
    <3> QED
      BY <1>8, <2>2, <3>2
  <2> QED
    BY <1>1, <2>1, <2>2 DEF OnTimeInv
<1>10. ScoreInv'
  <2> SUFFICES ASSUME NEW q \in Node PROVE Scores(q)'
    BY DEF ScoreInv
  <2>1. CASE q # n
    <3>1. Scores(q)
      BY DEF ScoreInv
    <3> QED
      BY <1>1, <1>3, <2>1, <3>1 DEF Scores, Scoring, IsScored, BestScore
  <2>2. CASE q = n
    <3>1. DOMAIN <<>> = {}
      OBVIOUS
    <3> QED
      BY <1>3, <2>2, <3>1 DEF Scores
  <2> QED
    BY <2>1, <2>2
<1>11. \A q \in Node \ {n} : MyBest(q)' = MyBest(q)
  BY <1>3 DEF MyBest, CertsFor
<1>12. HeardInv'
  <2> SUFFICES ASSUME NEW a \in Node, NEW b \in Node, Current(a)', Current(b)', a # b,
                      (Len(chain[a]) = Len(chain[b]))', bestMarker'[a] # NoMarker
               PROVE  ([to |-> b, msg |-> MyBest(a)] \in gossip)' \/ CoversBest(b, a)'
    BY DEF HeardInv, Heard
  <2>1. a # n
    BY <1>3
  <2>2. creator[a] = "timer" /\ bestMarker[a] # NoMarker /\ Base(a) = Base(b)
    BY <1>1, <1>3, <2>1 DEF Current, Base
  <2>3. b # n
    <3> SUFFICES ASSUME b = n PROVE FALSE
      OBVIOUS
    <3>1. clock < Base(a) + 2
      BY <1>2, <1>6, <2>2
    <3> QED
      BY <2>2, <3>1, EmptyBefore
  <2>4. Current(a) /\ Current(b) /\ Len(chain[a]) = Len(chain[b])
    BY <1>1, <1>3, <2>1, <2>3 DEF Current, Newest
  <2>5. [to |-> b, msg |-> MyBest(a)] \in gossip \/ CoversBest(b, a)
    BY <2>2, <2>4 DEF HeardInv, Heard
  <2>6. MyBest(a)' = MyBest(a)
    BY <1>11, <2>1
  <2>7. CoversBest(b, a)' <=> CoversBest(b, a)
    BY <1>3, <2>1, <2>3 DEF CoversBest, CertsFor
  <2> QED
    BY <1>1, <2>5, <2>6, <2>7
<1>13. CompareInv'
  <2>1. compare[n].state = "idle"
    BY <1>1, IdleBefore
  <2>2. CASE n \notin Active
    BY <1>1, <1>3, <1>11, <2>1, <2>2, OthersComparing
  <2>3. CASE n \in Active
    BY <1>1, <1>2, <1>5, <2>3, IdleOnTheHour, NoneComparing
  <2> QED
    BY <2>2, <2>3
<1>14. DecidedInv'
  <2>1. \A q, p \in Node : Decided(q, p)'
    BY <1>1, <1>3 DEF DecidedInv, Decided
  <2> QED
    BY <1>1, <2>1 DEF DecidedInv
<1>15. CacheInv'
  <2> SUFFICES ASSUME NEW q \in Node PROVE CachedOnTime(q)'
    BY <1>1 DEF CacheInv
  <2>1. CachedOnTime(q)
    BY DEF CacheInv
  <2>2. CASE q # n
    BY <1>1, <1>3, <2>1, <2>2 DEF CachedOnTime, Base, Newest
  <2>3. CASE q = n
    BY <1>1, <1>3, <2>1, <2>3 DEF CachedOnTime
  <2> QED
    BY <2>2, <2>3
<1>16. MadeInv'
  BY <1>1, <1>2, <1>4, KeepMade DEF MadeInv
<1> QED
  BY <1>1, <1>9, <1>10, <1>12, <1>13, <1>14, <1>15, <1>16

-----------------------------------------------------------------------------
(* The clock.                                                              *)
LEMMA TickAgrees ==
  ASSUME Reliable, ReliableInv, CertInv', VoteInv', Tick
  PROVE  AgreeInv' /\ UNCHANGED chain
<1> USE DEF ReliableInv, AgreeInv
<1>1. /\ clock < MaxClock /\ clock' = clock + 1 /\ gossip = {} /\ gossip' = {} /\ \A q \in Node : Settled(q)
      /\ UNCHANGED <<creator, timers, currentCycle, currentQuarter, chain, prevMarkerCached, bestVars,
                     compare, cacheOfCycleCerts>>
      /\ UNCHANGED <<bestMarker, bestCycleCert, bestRecord>>
  BY DEF Tick, Reliable, creatorVars, bestVars
<1>2. clock \in Nat /\ clock' \in Nat /\ MaxClock \in Nat
  BY <1>1, CertAssumption DEF CertInv, Shape
<1>3. \A q \in Node : creator[q] \notin {"fetch", "save"} /\ compare[q].state = "idle"
  <2> SUFFICES ASSUME NEW q \in Node PROVE creator[q] \notin {"fetch", "save"} /\ compare[q].state = "idle"
    OBVIOUS
  <2>1. creator[q] \notin {"fetch", "save"}
    BY <1>1 DEF Settled, Reliable
  <2>2. compare[q].state # "idle" => Running(q) /\ compare[q].state # "retry"
    BY DEF CompareInv, Comparing, Running
  <2> QED
    BY <1>1, <2>1, <2>2 DEF Settled, Reliable
<1>4. \A q \in Node : creator[q] = "timer" =>
        \A k \in timers[q].pending : clock < Base(q) + k - 1
  <2> SUFFICES ASSUME NEW q \in Node, creator[q] = "timer"
               PROVE  \A k \in timers[q].pending : clock < Base(q) + k - 1
    OBVIOUS
  <2> PICK P, b : P = timers[q].pending /\ b = Base(q)
    OBVIOUS
  <2>1. /\ P \subseteq 1 .. 5 /\ b \in Nat /\ timers[q].base = b
    BY BaseIsNat DEF CertInv, Shape, OnTimeInv, OnTime
  <2>2. \A k \in 1 .. 5 : ~(k \in P /\ clock >= b + k - 1 /\ \A r \in P : k <= r)
    BY <1>1, <2>1 DEF Settled, Due
  <2>3. ASSUME NEW k \in P, clock >= b + k - 1 PROVE FALSE
    <3>1. 1 \notin P
      BY <1>2, <2>1, <2>2, <2>3
    <3>2. 2 \notin P
      BY <1>2, <2>1, <2>2, <2>3, <3>1
    <3>3. 3 \notin P
      BY <1>2, <2>1, <2>2, <2>3, <3>1, <3>2
    <3>4. 4 \notin P
      BY <1>2, <2>1, <2>2, <2>3, <3>1, <3>2, <3>3
    <3>5. k = 5
      BY <2>1, <3>1, <3>2, <3>3, <3>4
    <3> QED
      BY <2>1, <2>2, <2>3, <3>1, <3>2, <3>3, <3>4, <3>5
  <2> QED
    BY <1>2, <2>1, <2>3
<1>5. OnTimeInv'
  <2>1. ASSUME NEW q \in Node PROVE OnTime(q)'
    <3>1. OnTime(q) /\ Base(q)' = Base(q) /\ Base(q) \in Nat
      BY <1>1, BaseIsNat DEF OnTimeInv, Base
    <3>2. CASE creator[q] = "timer"
      <4>1. \A k \in timers[q].pending : clock' <= Base(q) + k - 1
        <5>1. timers[q].pending \subseteq 1 .. 5
          BY DEF CertInv, Shape
        <5> QED
          BY <1>1, <1>2, <1>4, <3>1, <3>2, <5>1
      <4>2. 5 \in timers[q].pending
        BY <3>1, <3>2 DEF OnTime
      <4>3. Base(q) <= clock' /\ clock' <= Base(q) + 4
        BY <1>1, <1>2, <3>1, <4>1, <4>2 DEF OnTime
      <4>4. timers[q].base = Base(q) /\ (clock' < Base(q) + 4 => currentCycle[q] = Len(chain[q]))
        BY <1>1, <1>2, <3>1, <3>2 DEF OnTime
      <4>5. 2 \in timers[q].pending \/ prevMarkerCached[q] \in {NoMarker, Marker(Newest(q))}
        BY <3>1, <3>2 DEF OnTime
      <4> QED
        BY <1>1, <3>1, <3>2, <4>1, <4>2, <4>3, <4>4, <4>5 DEF OnTime, Newest
    <3>3. CASE creator[q] # "timer"
      <4>1. creator[q] \in {"off", "gone"}
        BY <1>3, <3>3 DEF CertInv, Shape
      <4> QED
        BY <1>1, <1>2, <3>1, <4>1 DEF OnTime, Running
    <3> QED
      BY <3>2, <3>3
  <2>2. \A q \in Active : ActiveOnTime(q)'
    BY <1>1, <1>3, CertAssumption DEF OnTimeInv, ActiveOnTime, Current, Newest
  <2> QED
    BY <1>1, <1>2, <2>1, <2>2 DEF OnTimeInv
<1>6. MadeInv'
  <2>1. NoNewVotes
    BY TickVotes
  <2> QED
    BY <1>1, <1>2, <2>1, KeepMade
<1>7. CacheInv'
  <2> SUFFICES ASSUME NEW q \in Node PROVE CachedOnTime(q)'
    BY <1>1 DEF CacheInv
  <2>1. CachedOnTime(q) /\ Base(q) \in Nat /\ Base(q)' = Base(q)
    BY <1>1, BaseIsNat DEF CacheInv, Base
  <2> QED
    BY <1>1, <1>2, <2>1 DEF CachedOnTime, Newest
<1> QED
  BY <1>1, <1>3, <1>5, <1>6, <1>7, KeepScores, KeepHeard, KeepDecided, NoneComparing

LEMMA StutterAgrees ==
  ASSUME ReliableInv, CertInv', UNCHANGED vars
  PROVE  AgreeInv'
<1> USE DEF ReliableInv, AgreeInv
<1>1. /\ UNCHANGED <<clock, creator, timers, currentCycle, currentQuarter, chain, prevMarkerCached,
                     bestVars, compare, cacheOfCycleCerts, gossip>>
      /\ UNCHANGED bestMarker
  BY DEF vars, creatorVars, bestVars
<1>2. NoNewVotes /\ clock \in Nat
  BY StutterVotes DEF CertInv, Shape
<1>3. MadeInv'
  BY <1>1, <1>2, KeepMade DEF MadeInv
<1> QED
  BY <1>1, <1>3, KeepOnTime, KeepScores, KeepHeard, KeepComparing, KeepDecided, KeepCached

LEMMA InitAgrees == ASSUME Init PROVE AgreeInv
<1>1. DOMAIN <<>> = {} /\ Len(<<Genesis>>) = 1 /\ <<Genesis>>[1] = Genesis /\ DOMAIN <<Genesis>> = 1 .. 1
  OBVIOUS
<1>2. /\ clock = 0 /\ gossip = {} /\ MaxClock \in Nat
      /\ chain = [n \in Node |-> <<Genesis>>]
      /\ DOMAIN cacheOfCycleCerts = Node
      /\ \A n \in Node :
           /\ creator[n] = IF n \in Active THEN "timer" ELSE "off"
           /\ timers[n] = IF n \in Active THEN [base |-> 0, pending |-> 1 .. 5] ELSE NoTimers
           /\ currentCycle[n] = IF n \in Active THEN 1 ELSE 0
           /\ chain[n] = <<Genesis>> /\ prevMarkerCached[n] = NoMarker
           /\ bestRecord[n] = NoRecord /\ bestMarker[n] = NoMarker
           /\ bestCycleCert[n] = <<>> /\ compare[n] = Idle /\ cacheOfCycleCerts[n] = <<>>
  BY CertAssumption DEF Init
<1>3. \A n \in Node : Base(n) = 0 /\ Len(chain[n]) = 1
  BY <1>1, <1>2 DEF Base
<1>4. OnTimeInv
  <2>1. ASSUME NEW n \in Node PROVE OnTime(n)
    <3>1. n \in Active => timers[n].base = 0 /\ timers[n].pending = 1 .. 5
      BY <1>2
    <3> QED
      BY <1>2, <1>3, <3>1 DEF OnTime, Running
  <2>2. ASSUME NEW n \in Active PROVE ActiveOnTime(n)
    <3>1. n \in Node /\ timers[n].pending = 1 .. 5
      BY <1>2, CertAssumption
    <3> QED
      BY <1>2, <2>2, <3>1 DEF ActiveOnTime
  <2> QED
    BY <1>2, <2>1, <2>2 DEF OnTimeInv
<1>5. ScoreInv
  BY <1>1, <1>2 DEF ScoreInv, Scores, Scoring, IsScored
<1>6. MadeInv
  <2>1. \A o, m : ~Voted(o, m)
    BY <1>1, <1>2 DEF Voted, InTable, InCompare, Idle
  <2> QED
    BY <1>2, <2>1 DEF MadeInv
<1>7. HeardInv
  BY <1>2 DEF HeardInv, Heard
<1>8. CompareInv
  BY <1>2 DEF CompareInv, Comparing, Idle
<1>9. DecidedInv
  <2>1. \A n \in Node : Linked(chain[n]) /\ Filled(chain[n])
    BY <1>1, <1>2 DEF Linked, Filled
  <2>2. \A n, p \in Node : Decided(n, p) /\ SameLedger(chain[n], chain[p])
    BY <1>2 DEF Decided, SameLedger
  <2> QED
    BY <1>2, <2>1, <2>2 DEF DecidedInv
<1>10. CacheInv
  BY <1>1, <1>2 DEF CacheInv, CachedOnTime
<1> QED
  BY <1>4, <1>5, <1>6, <1>7, <1>8, <1>9, <1>10 DEF AgreeInv

(* Every step keeps the invariant, and the chains it leaves are those that *)
(* a step of the ledger, or none, leaves.                                  *)
LEMMA AgreeNext ==
  ASSUME Reliable, ReliableInv, [Next]_vars
  PROVE  ReliableInv' /\ [Ledger!Next]_chain
<1>1. CertInv' /\ VoteInv'
  BY NextKeeps, NextVotes DEF ReliableInv
<1> SUFFICES AgreeInv' /\ (Ledger!Next \/ UNCHANGED chain)
  BY <1>1 DEF ReliableInv
<1>2. ASSUME NEW n \in Node, RunQ1(n) \/ RunQ2(n) \/ RunQ3(n) \/ RunQ4(n)
      PROVE  AgreeInv' /\ UNCHANGED chain
  <2>1. UNCHANGED chain
    BY <1>2 DEF RunQ1, RunQ2, RunQ3, RunQ4
  <2> QED
    BY <1>1, <1>2, <2>1, RunQ1Agrees, RunQ2Agrees, RunQ3Agrees, RunQ4Agrees
<1>3. ASSUME NEW n \in Node, CreatorStep(n) PROVE AgreeInv' /\ (Ledger!Next \/ UNCHANGED chain)
  <2>1. ~FetchError(n)
    BY DEF FetchError, Reliable
  <2> QED
    BY <1>1, <1>2, <1>3, <2>1, CycleCreatorAgrees, StoredCycleAgrees, FetchLatestRecordAgrees
       DEF CreatorStep
<1>4. ASSUME NEW n \in Node, CompareStep(n) PROVE AgreeInv' /\ UNCHANGED chain
  <2>1. ~CompareFail(n) /\ ~CompareRetry(n)
    BY NoCompareEnds
  <2>2. (\E p \in Node : CompareAsk(n, p)) \/ CompareServe(n) \/ CompareReply(n)
    BY <1>4, <2>1 DEF CompareStep
  <2>3. UNCHANGED chain
    BY <2>2 DEF CompareAsk, CompareServe, CompareReply
  <2> QED
    BY <1>1, <2>2, <2>3, CompareAskAgrees, CompareServeAgrees, CompareReplyAgrees
<1>5. ASSUME NEW n \in Node, NEW p \in Node, StartCycles(n, p)
      PROVE  AgreeInv' /\ (Ledger!Next \/ UNCHANGED chain)
  BY <1>1, <1>5, StartCyclesAgrees
<1>6. ASSUME NEW g \in gossip, ReceiveGossip(g) PROVE AgreeInv' /\ UNCHANGED chain
  <2>1. UNCHANGED chain
    BY <1>6 DEF ReceiveGossip
  <2> QED
    BY <1>1, <1>6, <2>1, ReceiveGossipAgrees
<1>7. CASE Tick
  BY <1>1, <1>7, TickAgrees
<1>8. CASE UNCHANGED vars
  BY <1>1, <1>8, StutterAgrees DEF vars
<1>9. CASE EndOfRun
  BY <1>8, <1>9 DEF EndOfRun
<1> QED
  BY <1>3, <1>4, <1>5, <1>6, <1>7, <1>8, <1>9 DEF Next

(* The abstract ledger is safe on its own, for any set of nodes, any sets  *)
(* of txs and any number of cycles.  NoFork and ChainLinked need each      *)
(* other for nothing, but both need to know that chains are sequences.     *)
Ledgers == DOMAIN chain = Node /\ \A n \in Node : IsChain(chain[n])

LedgerInv == Ledgers /\ Ledger!NoFork /\ Ledger!ChainLinked

(* A network starts with every node holding the genesis record only.       *)
LEMMA LedgerInit == Ledger!Init => LedgerInv
<1> SUFFICES ASSUME Ledger!Init PROVE LedgerInv
  OBVIOUS
<1>1. <<Ledger!Genesis>> \in Seq({Ledger!Genesis}) /\ Len(<<Ledger!Genesis>>) = 1
  OBVIOUS
<1>2. IsChain(<<Ledger!Genesis>>)
  <2> Len(<<Ledger!Genesis>>) > 0
    BY <1>1
  <2> QED
    BY <1>1, ChainSeq
<1> QED
  BY <1>1, <1>2 DEF Ledger!Init, LedgerInv, Ledgers, Ledger!NoFork, Ledger!SameLedger, Ledger!ChainLinked,
     Ledger!Linked

(* One digested record: the chain grows by a record that links to the last *)
(* one, and keeps everything before it.                                    *)
LEMMA LedgerDigests ==
  ASSUME NEW c, IsChain(c), NEW txs
  PROVE  LET d == Ledger!Digested(c, Ledger!MakeRecord(Ledger!Last(c), txs))
         IN  /\ IsChain(d)
             /\ Len(d) = Len(c) + 1
             /\ \A i \in 1 .. Len(c) : d[i] = c[i]
             /\ d[Len(c) + 1].previous = Ledger!Marker(c[Len(c)])
<1> DEFINE r == Ledger!Patched(c, Ledger!MakeRecord(Ledger!Last(c), txs))
<1>1. r.previous = Ledger!Marker(c[Len(c)])
  BY DEF Ledger!Patched, Ledger!MakeRecord, Ledger!Last
<1>2. Ledger!Digested(c, Ledger!MakeRecord(Ledger!Last(c), txs)) = Append(c, r)
  BY DEF Ledger!Digested
<1> HIDE DEF r
<1> QED
  BY <1>1, <1>2, ChainAppend

LEMMA LedgerDecides ==
  ASSUME LedgerInv, NEW n \in Node, Ledger!Decide(n)
  PROVE  LedgerInv'
<1> PICK txs \in TxChoices :
      chain' = [chain EXCEPT ![n] = Ledger!Digested(@, Ledger!MakeRecord(Ledger!Last(@), txs))]
  BY DEF Ledger!Decide
<1> DEFINE d == Ledger!Digested(chain[n], Ledger!MakeRecord(Ledger!Last(chain[n]), txs))
<1>1. DOMAIN chain = Node /\ \A p \in Node : IsChain(chain[p])
  BY DEF LedgerInv, Ledgers
<1>2. /\ IsChain(d)
      /\ Len(d) = Len(chain[n]) + 1
      /\ \A i \in 1 .. Len(chain[n]) : d[i] = chain[n][i]
      /\ d[Len(chain[n]) + 1].previous = Ledger!Marker(chain[n][Len(chain[n])])
  BY <1>1, LedgerDigests
<1>3. DOMAIN chain' = Node /\ chain'[n] = d /\ \A p \in Node \ {n} : chain'[p] = chain[p]
  BY <1>1
<1> HIDE DEF d
<1>4. Ledgers'
  BY <1>1, <1>2, <1>3 DEF Ledgers
<1>5. DOMAIN d = 1 .. Len(d) /\ \A p \in Node : DOMAIN chain[p] = 1 .. Len(chain[p]) /\ Len(chain[p]) \in Nat
  BY <1>1, <1>2 DEF IsChain
<1>6. Ledger!NoFork'
  <2>1. \A p \in Node : Len(chain[p]) <= Len(chain[n])
    BY DEF Ledger!Decide
  <2>2. \A p \in Node \ {n} : Ledger!SameLedger(d, chain[p]) /\ Ledger!SameLedger(chain[p], d)
    BY SMTT(30), <1>2, <1>5, <2>1 DEF LedgerInv, Ledger!NoFork, Ledger!SameLedger
  <2> QED
    BY <1>3, <2>2 DEF LedgerInv, Ledger!NoFork, Ledger!SameLedger
<1>7. Ledger!ChainLinked'
  <2>1. Ledger!Linked(d)
    <3>1. \A i \in 1 .. Len(chain[n]) - 1 :
            chain[n][i + 1].previous = Ledger!Marker(chain[n][i])
      BY DEF LedgerInv, Ledger!ChainLinked, Ledger!Linked
    <3>2. SUFFICES ASSUME NEW i \in 1 .. Len(chain[n])
                   PROVE  d[i + 1].previous = Ledger!Marker(d[i])
      BY <1>2, <1>5 DEF Ledger!Linked
    <3>3. CASE i = Len(chain[n])
      BY <1>2, <1>5, <3>3
    <3>4. CASE i # Len(chain[n])
      <4>1. i \in 1 .. Len(chain[n]) - 1 /\ i + 1 \in 1 .. Len(chain[n])
        BY <1>5, <3>4
      <4> QED
        BY <1>2, <3>1, <4>1
    <3> QED
      BY <3>3, <3>4
  <2> QED
    BY <1>3, <2>1 DEF LedgerInv, Ledger!ChainLinked
<1> QED
  BY <1>4, <1>6, <1>7 DEF LedgerInv

LEMMA LedgerFollows ==
  ASSUME LedgerInv, NEW n \in Node, NEW p \in Node, Ledger!Follow(n, p)
  PROVE  LedgerInv'
<1>1. DOMAIN chain = Node /\ \A q \in Node : IsChain(chain[q])
  BY DEF LedgerInv, Ledgers
<1>2. \A q \in Node : DOMAIN chain[q] = 1 .. Len(chain[q]) /\ Len(chain[q]) \in Nat \ {0}
  BY <1>1 DEF IsChain
<1> PICK k \in Len(chain[n]) + 1 .. Len(chain[p]) :
      chain' = [chain EXCEPT ![n] = SubSeq(chain[p], 1, k)]
  BY DEF Ledger!Follow
<1> DEFINE d == SubSeq(chain[p], 1, k)
<1>3. k \in 1 .. Len(chain[p])
  BY <1>2
<1>4. IsChain(d) /\ Len(d) = k /\ \A i \in 1 .. k : d[i] = chain[p][i]
  BY <1>1, <1>3, ChainPrefix
<1>5. DOMAIN chain' = Node /\ chain'[n] = d /\ \A q \in Node \ {n} : chain'[q] = chain[q]
  BY <1>1
<1> HIDE DEF d
<1>6. Ledgers'
  BY <1>1, <1>4, <1>5 DEF Ledgers
<1>7. DOMAIN d = 1 .. k
  BY <1>4 DEF IsChain
<1>8. Ledger!NoFork'
  <2>1. \A q \in Node : Ledger!SameLedger(d, chain[q]) /\ Ledger!SameLedger(chain[q], d)
    BY SMTT(30), <1>2, <1>3, <1>4, <1>7 DEF LedgerInv, Ledger!NoFork, Ledger!SameLedger
  <2> QED
    BY <1>5, <2>1 DEF LedgerInv, Ledger!NoFork, Ledger!SameLedger
<1>9. Ledger!ChainLinked'
  <2>1. Ledger!Linked(d)
    <3> SUFFICES ASSUME NEW i \in 1 .. k - 1 PROVE d[i + 1].previous = Ledger!Marker(d[i])
      BY <1>4 DEF Ledger!Linked
    <3>1. i \in 1 .. Len(chain[p]) - 1 /\ i \in 1 .. k /\ i + 1 \in 1 .. k
      BY <1>2, <1>3
    <3>2. chain[p][i + 1].previous = Ledger!Marker(chain[p][i])
      BY <3>1 DEF LedgerInv, Ledger!ChainLinked, Ledger!Linked
    <3> QED
      BY <1>4, <3>1, <3>2
  <2> QED
    BY <1>5, <2>1 DEF LedgerInv, Ledger!ChainLinked
<1> QED
  BY <1>6, <1>8, <1>9 DEF LedgerInv

(* NoFork and ChainLinked hold of every network: digestCycle of the first  *)
(* node to reach a cycle decides it, and the others only copy it.          *)
THEOREM LedgerSafe == Ledger!Spec => [](NoFork /\ ChainLinked)
<1>1. LedgerInv /\ [Ledger!Next]_chain => LedgerInv'
  <2> SUFFICES ASSUME LedgerInv, [Ledger!Next]_chain PROVE LedgerInv'
    OBVIOUS
  <2>1. ASSUME NEW n \in Node, Ledger!Decide(n) PROVE LedgerInv'
    BY <2>1, LedgerDecides
  <2>2. ASSUME NEW n \in Node, NEW p \in Node, Ledger!Follow(n, p) PROVE LedgerInv'
    BY <2>2, LedgerFollows
  <2>3. CASE UNCHANGED chain
    BY SMTT(30), <2>3 DEF LedgerInv, Ledgers, IsChain, Contents, Ledger!NoFork, Ledger!SameLedger,
                Ledger!ChainLinked, Ledger!Linked
  <2> QED
    BY <2>1, <2>2, <2>3 DEF Ledger!Next
<1>2. LedgerInv => NoFork /\ ChainLinked
  BY DEF LedgerInv, NoFork, ChainLinked
<1> QED
  BY LedgerInit, <1>1, <1>2, PTL DEF Ledger!Spec

(* On a network that loses nothing, whose nodes keep up, and where no two  *)
(* ballots score the same, the chains of the nodes are the single ledger   *)
(* of CycleLedger: whatever order certificates and comparisons come in,    *)
(* the first node to digest a cycle decides it for all.                    *)
THEOREM LedgerImplemented == Reliable => (Spec => ImplementsLedger)
<1> SUFFICES ASSUME Reliable PROVE Spec => ImplementsLedger
  OBVIOUS
<1>1. Init => ReliableInv /\ Ledger!Init
  <2>1. Init => ReliableInv
    BY InitGood, InitVotes, InitAgrees DEF ReliableInv
  <2>2. Init => Ledger!Init
    BY DEF Init, Ledger!Init, Genesis, Ledger!Genesis, NoMarker, Ledger!NoMarker
  <2> QED
    BY <2>1, <2>2
<1>2. ReliableInv /\ [Next]_vars => ReliableInv' /\ [Ledger!Next]_chain
  BY AgreeNext
<1> QED
  BY <1>1, <1>2, PTL DEF Spec, ImplementsLedger, Ledger!Spec

(* On such a network the certificates a node keeps for the archivers vouch *)
(* for the record it digested: those of a Q4 are of the record that the    *)
(* next cycleCreator digests.                                              *)
THEOREM CacheMatches == Reliable => (Spec => []CachedCertsMatch)
<1> SUFFICES ASSUME Reliable PROVE Spec => []CachedCertsMatch
  OBVIOUS
<1>1. Init => ReliableInv
  BY InitGood, InitVotes, InitAgrees DEF ReliableInv
<1>2. ReliableInv /\ [Next]_vars => ReliableInv'
  BY AgreeNext
<1>3. ReliableInv => CachedCertsMatch
  <2> SUFFICES ASSUME ReliableInv, NEW n \in Node, creator[n] = "save",
                      Newest(n).counter \in DOMAIN cacheOfCycleCerts[n]
               PROVE  cacheOfCycleCerts[n][Newest(n).counter].marker = Marker(Unpatched(Newest(n)))
    BY DEF CachedCertsMatch
  <2>1. CachedOnTime(n) /\ Newest(n).counter = Len(chain[n]) - 1
    BY ChainLength DEF ReliableInv, AgreeInv, CacheInv
  <2> QED
    BY <2>1 DEF CachedOnTime
<1> QED
  BY <1>1, <1>2, <1>3, PTL DEF Spec

(* On such a network no two nodes digest different records for a cycle,    *)
(* and every record is built on the one before it: what holds of the       *)
(* ledger holds of the network that implements it.                         *)
THEOREM NoForkReliable == Reliable => (Spec => [](NoFork /\ ChainLinked))
<1> SUFFICES ASSUME Reliable PROVE Spec => [](NoFork /\ ChainLinked)
  OBVIOUS
<1>1. Spec => Ledger!Spec
  BY LedgerImplemented DEF ImplementsLedger
<1> QED
  BY <1>1, LedgerSafe, PTL
=============================================================================
