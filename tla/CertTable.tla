----------------------------- MODULE CertTable -----------------------------
(***************************************************************************)
(* The list of cycle certificates a node keeps for one cycle marker        *)
(* (bestCycleCert.get(marker) in p2p/CycleCreator.ts) and the operations   *)
(* improveBestCert performs on it.  A certificate is a vote: its owner and *)
(* the score the receiving node gave it.  The marker is the key the list   *)
(* is stored under, so it is not repeated in the entries.                  *)
(***************************************************************************)
EXTENDS Naturals, Sequences

BEST_CERTS_WANTED == 3

Owners(certs) == {certs[i].owner : i \in DOMAIN certs}

(* Where a certificate goes: before the first one with a lower score.      *)
MutantPosition(certs, score) == Len(certs) + 1
Position(certs, score) ==
  CHOOSE i \in 1 .. Len(certs) + 1 :
    /\ i <= Len(certs) => certs[i].score < score
    /\ \A j \in 1 .. i - 1 : certs[j].score >= score

(* splice it in there and keep at most BEST_CERTS_WANTED of them.          *)
Insert(certs, cert) ==
  LET pos  == Position(certs, cert.score)
      size == IF Len(certs) < BEST_CERTS_WANTED THEN Len(certs) + 1
                                                ELSE BEST_CERTS_WANTED
  IN [j \in 1 .. size |-> IF j < pos THEN certs[j]
                          ELSE IF j = pos THEN cert
                          ELSE certs[j - 1]]

(* The loop of improveBestCert over the certificates received: those whose *)
(* owner was in the list before the loop are skipped.  A message carries a *)
(* node's own list, so there are at most BEST_CERTS_WANTED of them.        *)
Merge(certs, received) ==
  LET have == Owners(certs)
      Step(list, i) ==
        IF i \in DOMAIN received /\ received[i].owner \notin have
        THEN Insert(list, received[i])
        ELSE list
  IN Step(Step(Step(certs, 1), 2), 3)

(* The score of a marker is the sum over the certificates kept for it.     *)
ScoreAt(certs, i) == IF i \in DOMAIN certs THEN certs[i].score ELSE 0
TotalScore(certs) == ScoreAt(certs, 1) + ScoreAt(certs, 2) + ScoreAt(certs, 3)

(* What a list must look like: short, one vote per owner, best first.      *)
WellFormed(certs) ==
  /\ Len(certs) <= BEST_CERTS_WANTED
  /\ \A i, j \in DOMAIN certs :
       i < j => /\ certs[i].owner # certs[j].owner
                /\ certs[i].score >= certs[j].score
=============================================================================
