---------------------------- MODULE AccountSync ----------------------------
(***************************************************************************)
(* A node that joins fetches the accounts it will store                    *)
(* (state-manager/AccountSync.ts, initialSyncMain) while the network goes  *)
(* on changing them.  One sync tracker after the other (NodeSyncTracker)   *)
(* pages through the accounts of a range in the order of their timestamps, *)
(* or fetches the global accounts by a report that many nodes agree on.    *)
(* Whatever fails is tried again: the question, with another node, the     *)
(* tracker, and all trackers with new ranges; when that has been done      *)
(* often enough the node leaves the network.                               *)
(*                                                                         *)
(* All nodes that answer have the same accounts.  A version of an account  *)
(* is the timestamp of the transaction that made it.                       *)
(***************************************************************************)
EXTENDS Integers, Sequences, FiniteSets, SequencesExt

CONSTANTS
  Account,          \* addresses, numbers in their order
  Global,           \* the global accounts among them
  Layouts,          \* ranges, as sets of accounts, that initRangesToSync may give
  MaxRecords,       \* accountBucketSize
  Sit,              \* queueSitTime
  CommitLag,        \* a transaction is committed this long after its timestamp, at most
  MaxSources,       \* nodes that may be asked for a range
  SmallList,        \* tryRestartList starts a list of this many nodes again
  AskRetries, ListRestarts, TrackerRestarts, DataRestarts, GlobalTries,
  MaxTime, MaxChanges  \* bounds

(* With one record per page a second account of a timestamp is never asked *)
(* for.  A commit that comes later than the window which the last page     *)
(* covers is left to the account patcher.                                  *)
ASSUME SyncAssumption ==
  /\ Account \subseteq Nat \ {0} /\ IsFiniteSet(Account) /\ Global \subseteq Account
  /\ MaxRecords \in Nat /\ MaxRecords > 1 /\ AskRetries \in Nat /\ ListRestarts \in Nat
  /\ CommitLag \in Nat /\ Sit \in Nat /\ CommitLag < 2 * Sit
  /\ \A l \in Layouts : l \in Seq(SUBSET Account) /\ UNION Range(l) = Account

VARIABLES
  now,
  ts,               \* ts[a]: the timestamp of account a in the network
  changes,
  saved,            \* saved[a]: that of our copy, 0 for none
  trackers, cur,    \* syncTrackers, and the one that runs
  phase,
  sources,          \* DataSourceHelper: the length of its list, and the index in it
  page,             \* the local variables of syncAccountData2
  want, got, tries, \* those of syncStateDataGlobals
  globalAccountsSynced,
  breakCount

network == <<now, ts, changes>>
globals == <<want, got, tries>>
syncVars == <<network, saved, trackers, cur, phase, sources, page, globals, globalAccountsSynced, breakCount>>

FirstPage ==
  [startTime |-> 0, low |-> 0, accountOffset |-> 0, asks |-> AskRetries, lists |-> ListRestarts]

NewTracker(accounts, isGlobal) ==
  [accounts |-> accounts, isGlobal |-> isGlobal, hasNode |-> FALSE, restarts |-> 0,
   finished |-> FALSE, asOf |-> 0]
GlobalTracker == NewTracker(Global, TRUE)
RangeTrackers(layout) == [i \in DOMAIN layout |-> NewTracker(layout[i], FALSE)]

SyncInit ==
  /\ now = 2 * Sit + 1
  /\ ts \in [Account -> 1 .. now]
  /\ changes = 0
  /\ saved = [a \in Account |-> 0]
  /\ \E layout \in Layouts : trackers = Append(RangeTrackers(layout), GlobalTracker)
  /\ cur = 1 /\ phase = "start"
  /\ sources = [length |-> 0, index |-> 0]
  /\ page = FirstPage
  /\ want = {} /\ got = [a \in Global |-> 0] /\ tries = 0
  /\ globalAccountsSynced = FALSE
  /\ breakCount = 0

Running == phase \notin {"done", "apoptosis"}
-----------------------------------------------------------------------------
(* The network: time passes, and transactions are committed.               *)
Tick == Running /\ now < MaxTime /\ now' = now + 1 /\ UNCHANGED <<ts, changes>>
Commit(a) ==
  /\ Running /\ changes < MaxChanges
  /\ changes' = changes + 1
  /\ \E t \in now - CommitLag .. now : t > ts[a] /\ ts' = [ts EXCEPT ![a] = t]
  /\ UNCHANGED now
NetworkStep ==
  /\ Tick \/ \E a \in Account : Commit(a)
  /\ UNCHANGED <<saved, trackers, cur, phase, sources, page, globals, globalAccountsSynced, breakCount>>
-----------------------------------------------------------------------------
LocalsGone ==
  /\ page' = FirstPage
  /\ sources' = [length |-> 0, index |-> 0]
  /\ want' = {} /\ got' = [a \in Global |-> 0] /\ tries' = 0

(* A tracker ends, and the next begins.                                    *)
Finish(asOf) ==
  /\ trackers' = [trackers EXCEPT ![cur].finished = TRUE, ![cur].asOf = asOf]
  /\ cur' = cur + 1
  /\ phase' = IF cur = Len(trackers) THEN "done" ELSE "start"
  /\ UNCHANGED breakCount
  /\ LocalsGone

(* checkAndSetAccountData: an older copy is not written over a newer one.  *)
Newest(copies) ==
  [a \in Account |-> IF a \in DOMAIN copies /\ copies[a] >= saved[a] THEN copies[a] ELSE saved[a]]

(* 'reset-sync-ranges': an unfinished global tracker is kept with the      *)
(* restarts it had, the ranges are those of the current cycle.             *)
Kth(S, k) == CHOOSE i \in S : Cardinality({j \in S : j <= i}) = k
TrackersAfterReset(layout, rest) ==
  LET open == {i \in DOMAIN rest : rest[i].isGlobal /\ ~rest[i].finished}
      kept == [k \in 1 .. Cardinality(open) |-> rest[Kth(open, k)]]
      first == IF kept = <<>> /\ ~globalAccountsSynced THEN <<GlobalTracker>> ELSE kept
  IN Append(first \o RangeTrackers(layout), GlobalTracker)

ResetRanges(rest) ==
  /\ IF breakCount > DataRestarts
     THEN trackers' = <<>> /\ phase' = "apoptosis" /\ UNCHANGED breakCount
     ELSE /\ \E layout \in Layouts : trackers' = TrackersAfterReset(layout, rest)
          /\ phase' = "start"
          /\ breakCount' = breakCount + 1
  /\ cur' = 1

(* tryRetry, after an exception in a tracker.                              *)
MutantRestarted(t) == t
Restarted(t) == [t EXCEPT !.restarts = @ + 1]
TryRetry ==
  /\ LET rest == [trackers EXCEPT ![cur] = Restarted(@)]
     IN IF rest[cur].restarts > TrackerRestarts THEN ResetRanges(rest)
        ELSE trackers' = rest /\ phase' = "start" /\ UNCHANGED <<cur, breakCount>>
  /\ LocalsGone

NothingSaved == UNCHANGED <<network, saved, globalAccountsSynced>>
OneAskedAgain == UNCHANGED <<trackers, cur, phase, breakCount>>

(* tryNextDataSourceNode, or the exception when no other node is left.     *)
HasNext == sources.index + 1 < sources.length
NextSource == sources' = [sources EXCEPT !.index = @ + 1]
NextOrRetry ==
  IF HasNext THEN NextSource /\ OneAskedAgain /\ UNCHANGED <<page, globals>> ELSE TryRetry
-----------------------------------------------------------------------------
(* syncAccountData2 looks for nodes that hold the range.  Without any it   *)
(* goes on with the node it had before, or gives the ranges up.            *)
StartRange ==
  /\ phase = "start" /\ ~trackers[cur].isGlobal
  /\ \E n \in 0 .. MaxSources :
       IF n = 0 /\ ~trackers[cur].hasNode
       THEN ResetRanges(trackers) /\ UNCHANGED sources
       ELSE /\ trackers' = [trackers EXCEPT ![cur].hasNode = TRUE]
            /\ sources' = [length |-> n, index |-> 0]
            /\ phase' = "page"
            /\ UNCHANGED <<cur, breakCount>>
  /\ page' = FirstPage
  /\ UNCHANGED globals /\ NothingSaved

(* The precheck finds the node gone; a short list is gone through again.   *)
SourceGone ==
  /\ phase = "page"
  /\ IF ~HasNext /\ page.lists > 0 /\ sources.length \in 1 .. SmallList
     THEN /\ sources' = [sources EXCEPT !.index = 0]
          /\ page' = [page EXCEPT !.lists = @ - 1]
          /\ OneAskedAgain /\ UNCHANGED globals
     ELSE NextOrRetry
  /\ NothingSaved

(* The question times out: the same node is asked again.                   *)
AskFails ==
  /\ phase = "page"
  /\ IF page.asks > 0
     THEN page' = [page EXCEPT !.asks = @ - 1] /\ OneAskedAgain /\ UNCHANGED <<sources, globals>>
     ELSE TryRetry
  /\ NothingSaved

(* The node answers with errors.                                           *)
AskRefused == phase = "page" /\ NextOrRetry /\ NothingSaved

(* The application: the first accounts from a timestamp on, and from an    *)
(* address on among those of that timestamp, in the order of timestamp and *)
(* address.                                                                *)
Before(a, b) == ts[a] < ts[b] \/ (ts[a] = ts[b] /\ a < b)
GetAccountDataByRange(accounts, start, offset) ==
  LET found == {a \in accounts : ts[a] > start \/ (ts[a] = start /\ a >= offset)}
  IN {a \in found : Cardinality({b \in found : Before(b, a)}) < MaxRecords}
LastRow(rows) == CHOOSE a \in rows : \A b \in rows \ {a} : Before(b, a)

(* The page to ask for after this one: from the last timestamp on, and,    *)
(* while full pages hold no newer timestamp than the last page did, from   *)
(* the last address on.                                                    *)
MutantNextPage(rows) ==
  LET last == ts[LastRow(rows)] IN [FirstPage EXCEPT !.startTime = last + 1, !.low = last]
NextPage(rows) ==
  LET last == ts[LastRow(rows)]
      full == Cardinality(rows) = MaxRecords
      stays == last <= page.low
      tie == \E a \in rows \ {LastRow(rows)} : ts[a] = last
  IN [page EXCEPT
        !.startTime = (IF stays THEN @ ELSE last) + (IF full THEN 0 ELSE 1),
        !.low = IF stays THEN @ ELSE last,
        !.accountOffset = IF full /\ stays /\ (@ # 0 \/ tie) THEN LastRow(rows) ELSE 0,
        !.lists = ListRestarts]

(* A page, and when it comes close to the present a second one that starts *)
(* at its last timestamp (getAccountDataByRangeSmart, under the lock       *)
(* accountModification): it is the last.                                   *)
Answer ==
  /\ phase = "page"
  /\ LET accounts == trackers[cur].accounts
         rows == GetAccountDataByRange(accounts, page.startTime, page.accountOffset)
         highest == ts[LastRow(rows)]
         isLast == rows = {} \/ now - highest < 2 * Sit
         newer == IF rows # {} /\ isLast THEN GetAccountDataByRange(accounts, highest, 0) ELSE {}
     IN /\ saved' = Newest([a \in rows \cup newer |-> ts[a]])
        /\ IF isLast THEN Finish(now)
           ELSE page' = NextPage(rows) /\ OneAskedAgain /\ UNCHANGED <<sources, globals>>
  /\ UNCHANGED <<network, globalAccountsSynced>>
-----------------------------------------------------------------------------
(* syncStateDataGlobals: many nodes agree on a report of the hashes.       *)
StartGlobals ==
  /\ phase = "start" /\ trackers[cur].isGlobal
  /\ \/ TryRetry /\ NothingSaved
     \/ /\ Global = {}
        /\ globalAccountsSynced' = TRUE
        /\ Finish(now)
        /\ UNCHANGED <<network, saved>>
     \/ /\ Global # {}
        /\ want' = Global /\ got' = [a \in Global |-> 0] /\ tries' = GlobalTries
        /\ \E n \in 1 .. MaxSources : sources' = [length |-> n, index |-> 0]
        /\ phase' = "globals"
        /\ UNCHANGED <<trackers, cur, page, breakCount>> /\ NothingSaved

LastTry == tries <= 1

(* The tracker runs out of tries and is taken for finished.                *)
GlobalsGivenUp ==
  /\ phase = "globals" /\ LastTry
  /\ Finish(0)
  /\ NothingSaved

(* The node is gone, or answers with nothing; or the question fails.       *)
GlobalsRefused ==
  /\ phase = "globals" /\ ~LastTry
  /\ \/ HasNext /\ NextSource /\ tries' = tries - 1 /\ OneAskedAgain /\ UNCHANGED <<page, want, got>>
     \/ TryRetry
  /\ NothingSaved

(* It returns some of the accounts.                                        *)
GlobalsAnswer ==
  /\ phase = "globals" /\ ~LastTry
  /\ tries' = tries - 1
  /\ \E found \in SUBSET want : got' = [a \in Global |-> IF a \in found THEN ts[a] ELSE got[a]]
  /\ phase' = "report"
  /\ UNCHANGED <<trackers, cur, page, sources, want, breakCount>> /\ NothingSaved

(* A second report tells which of them are missing or have changed.        *)
Outdated == {a \in Global : got[a] # ts[a]}
GlobalsReport ==
  /\ phase = "report"
  /\ \/ TryRetry /\ NothingSaved
     \/ /\ Outdated # {}
        /\ want' = Outdated
        /\ \E n \in 1 .. MaxSources : sources' = [length |-> n, index |-> 0]
        /\ phase' = "globals"
        /\ UNCHANGED <<trackers, cur, page, got, tries, breakCount>> /\ NothingSaved
     \/ /\ Outdated = {}
        /\ saved' = Newest(got)
        /\ globalAccountsSynced' = TRUE
        /\ Finish(now)
        /\ UNCHANGED network
-----------------------------------------------------------------------------
SyncStep ==
  \/ StartRange \/ SourceGone \/ AskFails \/ AskRefused \/ Answer
  \/ StartGlobals \/ GlobalsGivenUp \/ GlobalsRefused \/ GlobalsAnswer \/ GlobalsReport

SyncNext == NetworkStep \/ SyncStep

SyncSpec == SyncInit /\ [][SyncNext]_syncVars
(* initialSyncMain goes on by itself after every sleep and time-out.       *)
SyncFairness == WF_syncVars(SyncStep)
-----------------------------------------------------------------------------
(* A tracker that has finished has the current copy of every account that  *)
(* was not changed shortly before or after its last page, and every        *)
(* account belongs to a finished tracker when the node is done, whatever   *)
(* changed, failed and was started again in between: no page skips an      *)
(* account (syncAccountData2), no changed global account is taken for the  *)
(* reported one (syncStateDataGlobals), no range is lost in a reset        *)
(* (initialSyncMain).                                                      *)
OldDataSynced ==
  /\ \A i \in DOMAIN trackers : \A a \in trackers[i].accounts :
       trackers[i].finished /\ ts[a] <= trackers[i].asOf - 2 * Sit => saved[a] = ts[a]
  /\ phase = "done" =>
       \A a \in Account : \E i \in DOMAIN trackers :
         ~trackers[i].isGlobal /\ trackers[i].finished /\ a \in trackers[i].accounts

(* The node gets through with its sync or leaves the network, however      *)
(* often nodes do not answer (tryRetry, initialSyncMain).                  *)
SyncEnds == <>(phase \in {"done", "apoptosis"})
=============================================================================
