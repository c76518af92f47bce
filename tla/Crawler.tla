-------------------------------- MODULE Crawler --------------------------------
(* Crawler.crawlEvents for one contract: read a chain head from an RPC node,   *)
(* subtract the confirmation margin, fetch the logs of one block range after   *)
(* another, publish them, and save the cursor after each range. The chain      *)
(* grows and reorganises meanwhile, nodes lag, calls fail and rotate to the    *)
(* next node, and the process dies.                                            *)
EXTENDS Integers

CONSTANTS
    MaxBlock,           \* bound on the chain's height
    MaxVersion,         \* bound on the forks of one block
    LogBlocks,          \* blocks that hold a log of the contract
    StartBlock,         \* target.StartBlock
    NumRpcs,            \* endpoints of the chain, in configuration order
    BatchSize,          \* blocks per range
    ReorgSafetyBlocks,  \* confirmation margin
    ReorgDepth,         \* deepest reorganisation the chain makes
    MaxFaults           \* bound on failed calls and crashes

Blocks == 1 .. MaxBlock
Rpcs == 1 .. NumRpcs
Versions == 1 .. MaxVersion

ASSUME ParamsAssumption ==
    /\ MaxBlock \in Nat /\ MaxVersion \in Nat \ {0}
    /\ LogBlocks \subseteq Blocks
    /\ StartBlock \in Nat \ {0}
    /\ NumRpcs \in Nat \ {0} /\ BatchSize \in Nat \ {0}
    /\ ReorgSafetyBlocks \in Nat /\ ReorgDepth \in 0 .. ReorgSafetyBlocks
    /\ MaxFaults \in Nat

VARIABLES
    height, canon,      \* the chain: height, and the version of each block
    nodeHead, nodeVer,  \* per RPC node: the head it knows and its block versions
    cursor,             \* crawlers.lastProcessedBlock; StartBlock - 1 when there is none
    sent,               \* <<block, version>> of the logs handed to the broker
    pc,                 \* place in crawlEvents
    idx,                \* the session's endpoint
    latest,             \* safeLatestBlock of the head that was read
    from, to,           \* the range under way
    pending,            \* its logs not yet published
    faults,
    excused             \* history: blocks answered from an old view

chain == <<height, canon, nodeHead, nodeVer>>
session == <<pc, idx, latest, from, to, pending>>
vars == <<height, canon, nodeHead, nodeVer, cursor, sent, pc, idx, latest, from, to,
          pending, faults, excused>>

Fault == faults < MaxFaults /\ faults' = faults + 1

\* Mutant of SafeLatest: one confirmation too many.
SafeLatestOneBehind(head) == IF head <= ReorgSafetyBlocks + 1 THEN 0
                             ELSE head - ReorgSafetyBlocks - 1

\* safeLatestBlock.
SafeLatest(head) == IF head <= ReorgSafetyBlocks THEN 0 ELSE head - ReorgSafetyBlocks

\* The end of BuildForwardRanges' next range.
RangeEnd(first, last) == IF first + BatchSize - 1 < last THEN first + BatchSize - 1 ELSE last

Init ==
    /\ height = 0 /\ canon = [b \in Blocks |-> 1]
    /\ nodeHead = [r \in Rpcs |-> 0]
    /\ nodeVer = [r \in Rpcs |-> [b \in Blocks |-> 1]]
    /\ cursor = StartBlock - 1
    /\ sent = {}
    /\ pc = "idle" /\ idx = 1 /\ latest = 0 /\ from = 0 /\ to = 0 /\ pending = {}
    /\ faults = 0
    /\ excused = {}

-------------------------------------------------------------------------------
(* The chain and its nodes.                                                    *)

Mine ==
    /\ height < MaxBlock
    /\ height' = height + 1
    /\ UNCHANGED <<canon, nodeHead, nodeVer, cursor, sent, session, faults, excused>>

\* The last blocks, at most ReorgDepth of them, are replaced.
Reorg(first) ==
    /\ first <= height /\ height - first < ReorgDepth
    /\ \A b \in first .. height : canon[b] < MaxVersion
    /\ canon' = [b \in Blocks |-> IF b \in first .. height THEN canon[b] + 1 ELSE canon[b]]
    /\ UNCHANGED <<height, nodeHead, nodeVer, cursor, sent, session, faults, excused>>

Sync(r) ==
    /\ nodeHead' = [nodeHead EXCEPT ![r] = height]
    /\ nodeVer' = [nodeVer EXCEPT ![r] = canon]
    /\ <<nodeHead', nodeVer'>> # <<nodeHead, nodeVer>>
    /\ UNCHANGED <<height, canon, cursor, sent, session, faults, excused>>

-------------------------------------------------------------------------------
(* crawlEvents.                                                                *)

\* A cycle starts a session on the first endpoint.
Start ==
    /\ pc = "idle"
    /\ pc' = "head" /\ idx' = 1
    /\ UNCHANGED <<chain, cursor, sent, latest, from, to, pending, faults, excused>>

\* doWithRetryValue: a call failed on this endpoint, the session moves on.
Rotate ==
    /\ pc # "idle" /\ NumRpcs > 1 /\ Fault
    /\ idx' = (idx % NumRpcs) + 1
    /\ UNCHANGED <<chain, cursor, sent, pc, latest, from, to, pending, excused>>

\* BlockNumber, then the saved state: crawl from the block after the cursor.
ReadHead ==
    /\ pc = "head"
    /\ latest' = SafeLatest(nodeHead[idx])
    /\ from' = cursor + 1
    /\ pc' = "filter"
    /\ UNCHANGED <<chain, cursor, sent, idx, to, pending, faults, excused>>

\* FilterLogs of the next range, as the session's node knows the chain.
Filter ==
    /\ pc = "filter" /\ from <= latest
    /\ to' = RangeEnd(from, latest)
    /\ LET asked == from .. to' \cap LogBlocks
           known == {b \in asked : b <= nodeHead[idx]}
       IN  /\ pending' = {<<b, nodeVer[idx][b]>> : b \in known}
           /\ excused' = excused \cup (asked \ {b \in known : nodeVer[idx][b] = canon[b]})
    /\ pc' = "publish"
    /\ UNCHANGED <<chain, cursor, sent, idx, latest, from, faults>>

\* No range is left. (With no range at all the saved state is written back as
\* it was read.)
Finish ==
    /\ pc = "filter" /\ from > latest
    /\ pc' = "idle"
    /\ UNCHANGED <<chain, cursor, sent, idx, latest, from, to, pending, faults, excused>>

\* Publish of the next log of the range, in chain order.
PublishLog ==
    /\ pc = "publish"
    /\ \E lg \in pending :
         /\ \A other \in pending : lg[1] <= other[1]
         /\ sent' = sent \cup {lg}
         /\ pending' = pending \ {lg}
    /\ UNCHANGED <<chain, cursor, pc, idx, latest, from, to, faults, excused>>

\* Mutant of SaveCursor: the cursor is saved before the logs are published.
SaveCursorFirst ==
    /\ pc = "publish"
    /\ cursor' = to
    /\ IF pending = {} THEN pc' = "filter" /\ from' = to + 1 ELSE UNCHANGED <<pc, from>>
    /\ UNCHANGED <<chain, sent, idx, latest, to, pending, faults, excused>>

\* Upsert of the crawler state once the whole range is published.
SaveCursor ==
    /\ pc = "publish" /\ pending = {}
    /\ cursor' = to
    /\ pc' = "filter" /\ from' = to + 1
    /\ UNCHANGED <<chain, sent, idx, latest, to, pending, faults, excused>>

\* Mutant of Abort: the cursor is saved when the crawl fails.
AbortSaves ==
    /\ pc # "idle" /\ Fault
    /\ pc' = "idle" /\ pending' = {}
    /\ cursor' = latest
    /\ UNCHANGED <<chain, sent, idx, latest, from, to, excused>>

\* Any error return (all endpoints failed, publish, state read or write) and
\* any crash: the cycle is over, the next one reads the saved state.
Abort ==
    /\ pc # "idle" /\ Fault
    /\ pc' = "idle" /\ pending' = {}
    /\ UNCHANGED <<chain, cursor, sent, idx, latest, from, to, excused>>

CrawlStep ==
    \/ Start \/ ReadHead \/ Filter \/ Finish \/ PublishLog \/ SaveCursor
    \/ Rotate \/ Abort

Next ==
    \/ CrawlStep
    \/ Mine
    \/ \E first \in Blocks : Reorg(first)
    \/ \E r \in Rpcs : Sync(r)

Spec == Init /\ [][Next]_vars

\* Run polls for ever and every call returns; a node that lags catches up.
Fairness == WF_vars(CrawlStep) /\ \A r \in Rpcs : WF_vars(Sync(r))

FairSpec == Spec /\ Fairness

-------------------------------------------------------------------------------
(* Properties.                                                                 *)

\* Every variable keeps its type.
TypeOK ==
    /\ height \in 0 .. MaxBlock /\ canon \in [Blocks -> Versions]
    /\ nodeHead \in [Rpcs -> 0 .. MaxBlock]
    /\ nodeVer \in [Rpcs -> [Blocks -> Versions]]
    /\ cursor \in Nat /\ latest \in Nat /\ from \in Nat /\ to \in Nat
    /\ sent \subseteq Blocks \X Versions /\ pending \subseteq Blocks \X Versions
    /\ pc \in {"idle", "head", "filter", "publish"}
    /\ idx \in Rpcs
    /\ faults \in Nat
    /\ excused \subseteq Blocks

\* The cursor passes no log that was not published, although ranges fail half
\* way, endpoints rotate and the process dies between publish and save.
NoLogSkipped ==
    \A b \in LogBlocks :
        StartBlock <= b /\ b <= cursor => <<b, canon[b]>> \in sent \/ b \in excused

\* What is published is final: a margin at least as deep as the chain's reorgs
\* keeps orphaned logs out, even when the head was read from another node.
OnlyFinalSent ==
    \A lg \in sent : lg[2] = canon[lg[1]] \/ lg[1] \in excused

\* Why the two above hold: cursor, range and published blocks keep the margin
\* from the chain's head, so no reorg reaches them, and the range under way
\* starts right after the cursor and accounts for all its logs.
Confirmed(b) == b + ReorgSafetyBlocks <= height

CrawlInv ==
    /\ \A r \in Rpcs : nodeHead[r] <= height
    /\ cursor = StartBlock - 1 \/ Confirmed(cursor)
    /\ pc \in {"filter", "publish"} =>
         from = cursor + 1 /\ (latest = 0 \/ Confirmed(latest))
    /\ pc = "publish" =>
         /\ from <= to /\ to <= latest
         /\ \A b \in from .. to : b \in LogBlocks =>
              <<b, canon[b]>> \in sent \cup pending \/ b \in excused
    /\ \A lg \in sent \cup pending :
         /\ lg[1] \in LogBlocks /\ Confirmed(lg[1])
         /\ lg[2] = canon[lg[1]] \/ lg[1] \in excused
    /\ \A lg \in pending : from <= lg[1]
    /\ pc # "publish" => pending = {}
    /\ NoLogSkipped

\* The crawl keeps the promise of LogFeed.
Feed == INSTANCE LogFeed WITH LogBlocks <- LogBlocks, StartBlock <- StartBlock,
                              Versions <- Versions, canon <- canon, sent <- sent,
                              cursor <- cursor, excused <- excused
FeedSpec == Feed!Spec

\* A log with enough confirmations is published in the end.
ConfirmedLogSent ==
    \A b \in LogBlocks :
        (StartBlock <= b /\ b + ReorgSafetyBlocks <= height) ~>
            (<<b, canon[b]>> \in sent \/ b \in excused)

===============================================================================
