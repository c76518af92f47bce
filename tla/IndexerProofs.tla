----------------------------- MODULE IndexerProofs -----------------------------
(* Proofs about the indexer: crawlEvents (Crawler) for every chain length,     *)
(* number of endpoints, batch size and confirmation margin, and RunOnce        *)
(* (CircuitBreaker) for every set of jobs, concurrency and threshold.          *)
EXTENDS Crawler, CircuitBreaker, FiniteSetTheorems, TLAPS

\* The sizes are numbers.
LEMMA ParamFacts ==
    /\ MaxBlock \in Nat /\ StartBlock \in Nat /\ StartBlock >= 1
    /\ BatchSize \in Nat /\ BatchSize >= 1 /\ NumRpcs \in Nat /\ NumRpcs >= 1
    /\ ReorgSafetyBlocks \in Nat /\ ReorgDepth \in Nat /\ ReorgDepth <= ReorgSafetyBlocks
    /\ 1 \in Versions /\ 1 \in Rpcs
    /\ \A r \in Rpcs : (r % NumRpcs) + 1 \in Rpcs
    /\ LogBlocks \subseteq Blocks /\ Blocks \subseteq Nat
BY ParamsAssumption DEF Blocks, Versions, Rpcs

-------------------------------------------------------------------------------
(* Type correctness.                                                           *)

\* safeLatestBlock lies between 0 and the head, the margin behind it.
LEMMA SafeLatestFacts ==
    ASSUME NEW h \in Nat
    PROVE  /\ SafeLatest(h) \in Nat
           /\ SafeLatest(h) = 0 \/ SafeLatest(h) + ReorgSafetyBlocks <= h
BY ParamFacts DEF SafeLatest

\* A range ends at or before the safe block.
LEMMA RangeEndFacts ==
    ASSUME NEW a \in Nat, NEW z \in Nat, a <= z
    PROVE  RangeEnd(a, z) \in Nat /\ a <= RangeEnd(a, z) /\ RangeEnd(a, z) <= z
BY ParamFacts DEF RangeEnd

\* The initial state is well typed.
LEMMA TypeInit == Init => TypeOK
BY ParamFacts, ParamsAssumption DEF Init, TypeOK, Blocks

\* Every step keeps the types.
LEMMA TypeNext == TypeOK /\ [Next]_vars => TypeOK'
<1> SUFFICES ASSUME TypeOK, [Next]_vars PROVE TypeOK'
  OBVIOUS
<1> USE ParamFacts DEF TypeOK
<1>0. \A r \in Rpcs : nodeHead[r] \in Nat /\ nodeVer[r] \in [Blocks -> Versions]
  BY ParamsAssumption DEF Blocks
<1>1. CASE Mine
  BY <1>1, ParamsAssumption DEF Mine, session
<1>2. ASSUME NEW first \in Blocks, Reorg(first) PROVE TypeOK'
  <2>1. canon' \in [Blocks -> Versions]
    <3>1. \A b \in Blocks : canon[b] < MaxVersion => canon[b] + 1 \in Versions
      BY ParamsAssumption DEF Versions
    <3>2. QED BY <1>2, <3>1 DEF Reorg
  <2>2. QED BY <1>2, <2>1 DEF Reorg, session
<1>3. ASSUME NEW r \in Rpcs, Sync(r) PROVE TypeOK'
  <2>1. height \in 0 .. MaxBlock /\ canon \in [Blocks -> Versions]
    OBVIOUS
  <2>2. nodeHead' \in [Rpcs -> 0 .. MaxBlock] /\ nodeVer' \in [Rpcs -> [Blocks -> Versions]]
    BY <1>3, <2>1 DEF Sync
  <2>3. UNCHANGED <<height, canon, cursor, sent, pc, idx, latest, from, to, pending,
                    faults, excused>>
    BY <1>3 DEF Sync, session
  <2>4. QED BY <2>2, <2>3
<1>4. CASE Start
  BY <1>4 DEF Start, chain
<1>5. CASE Rotate
  BY <1>5 DEF Rotate, Fault, chain
<1>6. CASE ReadHead
  <2>1. latest' \in Nat
    BY <1>6, <1>0, SafeLatestFacts DEF ReadHead
  <2>2. QED BY <1>6, <2>1 DEF ReadHead, chain
<1>7. CASE Filter
  <2>1. to' \in Nat
    BY <1>7, RangeEndFacts DEF Filter
  <2>2. \A b \in LogBlocks : b \in Blocks /\ nodeVer[idx][b] \in Versions
    BY <1>0
  <2>3. /\ \A lg \in pending' : \E b \in LogBlocks : lg = <<b, nodeVer[idx][b]>>
        /\ \A b \in excused' : b \in excused \/ b \in LogBlocks
    BY <1>7 DEF Filter
  <2>4. pending' \subseteq Blocks \X Versions /\ excused' \subseteq Blocks
    <3> HIDE DEF TypeOK
    <3>1. excused \subseteq Blocks
      BY DEF TypeOK
    <3>2. QED BY ONLY <2>2, <2>3, <3>1, SMT
  <2>5. QED BY <1>7, <2>1, <2>4 DEF Filter, chain
<1>8. CASE Finish
  BY <1>8 DEF Finish, chain
<1>9. CASE PublishLog
  BY <1>9 DEF PublishLog, chain
<1>10. CASE SaveCursor
  BY <1>10 DEF SaveCursor, chain
<1>11. CASE Abort
  BY <1>11 DEF Abort, Fault, chain
<1>12. CASE UNCHANGED vars
  BY <1>12 DEF vars
<1>13. QED
  BY <1>1, <1>2, <1>3, <1>4, <1>5, <1>6, <1>7, <1>8, <1>9, <1>10, <1>11, <1>12
     DEF Next, CrawlStep

\* Every reachable state of the crawl is well typed.
THEOREM TypeCorrect == Spec => []TypeOK
BY TypeInit, TypeNext, PTL DEF Spec

-------------------------------------------------------------------------------
(* The crawl invariant.                                                        *)

\* A block with the margin on top of it keeps its version.
LEMMA ConfirmedIsFinal ==
    ASSUME TypeOK, [Next]_vars, NEW b \in Blocks, Confirmed(b)
    PROVE  canon'[b] = canon[b] /\ Confirmed(b)'
<1> USE ParamFacts DEF TypeOK, Confirmed
<1>1. ASSUME NEW first \in Blocks, Reorg(first) PROVE canon'[b] = canon[b] /\ height' = height
  <2>1. b < first
    BY <1>1, ParamsAssumption DEF Reorg, Blocks
  <2>2. b \notin first .. height
    BY <2>1 DEF Blocks
  <2>3. QED BY <1>1, <2>2 DEF Reorg
<1>2. CASE Mine
  BY <1>2, ParamsAssumption DEF Mine, Blocks
<1>3. CASE UNCHANGED <<canon, height>>
  BY <1>3
<1>4. QED
  BY <1>1, <1>2, <1>3
     DEF Next, CrawlStep, vars, Sync, Start, Rotate, ReadHead, Filter, Finish,
         PublishLog, SaveCursor, Abort, chain

\* CrawlInv holds initially.
LEMMA CrawlInit == Init => CrawlInv
BY ParamFacts DEF Init, CrawlInv, NoLogSkipped

\* Every step keeps CrawlInv.
LEMMA CrawlNext == TypeOK /\ CrawlInv /\ [Next]_vars => CrawlInv'
<1> SUFFICES ASSUME TypeOK, CrawlInv, [Next]_vars PROVE CrawlInv'
  OBVIOUS
<1>t. TypeOK'
  BY TypeNext
<1> DEFINE Known(b) == <<b, canon[b]>> \in sent \cup pending \/ b \in excused
<1>n. /\ height \in Nat /\ cursor \in Nat /\ latest \in Nat /\ from \in Nat /\ to \in Nat
      /\ height' \in Nat /\ StartBlock \in Nat /\ ReorgSafetyBlocks \in Nat
      /\ \A b \in LogBlocks : b \in Blocks /\ b \in Nat /\ b >= 1
  BY <1>t, ParamFacts, ParamsAssumption DEF TypeOK, Blocks
\* Steps of the chain.
<1>1. CASE UNCHANGED <<cursor, sent, session, excused>> /\ \A r \in Rpcs : nodeHead'[r] <= height'
  <2>1. \A b \in Blocks : Confirmed(b) => canon'[b] = canon[b]
    BY ConfirmedIsFinal
  <2>2. \A b \in Nat : Confirmed(b) => Confirmed(b)'
    BY <1>n DEF Confirmed, Next, CrawlStep, vars, Mine, Reorg, Sync, Start, Rotate, ReadHead,
       Filter, Finish, PublishLog, SaveCursor, Abort, chain
  <2>3. \A b \in Nat : b <= cursor /\ StartBlock <= b => Confirmed(b)
    BY <1>n DEF CrawlInv, Confirmed
  <2>4. pc = "publish" => \A b \in from .. to : b \in LogBlocks => Confirmed(b)
    BY <1>n DEF CrawlInv, Confirmed
  <2>5. \A lg \in sent \cup pending : lg[1] \in Blocks
    BY DEF TypeOK
  <2>6. NoLogSkipped'
    BY <1>1, <1>n, <2>1, <2>3 DEF CrawlInv, NoLogSkipped
  <2>7. pc' = "publish" => \A b \in from' .. to' : b \in LogBlocks => Known(b)'
    BY <1>1, <1>n, <2>1, <2>4 DEF CrawlInv, session
  <2>8. \A lg \in sent' \cup pending' :
          /\ lg[1] \in LogBlocks /\ Confirmed(lg[1])'
          /\ lg[2] = canon'[lg[1]] \/ lg[1] \in excused'
    BY <1>1, <1>n, <2>1, <2>2, <2>5 DEF CrawlInv, session
  <2>9. QED
    BY <1>1, <1>n, <2>2, <2>6, <2>7, <2>8 DEF CrawlInv, session
<1>2. CASE Mine
  BY <1>2, <1>1, <1>n DEF Mine, CrawlInv, TypeOK, Blocks
<1>3. ASSUME NEW first \in Blocks, Reorg(first) PROVE CrawlInv'
  BY <1>3, <1>1 DEF Reorg, CrawlInv
<1>4. ASSUME NEW r \in Rpcs, Sync(r) PROVE CrawlInv'
  BY <1>4, <1>1, <1>n DEF Sync, CrawlInv, TypeOK
<1>5. CASE UNCHANGED vars
  BY <1>5, <1>1 DEF vars, session, CrawlInv
\* Steps of the crawl.
<1>6. CASE Start
  BY <1>6 DEF Start, CrawlInv, chain, Confirmed, NoLogSkipped
<1>7. CASE Rotate
  BY <1>7 DEF Rotate, Fault, CrawlInv, chain, Confirmed, NoLogSkipped
<1>8. CASE ReadHead
  <2>1. latest' = 0 \/ Confirmed(latest)'
    <3>1. nodeHead[idx] \in Nat /\ nodeHead[idx] <= height
      BY ParamsAssumption DEF TypeOK, CrawlInv
    <3>2. QED BY <1>8, <3>1, <1>n, SafeLatestFacts DEF ReadHead, Confirmed, chain
  <2>2. QED BY <1>8, <2>1 DEF ReadHead, CrawlInv, chain, Confirmed, NoLogSkipped
<1>9. CASE Filter
  <2>1. from <= to' /\ to' <= latest /\ latest # 0 /\ Confirmed(latest) /\ from = cursor + 1
    BY <1>9, <1>n, RangeEndFacts DEF Filter, CrawlInv
  <2>2. \A b \in from .. to' : Confirmed(b)
    BY <2>1, <1>n, <1>t DEF Confirmed, TypeOK
  <2>3. \A b \in from .. to' : b \in LogBlocks =>
           <<b, canon[b]>> \in pending' \/ b \in excused'
    BY <1>9 DEF Filter
  <2>4. \A lg \in pending' :
          /\ lg[1] \in from .. to' /\ lg[1] \in LogBlocks
          /\ lg[2] = canon[lg[1]] \/ lg[1] \in excused'
    BY <1>9 DEF Filter
  <2>5. /\ excused \subseteq excused' /\ pc' = "publish"
        /\ UNCHANGED <<chain, cursor, sent, latest, from>>
    BY <1>9 DEF Filter
  <2>6. NoLogSkipped'
    BY <2>5 DEF CrawlInv, NoLogSkipped, chain
  <2>7. \A lg \in sent : /\ lg[1] \in LogBlocks /\ Confirmed(lg[1])
                         /\ lg[2] = canon[lg[1]] \/ lg[1] \in excused'
    BY <2>5 DEF CrawlInv
  <2>8. QED
    BY <2>1, <2>2, <2>3, <2>4, <2>5, <2>6, <2>7, <1>n DEF CrawlInv, chain, Confirmed
<1>10. CASE Finish
  BY <1>10 DEF Finish, CrawlInv, chain, Confirmed, NoLogSkipped
<1>11. CASE PublishLog
  <2>1. PICK lg \in pending : sent' = sent \cup {lg} /\ pending' = pending \ {lg}
    BY <1>11 DEF PublishLog
  <2>2. sent' \cup pending' = sent \cup pending /\ sent \subseteq sent' /\ pc = "publish"
    BY <2>1, <1>11 DEF PublishLog
  <2>3. UNCHANGED <<chain, cursor, pc, idx, latest, from, to, excused>>
    BY <1>11 DEF PublishLog
  <2>4. QED BY <2>1, <2>2, <2>3 DEF CrawlInv, chain, Confirmed, NoLogSkipped
<1>12. CASE SaveCursor
  <2>1. /\ pc = "publish" /\ pending = {} /\ cursor' = to /\ pc' = "filter"
        /\ from' = to + 1 /\ UNCHANGED <<chain, sent, latest, to, pending, excused>>
    BY <1>12 DEF SaveCursor
  <2>2. /\ from = cursor + 1 /\ from <= to /\ to <= latest /\ Confirmed(latest)
    BY <2>1, <1>n DEF CrawlInv
  <2>3. NoLogSkipped'
    <3>1. ASSUME NEW b \in LogBlocks, StartBlock <= b, b <= to
          PROVE  <<b, canon[b]>> \in sent \/ b \in excused
      <4>1. CASE b <= cursor
        BY <4>1, <3>1 DEF CrawlInv, NoLogSkipped
      <4>2. CASE ~(b <= cursor)
        <5>1. b \in from .. to
          BY <4>2, <3>1, <2>2, <1>n
        <5>2. QED BY <5>1, <2>1 DEF CrawlInv
      <4>3. QED BY <4>1, <4>2
    <3>2. QED BY <3>1, <2>1 DEF NoLogSkipped, chain
  <2>4. Confirmed(to)
    BY <2>2, <1>n DEF Confirmed
  <2>5. QED
    BY <2>1, <2>2, <2>3, <2>4, <1>n DEF CrawlInv, chain, Confirmed
<1>13. CASE Abort
  BY <1>13 DEF Abort, Fault, CrawlInv, chain, Confirmed, NoLogSkipped
<1>14. QED
  BY <1>2, <1>3, <1>4, <1>5, <1>6, <1>7, <1>8, <1>9, <1>10, <1>11, <1>12, <1>13
     DEF Next, CrawlStep

\* CrawlInv holds throughout.
LEMMA CrawlInvHolds == Spec => [](TypeOK /\ CrawlInv)
BY TypeInit, TypeNext, CrawlInit, CrawlNext, PTL DEF Spec

\* The saved cursor covers no log that was not published, for every batch size,
\* number of endpoints and margin at least as deep as the chain's reorgs.
THEOREM NoLogSkippedHolds == Spec => []NoLogSkipped
<1>1. CrawlInv => NoLogSkipped
  BY DEF CrawlInv
<1>2. QED BY CrawlInvHolds, <1>1, PTL

\* No orphaned log is published by an endpoint that is up to date.
THEOREM OnlyFinalSentHolds == Spec => []OnlyFinalSent
<1>1. CrawlInv => OnlyFinalSent
  BY DEF CrawlInv, OnlyFinalSent
<1>2. QED BY CrawlInvHolds, <1>1, PTL

-------------------------------------------------------------------------------
(* The crawl implements LogFeed.                                               *)

\* The crawl starts where LogFeed starts.
LEMMA FeedInit == Init => Feed!Init
BY DEF Init, Feed!Init

\* A step of the crawl is a step of LogFeed or leaves its variables alone.
LEMMA FeedNext == TypeOK /\ CrawlInv /\ [Next]_vars => [Feed!Next]_Feed!vars
<1> SUFFICES ASSUME TypeOK, CrawlInv, [Next]_vars PROVE [Feed!Next]_Feed!vars
  OBVIOUS
<1>n. /\ height \in Nat /\ cursor \in Nat /\ to \in Nat /\ from \in Nat
      /\ StartBlock \in Nat /\ ReorgSafetyBlocks \in Nat
      /\ \A b \in LogBlocks : b \in Blocks /\ b \in Nat /\ b >= 1
  BY ParamFacts, ParamsAssumption DEF TypeOK, Blocks
\* Steps of the chain and its nodes.
<1>1. ASSUME UNCHANGED <<sent, cursor, excused>> PROVE Feed!ChainMoves
  <2>1. ASSUME NEW b \in LogBlocks, StartBlock <= b, b <= cursor PROVE canon'[b] = canon[b]
    <3>1. Confirmed(b)
      BY <2>1, <1>n DEF CrawlInv, Confirmed
    <3>2. QED BY <3>1, <1>n, ConfirmedIsFinal
  <2>2. QED BY <1>1, <2>1 DEF Feed!ChainMoves
<1>2. CASE Mine \/ (\E first \in Blocks : Reorg(first)) \/ (\E r \in Rpcs : Sync(r))
  BY <1>2, <1>1 DEF Mine, Reorg, Sync, Feed!Next
\* Steps of the crawl that LogFeed sees.
<1>3. CASE Filter
  BY <1>3 DEF Filter, chain, Feed!Excuse, Feed!Next
<1>4. CASE PublishLog
  <2>1. PICK lg \in pending : sent' = sent \cup {lg}
    BY <1>4 DEF PublishLog
  <2>2. /\ pc = "publish" /\ UNCHANGED <<canon, cursor, excused>>
    BY <1>4 DEF PublishLog, chain
  <2>3. lg = <<lg[1], lg[2]>> /\ lg[1] \in LogBlocks /\ lg[2] \in Versions
    BY DEF TypeOK, CrawlInv
  <2>4. lg[2] = canon[lg[1]] \/ lg[1] \in excused
    BY DEF CrawlInv
  <2>5. cursor < lg[1]
    BY <2>2, <2>3, <1>n DEF CrawlInv
  <2>6. Feed!Send
    BY <2>1, <2>2, <2>3, <2>4, <2>5 DEF Feed!Send
  <2>7. QED BY <2>6 DEF Feed!Next
<1>5. CASE SaveCursor
  <2>1. /\ pc = "publish" /\ pending = {} /\ cursor' = to
        /\ UNCHANGED <<canon, sent, excused>>
    BY <1>5 DEF SaveCursor, chain
  <2>2. cursor <= cursor'
    BY <2>1, <1>n DEF CrawlInv
  <2>3. ASSUME NEW b \in LogBlocks, cursor < b, b <= cursor'
        PROVE  <<b, canon[b]>> \in sent \/ b \in excused
    <3>1. b \in from .. to
      BY <2>1, <2>3, <1>n DEF CrawlInv
    <3>2. QED BY <3>1, <2>1 DEF CrawlInv
  <2>4. Feed!Advance
    BY <2>1, <2>2, <2>3 DEF Feed!Advance, Feed!Delivered
  <2>5. QED BY <2>4 DEF Feed!Next
\* Steps it does not.
<1>6. CASE Start \/ ReadHead \/ Finish \/ Rotate \/ Abort \/ UNCHANGED vars
  BY <1>6 DEF Start, ReadHead, Finish, Rotate, Abort, chain, vars, Feed!vars
<1>7. QED
  BY <1>2, <1>3, <1>4, <1>5, <1>6 DEF Next, CrawlStep

\* crawlEvents keeps the promise the rest of the pipeline is built on: the
\* cursor only grows, and never past a log that was not handed to the broker.
THEOREM CrawlerImplementsLogFeed == Spec => FeedSpec
<1>1. QED BY FeedInit, FeedNext, CrawlInvHolds, PTL DEF Spec, FeedSpec, Feed!Spec

-------------------------------------------------------------------------------
(* RunOnce: the jobs of a cycle and the breaker they share.                    *)

USE RunAssumption

\* The initial state is well typed.
LEMMA RunTypeInit == RunInit => RunTypeOK
<1>1. 0 \in 0 .. FailureCap
  OBVIOUS
<1>2. QED BY <1>1 DEF RunInit, RunTypeOK

\* Every step keeps the types.
LEMMA RunTypeNext == RunTypeOK /\ [RunNext]_runVars => RunTypeOK'
<1> SUFFICES ASSUME RunTypeOK, [RunNext]_runVars PROVE RunTypeOK'
  OBVIOUS
<1> USE DEF RunTypeOK, breaker, IncFailures
<1>1. ASSUME NEW j \in Jobs, JobStep(j) PROVE RunTypeOK'
  <2>1. failures' \in 0 .. FailureCap
    BY <1>1 DEF JobStep, Lock, Acquire, AcquireCancelled, Admit, Skip, Succeed, Fail
  <2>2. QED
    BY <1>1, <2>1 DEF JobStep, Lock, Acquire, AcquireCancelled, Admit, Skip, Succeed, Fail
<1>2. CASE Cool
  BY <1>2 DEF Cool
<1>3. CASE NextCycle
  BY <1>3 DEF NextCycle
<1>4. CASE ChangeHealth \/ Stop \/ Stopped \/ UNCHANGED runVars
  BY <1>4 DEF ChangeHealth, Stop, Stopped, runVars
<1>5. QED
  BY <1>1, <1>2, <1>3, <1>4 DEF RunNext

\* Every reachable state of RunOnce and its breaker is well typed.
THEOREM RunTypeCorrect == RunSpec => []RunTypeOK
BY RunTypeInit, RunTypeNext, PTL DEF RunSpec

-------------------------------------------------------------------------------

\* No step closes a circuit at its threshold.
LEMMA ThresholdNext ==
    RunTypeOK /\ ClosedBelowThreshold /\ [RunNext]_runVars => ClosedBelowThreshold'
<1> SUFFICES ASSUME RunTypeOK, ClosedBelowThreshold, [RunNext]_runVars PROVE ClosedBelowThreshold'
  OBVIOUS
<1> USE DEF RunTypeOK, ClosedBelowThreshold, breaker, IncFailures
<1>1. ASSUME NEW j \in Jobs, JobStep(j) PROVE ClosedBelowThreshold'
  <2>1. CASE Fail(j)
    BY <2>1 DEF Fail
  <2>2. CASE Succeed(j)
    BY <2>2 DEF Succeed
  <2>3. CASE Admit(j)
    BY <2>3 DEF Admit
  <2>4. QED BY <1>1, <2>1, <2>2, <2>3 DEF JobStep, Lock, Acquire, AcquireCancelled, Skip
<1>2. QED
  BY <1>1 DEF RunNext, Cool, NextCycle, ChangeHealth, Stop, Stopped, runVars

\* However the outcomes of concurrent jobs interleave, a circuit that has seen a
\* threshold of failures since the last success is not closed.
THEOREM ClosedBelowThresholdHolds == RunSpec => []ClosedBelowThreshold
<1>1. RunInit => ClosedBelowThreshold
  BY DEF RunInit, ClosedBelowThreshold
<1>2. QED
  BY RunTypeInit, RunTypeNext, <1>1, ThresholdNext, PTL DEF RunSpec

-------------------------------------------------------------------------------
(* Mutual exclusion per contract: the lock is held from lockJob to the end.    *)

LockInv ==
    \A j, k \in Jobs :
        HoldsLock(j) /\ HoldsLock(k) /\ ContractOf[j] = ContractOf[k] => j = k

\* No step gives a contract lock a second holder.
LEMMA LockNext == RunTypeOK /\ LockInv /\ [RunNext]_runVars => LockInv'
<1> SUFFICES ASSUME RunTypeOK, LockInv, [RunNext]_runVars PROVE LockInv'
  OBVIOUS
<1> USE DEF RunTypeOK, LockInv, HoldsLock
<1>1. ASSUME NEW j \in Jobs, Lock(j) PROVE LockInv'
  BY <1>1 DEF Lock
<1>2. ASSUME NEW j \in Jobs, HoldsLock(j), NEW p, place' = [place EXCEPT ![j] = p] PROVE LockInv'
  BY <1>2
<1>3. ASSUME NEW j \in Jobs, JobStep(j) PROVE LockInv'
  <2>1. CASE Acquire(j) \/ AcquireCancelled(j) \/ Admit(j) \/ Skip(j)
    BY <2>1, <1>2 DEF Acquire, AcquireCancelled, Admit, Skip
  <2>2. CASE Succeed(j) \/ Fail(j)
    BY <2>2, <1>2 DEF Succeed, Fail
  <2>3. QED BY <1>1, <1>3, <2>1, <2>2 DEF JobStep
<1>4. CASE NextCycle
  BY <1>4 DEF NextCycle
<1>5. CASE UNCHANGED place
  BY <1>5
<1>6. QED
  BY <1>3, <1>4, <1>5 DEF RunNext, Cool, ChangeHealth, Stop, Stopped, runVars

\* Two entries of one contract never crawl at the same time.
THEOREM OneCrawlPerContractHolds == RunSpec => []OneCrawlPerContract
<1>1. RunInit => LockInv
  BY DEF RunInit, LockInv, HoldsLock
<1>2. LockInv => OneCrawlPerContract
  BY DEF LockInv, OneCrawlPerContract, HoldsLock, Crawling
<1>3. QED
  BY RunTypeInit, RunTypeNext, <1>1, <1>2, LockNext, PTL DEF RunSpec

-------------------------------------------------------------------------------
(* The semaphore.                                                              *)

\* A subset of the permits, or one more of them than before, has a size the
\* semaphore allows.
LEMMA PermitCount ==
    ASSUME ConcurrencyBounded, Permits' \subseteq Permits
    PROVE  ConcurrencyBounded'
<1>1. IsFiniteSet(Permits)
  BY RunAssumption, FS_Subset DEF Permits
<1>2. Cardinality(Permits') <= Cardinality(Permits)
  BY <1>1, FS_Subset
<1>3. Cardinality(Permits) \in Nat /\ Cardinality(Permits') \in Nat
  BY <1>1, FS_Subset, FS_CardinalityType
<1>4. QED BY <1>2, <1>3, RunAssumption DEF ConcurrencyBounded

\* No step oversubscribes the semaphore.
LEMMA PermitNext == RunTypeOK /\ ConcurrencyBounded /\ [RunNext]_runVars => ConcurrencyBounded'
<1> SUFFICES ASSUME RunTypeOK, ConcurrencyBounded, [RunNext]_runVars PROVE ConcurrencyBounded'
  OBVIOUS
<1> USE DEF RunTypeOK
<1>1. ASSUME NEW j \in Jobs, Acquire(j) PROVE ConcurrencyBounded'
  <2>1. IsFiniteSet(Permits)
    BY RunAssumption, FS_Subset DEF Permits
  <2>2. Permits' = Permits \cup {j} /\ j \notin Permits
    BY <1>1 DEF Acquire, Permits
  <2>3. Cardinality(Permits') = Cardinality(Permits) + 1
    BY <2>1, <2>2, FS_AddElement
  <2>4. Cardinality(Permits) \in Nat /\ Cardinality(Permits) < MaxConcurrency
    BY <1>1, <2>1, FS_CardinalityType DEF Acquire
  <2>5. QED BY <2>3, <2>4, RunAssumption DEF ConcurrencyBounded
<1>2. ASSUME NEW j \in Jobs, JobStep(j), ~Acquire(j) PROVE ConcurrencyBounded'
  <2>1. CASE Lock(j) \/ AcquireCancelled(j) \/ Skip(j)
    BY <2>1, PermitCount DEF Lock, AcquireCancelled, Skip, Permits
  <2>2. CASE Admit(j) \/ Succeed(j) \/ Fail(j)
    BY <2>2, PermitCount DEF Admit, Succeed, Fail, Permits
  <2>3. QED BY <1>2, <2>1, <2>2 DEF JobStep
<1>3. CASE NextCycle
  BY <1>3, PermitCount DEF NextCycle, Permits
<1>4. CASE UNCHANGED place
  BY <1>4, PermitCount DEF Permits
<1>5. QED
  BY <1>1, <1>2, <1>3, <1>4 DEF RunNext, Cool, ChangeHealth, Stop, Stopped, runVars

\* However the jobs leave (crawl done, circuit open, context cancelled), the
\* semaphore never has more holders than its weight.
THEOREM ConcurrencyBoundedHolds == RunSpec => []ConcurrencyBounded
<1>1. RunInit => ConcurrencyBounded
  <2> SUFFICES ASSUME RunInit PROVE ConcurrencyBounded
    OBVIOUS
  <2>1. Permits = {}
    BY DEF RunInit, Permits
  <2>2. QED BY <2>1, FS_EmptySet, RunAssumption DEF ConcurrencyBounded
<1>2. QED
  BY RunTypeInit, RunTypeNext, <1>1, PermitNext, PTL DEF RunSpec

-------------------------------------------------------------------------------
(* A circuit is half-open only while a probe is under way.                     *)

ProbeInv == state = "halfOpen" => Crawling # {}

\* The outcome of a probe, whichever it is, ends the half-open state.
LEMMA ProbeNext == RunTypeOK /\ ProbeInv /\ [RunNext]_runVars => ProbeInv'
<1> SUFFICES ASSUME RunTypeOK, ProbeInv, [RunNext]_runVars PROVE ProbeInv'
  OBVIOUS
<1> USE DEF RunTypeOK, ProbeInv, breaker
<1>1. ASSUME NEW j \in Jobs, JobStep(j) PROVE ProbeInv'
  <2>1. CASE Succeed(j) \/ Fail(j)
    <3>1. state' # "halfOpen"
      BY <2>1 DEF Succeed, Fail
    <3>2. QED BY <3>1
  <2>2. CASE Admit(j)
    BY <2>2 DEF Admit, Crawling
  <2>3. CASE Lock(j) \/ Acquire(j) \/ AcquireCancelled(j) \/ Skip(j)
    <3>1. state' = state /\ Crawling \subseteq Crawling'
      BY <2>3 DEF Lock, Acquire, AcquireCancelled, Skip, Crawling
    <3>2. QED BY <3>1
  <2>4. QED BY <1>1, <2>1, <2>2, <2>3 DEF JobStep
<1>2. CASE NextCycle
  BY <1>2 DEF NextCycle, Crawling
<1>3. CASE Cool
  BY <1>3 DEF Cool, Crawling
<1>4. CASE ChangeHealth \/ Stop \/ Stopped \/ UNCHANGED runVars
  BY <1>4 DEF ChangeHealth, Stop, Stopped, runVars, Crawling
<1>5. QED
  BY <1>1, <1>2, <1>3, <1>4 DEF RunNext

\* Whatever order outcomes arrive in, once nothing is in flight a circuit with a
\* threshold of failures behind it is open.
THEOREM TrippedIsOpenHolds == RunSpec => []TrippedIsOpen
<1>1. RunInit => ProbeInv
  BY DEF RunInit, ProbeInv
<1>2. RunTypeOK /\ ProbeInv /\ ClosedBelowThreshold => TrippedIsOpen
  BY RunAssumption DEF RunTypeOK, ProbeInv, ClosedBelowThreshold, TrippedIsOpen
<1>3. QED
  BY RunTypeInit, RunTypeNext, <1>1, <1>2, ProbeNext, ClosedBelowThresholdHolds, PTL DEF RunSpec

===============================================================================
