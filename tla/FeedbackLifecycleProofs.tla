------------------------ MODULE FeedbackLifecycleProofs ------------------------
(* Proofs about FeedbackLifecycle for every chain, number of goroutines and    *)
(* number of faults.                                                           *)
EXTENDS FeedbackLifecycle, FiniteSetTheorems, TLAPS

-------------------------------------------------------------------------------
(* Types of the documents.                                                     *)

\* Masses, and what adding one feedback to a mass gives.
LEMMA MassFacts ==
    /\ EmptyMass \in Mass
    /\ \A fs : MassOf(fs) \in Mass
    /\ \A q \in Mass, f \in Feedbacks :
         [q EXCEPT ![f] = @ + 1] \in Mass /\ (q[f] > 0 => [q EXCEPT ![f] = @ - 1] \in Mass)
BY DEF EmptyMass, MassOf, Mass

\* The allowance for one more increment keeps its type.
LEMMA OnceMoreType == again \in Mass => \A fs : OnceMore(fs) \in Mass
BY DEF OnceMore, Mass

\* Rows: the absent one, a graded one, and what an upsert leaves.
LEMMA RowFacts ==
    /\ NoRow \in Row
    /\ \A row \in Row : Grade(row) \in Row
    /\ rows \in [Feedbacks -> Row] => \A f \in Feedbacks : FreshRow(f) \in Row
<1>1. NoRow \in Row
  BY DEF NoRow, Row, Categories
<1>2. ASSUME NEW row \in Row PROVE Grade(row) \in Row
  BY DEF Grade, Row
<1>3. ASSUME rows \in [Feedbacks -> Row], NEW f \in Feedbacks PROVE FreshRow(f) \in Row
  BY <1>3, ParamsAssumption DEF FreshRow, Row, Categories
<1>4. QED BY <1>1, <1>2, <1>3

\* What a writer of the stats or of the agent's score puts there.
LEMMA DocumentFacts ==
    /\ \A m \in Mass : [present |-> TRUE, mass |-> m] \in Stats
    /\ \A m \in Mass, n \in Nat : [scored |-> TRUE, composite |-> m, total |-> n] \in Agent
BY DEF Stats, Agent

\* The feedback of a stretch of the chain is finite.
LEMMA NewsFacts ==
    ASSUME NEW a \in Nat, NEW z \in 0 .. NumEvents
    PROVE  /\ News(a + 1, z) \subseteq Feedbacks
           /\ Cardinality(News(a + 1, z)) \in Nat
<1>1. News(a + 1, z) \subseteq Feedbacks
  BY ParamsAssumption DEF News
<1>2. IsFiniteSet(News(a + 1, z))
  BY <1>1, ParamsAssumption, FS_Subset
<1>3. QED BY <1>1, <1>2, FS_CardinalityType

\* Sets of feedback and of goroutines have a size.
LEMMA CountFacts ==
    /\ \A S : S \subseteq Feedbacks => Cardinality(S) \in Nat
    /\ \A S : S \subseteq Others => Cardinality(S) \in Nat
    /\ \A S : S \subseteq Graders => Cardinality(S) \in Nat
BY ParamsAssumption, FS_Subset, FS_CardinalityType

\* Processes at rest.
LEMMA IdleFacts ==
    /\ BatchIdle \in Batch /\ OtherIdle \in Other
    /\ GraderIdle \in Grader /\ ReplayIdle \in Replay
<1>1. (CHOOSE f \in Feedbacks : TRUE) \in Feedbacks
  BY ParamsAssumption
<1>2. BatchIdle \in Batch
  <2>1. [scored |-> FALSE, composite |-> EmptyMass, total |-> 0] \in Agent
    BY MassFacts DEF Agent
  <2>2. 0 \in 0 .. NumEvents
    BY ParamsAssumption
  <2>3. QED BY <2>1, <2>2 DEF BatchIdle, Batch
<1>3. OtherIdle \in Other
  BY <1>1 DEF OtherIdle, Other
<1>4. GraderIdle \in Grader
  <2>1. [present |-> FALSE, mass |-> EmptyMass] \in Stats
    BY MassFacts DEF Stats
  <2>2. QED BY <1>1, <2>1 DEF GraderIdle, Grader
<1>5. ReplayIdle \in Replay
  BY DEF ReplayIdle, Replay
<1>6. QED BY <1>2, <1>3, <1>4, <1>5

-------------------------------------------------------------------------------
(* Type correctness.                                                           *)

\* The initial state is well typed.
LEMMA TypeInit == Init => TypeOK
<1> SUFFICES ASSUME Init PROVE TypeOK
  OBVIOUS
<1>1. rows \in [Feedbacks -> Row]
  BY RowFacts DEF Init
<1>2. stats \in Stats /\ agent \in Agent
  BY MassFacts DEF Init, Stats, Agent
<1>3. checkpoint \in 0 .. NumEvents
  BY ParamsAssumption DEF Init
<1>4. QED BY <1>1, <1>2, <1>3, IdleFacts, MassFacts DEF Init, TypeOK

\* Steps of TrustRank's batch.
LEMMA BatchType == TypeOK /\ BatchStep => TypeOK'
<1> SUFFICES ASSUME TypeOK, BatchStep PROVE TypeOK'
  OBVIOUS
<1> USE DEF TypeOK, queues, history
<1>b. batch.after \in 0 .. NumEvents /\ batch.end \in 0 .. NumEvents /\ batch.todo \subseteq Feedbacks
      /\ batch.agent \in Agent /\ batch.after \in Nat /\ batch.end \in Nat
  BY ParamsAssumption DEF Batch
<1>n. 0 \in 0 .. NumEvents
  BY ParamsAssumption
<1>f. faults' \in Nat
  <2>1. faults' = faults \/ faults' = faults + 1
    BY DEF BatchStep, BatchStart, BatchList, BatchDone, BatchAbort, BatchAgents, BatchFilter,
           BatchUpsert, BatchGuard, BatchPublish, BatchUpdate, BatchSave, Fault
  <2>2. QED BY <2>1
<1>1. CASE BatchStart
  <2>1. batch' \in Batch
    BY <1>1, <1>n DEF BatchStart, Batch
  <2>2. QED BY <1>1, <1>f, <2>1 DEF BatchStart
<1>2. ASSUME NEW last \in 1 .. NumEvents, BatchList(last) PROVE TypeOK'
  <2>1. batch' = [batch EXCEPT !.pc = "agents", !.end = last, !.agent = agent]
    BY <1>2 DEF BatchList
  <2>2. last \in 0 .. NumEvents
    BY ParamsAssumption
  <2>3. \A b \in Batch, a \in Agent :
           [b EXCEPT !.pc = "agents", !.end = last, !.agent = a] \in Batch
    BY <2>2 DEF Batch
  <2>4. batch' \in Batch
    BY <2>1, <2>3
  <2>5. QED BY <1>2, <2>4 DEF BatchList
<1>3. CASE BatchDone \/ BatchAbort
  BY <1>3, <1>f, IdleFacts DEF BatchDone, BatchAbort
<1>4. CASE BatchAgents
  <2>1. batch' \in Batch
    BY <1>4 DEF BatchAgents, Batch
  <2>2. Cardinality(News(batch.after + 1, batch.end)) \in Nat
    BY <1>b, NewsFacts
  <2>3. \A doc \in Agent, n \in Nat :
          [doc EXCEPT !.total = batch.agent.total + n] \in Agent
    BY <1>b DEF Agent
  <2>4. agent' \in Agent
    BY <1>4, <1>b, <2>2, <2>3 DEF BatchAgents
  <2>5. QED BY <1>4, <2>1, <2>4 DEF BatchAgents
<1>5. CASE BatchFilter
  <2>1. {f \in News(batch.after + 1, batch.end) : ~rows[f].graded} \subseteq Feedbacks
    BY <1>b, NewsFacts
  <2>2. batch' \in Batch
    BY <1>5, <2>1 DEF BatchFilter, Batch
  <2>3. QED BY <1>5, <2>2 DEF BatchFilter
<1>6. CASE BatchUpsert
  <2>1. batch' \in Batch
    BY <1>6 DEF BatchUpsert, Batch
  <2>2. rows' \in [Feedbacks -> Row]
    BY <1>6, RowFacts DEF BatchUpsert
  <2>3. clobbered' \subseteq Feedbacks
    BY <1>6, <1>b DEF BatchUpsert
  <2>4. QED BY <1>6, <2>1, <2>2, <2>3 DEF BatchUpsert
<1>7. CASE BatchGuard
  <2>1. News(batch.after + 1, batch.end) \subseteq Feedbacks
    BY <1>b, NewsFacts
  <2>2. PICK t \in SUBSET Feedbacks : batch' = [batch EXCEPT !.pc = "publish", !.todo = t]
    <3>1. \A S : News(batch.after + 1, batch.end) \ S \in SUBSET Feedbacks
      BY <2>1
    <3>2. QED BY <1>7, <2>1, <3>1 DEF BatchGuard
  <2>3. batch' \in Batch
    BY <2>2 DEF Batch
  <2>4. QED BY <1>7, <1>f, <2>3 DEF BatchGuard
<1>8. ASSUME NEW f \in Feedbacks, BatchPublish(f) PROVE TypeOK'
  <2>1. batch' = [batch EXCEPT !.todo = @ \ {f}]
    BY <1>8 DEF BatchPublish
  <2>2. batch' \in Batch
    BY <2>1, <1>b DEF Batch
  <2>3. othersQ' \in Mass /\ classifiedQ' \in Mass
    BY <1>8, MassFacts DEF BatchPublish
  <2>4. lost' \subseteq Feedbacks
    BY <1>8 DEF BatchPublish
  <2>5. QED BY <1>8, <1>f, <2>2, <2>3, <2>4 DEF BatchPublish
<1>9. CASE BatchUpdate
  <2>1. batch' \in Batch
    BY <1>9 DEF BatchUpdate, Batch
  <2>2. \A row \in Row : [row EXCEPT !.revoked = TRUE] \in Row
    BY DEF Row
  <2>3. rows' \in [Feedbacks -> Row]
    BY <1>9, <2>2 DEF BatchUpdate
  <2>4. QED BY <1>9, <2>1, <2>3 DEF BatchUpdate
<1>10. CASE BatchSave
  <2>1. batch' = [batch EXCEPT !.pc = "list", !.after = batch.end]
    BY <1>10 DEF BatchSave
  <2>2. batch' \in Batch
    BY <2>1, <1>b DEF Batch
  <2>3. QED BY <1>10, <1>b, <1>f, <2>2 DEF BatchSave
<1>11. QED
  BY <1>1, <1>2, <1>3, <1>4, <1>5, <1>6, <1>7, <1>8, <1>9, <1>10 DEF BatchStep

\* Steps of a feedback-others goroutine.
LEMMA OtherType == ASSUME NEW o \in Others PROVE TypeOK /\ OtherStep(o) => TypeOK'
<1> SUFFICES ASSUME TypeOK, OtherStep(o) PROVE TypeOK'
  OBVIOUS
<1> USE DEF TypeOK, queues, history
<1>b. other[o] \in Other /\ other[o].fb \in Feedbacks
  BY DEF Other
<1>f. faults' \in Nat
  <2>1. faults' = faults \/ faults' = faults + 1
    BY DEF OtherStep, OtherTake, OtherFetch, OtherDrop, OtherNack, OtherResolve,
           OtherPublish, Fault
  <2>2. QED BY <2>1
<1>p. \A p \in {"fetch", "resolve", "publish"} :
        /\ [other[o] EXCEPT !.pc = p] \in Other
        /\ \A f \in Feedbacks : [pc |-> p, fb |-> f] \in Other
  BY <1>b DEF Other
<1>1. ASSUME NEW f \in Feedbacks, OtherTake(o, f) PROVE TypeOK'
  BY <1>1, <1>p, MassFacts DEF OtherTake
<1>2. CASE OtherFetch(o)
  <2>1. PICK p \in {"fetch", "resolve", "publish"} : other' = [other EXCEPT ![o].pc = p]
    BY <1>2 DEF OtherFetch
  <2>2. other' \in [Others -> Other]
    BY <2>1, <1>p
  <2>3. QED BY <1>2, <2>2 DEF OtherFetch
<1>3. CASE OtherDrop(o)
  BY <1>3, <1>b, <1>f, IdleFacts DEF OtherDrop
<1>4. CASE OtherNack(o)
  BY <1>4, <1>b, <1>f, IdleFacts, MassFacts DEF OtherNack
<1>5. CASE OtherResolve(o)
  <2>1. \A row \in Row, c \in Categories : [row EXCEPT !.cat = c, !.llm = TRUE] \in Row
    BY DEF Row
  <2>2. PICK c \in Categories :
          rows' = [rows EXCEPT ![other[o].fb] = [rows[other[o].fb] EXCEPT !.cat = c, !.llm = TRUE]]
    BY <1>5, <1>b DEF OtherResolve
  <2>3. rows' \in [Feedbacks -> Row]
    BY <1>b, <2>1, <2>2
  <2>4. other' \in [Others -> Other]
    BY <1>5, <1>p DEF OtherResolve
  <2>5. clobbered' \subseteq Feedbacks
    BY <1>5, <1>b DEF OtherResolve
  <2>6. QED BY <1>5, <2>3, <2>4, <2>5 DEF OtherResolve
<1>6. CASE OtherPublish(o)
  BY <1>6, <1>b, IdleFacts, MassFacts DEF OtherPublish
<1>7. QED
  BY <1>1, <1>2, <1>3, <1>4, <1>5, <1>6 DEF OtherStep

\* Steps of a feedback-grader goroutine.
LEMMA GradeType == ASSUME NEW g \in Graders PROVE TypeOK /\ GradeStep(g) => TypeOK'
<1> SUFFICES ASSUME TypeOK, GradeStep(g) PROVE TypeOK'
  OBVIOUS
<1> USE DEF TypeOK, queues, history
<1>b. grader[g] \in Grader /\ grader[g].fb \in Feedbacks /\ grader[g].total \in Nat
      /\ grader[g].seen.mass \in Mass
  BY DEF Grader, Stats
<1>f. faults' \in Nat
  <2>1. faults' = faults \/ faults' = faults + 1
    BY DEF GradeStep, GradeTake, GradeFetch, GradeTotal, GradeRead, GradeWrite, GradeSync,
           GradeVerdict, GradeNack, Fault
  <2>2. QED BY <2>1
<1>p. \A p \in {"total", "lock", "write", "sync", "verdict"} :
        /\ [grader[g] EXCEPT !.pc = p] \in Grader
        /\ \A n \in Nat : [grader[g] EXCEPT !.pc = p, !.total = n] \in Grader
        /\ \A s \in Stats : [grader[g] EXCEPT !.pc = p, !.seen = s] \in Grader
  BY <1>b DEF Grader
<1>1. ASSUME NEW f \in Feedbacks, GradeTake(g, f) PROVE TypeOK'
  <2>1. [GraderIdle EXCEPT !.pc = "fetch", !.fb = f] \in Grader
    BY IdleFacts DEF Grader
  <2>2. QED BY <1>1, <2>1, MassFacts DEF GradeTake
<1>2. CASE GradeFetch(g)
  <2>1. grader' \in [Graders -> Grader]
    BY <1>2, <1>p, IdleFacts DEF GradeFetch
  <2>2. again' \in Mass
    BY <1>2, OnceMoreType DEF GradeFetch
  <2>3. QED BY <1>2, <2>1, <2>2 DEF GradeFetch
<1>3. CASE GradeTotal(g)
  <2>1. agent.total \in Nat
    BY DEF Agent
  <2>2. grader' \in [Graders -> Grader]
    BY <1>3, <1>p, <2>1 DEF GradeTotal
  <2>3. QED BY <1>3, <1>f, <2>2 DEF GradeTotal
<1>4. CASE GradeRead(g)
  <2>1. grader' \in [Graders -> Grader]
    BY <1>4, <1>p DEF GradeRead
  <2>2. QED BY <1>4, <2>1 DEF GradeRead
<1>5. CASE GradeWrite(g)
  <2> DEFINE mass == [grader[g].seen.mass EXCEPT ![grader[g].fb] = @ + 1]
  <2>1. mass \in Mass
    BY <1>b, MassFacts
  <2> HIDE DEF mass
  <2>2. stats' = [present |-> TRUE, mass |-> mass]
    BY <1>5 DEF GradeWrite, mass
  <2>3. \A p \in {"sync", "verdict"} :
          [grader[g] EXCEPT !.pc = p, !.seen.mass = mass] \in Grader
    BY <1>b, <2>1 DEF Grader, Stats
  <2>4. PICK p \in {"sync", "verdict"} :
          grader' = [grader EXCEPT ![g].pc = p, ![g].seen.mass = mass]
    BY <1>5 DEF GradeWrite, mass
  <2>5. grader' \in [Graders -> Grader]
    BY <2>3, <2>4
  <2>6. QED BY <1>5, <2>1, <2>2, <2>5 DEF GradeWrite, Stats
<1>6. CASE GradeSync(g)
  <2>1. agent' \in Agent
    BY <1>6, <1>b, DocumentFacts DEF GradeSync
  <2>2. grader' \in [Graders -> Grader]
    BY <1>6, <1>p DEF GradeSync
  <2>3. QED BY <1>6, <1>f, <2>1, <2>2 DEF GradeSync
<1>7. CASE GradeVerdict(g)
  BY <1>7, <1>b, RowFacts, IdleFacts DEF GradeVerdict
<1>8. CASE GradeNack(g)
  <2>1. again' \in Mass
    BY <1>8, OnceMoreType DEF GradeNack
  <2>2. QED BY <1>8, <1>b, <1>f, <2>1, IdleFacts, MassFacts DEF GradeNack
<1>9. QED
  BY <1>1, <1>2, <1>3, <1>4, <1>5, <1>6, <1>7, <1>8 DEF GradeStep

\* Steps of a score-refresh cycle.
LEMMA ReplayType == ASSUME NEW r \in Replayers PROVE TypeOK /\ ReplayStep(r) => TypeOK'
<1> SUFFICES ASSUME TypeOK, ReplayStep(r) PROVE TypeOK'
  OBVIOUS
<1> USE DEF TypeOK, queues, history
<1>b. replay[r] \in Replay /\ replay[r].total \in Nat
  BY DEF Replay
<1>f. faults' \in Nat
  <2>1. faults' = faults \/ faults' = faults + 1
    BY DEF ReplayStep, ReplayList, ReplayStats, ReplaySync, ReplayBackfill, Fault
  <2>2. QED BY <2>1
<1>p. \A p \in {"sync", "backfill"} : [replay[r] EXCEPT !.pc = p] \in Replay
  BY <1>b DEF Replay
<1>1. CASE ReplayList(r)
  <2>1. Cardinality(Stored) \in Nat /\ Scored \subseteq Feedbacks /\ Ungraded \subseteq Feedbacks
    BY CountFacts DEF Stored, Scored, Ungraded
  <2>2. [pc |-> "stats", scored |-> Scored, fills |-> Ungraded, total |-> Cardinality(Stored)]
          \in Replay
    BY <2>1 DEF Replay
  <2>3. [ReplayIdle EXCEPT !.pc = "stats"] \in Replay
    BY IdleFacts DEF Replay
  <2>4. replay' \in [Replayers -> Replay]
    BY <1>1, <2>2, <2>3 DEF ReplayList
  <2>5. QED BY <1>1, <1>f, <2>4 DEF ReplayList
<1>2. CASE ReplayStats(r)
  <2>1. stats' \in Stats /\ interfered' \subseteq Graders
    BY <1>2, MassFacts, DocumentFacts DEF ReplayStats
  <2>2. replay' \in [Replayers -> Replay]
    BY <1>2, <1>p DEF ReplayStats
  <2>3. early' \subseteq Feedbacks
    BY <1>2 DEF ReplayStats, ToCount
  <2>4. QED BY <1>2, <1>f, <2>1, <2>2, <2>3 DEF ReplayStats
<1>3. CASE ReplaySync(r)
  <2>1. agent' \in Agent
    BY <1>3, <1>b, MassFacts, DocumentFacts DEF ReplaySync
  <2>2. replay' \in [Replayers -> Replay]
    BY <1>3, <1>p DEF ReplaySync
  <2>3. QED BY <1>3, <1>f, <2>1, <2>2 DEF ReplaySync
<1>4. CASE ReplayBackfill(r)
  <2>1. rows' \in [Feedbacks -> Row]
    BY <1>4, RowFacts DEF ReplayBackfill
  <2>2. QED BY <1>4, <1>f, <2>1, IdleFacts DEF ReplayBackfill
<1>5. QED
  BY <1>1, <1>2, <1>3, <1>4 DEF ReplayStep

\* Crashes of the three services.
LEMMA CrashType == TypeOK /\ (OtherCrash \/ GraderCrash \/ ReplayCrash) => TypeOK'
<1> SUFFICES ASSUME TypeOK, OtherCrash \/ GraderCrash \/ ReplayCrash PROVE TypeOK'
  OBVIOUS
<1> USE DEF TypeOK, queues, history
<1>f. faults' \in Nat
  BY DEF OtherCrash, GraderCrash, ReplayCrash, Fault
<1>m. \A q \in Mass : \A c : (\A f \in Feedbacks : c[f] \in Nat)
        => [f \in Feedbacks |-> q[f] + c[f]] \in Mass
  BY DEF Mass
<1>1. CASE OtherCrash
  <2> DEFINE held == [f \in Feedbacks |->
                        Cardinality({o \in Others : other[o].pc # "idle" /\ other[o].fb = f})]
  <2>1. \A f \in Feedbacks : held[f] \in Nat
    BY CountFacts
  <2>2. othersQ' = [f \in Feedbacks |-> othersQ[f] + held[f]]
    BY <1>1 DEF OtherCrash
  <2> HIDE DEF held
  <2>3. othersQ' \in Mass
    BY <1>m, <2>1, <2>2
  <2>4. QED BY <1>1, <1>f, <2>3, IdleFacts DEF OtherCrash
<1>2. CASE GraderCrash
  <2> DEFINE held == [f \in Feedbacks |->
                        Cardinality({g \in Graders : grader[g].pc # "idle" /\ grader[g].fb = f})]
  <2>1. \A f \in Feedbacks : held[f] \in Nat
    BY CountFacts
  <2>2. classifiedQ' = [f \in Feedbacks |-> classifiedQ[f] + held[f]]
    BY <1>2 DEF GraderCrash
  <2> HIDE DEF held
  <2>3. classifiedQ' \in Mass
    BY <1>m, <2>1, <2>2
  <2>4. again' \in Mass
    BY <1>2, OnceMoreType DEF GraderCrash
  <2>5. QED BY <1>2, <1>f, <2>3, <2>4, IdleFacts DEF GraderCrash
<1>3. CASE ReplayCrash
  BY <1>3, <1>f, IdleFacts DEF ReplayCrash
<1>4. QED BY <1>1, <1>2, <1>3

\* Whatever the four services do, crash or fail at, the documents, the queues
\* and the control states keep their types: no count goes below zero, no saved
\* position leaves the chain.
THEOREM TypeCorrect == Spec => []TypeOK
<1>1. TypeOK /\ [Next]_vars => TypeOK'
  <2> SUFFICES ASSUME TypeOK, [Next]_vars PROVE TypeOK'
    OBVIOUS
  <2>1. CASE UNCHANGED vars
    BY <2>1 DEF TypeOK, vars
  <2>2. CASE Next
    BY <2>2, BatchType, OtherType, GradeType, ReplayType, CrashType DEF Next
  <2>3. QED BY <2>1, <2>2
<1>2. QED BY TypeInit, <1>1, PTL DEF Spec

-------------------------------------------------------------------------------
(* The lock of the graders.                                                    *)

\* lockFor's mutex has at most one holder, and what it read is what is stored.
LockInv ==
    /\ \A g, k \in Graders : Locked(g) /\ Locked(k) => g = k
    /\ NoLostIncrement

\* A step of one grader keeps the lock exclusive and the others' reads fresh.
LEMMA GradeLock ==
    ASSUME NEW g \in Graders, TypeOK, LockInv, GradeStep(g)
    PROVE  LockInv'
<1> USE DEF LockInv, NoLostIncrement, Locked
<1>t. grader \in [Graders -> Grader]
  BY DEF TypeOK
<1>1. CASE GradeRead(g)
  <2>1. grader' = [grader EXCEPT ![g].pc = "write", ![g].seen = stats] /\ stats' = stats
        /\ interfered' = interfered \ {g} /\ \A k \in Graders : ~Locked(k)
    BY <1>1 DEF GradeRead
  <2>2. grader'[g].pc = "write" /\ grader'[g].seen = stats
        /\ \A k \in Graders \ {g} : grader'[k] = grader[k]
    BY <2>1, <1>t DEF Grader
  <2>3. QED BY <2>1, <2>2
<1>2. CASE GradeWrite(g)
  <2>1. grader'[g].pc \in {"sync", "verdict"} /\ Locked(g)
        /\ \A k \in Graders \ {g} : grader'[k] = grader[k]
    BY <1>2, <1>t DEF GradeWrite, Grader
  <2>2. \A k \in Graders : grader'[k].pc # "write"
    BY <2>1
  <2>3. QED BY <2>1, <2>2
<1>3. ASSUME ~GradeRead(g), ~GradeWrite(g) PROVE LockInv'
  <2>1. stats' = stats /\ interfered' = interfered
    BY <1>3 DEF GradeStep, GradeTake, GradeFetch, GradeTotal, GradeSync, GradeVerdict,
                GradeNack, history
  <2>2. \A k \in Graders \ {g} : grader'[k] = grader[k]
    BY <1>3, <1>t DEF GradeStep, GradeTake, GradeFetch, GradeTotal, GradeSync,
                      GradeVerdict, GradeNack
  <2>3. grader'[g].pc \notin {"write", "sync"}
    <3>1. CASE \E f \in Feedbacks : GradeTake(g, f)
      BY <3>1, <1>t DEF GradeTake, GraderIdle
    <3>2. CASE GradeVerdict(g) \/ GradeNack(g)
      BY <3>2, <1>t DEF GradeVerdict, GradeNack, GraderIdle
    <3>3. CASE GradeTotal(g) \/ GradeSync(g)
      BY <3>3, <1>t DEF GradeTotal, GradeSync, Grader
    <3>4. CASE GradeFetch(g)
      BY <3>4, <1>t DEF GradeFetch, GraderIdle, Grader
    <3>5. QED BY <1>3, <3>1, <3>2, <3>3, <3>4 DEF GradeStep
  <2>4. QED BY <2>1, <2>2, <2>3
<1>4. QED BY <1>1, <1>2, <1>3

\* No step breaks the lock.
LEMMA LockStep == TypeOK /\ LockInv /\ [Next]_vars => LockInv'
<1> SUFFICES ASSUME TypeOK, LockInv, [Next]_vars PROVE LockInv'
  OBVIOUS
<1>a. ASSUME stats' = stats, grader' = grader, interfered' = interfered PROVE LockInv'
  BY <1>a DEF LockInv, NoLostIncrement, Locked
<1>1. CASE UNCHANGED vars
  BY <1>1, <1>a DEF vars
<1>2. CASE BatchStep
  BY <1>2, <1>a DEF BatchStep, BatchStart, BatchList, BatchDone, BatchAbort, BatchAgents,
       BatchFilter, BatchUpsert, BatchGuard, BatchPublish, BatchUpdate, BatchSave, history
<1>3. ASSUME NEW o \in Others, OtherStep(o) PROVE LockInv'
  BY <1>3, <1>a DEF OtherStep, OtherTake, OtherFetch, OtherDrop, OtherNack, OtherResolve,
                    OtherPublish, history
<1>4. ASSUME NEW g \in Graders, GradeStep(g) PROVE LockInv'
  BY <1>4, GradeLock
<1>5. ASSUME NEW r \in Replayers, ReplayStep(r) PROVE LockInv'
  <2>1. CASE ReplayStats(r)
    <3>1. grader' = grader
      BY <2>1 DEF ReplayStats
    <3>2. \/ stats' = stats /\ interfered' = interfered
          \/ interfered' = interfered \cup {g \in Graders : grader[g].pc = "write"}
      BY <2>1 DEF ReplayStats
    <3>3. QED BY <3>1, <3>2 DEF LockInv, NoLostIncrement, Locked
  <2>2. CASE ReplayList(r) \/ ReplaySync(r) \/ ReplayBackfill(r)
    BY <2>2, <1>a DEF ReplayList, ReplaySync, ReplayBackfill, history
  <2>3. QED BY <1>5, <2>1, <2>2 DEF ReplayStep
<1>6. CASE GraderCrash
  <2>1. \A g \in Graders : grader'[g].pc = "idle"
    BY <1>6 DEF GraderCrash, GraderIdle
  <2>2. QED BY <2>1 DEF LockInv, NoLostIncrement, Locked
<1>7. CASE OtherCrash \/ ReplayCrash
  BY <1>7, <1>a DEF OtherCrash, ReplayCrash, history
<1>8. QED
  BY <1>1, <1>2, <1>3, <1>4, <1>5, <1>6, <1>7 DEF Next

\* The lock is exclusive, crashes and redeliveries included.
THEOREM LockCorrect == Spec => []LockInv
<1>1. Init => LockInv
  BY DEF Init, LockInv, NoLostIncrement, Locked, GraderIdle
<1>2. QED BY <1>1, LockStep, TypeCorrect, PTL DEF Spec

\* No increment of a grader overwrites another grader's: with any number of
\* goroutines, what applyQuality is about to increment is what is stored,
\* unless score-refresh replaced it in between.
THEOREM NoLostIncrementHolds == Spec => []NoLostIncrement
<1>1. LockInv => NoLostIncrement
  BY DEF LockInv
<1>2. QED BY <1>1, LockCorrect, PTL

-------------------------------------------------------------------------------
(* A message never runs ahead of its row.                                      *)

\* A copy of f's message is with feedback-others, or with the graders.
InOthers(f) ==
    othersQ[f] > 0 \/ \E o \in Others : other[o].pc # "idle" /\ other[o].fb = f
InClassified(f) ==
    classifiedQ[f] > 0 \/ \E g \in Graders : grader[g].pc # "idle" /\ grader[g].fb = f
InFlight(f) == InOthers(f) \/ InClassified(f)

\* The feedback of the batch under way.
BatchNews == News(batch.after + 1, batch.end)

\* Where rows come from: the filter leaves out only rows that exist, the batch
\* is upserted before it is published, and a replay grades rows it has read.
RowInv ==
    /\ \A f \in Feedbacks : InFlight(f) => rows[f].stored
    /\ \A f \in Feedbacks : rows[f].graded => rows[f].stored
    /\ \A r \in Replayers : replay[r].fills \subseteq Stored
    /\ batch.pc = "upsert" => BatchNews \ batch.todo \subseteq Stored
    /\ batch.pc = "guard" => BatchNews \subseteq Stored
    /\ batch.pc = "publish" => batch.todo \subseteq Stored

\* RowInv survives a step that deletes no row, grades only stored rows, sends
\* messages about stored rows only, and keeps what a replay and the batch need.
LEMMA RowInvKept ==
    ASSUME RowInv,
           \A f \in Feedbacks : rows[f].stored => rows'[f].stored,
           \A f \in Feedbacks : rows'[f].graded => rows[f].graded \/ rows'[f].stored,
           \A f \in Feedbacks : InFlight(f)' => InFlight(f) \/ rows'[f].stored,
           \A r \in Replayers : replay'[r].fills \subseteq Stored',
           batch' = batch \/ batch'.pc \notin {"upsert", "guard", "publish"}
    PROVE  RowInv'
<1>1. Stored \subseteq Stored'
  BY DEF Stored
<1>2. (\A f \in Feedbacks : InFlight(f) => rows[f].stored)'
  BY DEF RowInv
<1>3. (\A f \in Feedbacks : rows[f].graded => rows[f].stored)'
  BY DEF RowInv
<1>4. /\ (batch.pc = "upsert" => BatchNews \ batch.todo \subseteq Stored)'
      /\ (batch.pc = "guard" => BatchNews \subseteq Stored)'
      /\ (batch.pc = "publish" => batch.todo \subseteq Stored)'
  <2>1. CASE batch' = batch
    BY <2>1, <1>1 DEF RowInv, BatchNews
  <2>2. CASE batch'.pc \notin {"upsert", "guard", "publish"}
    BY <2>2
  <2>3. QED BY <2>1, <2>2
<1>5. QED BY <1>2, <1>3, <1>4 DEF RowInv

\* Steps of TrustRank's batch.
LEMMA BatchRow == TypeOK /\ RowInv /\ BatchStep => RowInv'
<1> SUFFICES ASSUME TypeOK, RowInv, BatchStep PROVE RowInv'
  OBVIOUS
<1>t. /\ rows \in [Feedbacks -> Row] /\ othersQ \in Mass /\ classifiedQ \in Mass
      /\ batch \in Batch
  BY DEF TypeOK
<1>n. BatchNews \subseteq Feedbacks
  <2>1. batch.after \in Nat /\ batch.end \in 0 .. NumEvents
    BY <1>t, ParamsAssumption DEF Batch
  <2>2. QED BY <2>1, NewsFacts DEF BatchNews
<1>q. ASSUME replay' = replay, rows' = rows PROVE \A r \in Replayers : replay'[r].fills \subseteq Stored'
  BY <1>q DEF RowInv, Stored
<1>1. ASSUME rows' = rows, replay' = replay, queues' = queues, other' = other, grader' = grader,
             batch'.pc \notin {"upsert", "guard", "publish"}
      PROVE  RowInv'
  BY <1>1, <1>q, RowInvKept DEF InFlight, InOthers, InClassified, queues
<1>2. CASE BatchStart
  BY <1>1, <1>2, <1>t DEF BatchStart, Batch
<1>3. ASSUME NEW last \in 1 .. NumEvents, BatchList(last) PROVE RowInv'
  BY <1>1, <1>3, <1>t DEF BatchList, Batch
<1>4. CASE BatchDone \/ BatchAbort
  BY <1>1, <1>4 DEF BatchDone, BatchAbort, BatchIdle
<1>5. CASE BatchAgents
  BY <1>1, <1>5, <1>t DEF BatchAgents, Batch
<1>6. CASE BatchSave
  BY <1>1, <1>6, <1>t DEF BatchSave, Batch
<1>7. CASE BatchFilter
  <2>1. batch' = [batch EXCEPT !.pc = "upsert", !.todo = {f \in BatchNews : ~rows[f].graded}]
    BY <1>7 DEF BatchFilter, BatchNews
  <2>2. batch'.pc = "upsert" /\ batch'.todo = {f \in BatchNews : ~rows[f].graded}
        /\ batch'.after = batch.after /\ batch'.end = batch.end
    BY <2>1, <1>t DEF Batch
  <2>3. BatchNews' = BatchNews
    BY <2>2 DEF BatchNews
  <2>4. BatchNews \ batch'.todo \subseteq Stored
    BY <2>2, <1>n DEF RowInv, Stored
  <2>5. UNCHANGED <<rows, othersQ, classifiedQ, other, grader, replay>>
    BY <1>7 DEF BatchFilter, queues
  <2>6. QED BY <2>2, <2>3, <2>4, <2>5 DEF RowInv, InFlight, InOthers, InClassified, Stored
<1>8. CASE BatchUpsert
  <2>1. batch'.pc = "guard" /\ batch'.after = batch.after /\ batch'.end = batch.end
    BY <1>8, <1>t DEF BatchUpsert, Batch
  <2>2. \A f \in Feedbacks : rows'[f] = IF f \in batch.todo THEN FreshRow(f) ELSE rows[f]
    BY <1>8 DEF BatchUpsert
  <2>3. \A f \in Feedbacks : FreshRow(f).stored /\ FreshRow(f).graded = rows[f].graded
    BY <1>t DEF FreshRow, Row
  <2>4. \A f \in Feedbacks : rows'[f].graded = rows[f].graded
                             /\ (rows[f].stored \/ f \in batch.todo => rows'[f].stored)
    BY <2>2, <2>3
  <2>5. Stored \subseteq Stored' /\ BatchNews' = BatchNews
    BY <2>1, <2>4 DEF Stored, BatchNews
  <2>6. BatchNews \subseteq Stored'
    BY <1>8, <1>n, <2>4 DEF RowInv, Stored, BatchUpsert
  <2>7. UNCHANGED <<othersQ, classifiedQ, other, grader, replay>>
    BY <1>8 DEF BatchUpsert, queues
  <2>8. QED BY <2>1, <2>4, <2>5, <2>6, <2>7 DEF RowInv, InFlight, InOthers, InClassified
<1>9. CASE BatchGuard
  <2>1. batch'.pc = "publish" /\ batch'.todo \subseteq BatchNews
    BY <1>9, <1>t DEF BatchGuard, Batch, BatchNews
  <2>2. batch.pc = "guard" /\ UNCHANGED <<rows, othersQ, classifiedQ, other, grader, replay>>
    BY <1>9 DEF BatchGuard, queues
  <2>3. QED BY <2>1, <2>2 DEF RowInv, InFlight, InOthers, InClassified, Stored
<1>10. ASSUME NEW f \in Feedbacks, BatchPublish(f) PROVE RowInv'
  <2>1. batch.pc = "publish" /\ batch'.pc = "publish" /\ batch'.todo \subseteq batch.todo
    BY <1>10, <1>t DEF BatchPublish, Batch
  <2>2. rows[f].stored
    BY <1>10, <2>1 DEF RowInv, Stored, BatchPublish
  <2>3. \A k \in Feedbacks \ {f} : othersQ'[k] = othersQ[k] /\ classifiedQ'[k] = classifiedQ[k]
    BY <1>10, <1>t DEF BatchPublish, Mass, queues
  <2>4. UNCHANGED <<rows, other, grader, replay>>
    BY <1>10 DEF BatchPublish
  <2>5. \A k \in Feedbacks : InFlight(k)' => InFlight(k) \/ k = f
    BY <2>3, <2>4 DEF InFlight, InOthers, InClassified
  <2>6. QED BY <2>1, <2>2, <2>4, <2>5 DEF RowInv, Stored
<1>11. CASE BatchUpdate
  <2>1. batch'.pc = "save"
    BY <1>11, <1>t DEF BatchUpdate, Batch
  <2>2. \A f \in Feedbacks : \/ rows'[f] = rows[f]
                             \/ rows'[f] = [rows[f] EXCEPT !.revoked = TRUE]
    BY <1>11 DEF BatchUpdate
  <2>3. \A f \in Feedbacks : rows'[f].stored = rows[f].stored /\ rows'[f].graded = rows[f].graded
    BY <2>2, <1>t DEF Row
  <2>4. UNCHANGED <<othersQ, classifiedQ, other, grader, replay>>
    BY <1>11 DEF BatchUpdate, queues
  <2>5. QED BY <2>1, <2>3, <2>4 DEF RowInv, InFlight, InOthers, InClassified, Stored
<1>12. QED
  BY <1>2, <1>3, <1>4, <1>5, <1>6, <1>7, <1>8, <1>9, <1>10, <1>11 DEF BatchStep

\* Steps of a feedback-others goroutine.
LEMMA OtherRow == ASSUME NEW o \in Others PROVE TypeOK /\ RowInv /\ OtherStep(o) => RowInv'
<1> SUFFICES ASSUME TypeOK, RowInv, OtherStep(o) PROVE RowInv'
  OBVIOUS
<1>t. /\ rows \in [Feedbacks -> Row] /\ othersQ \in Mass /\ classifiedQ \in Mass
      /\ other \in [Others -> Other] /\ other[o].fb \in Feedbacks
  BY DEF TypeOK, Other
<1>a. batch' = batch /\ replay' = replay /\ grader' = grader
  BY DEF OtherStep, OtherTake, OtherFetch, OtherDrop, OtherNack, OtherResolve, OtherPublish
<1>s. \A f \in Feedbacks : rows'[f].stored = rows[f].stored /\ rows'[f].graded = rows[f].graded
  <2>1. CASE OtherResolve(o)
    <3>1. PICK c \in Categories :
            rows' = [rows EXCEPT ![other[o].fb].cat = c, ![other[o].fb].llm = TRUE]
      BY <2>1 DEF OtherResolve
    <3>2. QED BY <3>1, <1>t DEF Row
  <2>2. CASE ~OtherResolve(o)
    BY <2>2 DEF OtherStep, OtherTake, OtherFetch, OtherDrop, OtherNack, OtherPublish
  <2>3. QED BY <2>1, <2>2
<1>m. \A f \in Feedbacks : InFlight(f)' => InFlight(f)
  <2>1. ASSUME NEW k \in Feedbacks, OtherTake(o, k) PROVE \A f \in Feedbacks : InFlight(f)' => InFlight(f)
    <3>1. othersQ[k] > 0 /\ \A f \in Feedbacks \ {k} : othersQ'[f] = othersQ[f]
      BY <2>1, <1>t DEF OtherTake, Mass
    <3>2. classifiedQ' = classifiedQ /\ other'[o].fb = k
          /\ \A p \in Others \ {o} : other'[p] = other[p]
      BY <2>1, <1>t DEF OtherTake
    <3>3. QED BY <3>1, <3>2, <1>a DEF InFlight, InOthers, InClassified
  <2>2. CASE OtherFetch(o) \/ OtherResolve(o)
    <3>1. other[o].pc # "idle" /\ queues' = queues
      BY <2>2 DEF OtherFetch, OtherResolve
    <3>2. other'[o].fb = other[o].fb /\ \A p \in Others \ {o} : other'[p] = other[p]
      BY <2>2, <1>t DEF OtherFetch, OtherResolve, Other
    <3>3. QED BY <3>1, <3>2, <1>a DEF InFlight, InOthers, InClassified, queues
  <2>3. CASE OtherDrop(o) \/ OtherNack(o) \/ OtherPublish(o)
    <3>1. other[o].pc # "idle"
      BY <2>3 DEF OtherDrop, OtherNack, OtherPublish
    <3>2. other'[o].pc = "idle" /\ \A p \in Others \ {o} : other'[p] = other[p]
      BY <2>3, <1>t DEF OtherDrop, OtherNack, OtherPublish, OtherIdle
    <3>3. \A f \in Feedbacks \ {other[o].fb} :
             othersQ'[f] = othersQ[f] /\ classifiedQ'[f] = classifiedQ[f]
      BY <2>3, <1>t DEF OtherDrop, OtherNack, OtherPublish, Mass, queues
    <3>4. QED BY <3>1, <3>2, <3>3, <1>a DEF InFlight, InOthers, InClassified
  <2>4. QED BY <2>1, <2>2, <2>3 DEF OtherStep
<1>r. \A r \in Replayers : replay'[r].fills \subseteq Stored'
  BY <1>a, <1>s DEF RowInv, Stored
<1>1. QED BY <1>a, <1>s, <1>m, <1>r, RowInvKept

\* A grader's step brings no feedback to the graders but the one it takes from
\* their queue.
LEMMA GraderHolds ==
    ASSUME TypeOK, NEW g \in Graders, GradeStep(g)
    PROVE  \A f \in Feedbacks : InClassified(f)' => InClassified(f)
<1>t. classifiedQ \in Mass /\ grader \in [Graders -> Grader] /\ grader[g].fb \in Feedbacks
  BY DEF TypeOK, Grader
<1>k. \A p \in Graders \ {g} : grader'[p] = grader[p]
  BY <1>t DEF GradeStep, GradeTake, GradeFetch, GradeTotal, GradeRead, GradeWrite, GradeSync,
              GradeVerdict, GradeNack
<1>1. ASSUME NEW k \in Feedbacks, GradeTake(g, k)
      PROVE  \A f \in Feedbacks : InClassified(f)' => InClassified(f)
  <2>1. classifiedQ[k] > 0 /\ \A f \in Feedbacks \ {k} : classifiedQ'[f] = classifiedQ[f]
    BY <1>1, <1>t DEF GradeTake, Mass
  <2>2. grader'[g].fb = k
    BY <1>1, <1>t DEF GradeTake, GraderIdle
  <2>3. QED BY <2>1, <2>2, <1>k DEF InClassified
<1>2. CASE GradeVerdict(g) \/ GradeNack(g)
  <2>1. grader[g].pc # "idle" /\ grader'[g].pc = "idle"
    BY <1>2, <1>t DEF GradeVerdict, GradeNack, GraderIdle
  <2>2. \A f \in Feedbacks \ {grader[g].fb} : classifiedQ'[f] = classifiedQ[f]
    BY <1>2, <1>t DEF GradeVerdict, GradeNack, Mass, queues
  <2>3. QED BY <2>1, <2>2, <1>k DEF InClassified
<1>3. ASSUME ~GradeVerdict(g), ~GradeNack(g), ~\E k \in Feedbacks : GradeTake(g, k)
      PROVE  \A f \in Feedbacks : InClassified(f)' => InClassified(f)
  <2>1. grader[g].pc # "idle" /\ classifiedQ' = classifiedQ
    BY <1>3 DEF GradeStep, GradeFetch, GradeTotal, GradeRead, GradeWrite, GradeSync, queues
  <2>2. grader'[g].pc = "idle" \/ grader'[g].fb = grader[g].fb
    <3>1. CASE GradeFetch(g)
      BY <3>1, <1>t DEF GradeFetch, GraderIdle, Grader
    <3>2. CASE GradeTotal(g) \/ GradeRead(g)
      BY <3>2, <1>t DEF GradeTotal, GradeRead, Grader
    <3>3. CASE GradeWrite(g) \/ GradeSync(g)
      BY <3>3, <1>t DEF GradeWrite, GradeSync, Grader
    <3>4. QED BY <1>3, <3>1, <3>2, <3>3 DEF GradeStep
  <2>3. QED BY <2>1, <2>2, <1>k DEF InClassified
<1>4. QED BY <1>1, <1>2, <1>3

\* Steps of a feedback-grader goroutine.
LEMMA GradeRow == ASSUME NEW g \in Graders PROVE TypeOK /\ RowInv /\ GradeStep(g) => RowInv'
<1> SUFFICES ASSUME TypeOK, RowInv, GradeStep(g) PROVE RowInv'
  OBVIOUS
<1>t. /\ rows \in [Feedbacks -> Row] /\ classifiedQ \in Mass
      /\ grader \in [Graders -> Grader] /\ grader[g].fb \in Feedbacks
  BY DEF TypeOK, Grader
<1>a. batch' = batch /\ replay' = replay /\ other' = other /\ othersQ' = othersQ
  BY DEF GradeStep, GradeTake, GradeFetch, GradeTotal, GradeRead, GradeWrite, GradeSync,
         GradeVerdict, GradeNack, queues
<1>s. \A f \in Feedbacks : /\ rows'[f].stored = rows[f].stored
                           /\ rows'[f].graded => rows[f].graded \/ rows'[f].stored
  <2>1. CASE GradeVerdict(g)
    <3>1. grader[g].pc = "verdict" /\ rows' = [rows EXCEPT ![grader[g].fb] = Grade(@)]
      BY <2>1 DEF GradeVerdict
    <3>2. rows[grader[g].fb].stored
      BY <3>1, <1>t DEF RowInv, InFlight, InOthers, InClassified
    <3>3. QED BY <3>1, <3>2, <1>t DEF Row, Grade
  <2>2. CASE ~GradeVerdict(g)
    BY <2>2 DEF GradeStep, GradeTake, GradeFetch, GradeTotal, GradeRead, GradeWrite,
                GradeSync, GradeNack
  <2>3. QED BY <2>1, <2>2
<1>m. \A f \in Feedbacks : InFlight(f)' => InFlight(f)
  BY <1>a, GraderHolds DEF InFlight, InOthers
<1>r. \A r \in Replayers : replay'[r].fills \subseteq Stored'
  BY <1>a, <1>s DEF RowInv, Stored
<1>1. QED BY <1>a, <1>s, <1>m, <1>r, RowInvKept

\* Steps of a score-refresh cycle.
LEMMA ReplayRow == ASSUME NEW r \in Replayers PROVE TypeOK /\ RowInv /\ ReplayStep(r) => RowInv'
<1> SUFFICES ASSUME TypeOK, RowInv, ReplayStep(r) PROVE RowInv'
  OBVIOUS
<1>t. rows \in [Feedbacks -> Row] /\ replay \in [Replayers -> Replay]
  BY DEF TypeOK
<1>a. batch' = batch /\ UNCHANGED <<othersQ, classifiedQ, other, grader>>
  BY DEF ReplayStep, ReplayList, ReplayStats, ReplaySync, ReplayBackfill, queues
<1>s. \A f \in Feedbacks : /\ rows'[f].stored = rows[f].stored
                           /\ rows'[f].graded => rows[f].graded \/ rows'[f].stored
  <2>1. CASE ReplayBackfill(r)
    <3>1. \A f \in Feedbacks : \/ rows'[f] = rows[f]
                               \/ f \in replay[r].fills /\ rows'[f] = Grade(rows[f])
      BY <2>1 DEF ReplayBackfill
    <3>2. \A f \in replay[r].fills : rows[f].stored
      BY DEF RowInv, Stored
    <3>3. \A f \in Feedbacks : Grade(rows[f]).stored = rows[f].stored
      BY <1>t DEF Grade, Row
    <3>4. QED BY <3>1, <3>2, <3>3
  <2>2. CASE ~ReplayBackfill(r)
    BY <2>2 DEF ReplayStep, ReplayList, ReplayStats, ReplaySync
  <2>3. QED BY <2>1, <2>2
<1>k. \A k \in Replayers \ {r} : replay'[k] = replay[k]
  BY <1>t DEF ReplayStep, ReplayList, ReplayStats, ReplaySync, ReplayBackfill
<1>f. replay'[r].fills \subseteq replay[r].fills \cup Stored
  <2>1. CASE ReplayList(r)
    BY <2>1, <1>t DEF ReplayList, ReplayIdle, Ungraded, Stored
  <2>2. CASE ReplayStats(r) \/ ReplaySync(r)
    BY <2>2, <1>t DEF ReplayStats, ReplaySync, Replay
  <2>3. CASE ReplayBackfill(r)
    BY <2>3, <1>t DEF ReplayBackfill, ReplayIdle
  <2>4. QED BY <2>1, <2>2, <2>3 DEF ReplayStep
<1>r. \A k \in Replayers : replay'[k].fills \subseteq Stored'
  <2>1. Stored' = Stored
    BY <1>s DEF Stored
  <2>2. QED BY <2>1, <1>k, <1>f DEF RowInv
<1>m. \A f \in Feedbacks : InFlight(f)' => InFlight(f)
  BY <1>a DEF InFlight, InOthers, InClassified
<1>1. QED BY <1>a, <1>s, <1>m, <1>r, RowInvKept

\* A crash puts every message back where it came from.
LEMMA CrashHolds ==
    ASSUME TypeOK, OtherCrash \/ GraderCrash \/ ReplayCrash
    PROVE  \A f \in Feedbacks : /\ InOthers(f)' => InOthers(f)
                                /\ InClassified(f)' => InClassified(f)
<1>t. othersQ \in Mass /\ classifiedQ \in Mass
  BY DEF TypeOK
<1>1. CASE OtherCrash
  <2>1. UNCHANGED <<classifiedQ, grader>> /\ \A o \in Others : other'[o].pc = "idle"
    BY <1>1 DEF OtherCrash, OtherIdle
  <2>2. ASSUME NEW f \in Feedbacks, InOthers(f)' PROVE InOthers(f)
    <3>1. CASE {o \in Others : other[o].pc # "idle" /\ other[o].fb = f} = {}
      <4>1. othersQ'[f] = othersQ[f]
        BY <1>1, <3>1, <1>t, FS_EmptySet DEF OtherCrash, Mass
      <4>2. QED BY <2>1, <2>2, <4>1 DEF InOthers
    <3>2. CASE {o \in Others : other[o].pc # "idle" /\ other[o].fb = f} # {}
      BY <3>2 DEF InOthers
    <3>3. QED BY <3>1, <3>2
  <2>3. QED BY <2>1, <2>2 DEF InClassified
<1>2. CASE GraderCrash
  <2>1. UNCHANGED <<othersQ, other>> /\ \A g \in Graders : grader'[g].pc = "idle"
    BY <1>2 DEF GraderCrash, GraderIdle
  <2>2. ASSUME NEW f \in Feedbacks, InClassified(f)' PROVE InClassified(f)
    <3>1. CASE {g \in Graders : grader[g].pc # "idle" /\ grader[g].fb = f} = {}
      <4>1. classifiedQ'[f] = classifiedQ[f]
        BY <1>2, <3>1, <1>t, FS_EmptySet DEF GraderCrash, Mass
      <4>2. QED BY <2>1, <2>2, <4>1 DEF InClassified
    <3>2. CASE {g \in Graders : grader[g].pc # "idle" /\ grader[g].fb = f} # {}
      BY <3>2 DEF InClassified
    <3>3. QED BY <3>1, <3>2
  <2>3. QED BY <2>1, <2>2 DEF InOthers
<1>3. CASE ReplayCrash
  BY <1>3 DEF ReplayCrash, InOthers, InClassified, queues
<1>4. QED BY <1>1, <1>2, <1>3

\* Crashes of the three services: what was being handled is queued again.
LEMMA CrashRow == TypeOK /\ RowInv /\ (OtherCrash \/ GraderCrash \/ ReplayCrash) => RowInv'
<1> SUFFICES ASSUME TypeOK, RowInv, OtherCrash \/ GraderCrash \/ ReplayCrash PROVE RowInv'
  OBVIOUS
<1>a. batch' = batch /\ rows' = rows
  BY DEF OtherCrash, GraderCrash, ReplayCrash
<1>r. \A r \in Replayers : replay'[r].fills \subseteq Stored'
  BY <1>a DEF RowInv, Stored, OtherCrash, GraderCrash, ReplayCrash, ReplayIdle
<1>m. \A f \in Feedbacks : InFlight(f)' => InFlight(f)
  BY CrashHolds DEF InFlight
<1>1. QED BY <1>a, <1>m, <1>r, RowInvKept DEF RowInv

\* RowInv holds throughout.
THEOREM RowCorrect == Spec => []RowInv
<1>1. Init => RowInv
  <2> SUFFICES ASSUME Init PROVE RowInv
    OBVIOUS
  <2>1. \A f \in Feedbacks : ~InFlight(f) /\ ~rows[f].graded
    <3>1. \A f \in Feedbacks : othersQ[f] = 0 /\ classifiedQ[f] = 0
      BY DEF Init, EmptyMass
    <3>2. \A o \in Others : other[o].pc = "idle"
      BY DEF Init, OtherIdle
    <3>3. \A g \in Graders : grader[g].pc = "idle"
      BY DEF Init, GraderIdle
    <3>4. \A f \in Feedbacks : rows[f].graded = FALSE
      BY DEF Init, NoRow
    <3>5. QED BY <3>1, <3>2, <3>3, <3>4 DEF InFlight, InOthers, InClassified
  <2>2. \A r \in Replayers : replay[r].fills = {}
    BY DEF Init, ReplayIdle
  <2>3. batch.pc = "idle"
    BY DEF Init, BatchIdle
  <2>4. QED BY <2>1, <2>2, <2>3 DEF RowInv
<1>2. TypeOK /\ RowInv /\ [Next]_vars => RowInv'
  <2> SUFFICES ASSUME TypeOK, RowInv, [Next]_vars PROVE RowInv'
    OBVIOUS
  <2>1. CASE UNCHANGED vars
    <3>1. \A f \in Feedbacks : InFlight(f)' = InFlight(f)
      BY <2>1 DEF vars, InFlight, InOthers, InClassified
    <3>2. \A r \in Replayers : replay'[r].fills \subseteq Stored'
      BY <2>1 DEF vars, RowInv, Stored
    <3>3. rows' = rows /\ batch' = batch
      BY <2>1 DEF vars
    <3>4. QED BY <3>1, <3>2, <3>3, RowInvKept
  <2>2. CASE Next
    BY <2>2, BatchRow, OtherRow, GradeRow, ReplayRow, CrashRow DEF Next
  <2>3. QED BY <2>1, <2>2
<1>3. QED BY <1>1, <1>2, TypeCorrect, PTL DEF Spec

\* A message never runs ahead of its row, for every chain, batch size, number of
\* goroutines, redelivery and crash.
THEOREM MessageHasRowHolds == Spec => []MessageHasRow
<1>1. RowInv => MessageHasRow
  BY DEF RowInv, InFlight, InOthers, InClassified, MessageHasRow
<1>2. QED BY <1>1, RowCorrect, PTL

-------------------------------------------------------------------------------
(* What the queues carry.                                                      *)

Undecided(f) == RuleCategory[f] = "others"
Answered(f) == rows[f].llm \/ f \in clobbered

\* feedback-others sees only rows the rules left undecided, the graders see such
\* a row only once it is answered, and a decided row keeps the rules' category.
RouteInv ==
    /\ \A f \in Feedbacks : InOthers(f) => Undecided(f)
    /\ \A o \in Others : other[o].pc = "publish" => Answered(other[o].fb)
    /\ \A f \in Feedbacks : InClassified(f) /\ Undecided(f) => Answered(f)
    /\ \A f \in Feedbacks : rows[f].stored /\ ~Undecided(f) => rows[f].cat = RuleCategory[f]

\* What a step does to a row it does not write over.
RowKept(f) ==
    /\ Answered(f) => Answered(f)'
    /\ rows'[f].stored => rows[f].stored
    /\ Undecided(f) \/ rows'[f].cat = rows[f].cat

\* RouteInv survives a step that keeps the rows and sends nothing astray.
LEMMA RouteInvKept ==
    ASSUME RouteInv,
           \A f \in Feedbacks : RowKept(f),
           \A f \in Feedbacks : InOthers(f)' => InOthers(f) \/ Undecided(f),
           \A o \in Others : \/ other'[o].pc # "publish" \/ other'[o] = other[o]
                             \/ (other[o].fb \in Feedbacks /\ Answered(other[o].fb))',
           \A o \in Others : other[o].fb \in Feedbacks,
           \A f \in Feedbacks : InClassified(f)' /\ Undecided(f) => InClassified(f) \/ Answered(f)'
    PROVE  RouteInv'
<1>1. (\A f \in Feedbacks : InOthers(f) => Undecided(f))'
  BY DEF RouteInv, Undecided
<1>2. (\A o \in Others : other[o].pc = "publish" => Answered(other[o].fb))'
  <2>1. ASSUME NEW o \in Others, other'[o].pc = "publish", other'[o] = other[o]
        PROVE  Answered(other[o].fb)'
    <3>1. Answered(other[o].fb)
      BY <2>1 DEF RouteInv
    <3>2. QED BY <2>1, <3>1 DEF RowKept, Answered
  <2>2. QED BY <2>1
<1>3. (\A f \in Feedbacks : InClassified(f) /\ Undecided(f) => Answered(f))'
  BY DEF RouteInv, RowKept, Undecided
<1>4. (\A f \in Feedbacks : rows[f].stored /\ ~Undecided(f) => rows[f].cat = RuleCategory[f])'
  BY DEF RouteInv, RowKept, Undecided
<1>5. QED BY <1>1, <1>2, <1>3, <1>4 DEF RouteInv

\* Steps of TrustRank's batch.
LEMMA BatchRoute == TypeOK /\ RouteInv /\ BatchStep => RouteInv'
<1> SUFFICES ASSUME TypeOK, RouteInv, BatchStep PROVE RouteInv'
  OBVIOUS
<1>t. /\ rows \in [Feedbacks -> Row] /\ othersQ \in Mass /\ classifiedQ \in Mass
      /\ \A o \in Others : other[o].fb \in Feedbacks
  BY DEF TypeOK, Other
<1>a. other' = other /\ grader' = grader
  BY DEF BatchStep, BatchStart, BatchList, BatchDone, BatchAbort, BatchAgents, BatchFilter,
         BatchUpsert, BatchGuard, BatchPublish, BatchUpdate, BatchSave
<1>1. CASE BatchUpsert
  <2>1. \A f \in Feedbacks : rows'[f] = IF f \in batch.todo THEN FreshRow(f) ELSE rows[f]
    BY <1>1 DEF BatchUpsert
  <2>2. clobbered' = clobbered \cup {f \in batch.todo : rows[f].llm \/ rows[f].graded}
    BY <1>1 DEF BatchUpsert
  <2>3. \A f \in Feedbacks : Answered(f) => Answered(f)'
    BY <2>1, <2>2 DEF Answered
  <2>4. \A f \in Feedbacks : FreshRow(f).cat = RuleCategory[f]
    BY <1>t DEF FreshRow, Row
  <2>5. othersQ' = othersQ /\ classifiedQ' = classifiedQ
    BY <1>1 DEF BatchUpsert, queues
  <2>6. (\A f \in Feedbacks : InOthers(f) => Undecided(f))'
    BY <1>a, <2>5 DEF RouteInv, InOthers, Undecided
  <2>7. (\A o \in Others : other[o].pc = "publish" => Answered(other[o].fb))'
    BY <1>a, <1>t, <2>3 DEF RouteInv, Answered
  <2>8. (\A f \in Feedbacks : InClassified(f) /\ Undecided(f) => Answered(f))'
    BY <1>a, <2>3, <2>5 DEF RouteInv, InClassified, Undecided
  <2>9. (\A f \in Feedbacks : rows[f].stored /\ ~Undecided(f) => rows[f].cat = RuleCategory[f])'
    BY <2>1, <2>4 DEF RouteInv, Undecided
  <2>10. QED BY <2>6, <2>7, <2>8, <2>9 DEF RouteInv
<1>2. ASSUME ~BatchUpsert PROVE RouteInv'
  <2>1. clobbered' = clobbered
    BY <1>2 DEF BatchStep, BatchStart, BatchList, BatchDone, BatchAbort, BatchAgents,
         BatchFilter, BatchGuard, BatchPublish, BatchUpdate, BatchSave, history
  <2>2. \A f \in Feedbacks : RowKept(f)
    <3>1. CASE BatchUpdate
      <4>1. \A f \in Feedbacks : \/ rows'[f] = rows[f]
                                 \/ rows'[f] = [rows[f] EXCEPT !.revoked = TRUE]
        BY <3>1 DEF BatchUpdate
      <4>2. \A f \in Feedbacks : /\ rows'[f].llm = rows[f].llm /\ rows'[f].cat = rows[f].cat
                                 /\ rows'[f].stored = rows[f].stored
        BY <4>1, <1>t DEF Row
      <4>3. QED BY <4>2, <2>1 DEF RowKept, Answered
    <3>2. CASE ~BatchUpdate
      <4>1. rows' = rows
        BY <1>2, <3>2 DEF BatchStep, BatchStart, BatchList, BatchDone, BatchAbort, BatchAgents,
             BatchFilter, BatchGuard, BatchPublish, BatchSave
      <4>2. QED BY <4>1, <2>1 DEF RowKept, Answered
    <3>3. QED BY <3>1, <3>2
  <2>3. /\ \A f \in Feedbacks : InOthers(f)' => InOthers(f) \/ Undecided(f)
        /\ \A f \in Feedbacks : InClassified(f)' /\ Undecided(f) => InClassified(f)
    <3>1. ASSUME NEW k \in Feedbacks, BatchPublish(k)
          PROVE  /\ \A f \in Feedbacks : othersQ'[f] = othersQ[f] \/ Undecided(f)
                 /\ \A f \in Feedbacks : classifiedQ'[f] = classifiedQ[f] \/ ~Undecided(f)
      BY <3>1, <1>t DEF BatchPublish, Undecided, Mass, queues
    <3>2. ASSUME ~\E k \in Feedbacks : BatchPublish(k)
          PROVE  othersQ' = othersQ /\ classifiedQ' = classifiedQ
      BY <1>2, <3>2 DEF BatchStep, BatchStart, BatchList, BatchDone, BatchAbort, BatchAgents,
           BatchFilter, BatchGuard, BatchUpdate, BatchSave, queues
    <3>3. QED BY <3>1, <3>2, <1>a DEF InOthers, InClassified
  <2>4. QED BY <1>a, <1>t, <2>2, <2>3, RouteInvKept
<1>3. QED BY <1>1, <1>2

\* Steps of a feedback-others goroutine.
LEMMA OtherRoute == ASSUME NEW o \in Others PROVE TypeOK /\ RouteInv /\ OtherStep(o) => RouteInv'
<1> SUFFICES ASSUME TypeOK, RouteInv, OtherStep(o) PROVE RouteInv'
  OBVIOUS
<1>t. /\ rows \in [Feedbacks -> Row] /\ othersQ \in Mass /\ classifiedQ \in Mass
      /\ other \in [Others -> Other] /\ \A k \in Others : other[k].fb \in Feedbacks
  BY DEF TypeOK, Other
<1>a. grader' = grader /\ \A k \in Others \ {o} : other'[k] = other[k]
  BY <1>t DEF OtherStep, OtherTake, OtherFetch, OtherDrop, OtherNack, OtherResolve, OtherPublish
<1>h. other[o].pc # "idle" => Undecided(other[o].fb)
  BY <1>t DEF RouteInv, InOthers
<1>1. CASE OtherResolve(o)
  <2>1. other[o].pc # "idle"
    BY <1>1 DEF OtherResolve
  <2>2. PICK c \in Categories :
          rows' = [rows EXCEPT ![other[o].fb].cat = c, ![other[o].fb].llm = TRUE]
    BY <1>1 DEF OtherResolve
  <2>3. clobbered \subseteq clobbered' /\ queues' = queues
    BY <1>1 DEF OtherResolve
  <2>4. \A f \in Feedbacks : /\ rows'[f].stored = rows[f].stored
                             /\ rows[f].llm => rows'[f].llm
                             /\ f # other[o].fb => rows'[f].cat = rows[f].cat
    BY <2>2, <1>t DEF Row
  <2>5. \A f \in Feedbacks : RowKept(f)
    BY <2>1, <2>3, <2>4, <1>h DEF RowKept, Answered
  <2>6. rows'[other[o].fb].llm
    BY <2>2, <1>t DEF Row
  <2>7. other'[o].fb = other[o].fb
    BY <1>1, <1>t DEF OtherResolve, Other
  <2>8. (other[o].fb \in Feedbacks /\ Answered(other[o].fb))'
    BY <2>6, <2>7, <1>t DEF Answered
  <2>9. /\ \A f \in Feedbacks : InOthers(f)' => InOthers(f)
        /\ \A f \in Feedbacks : InClassified(f)' => InClassified(f)
    BY <2>1, <2>3, <2>7, <1>a DEF InOthers, InClassified, queues
  <2>10. QED BY <1>a, <1>t, <2>5, <2>8, <2>9, RouteInvKept
<1>2. ASSUME ~OtherResolve(o) PROVE RouteInv'
  <2>1. rows' = rows /\ clobbered' = clobbered
    BY <1>2 DEF OtherStep, OtherTake, OtherFetch, OtherDrop, OtherNack, OtherPublish, history
  <2>2. \A f \in Feedbacks : RowKept(f) /\ Answered(f)' = Answered(f)
    BY <2>1 DEF RowKept, Answered
  <2>3. ASSUME NEW k \in Feedbacks, OtherTake(o, k) PROVE RouteInv'
    <3>1. othersQ[k] > 0 /\ (\A f \in Feedbacks \ {k} : othersQ'[f] = othersQ[f])
          /\ classifiedQ' = classifiedQ
      BY <2>3, <1>t DEF OtherTake, Mass
    <3>2. other'[o].fb = k /\ other'[o].pc = "fetch"
      BY <2>3, <1>t DEF OtherTake
    <3>3. /\ \A f \in Feedbacks : InOthers(f)' => InOthers(f)
          /\ \A f \in Feedbacks : InClassified(f)' => InClassified(f)
      BY <3>1, <3>2, <1>a DEF InOthers, InClassified
    <3>4. QED BY <1>a, <1>t, <2>2, <3>2, <3>3, RouteInvKept
  <2>4. CASE OtherFetch(o)
    <3>1. other[o].pc = "fetch" /\ queues' = queues
      BY <2>4 DEF OtherFetch
    <3>2. other'[o].fb = other[o].fb
      BY <2>4, <1>t DEF OtherFetch, Other
    <3>3. other'[o].pc = "publish" => rows[other[o].fb].llm
      BY <2>4, <1>t DEF OtherFetch, Other
    <3>4. /\ \A f \in Feedbacks : InOthers(f)' => InOthers(f)
          /\ \A f \in Feedbacks : InClassified(f)' => InClassified(f)
      BY <3>1, <3>2, <1>a DEF InOthers, InClassified, queues
    <3>5. other'[o].pc = "publish" => (other[o].fb \in Feedbacks /\ Answered(other[o].fb))'
      BY <3>2, <3>3, <1>t, <2>1 DEF Answered
    <3>6. QED BY <1>a, <1>t, <2>2, <3>4, <3>5, RouteInvKept
  <2>5. CASE OtherDrop(o) \/ OtherNack(o)
    <3>1. other[o].pc # "idle" /\ classifiedQ' = classifiedQ
      BY <2>5 DEF OtherDrop, OtherNack, queues
    <3>2. other'[o].pc = "idle"
      BY <2>5, <1>t DEF OtherDrop, OtherNack, OtherIdle
    <3>3. \A f \in Feedbacks \ {other[o].fb} : othersQ'[f] = othersQ[f]
      BY <2>5, <1>t DEF OtherDrop, OtherNack, Mass, queues
    <3>4. /\ \A f \in Feedbacks : InOthers(f)' => InOthers(f)
          /\ \A f \in Feedbacks : InClassified(f)' => InClassified(f)
      BY <3>1, <3>2, <3>3, <1>a DEF InOthers, InClassified
    <3>5. QED BY <1>a, <1>t, <2>2, <3>2, <3>4, RouteInvKept
  <2>6. CASE OtherPublish(o)
    <3>1. other[o].pc = "publish" /\ othersQ' = othersQ
      BY <2>6 DEF OtherPublish
    <3>2. other'[o].pc = "idle"
      BY <2>6, <1>t DEF OtherPublish, OtherIdle
    <3>3. \A f \in Feedbacks \ {other[o].fb} : classifiedQ'[f] = classifiedQ[f]
      BY <2>6, <1>t DEF OtherPublish, Mass
    <3>4. \A f \in Feedbacks : f = other[o].fb => Answered(f)'
      BY <3>1, <1>t, <2>2 DEF RouteInv
    <3>5. /\ \A f \in Feedbacks : InOthers(f)' => InOthers(f)
          /\ \A f \in Feedbacks : InClassified(f)' => InClassified(f) \/ Answered(f)'
      BY <3>1, <3>2, <3>3, <3>4, <1>a DEF InOthers, InClassified
    <3>6. QED BY <1>a, <1>t, <2>2, <3>2, <3>5, RouteInvKept
  <2>7. QED BY <1>2, <2>3, <2>4, <2>5, <2>6 DEF OtherStep
<1>3. QED BY <1>1, <1>2

\* A step that leaves feedback-others alone, at most grades rows, and lets no
\* new copy reach the graders keeps RouteInv.
LEMMA RouteGraded ==
    ASSUME TypeOK, RouteInv, othersQ' = othersQ, other' = other, clobbered' = clobbered,
           \A f \in Feedbacks : rows'[f] = rows[f] \/ rows'[f] = Grade(rows[f]),
           \A f \in Feedbacks : InClassified(f)' => InClassified(f)
    PROVE  RouteInv'
<1>1. \A f \in Feedbacks : RowKept(f)
  <2>1. \A row \in Row : /\ Grade(row).llm = row.llm /\ Grade(row).cat = row.cat
                         /\ Grade(row).stored = row.stored
    BY DEF Row, Grade
  <2>2. \A f \in Feedbacks : /\ rows'[f].llm = rows[f].llm /\ rows'[f].cat = rows[f].cat
                             /\ rows'[f].stored = rows[f].stored
    BY <2>1 DEF TypeOK
  <2>3. QED BY <2>2 DEF RowKept, Answered
<1>2. \A o \in Others : other[o].fb \in Feedbacks
  BY DEF TypeOK, Other
<1>3. \A f \in Feedbacks : InOthers(f)' => InOthers(f)
  BY DEF InOthers
<1>4. QED BY <1>1, <1>2, <1>3, RouteInvKept

\* Steps of a feedback-grader goroutine.
LEMMA GradeRoute == ASSUME NEW g \in Graders PROVE TypeOK /\ RouteInv /\ GradeStep(g) => RouteInv'
<1> SUFFICES ASSUME TypeOK, RouteInv, GradeStep(g) PROVE RouteInv'
  OBVIOUS
<1>t. /\ rows \in [Feedbacks -> Row] /\ classifiedQ \in Mass
      /\ grader \in [Graders -> Grader] /\ grader[g].fb \in Feedbacks
  BY DEF TypeOK, Grader
<1>a. other' = other /\ othersQ' = othersQ /\ clobbered' = clobbered
  BY DEF GradeStep, GradeTake, GradeFetch, GradeTotal, GradeRead, GradeWrite, GradeSync,
         GradeVerdict, GradeNack, queues, history
<1>s. \A f \in Feedbacks : rows'[f] = rows[f] \/ rows'[f] = Grade(rows[f])
  BY <1>t DEF GradeStep, GradeTake, GradeFetch, GradeTotal, GradeRead, GradeWrite, GradeSync,
              GradeVerdict, GradeNack
<1>m. \A f \in Feedbacks : InClassified(f)' => InClassified(f)
  BY GraderHolds
<1>1. QED BY <1>a, <1>s, <1>m, RouteGraded

\* Steps of a score-refresh cycle.
LEMMA ReplayRoute == ASSUME NEW r \in Replayers PROVE TypeOK /\ RouteInv /\ ReplayStep(r) => RouteInv'
<1> SUFFICES ASSUME TypeOK, RouteInv, ReplayStep(r) PROVE RouteInv'
  OBVIOUS
<1>1. UNCHANGED <<othersQ, classifiedQ, other, grader, clobbered>>
  BY DEF ReplayStep, ReplayList, ReplayStats, ReplaySync, ReplayBackfill, queues, history
<1>2. \A f \in Feedbacks : rows'[f] = rows[f] \/ rows'[f] = Grade(rows[f])
  BY DEF ReplayStep, ReplayList, ReplayStats, ReplaySync, ReplayBackfill
<1>3. \A f \in Feedbacks : InClassified(f)' => InClassified(f)
  BY <1>1 DEF InClassified
<1>4. QED BY <1>1, <1>2, <1>3, RouteGraded

\* Crashes put every message back where it came from.
LEMMA CrashRoute == TypeOK /\ RouteInv /\ (OtherCrash \/ GraderCrash \/ ReplayCrash) => RouteInv'
<1> SUFFICES ASSUME TypeOK, RouteInv, OtherCrash \/ GraderCrash \/ ReplayCrash PROVE RouteInv'
  OBVIOUS
<1>1. \A o \in Others : other[o].fb \in Feedbacks
  BY DEF TypeOK, Other
<1>2. rows' = rows /\ clobbered' = clobbered
  BY DEF OtherCrash, GraderCrash, ReplayCrash, history
<1>3. \A f \in Feedbacks : RowKept(f)
  BY <1>2 DEF RowKept, Answered
<1>4. \A o \in Others : other'[o] = other[o] \/ other'[o].pc # "publish"
  BY DEF OtherCrash, GraderCrash, ReplayCrash, OtherIdle
<1>5. QED BY <1>1, <1>3, <1>4, CrashHolds, RouteInvKept

\* feedback-others and the graders only ever see the rows meant for them.
THEOREM RouteCorrect == Spec => []RouteInv
<1>1. Init => RouteInv
  <2> SUFFICES ASSUME Init PROVE RouteInv
    OBVIOUS
  <2>1. \A f \in Feedbacks : othersQ[f] = 0 /\ classifiedQ[f] = 0
    BY DEF Init, EmptyMass
  <2>2. (\A o \in Others : other[o].pc = "idle") /\ (\A g \in Graders : grader[g].pc = "idle")
    BY DEF Init, OtherIdle, GraderIdle
  <2>3. \A f \in Feedbacks : rows[f].stored = FALSE
    BY DEF Init, NoRow
  <2>4. QED BY <2>1, <2>2, <2>3 DEF RouteInv, InOthers, InClassified
<1>2. TypeOK /\ RouteInv /\ [Next]_vars => RouteInv'
  <2> SUFFICES ASSUME TypeOK, RouteInv, [Next]_vars PROVE RouteInv'
    OBVIOUS
  <2>1. CASE UNCHANGED vars
    <3>1. UNCHANGED <<rows, othersQ, classifiedQ, other, grader, clobbered>>
      BY <2>1 DEF vars
    <3>2. \A f \in Feedbacks : InClassified(f)' => InClassified(f)
      BY <3>1 DEF InClassified
    <3>3. QED BY <3>1, <3>2, RouteGraded
  <2>2. CASE Next
    BY <2>2, BatchRoute, OtherRoute, GradeRoute, ReplayRoute, CrashRoute DEF Next
  <2>3. QED BY <2>1, <2>2
<1>3. QED BY <1>1, <1>2, TypeCorrect, PTL DEF Spec

-------------------------------------------------------------------------------
(* A graded row is in the mass.                                                *)

Counted(f) == rows[f].cat = "quality" /\ f \notin clobbered => stats.mass[f] > 0

\* Until a replay: what a grader has added stays added, up to its verdict and
\* after it.
CountInv ==
    ~replayed =>
        /\ interfered = {}
        /\ \A r \in Replayers : replay[r].pc \notin {"sync", "backfill"}
        /\ \A f \in Feedbacks : rows[f].graded => Counted(f)
        /\ \A g \in Graders : grader[g].pc = "sync" => stats.mass[grader[g].fb] > 0
        /\ \A g \in Graders : grader[g].pc = "verdict" => Counted(grader[g].fb)

\* Before the first replay a step of score-refresh only lists rows.
LEMMA NoReplay ==
    ASSUME CountInv, Next, ~replayed'
    PROVE  /\ ~replayed
           /\ \A r \in Replayers : ReplayStep(r) => ReplayList(r)
<1>1. ~replayed
  BY DEF Next, BatchStep, BatchStart, BatchList, BatchDone, BatchAbort, BatchAgents,
         BatchFilter, BatchUpsert, BatchGuard, BatchPublish, BatchUpdate, BatchSave,
         OtherStep, OtherTake, OtherFetch, OtherDrop, OtherNack, OtherResolve, OtherPublish,
         GradeStep, GradeTake, GradeFetch, GradeTotal, GradeRead, GradeWrite, GradeSync,
         GradeVerdict, GradeNack, ReplayStep, ReplayList, ReplayStats, ReplaySync,
         ReplayBackfill, OtherCrash, GraderCrash, ReplayCrash, history
<1>2. ASSUME NEW r \in Replayers, ReplayStep(r) PROVE ReplayList(r)
  BY <1>1, <1>2 DEF CountInv, ReplayStep, ReplayStats, ReplaySync, ReplayBackfill
<1>3. QED BY <1>1, <1>2

\* Steps of the other services and crashes leave the stats alone.
LEMMA StatsKept ==
    BatchStep \/ (\E o \in Others : OtherStep(o)) \/ (\E r \in Replayers : ReplayList(r))
      \/ OtherCrash \/ GraderCrash \/ ReplayCrash
        => stats' = stats /\ interfered' = interfered
BY DEF BatchStep, BatchStart, BatchList, BatchDone, BatchAbort, BatchAgents, BatchFilter,
       BatchUpsert, BatchGuard, BatchPublish, BatchUpdate, BatchSave, OtherStep, OtherTake,
       OtherFetch, OtherDrop, OtherNack, OtherResolve, OtherPublish, ReplayList, OtherCrash,
       GraderCrash, ReplayCrash, history

\* A grader writes one more than what is stored.
LEMMA GradeWriteAdds ==
    ASSUME TypeOK, LockInv, CountInv, ~replayed, NEW g \in Graders, GradeWrite(g)
    PROVE  /\ stats'.mass = [stats.mass EXCEPT ![grader[g].fb] = @ + 1]
           /\ stats'.mass[grader[g].fb] > 0
           /\ \A f \in Feedbacks : stats.mass[f] > 0 => stats'.mass[f] > 0
<1>1. grader[g].seen = stats
  BY DEF LockInv, NoLostIncrement, CountInv, GradeWrite
<1>2. stats'.mass = [stats.mass EXCEPT ![grader[g].fb] = @ + 1]
  BY <1>1 DEF GradeWrite
<1>3. stats.mass \in [Feedbacks -> Nat] /\ grader[g].fb \in Feedbacks
  BY DEF TypeOK, Stats, Mass, Grader
<1>4. QED BY <1>2, <1>3

\* Before the first replay no step takes a feedback out of the mass.
LEMMA MassGrows ==
    ASSUME TypeOK, LockInv, CountInv, Next, ~replayed'
    PROVE  \A f \in Feedbacks : stats.mass[f] > 0 => stats'.mass[f] > 0
<1>1. ~replayed
  BY NoReplay
<1>2. ASSUME NEW g \in Graders, GradeStep(g)
      PROVE  \A f \in Feedbacks : stats.mass[f] > 0 => stats'.mass[f] > 0
  <2>1. CASE GradeWrite(g)
    BY <1>1, <2>1, GradeWriteAdds
  <2>2. CASE ~GradeWrite(g)
    BY <1>2, <2>2 DEF GradeStep, GradeTake, GradeFetch, GradeTotal, GradeRead, GradeSync,
                      GradeVerdict, GradeNack
  <2>3. QED BY <2>1, <2>2
<1>3. QED BY <1>2, NoReplay, StatsKept DEF Next

\* A row that is graded, or on its way to being, changes category only by being
\* written over.
LEMMA CategoryKept ==
    ASSUME TypeOK, RowInv, RouteInv, CountInv, Next, ~replayed',
           NEW f \in Feedbacks, rows[f].graded \/ InClassified(f)
    PROVE  /\ clobbered \subseteq clobbered'
           /\ rows'[f].cat = rows[f].cat \/ f \in clobbered'
<1>t. /\ rows \in [Feedbacks -> Row] /\ \A o \in Others : other[o].fb \in Feedbacks
      /\ \A g \in Graders : grader[g].fb \in Feedbacks
  BY DEF TypeOK, Other, Grader
<1>g. \A row \in Row : Grade(row).cat = row.cat
  BY DEF Grade, Row
<1>1. CASE BatchStep
  <2>1. CASE BatchUpsert
    <3>1. rows'[f] = IF f \in batch.todo THEN FreshRow(f) ELSE rows[f]
      BY <2>1 DEF BatchUpsert
    <3>2. clobbered' = clobbered \cup {k \in batch.todo : rows[k].llm \/ rows[k].graded}
      BY <2>1 DEF BatchUpsert
    <3>3. FreshRow(f).cat = RuleCategory[f]
      BY <1>t DEF FreshRow, Row
    <3>4. rows[f].stored
      BY DEF RowInv, InFlight
    <3>5. CASE Undecided(f)
      <4>1. rows[f].graded \/ Answered(f)
        BY <3>5 DEF RouteInv
      <4>2. QED BY <3>1, <3>2, <4>1 DEF Answered
    <3>6. CASE ~Undecided(f)
      BY <3>1, <3>2, <3>3, <3>4, <3>6 DEF RouteInv
    <3>7. QED BY <3>5, <3>6
  <2>2. CASE BatchUpdate
    <3>1. rows'[f] = rows[f] \/ rows'[f] = [rows[f] EXCEPT !.revoked = TRUE]
      BY <2>2 DEF BatchUpdate
    <3>2. QED BY <2>2, <3>1, <1>t DEF BatchUpdate, history, Row
  <2>3. ASSUME ~BatchUpsert, ~BatchUpdate PROVE rows' = rows /\ clobbered' = clobbered
    BY <1>1, <2>3 DEF BatchStep, BatchStart, BatchList, BatchDone, BatchAbort, BatchAgents,
         BatchFilter, BatchGuard, BatchPublish, BatchSave, history
  <2>4. QED BY <2>1, <2>2, <2>3
<1>2. ASSUME NEW o \in Others, OtherStep(o)
      PROVE  clobbered \subseteq clobbered' /\ (rows'[f].cat = rows[f].cat \/ f \in clobbered')
  <2>1. CASE OtherResolve(o)
    <3>1. PICK c \in Categories :
            rows' = [rows EXCEPT ![other[o].fb].cat = c, ![other[o].fb].llm = TRUE]
      BY <2>1 DEF OtherResolve
    <3>2. clobbered' = IF rows[other[o].fb].llm \/ rows[other[o].fb].graded
                       THEN clobbered \cup {other[o].fb} ELSE clobbered
      BY <2>1 DEF OtherResolve
    <3>3. CASE f # other[o].fb
      BY <3>1, <3>2, <3>3, <1>t
    <3>4. CASE f = other[o].fb
      <4>1. Undecided(f)
        BY <2>1, <3>4 DEF RouteInv, InOthers, OtherResolve
      <4>2. rows[f].graded \/ Answered(f)
        BY <4>1 DEF RouteInv
      <4>3. QED BY <3>2, <3>4, <4>2 DEF Answered
    <3>5. QED BY <3>3, <3>4
  <2>2. CASE ~OtherResolve(o)
    BY <1>2, <2>2 DEF OtherStep, OtherTake, OtherFetch, OtherDrop, OtherNack, OtherPublish, history
  <2>3. QED BY <2>1, <2>2
<1>3. ASSUME NEW g \in Graders, GradeStep(g)
      PROVE  clobbered' = clobbered /\ rows'[f].cat = rows[f].cat
  <2>1. clobbered' = clobbered
    BY <1>3 DEF GradeStep, GradeTake, GradeFetch, GradeTotal, GradeRead, GradeWrite, GradeSync,
                GradeVerdict, GradeNack, history
  <2>2. rows'[f] = rows[f] \/ rows'[f] = Grade(rows[f])
    BY <1>3, <1>t DEF GradeStep, GradeTake, GradeFetch, GradeTotal, GradeRead, GradeWrite,
                      GradeSync, GradeVerdict, GradeNack
  <2>3. QED BY <2>1, <2>2, <1>g, <1>t
<1>4. ASSUME NEW r \in Replayers, ReplayStep(r) PROVE rows' = rows /\ clobbered' = clobbered
  BY <1>4, NoReplay DEF ReplayList, history
<1>5. CASE OtherCrash \/ GraderCrash \/ ReplayCrash
  BY <1>5 DEF OtherCrash, GraderCrash, ReplayCrash, history
<1>6. QED BY <1>1, <1>2, <1>3, <1>4, <1>5 DEF Next

\* So such a row stays counted.
LEMMA CountedKept ==
    ASSUME TypeOK, LockInv, RowInv, RouteInv, CountInv, Next, ~replayed',
           NEW f \in Feedbacks, rows[f].graded \/ InClassified(f), Counted(f)
    PROVE  Counted(f)'
BY MassGrows, CategoryKept DEF Counted

\* The graders before and after a step.
LEMMA GraderMoves ==
    ASSUME TypeOK, Next, NEW g \in Graders
    PROVE  \/ grader'[g] = grader[g]
           \/ GradeStep(g)
           \/ grader'[g].pc = "idle"
<1>t. grader \in [Graders -> Grader]
  BY DEF TypeOK
<1>1. ASSUME NEW k \in Graders, GradeStep(k), k # g PROVE grader'[g] = grader[g]
  <2>1. CASE (\E f \in Feedbacks : GradeTake(k, f)) \/ GradeFetch(k) \/ GradeVerdict(k) \/ GradeNack(k)
    BY <1>1, <2>1, <1>t DEF GradeTake, GradeFetch, GradeVerdict, GradeNack
  <2>2. CASE GradeTotal(k) \/ GradeRead(k) \/ GradeSync(k)
    BY <1>1, <2>2, <1>t DEF GradeTotal, GradeRead, GradeSync
  <2>3. CASE GradeWrite(k)
    BY <1>1, <2>3, <1>t DEF GradeWrite
  <2>4. QED BY <1>1, <2>1, <2>2, <2>3 DEF GradeStep
<1>2. CASE GraderCrash
  BY <1>2 DEF GraderCrash, GraderIdle
<1>3. CASE BatchStep
  BY <1>3 DEF BatchStep, BatchStart, BatchList, BatchDone, BatchAbort, BatchAgents,
         BatchFilter, BatchUpsert, BatchGuard, BatchPublish, BatchUpdate, BatchSave
<1>4. ASSUME NEW o \in Others, OtherStep(o) PROVE grader' = grader
  BY <1>4 DEF OtherStep, OtherTake, OtherFetch, OtherDrop, OtherNack, OtherResolve, OtherPublish
<1>5. ASSUME NEW r \in Replayers, ReplayStep(r) PROVE grader' = grader
  BY <1>5 DEF ReplayStep, ReplayList, ReplayStats, ReplaySync, ReplayBackfill
<1>6. CASE OtherCrash \/ ReplayCrash
  BY <1>6 DEF OtherCrash, ReplayCrash
<1>7. QED BY <1>1, <1>2, <1>3, <1>4, <1>5, <1>6 DEF Next

\* Only a verdict grades a row before the first replay.
LEMMA OnlyVerdictGrades ==
    ASSUME TypeOK, CountInv, Next, ~replayed', NEW f \in Feedbacks, rows'[f].graded
    PROVE  \/ rows[f].graded
           \/ \E g \in Graders : GradeVerdict(g) /\ grader[g].fb = f
<1>t. rows \in [Feedbacks -> Row]
  BY DEF TypeOK
<1>1. CASE BatchStep
  <2>1. CASE BatchUpsert
    <3>1. rows'[f] = FreshRow(f) \/ rows'[f] = rows[f]
      BY <2>1 DEF BatchUpsert
    <3>2. QED BY <3>1, <1>t DEF FreshRow, Row
  <2>2. CASE BatchUpdate
    <3>1. rows'[f] = rows[f] \/ rows'[f] = [rows[f] EXCEPT !.revoked = TRUE]
      BY <2>2 DEF BatchUpdate
    <3>2. QED BY <3>1, <1>t DEF Row
  <2>3. CASE ~BatchUpsert /\ ~BatchUpdate
    BY <1>1, <2>3 DEF BatchStep, BatchStart, BatchList, BatchDone, BatchAbort, BatchAgents,
         BatchFilter, BatchGuard, BatchPublish, BatchSave
  <2>4. QED BY <2>1, <2>2, <2>3
<1>2. ASSUME NEW o \in Others, OtherStep(o) PROVE rows[f].graded
  <2>1. CASE OtherResolve(o)
    <3>1. PICK c \in Categories :
            rows' = [rows EXCEPT ![other[o].fb].cat = c, ![other[o].fb].llm = TRUE]
      BY <2>1 DEF OtherResolve
    <3>2. QED BY <3>1, <1>t DEF Row
  <2>2. CASE ~OtherResolve(o)
    BY <1>2, <2>2 DEF OtherStep, OtherTake, OtherFetch, OtherDrop, OtherNack, OtherPublish
  <2>3. QED BY <2>1, <2>2
<1>3. ASSUME NEW g \in Graders, GradeStep(g)
      PROVE  rows[f].graded \/ (GradeVerdict(g) /\ grader[g].fb = f)
  <2>1. CASE GradeVerdict(g)
    <3>1. rows'[f] = rows[f] \/ grader[g].fb = f
      BY <2>1, <1>t DEF GradeVerdict
    <3>2. QED BY <2>1, <3>1
  <2>2. CASE ~GradeVerdict(g)
    <3>1. rows' = rows
      BY <1>3, <2>2 DEF GradeStep, GradeTake, GradeFetch, GradeTotal, GradeRead, GradeWrite,
                        GradeSync, GradeNack
    <3>2. QED BY <3>1
  <2>3. QED BY <2>1, <2>2
<1>4. ASSUME NEW r \in Replayers, ReplayStep(r) PROVE rows[f].graded
  BY <1>4, NoReplay DEF ReplayList
<1>5. CASE OtherCrash \/ GraderCrash \/ ReplayCrash
  BY <1>5 DEF OtherCrash, GraderCrash, ReplayCrash
<1>6. QED BY <1>1, <1>2, <1>3, <1>4, <1>5 DEF Next

\* No step breaks CountInv.
LEMMA CountStep == TypeOK /\ LockInv /\ RowInv /\ RouteInv /\ CountInv /\ [Next]_vars => CountInv'
<1> SUFFICES ASSUME TypeOK, LockInv, RowInv, RouteInv, CountInv, [Next]_vars PROVE CountInv'
  OBVIOUS
<1>1. CASE UNCHANGED vars
  BY <1>1 DEF vars, CountInv, Counted
<1>2. ASSUME Next, ~replayed' PROVE CountInv'
  <2> USE <1>2
  <2>0. ~replayed
    BY NoReplay
  <2>t. /\ grader \in [Graders -> Grader] /\ stats \in Stats /\ replay \in [Replayers -> Replay]
        /\ \A g \in Graders : grader[g].fb \in Feedbacks
    BY DEF TypeOK, Grader
  <2>1. interfered' = {}
    <3>1. ASSUME NEW g \in Graders, GradeStep(g) PROVE interfered' \subseteq interfered
      BY <3>1 DEF GradeStep, GradeTake, GradeFetch, GradeTotal, GradeRead, GradeWrite, GradeSync,
                  GradeVerdict, GradeNack, history
    <3>2. interfered' \subseteq interfered
      BY <3>1, NoReplay, StatsKept DEF Next
    <3>3. QED BY <2>0, <3>2 DEF CountInv
  <2>2. \A r \in Replayers : replay'[r].pc \notin {"sync", "backfill"}
    <3>1. ASSUME NEW r \in Replayers, ReplayList(r), NEW k \in Replayers
          PROVE  replay'[k] = replay[k] \/ replay'[k].pc = "stats"
      BY <3>1, <2>t, IdleFacts DEF ReplayList, Replay
    <3>2. CASE ReplayCrash
      BY <3>2 DEF ReplayCrash, ReplayIdle
    <3>3. ASSUME ~ReplayCrash, ~\E r \in Replayers : ReplayStep(r) PROVE replay' = replay
      BY <3>3 DEF Next, BatchStep, BatchStart, BatchList, BatchDone, BatchAbort, BatchAgents,
         BatchFilter, BatchUpsert, BatchGuard, BatchPublish, BatchUpdate, BatchSave,
         OtherStep, OtherTake, OtherFetch, OtherDrop, OtherNack, OtherResolve, OtherPublish,
         GradeStep, GradeTake, GradeFetch, GradeTotal, GradeRead, GradeWrite, GradeSync,
         GradeVerdict, GradeNack, OtherCrash, GraderCrash
    <3>4. QED BY <2>0, <3>1, <3>2, <3>3, NoReplay DEF CountInv
  <2>3. ASSUME NEW f \in Feedbacks, rows'[f].graded PROVE Counted(f)'
    <3>1. CASE rows[f].graded
      BY <3>1, <2>0, CountedKept DEF CountInv
    <3>2. ASSUME NEW g \in Graders, GradeVerdict(g), grader[g].fb = f PROVE Counted(f)'
      <4>1. grader[g].pc = "verdict"
        BY <3>2 DEF GradeVerdict
      <4>2. InClassified(f) /\ Counted(f)
        BY <2>0, <3>2, <4>1 DEF InClassified, CountInv
      <4>3. QED BY <4>2, CountedKept
    <3>3. QED BY <2>3, <3>1, <3>2, OnlyVerdictGrades
  <2>4. ASSUME NEW g \in Graders
        PROVE  /\ grader'[g].pc = "sync" => stats'.mass[grader'[g].fb] > 0
               /\ (grader[g].pc = "verdict" => Counted(grader[g].fb))'
    <3> DEFINE fb == grader[g].fb
    <3>1. CASE grader'[g] = grader[g]
      <4>1. grader'[g].pc = "sync" => stats'.mass[grader'[g].fb] > 0
        BY <2>0, <2>t, <3>1, MassGrows DEF CountInv
      <4>2. ASSUME NEW f \in Feedbacks, f = fb, grader[g].pc = "verdict" PROVE Counted(f)'
        BY <2>0, <4>2, CountedKept DEF CountInv, InClassified
      <4>3. (grader[g].pc = "verdict" => Counted(grader[g].fb))'
        BY <2>t, <3>1, <4>2 DEF Counted
      <4>4. QED BY <4>1, <4>3
    <3>2. CASE grader'[g].pc = "idle"
      BY <3>2
    <3>3. CASE GradeFetch(g)
      <4>1. grader'[g].pc # "sync"
        BY <3>3, <2>t DEF GradeFetch, GraderIdle, Grader
      <4>2. grader'[g].pc = "verdict" => grader'[g].fb = fb /\ rows[fb].cat # "quality"
        BY <3>3, <2>t DEF GradeFetch, GraderIdle, Grader
      <4>3. rows' = rows
        BY <3>3 DEF GradeFetch
      <4>4. QED BY <4>1, <4>2, <4>3 DEF Counted
    <3>4. CASE GradeWrite(g)
      <4>1. grader'[g].fb = fb
        BY <3>4, <2>t DEF GradeWrite, Grader
      <4>2. stats'.mass[fb] > 0
        BY <2>0, <3>4, GradeWriteAdds
      <4>3. QED BY <4>1, <4>2 DEF Counted
    <3>5. CASE GradeSync(g)
      <4>1. grader'[g].fb = fb /\ grader'[g].pc = "verdict" /\ stats' = stats
        BY <3>5, <2>t DEF GradeSync, Grader
      <4>2. stats.mass[fb] > 0
        BY <2>0, <3>5 DEF CountInv, GradeSync
      <4>3. QED BY <4>1, <4>2 DEF Counted
    <3>6. CASE GradeTotal(g) \/ GradeRead(g)
      BY <3>6, <2>t DEF GradeTotal, GradeRead, Grader
    <3>7. CASE \E k \in Feedbacks : GradeTake(g, k)
      BY <3>7, <2>t DEF GradeTake, GraderIdle
    <3>8. CASE GradeVerdict(g) \/ GradeNack(g)
      BY <3>8, <2>t DEF GradeVerdict, GradeNack, GraderIdle
    <3>9. QED
      BY <3>1, <3>2, <3>3, <3>4, <3>5, <3>6, <3>7, <3>8, GraderMoves DEF GradeStep
  <2>5. QED BY <2>1, <2>2, <2>3, <2>4 DEF CountInv
<1>3. CASE replayed'
  BY <1>3 DEF CountInv
<1>4. QED BY <1>1, <1>2, <1>3

\* CountInv holds throughout.
THEOREM CountCorrect == Spec => []CountInv
<1>1. Init => CountInv
  <2> SUFFICES ASSUME Init PROVE CountInv
    OBVIOUS
  <2>1. interfered = {}
    BY DEF Init
  <2>2. \A r \in Replayers : replay[r].pc = "idle"
    BY DEF Init, ReplayIdle
  <2>3. \A f \in Feedbacks : rows[f].graded = FALSE
    BY DEF Init, NoRow
  <2>4. \A g \in Graders : grader[g].pc = "idle"
    BY DEF Init, GraderIdle
  <2>5. QED BY <2>1, <2>2, <2>3, <2>4 DEF CountInv
<1>2. QED
  BY <1>1, CountStep, TypeCorrect, LockCorrect, RowCorrect, RouteCorrect, PTL DEF Spec

\* Until a replay rebuilds the mass, a graded quality row nobody wrote over is
\* in it, whatever was lost, redelivered or interrupted between the increment
\* and the verdict, and with any number of graders.
THEOREM GradedIsCountedHolds == Spec => []GradedIsCounted
<1>1. CountInv => GradedIsCounted
  BY DEF CountInv, Counted, GradedIsCounted
<1>2. QED BY <1>1, CountCorrect, PTL

-------------------------------------------------------------------------------
(* A redelivered message adds nothing of its own.                             *)

\* The increments of f still to come: one for each goroutine past the guard that has
\* not added it, and one for a row no goroutine has taken up and nobody graded.
ToAdd(f) == {g \in Graders : PastGuard(g, f) /\ ~Incremented(g)}
Due(f) == IF ~rows[f].graded /\ \A g \in Graders : ~PastGuard(g, f) THEN 1 ELSE 0
Pending(f) == Cardinality(ToAdd(f)) + Due(f)
Early(f) == IF f \in early THEN 1 ELSE 0

\* What is stored, or what a goroutine is about to write back, and all that is still
\* to be added to it stay within the allowance.
OnceInv ==
    \A f \in Feedbacks :
        /\ Pending(f) <= 1 + again[f]
        /\ stats.mass[f] + Pending(f) <= 1 + again[f] + Early(f)
        /\ \A g \in Graders : grader[g].pc = "write" =>
              grader[g].seen.mass[f] + Pending(f) <= 1 + again[f] + Early(f)

\* Sizes of sets of goroutines.
LEMMA Sizes ==
    ASSUME NEW S \in SUBSET Graders, NEW T \in SUBSET Graders
    PROVE  /\ Cardinality(S) \in Nat /\ Cardinality(T) \in Nat
           /\ T \subseteq S => Cardinality(T) <= Cardinality(S)
           /\ \A g \in Graders : T \subseteq S \cup {g} => Cardinality(T) <= Cardinality(S) + 1
           /\ \A g \in S : T \subseteq S \ {g} => Cardinality(T) + 1 <= Cardinality(S)
           /\ \A g \in S : Cardinality(S) >= 1
           /\ T = {} => Cardinality(T) = 0
<1>1. IsFiniteSet(S) /\ IsFiniteSet(T)
  BY ParamsAssumption, FS_Subset
<1>2. Cardinality(S) \in Nat /\ Cardinality(T) \in Nat
  BY <1>1, FS_CardinalityType
<1>3. T \subseteq S => Cardinality(T) <= Cardinality(S)
  BY <1>1, FS_Subset
<1>4. ASSUME NEW g \in Graders, T \subseteq S \cup {g} PROVE Cardinality(T) <= Cardinality(S) + 1
  <2>1. IsFiniteSet(S \cup {g}) /\ Cardinality(S \cup {g}) <= Cardinality(S) + 1
    <3>1. /\ IsFiniteSet(S \cup {g})
          /\ Cardinality(S \cup {g}) = IF g \in S THEN Cardinality(S) ELSE Cardinality(S) + 1
      BY <1>1, FS_AddElement
    <3>2. QED BY <1>2, <3>1
  <2>2. Cardinality(S \cup {g}) \in Nat
    BY <2>1, FS_CardinalityType
  <2>3. Cardinality(T) <= Cardinality(S \cup {g})
    BY <1>4, <2>1, FS_Subset
  <2>4. QED BY <1>2, <2>1, <2>2, <2>3
<1>5. ASSUME NEW g \in S PROVE Cardinality(S) >= 1
  <2>1. Cardinality(S) # 0
    BY <1>1, FS_EmptySet
  <2>2. QED BY <1>2, <2>1
<1>6. ASSUME NEW g \in S, T \subseteq S \ {g} PROVE Cardinality(T) + 1 <= Cardinality(S)
  <2>1. IsFiniteSet(S \ {g}) /\ Cardinality(S \ {g}) = Cardinality(S) - 1
    BY <1>1, FS_RemoveElement
  <2>2. Cardinality(T) <= Cardinality(S \ {g})
    BY <1>6, <2>1, FS_Subset
  <2>3. QED BY <1>2, <2>1, <2>2
<1>7. T = {} => Cardinality(T) = 0
  BY FS_EmptySet
<1>8. QED BY <1>2, <1>3, <1>4, <1>5, <1>6, <1>7

\* The counts are numbers.
LEMMA PendingNat ==
    ASSUME NEW f
    PROVE  /\ Cardinality(ToAdd(f)) \in Nat /\ Due(f) \in {0, 1} /\ Pending(f) \in Nat
           /\ Early(f) \in {0, 1}
<1>1. Cardinality(ToAdd(f)) \in Nat
  BY CountFacts DEF ToAdd
<1>2. Due(f) \in {0, 1} /\ Early(f) \in {0, 1}
  BY DEF Due, Early
<1>3. QED BY <1>1, <1>2 DEF Pending

\* The same of the state after a step.
LEMMA PendingNatNext ==
    ASSUME NEW f
    PROVE  /\ Cardinality(ToAdd(f)') \in Nat /\ Due(f)' \in {0, 1} /\ Pending(f)' \in Nat
           /\ Pending(f)' = Cardinality(ToAdd(f)') + Due(f)'
           /\ Early(f)' \in {0, 1}
<1>1. ToAdd(f)' \subseteq Graders
  BY DEF ToAdd
<1>2. Cardinality(ToAdd(f)') \in Nat
  BY <1>1, CountFacts
<1>3. Due(f)' \in {0, 1} /\ Early(f)' \in {0, 1}
  BY DEF Due, Early
<1>4. QED BY <1>2, <1>3 DEF Pending

\* A step takes at most as much off the allowance as off the increments to come.
Paid(f) == Pending(f)' + again[f] <= Pending(f) + again'[f]

\* A grade is never taken back.
LEMMA GradeKept ==
    ASSUME TypeOK, Next, NEW f \in Feedbacks, rows[f].graded
    PROVE  rows'[f].graded
<1>t. /\ rows \in [Feedbacks -> Row] /\ rows[f] \in Row /\ \A o \in Others : other[o].fb \in Feedbacks
      /\ \A g \in Graders : grader[g].fb \in Feedbacks
  BY DEF TypeOK, Other, Grader
<1>g. Grade(rows[f]).graded /\ FreshRow(f).graded = rows[f].graded
      /\ [rows[f] EXCEPT !.revoked = TRUE].graded = rows[f].graded
  BY <1>t DEF Grade, FreshRow, Row
<1>1. CASE BatchStep
  <2>1. rows'[f] = rows[f] \/ rows'[f] = FreshRow(f) \/ rows'[f] = [rows[f] EXCEPT !.revoked = TRUE]
    BY <1>1 DEF BatchStep, BatchStart, BatchList, BatchDone, BatchAbort, BatchAgents, BatchFilter,
         BatchUpsert, BatchGuard, BatchPublish, BatchUpdate, BatchSave
  <2>2. QED BY <2>1, <1>g
<1>2. ASSUME NEW o \in Others, OtherStep(o) PROVE rows'[f].graded
  <2>1. CASE OtherResolve(o)
    <3>1. PICK c \in Categories :
            rows' = [rows EXCEPT ![other[o].fb].cat = c, ![other[o].fb].llm = TRUE]
      BY <2>1 DEF OtherResolve
    <3>2. QED BY <3>1, <1>t DEF Row
  <2>2. CASE ~OtherResolve(o)
    BY <1>2, <2>2 DEF OtherStep, OtherTake, OtherFetch, OtherDrop, OtherNack, OtherPublish
  <2>3. QED BY <2>1, <2>2
<1>3. ASSUME NEW g \in Graders, GradeStep(g) PROVE rows'[f].graded
  <2>1. rows'[f] = rows[f] \/ rows'[f] = Grade(rows[f])
    BY <1>3, <1>t DEF GradeStep, GradeTake, GradeFetch, GradeTotal, GradeRead, GradeWrite,
                      GradeSync, GradeVerdict, GradeNack
  <2>2. QED BY <2>1, <1>g
<1>4. ASSUME NEW r \in Replayers, ReplayStep(r) PROVE rows'[f].graded
  <2>1. rows'[f] = rows[f] \/ rows'[f] = Grade(rows[f])
    BY <1>4 DEF ReplayStep, ReplayList, ReplayStats, ReplaySync, ReplayBackfill
  <2>2. QED BY <2>1, <1>g
<1>5. CASE OtherCrash \/ GraderCrash \/ ReplayCrash
  BY <1>5 DEF OtherCrash, GraderCrash, ReplayCrash
<1>6. QED BY <1>1, <1>2, <1>3, <1>4, <1>5 DEF Next

\* Steps that leave the graders alone leave their counts alone.
LEMMA PaidElsewhere ==
    ASSUME NEW f \in Feedbacks, grader' = grader, again' = again, TypeOK,
           rows[f].graded => rows'[f].graded
    PROVE  Paid(f)
<1>1. ToAdd(f)' = ToAdd(f)
  BY DEF ToAdd, PastGuard, Incremented
<1>2. Due(f)' <= Due(f)
  <2>1. \A g \in Graders : PastGuard(g, f)' <=> PastGuard(g, f)
    BY DEF PastGuard
  <2>2. QED BY <2>1 DEF Due
<1>3. again[f] \in Nat
  BY DEF TypeOK, Mass
<1>4. QED BY <1>1, <1>2, <1>3, PendingNat, PendingNatNext DEF Paid, Pending

\* Passing the guard: an allowance is given when another goroutine is past it, and
\* otherwise the row was due.
LEMMA PaidFetch ==
    ASSUME NEW g \in Graders, NEW f \in Feedbacks, GradeFetch(g), TypeOK
    PROVE  Paid(f)
<1>t. again[f] \in Nat /\ grader \in [Graders -> Grader] /\ grader[g].fb \in Feedbacks
  BY DEF TypeOK, Mass, Grader
<1>o. /\ rows' = rows /\ grader[g].pc = "fetch" /\ ~PastGuard(g, f) /\ g \notin ToAdd(f)
      /\ \A k \in Graders \ {g} : grader'[k] = grader[k]
  BY <1>t DEF GradeFetch, PastGuard, ToAdd
<1>k. \A k \in Graders \ {g} : (PastGuard(k, f)' <=> PastGuard(k, f))
                                 /\ (k \in ToAdd(f)' <=> k \in ToAdd(f))
  BY <1>o DEF PastGuard, Incremented, ToAdd
<1>s. ToAdd(f) \subseteq Graders /\ ToAdd(f)' \subseteq Graders
  BY DEF ToAdd
<1>1. CASE ~PastGuard(g, f)'
  <2>1. ToAdd(f)' \subseteq ToAdd(f)
    BY <1>1, <1>k, <1>s DEF ToAdd
  <2>2. Due(f)' = Due(f)
    BY <1>1, <1>k, <1>o DEF Due
  <2>3. again'[f] >= again[f]
    BY <1>t DEF GradeFetch, OnceMore
  <2>4. Cardinality(ToAdd(f)') <= Cardinality(ToAdd(f))
    BY <1>s, <2>1, Sizes
  <2>5. again'[f] \in Nat
    BY <1>t DEF GradeFetch, OnceMore
  <2>6. QED BY <1>t, <2>2, <2>3, <2>4, <2>5, PendingNat, PendingNatNext DEF Paid, Pending
<1>2. CASE PastGuard(g, f)'
  <2>1. /\ grader[g].fb = f /\ ~rows[f].graded
        /\ again' = OnceMore({k \in {f} : \E h \in Graders : PastGuard(h, k)})
    <3>1. CASE grader' = [grader EXCEPT ![g] = GraderIdle]
      BY <1>2, <1>t, <3>1 DEF PastGuard, GraderIdle
    <3>2. CASE grader' # [grader EXCEPT ![g] = GraderIdle]
      <4>1. PICK p \in {"total", "verdict"} : grader' = [grader EXCEPT ![g].pc = p]
        BY <3>2 DEF GradeFetch
      <4>2. grader'[g].fb = grader[g].fb
        BY <1>t, <4>1 DEF Grader
      <4>3. grader[g].fb = f
        BY <1>2, <4>2 DEF PastGuard
      <4>4. QED BY <3>2, <4>3 DEF GradeFetch
    <3>3. QED BY <3>1, <3>2
  <2>2. Due(f)' = 0
    BY <1>2 DEF Due
  <2>3. ToAdd(f)' \subseteq ToAdd(f) \cup {g}
    BY <1>k, <1>s
  <2>4. Cardinality(ToAdd(f)') <= Cardinality(ToAdd(f)) + 1
    BY <1>s, <2>3, Sizes
  <2>5. CASE \E h \in Graders : PastGuard(h, f)
    <3>1. again'[f] = again[f] + 1
      BY <2>1, <2>5 DEF OnceMore
    <3>2. QED BY <1>t, <2>2, <2>4, <3>1, PendingNat, PendingNatNext DEF Paid, Pending
  <2>6. CASE ~\E h \in Graders : PastGuard(h, f)
    <3>1. Due(f) = 1
      BY <2>1, <2>6 DEF Due
    <3>2. again'[f] = again[f]
      BY <2>1, <2>6 DEF OnceMore
    <3>3. QED BY <1>t, <2>2, <2>4, <3>1, <3>2, PendingNat, PendingNatNext DEF Paid, Pending
  <2>7. QED BY <2>5, <2>6
<1>3. QED BY <1>1, <1>2

\* Giving a message back: the increment is due again, and an allowance is given when
\* it was made already.
LEMMA PaidNack ==
    ASSUME NEW g \in Graders, NEW f \in Feedbacks, GradeNack(g), TypeOK
    PROVE  Paid(f)
<1>t. again[f] \in Nat /\ grader \in [Graders -> Grader] /\ grader[g].fb \in Feedbacks
  BY DEF TypeOK, Mass, Grader
<1>o. /\ rows' = rows /\ grader'[g].pc = "idle"
      /\ again' = OnceMore({k \in {grader[g].fb} : Incremented(g)})
      /\ \A k \in Graders \ {g} : grader'[k] = grader[k]
  BY <1>t DEF GradeNack, GraderIdle
<1>k. \A k \in Graders \ {g} : (PastGuard(k, f)' <=> PastGuard(k, f))
                                 /\ (k \in ToAdd(f)' <=> k \in ToAdd(f))
  BY <1>o DEF PastGuard, Incremented, ToAdd
<1>s. ToAdd(f) \subseteq Graders /\ ToAdd(f)' \subseteq Graders
  BY DEF ToAdd
<1>i. ~PastGuard(g, f)' /\ g \notin ToAdd(f)'
  BY <1>o DEF PastGuard, ToAdd
<1>1. ToAdd(f)' \subseteq ToAdd(f) \ {g}
  BY <1>i, <1>k, <1>s
<1>2. again'[f] \in Nat /\ again'[f] >= again[f]
  BY <1>t, <1>o DEF OnceMore
<1>3. Cardinality(ToAdd(f)') <= Cardinality(ToAdd(f))
  BY <1>s, <1>1, Sizes
<1>4. CASE ~PastGuard(g, f)
  <2>1. Due(f)' = Due(f)
    BY <1>4, <1>i, <1>k, <1>o DEF Due
  <2>2. QED BY <1>t, <1>2, <1>3, <2>1, PendingNat, PendingNatNext DEF Paid, Pending
<1>5. CASE PastGuard(g, f) /\ Incremented(g)
  <2>1. again'[f] = again[f] + 1
    BY <1>5, <1>o DEF OnceMore, PastGuard
  <2>2. QED BY <1>t, <1>3, <2>1, PendingNat, PendingNatNext DEF Paid, Pending
<1>6. CASE PastGuard(g, f) /\ ~Incremented(g)
  <2>1. g \in ToAdd(f)
    BY <1>6 DEF ToAdd
  <2>2. Cardinality(ToAdd(f)') + 1 <= Cardinality(ToAdd(f))
    BY <1>s, <1>1, <2>1, Sizes
  <2>3. QED BY <1>t, <1>2, <2>2, PendingNat, PendingNatNext DEF Paid, Pending
<1>7. QED BY <1>4, <1>5, <1>6

\* A crash gives every message back.
LEMMA PaidCrash ==
    ASSUME NEW f \in Feedbacks, GraderCrash, TypeOK
    PROVE  Paid(f)
<1>t. again[f] \in Nat /\ grader \in [Graders -> Grader] /\ \A g \in Graders : grader[g].fb \in Feedbacks
  BY DEF TypeOK, Mass, Grader
<1>o. /\ rows' = rows /\ \A g \in Graders : grader'[g].pc = "idle"
      /\ again' = OnceMore({grader[g].fb : g \in {h \in Graders : Incremented(h)}})
  BY DEF GraderCrash, GraderIdle
<1>s. ToAdd(f) \subseteq Graders /\ ToAdd(f)' \subseteq Graders
  BY DEF ToAdd
<1>1. Cardinality(ToAdd(f)') = 0
  <2>1. ToAdd(f)' = {}
    BY <1>o DEF ToAdd, PastGuard
  <2>2. QED BY <2>1, FS_EmptySet
<1>2. again'[f] \in Nat /\ again'[f] >= again[f]
  BY <1>t, <1>o DEF OnceMore
<1>3. CASE \A g \in Graders : ~PastGuard(g, f)
  <2>1. Due(f)' <= Due(f)
    BY <1>3, <1>o DEF Due
  <2>2. QED BY <1>t, <1>1, <1>2, <2>1, PendingNat, PendingNatNext DEF Paid, Pending
<1>4. ASSUME NEW g \in Graders, PastGuard(g, f), Incremented(g) PROVE Paid(f)
  <2>1. again'[f] = again[f] + 1
    BY <1>4, <1>o DEF OnceMore, PastGuard
  <2>2. QED BY <1>t, <1>1, <2>1, PendingNat, PendingNatNext DEF Paid, Pending
<1>5. ASSUME NEW g \in Graders, PastGuard(g, f), ~Incremented(g) PROVE Paid(f)
  <2>1. g \in ToAdd(f)
    BY <1>5 DEF ToAdd
  <2>2. Cardinality(ToAdd(f)) >= 1
    BY <1>s, <2>1, Sizes
  <2>3. QED BY <1>t, <1>1, <1>2, <2>2, PendingNat, PendingNatNext DEF Paid, Pending
<1>6. QED BY <1>3, <1>4, <1>5

\* The verdict grades the row, so nothing is due.
LEMMA PaidVerdict ==
    ASSUME NEW g \in Graders, NEW f \in Feedbacks, GradeVerdict(g), TypeOK
    PROVE  Paid(f)
<1>t. /\ again' = again /\ again[f] \in Nat /\ grader \in [Graders -> Grader]
      /\ rows \in [Feedbacks -> Row] /\ grader[g].fb \in Feedbacks
  BY DEF TypeOK, Mass, Grader, GradeVerdict, history
<1>o. /\ grader'[g].pc = "idle" /\ rows' = [rows EXCEPT ![grader[g].fb] = Grade(@)]
      /\ \A k \in Graders \ {g} : grader'[k] = grader[k]
  BY <1>t DEF GradeVerdict, GraderIdle
<1>k. \A k \in Graders \ {g} : (PastGuard(k, f)' <=> PastGuard(k, f))
                                 /\ (k \in ToAdd(f)' <=> k \in ToAdd(f))
  BY <1>o DEF PastGuard, Incremented, ToAdd
<1>s. ToAdd(f) \subseteq Graders /\ ToAdd(f)' \subseteq Graders
  BY DEF ToAdd
<1>i. ~PastGuard(g, f)' /\ g \notin ToAdd(f)'
  BY <1>o DEF PastGuard, ToAdd
<1>1. Cardinality(ToAdd(f)') <= Cardinality(ToAdd(f))
  <2>1. ToAdd(f)' \subseteq ToAdd(f)
    BY <1>i, <1>k, <1>s
  <2>2. QED BY <1>s, <2>1, Sizes
<1>2. Due(f)' <= Due(f)
  <2>1. CASE f = grader[g].fb
    <3>1. rows'[f].graded
      BY <1>t, <1>o, <2>1 DEF Grade, Row
    <3>2. QED BY <3>1 DEF Due
  <2>2. CASE f # grader[g].fb
    <3>1. ~PastGuard(g, f) /\ rows'[f] = rows[f]
      BY <1>t, <1>o, <2>2 DEF PastGuard
    <3>2. QED BY <1>i, <1>k, <3>1 DEF Due
  <2>3. QED BY <2>1, <2>2
<1>3. QED BY <1>t, <1>1, <1>2, PendingNat, PendingNatNext DEF Paid, Pending

\* The other steps of a goroutine keep its place, and the increment itself is one
\* fewer to come.
LEMMA PaidWithin ==
    ASSUME NEW g \in Graders, NEW f \in Feedbacks, TypeOK,
           (\E k \in Feedbacks : GradeTake(g, k)) \/ GradeTotal(g) \/ GradeRead(g)
             \/ GradeWrite(g) \/ GradeSync(g)
    PROVE  /\ Paid(f)
           /\ again' = again
           /\ GradeWrite(g) /\ grader[g].fb = f => Pending(f)' + 1 <= Pending(f)
<1>t. /\ again[f] \in Nat /\ grader \in [Graders -> Grader] /\ grader[g] \in Grader
      /\ grader[g].seen.mass \in [Feedbacks -> Nat] /\ grader[g].fb \in Feedbacks
  BY DEF TypeOK, Mass, Grader, Stats
<1>o. again' = again /\ rows' = rows /\ \A k \in Graders \ {g} : grader'[k] = grader[k]
  BY <1>t DEF GradeTake, GradeTotal, GradeRead, GradeWrite, GradeSync, history
<1>k. \A k \in Graders \ {g} : (PastGuard(k, f)' <=> PastGuard(k, f))
                                 /\ (k \in ToAdd(f)' <=> k \in ToAdd(f))
  BY <1>o DEF PastGuard, Incremented, ToAdd
<1>s. ToAdd(f) \subseteq Graders /\ ToAdd(f)' \subseteq Graders
  BY DEF ToAdd
<1>1. (PastGuard(g, f)' <=> PastGuard(g, f)) /\ (Incremented(g) => Incremented(g)')
      /\ (GradeWrite(g) => grader[g].pc = "write" /\ Incremented(g)')
  <2>1. CASE \E k \in Feedbacks : GradeTake(g, k)
    BY <2>1, <1>t DEF GradeTake, GraderIdle, PastGuard, Incremented, GradeWrite
  <2>2. CASE GradeTotal(g)
    BY <2>2, <1>t DEF GradeTotal, PastGuard, Incremented, GradeWrite, Grader
  <2>3. CASE GradeRead(g)
    BY <2>3, <1>t DEF GradeRead, PastGuard, Incremented, GradeWrite, Grader
  <2>4. CASE GradeSync(g)
    BY <2>4, <1>t DEF GradeSync, PastGuard, Incremented, GradeWrite, Grader
  <2>5. CASE GradeWrite(g)
    <3> DEFINE mass == [grader[g].seen.mass EXCEPT ![grader[g].fb] = @ + 1]
    <3>1. mass[grader[g].fb] > 0
      BY <1>t
    <3> HIDE DEF mass
    <3>2. PICK p \in {"sync", "verdict"} :
            grader' = [grader EXCEPT ![g].pc = p, ![g].seen.mass = mass]
      BY <2>5 DEF GradeWrite, mass
    <3>3. grader'[g].pc = p /\ grader'[g].seen.mass = mass /\ grader'[g].fb = grader[g].fb
      BY <3>2, <1>t DEF Grader, Stats
    <3>4. grader[g].pc = "write"
      BY <2>5 DEF GradeWrite
    <3>5. QED BY <3>1, <3>3, <3>4 DEF PastGuard, Incremented
  <2>6. QED BY <2>1, <2>2, <2>3, <2>4, <2>5
<1>2. Due(f)' = Due(f)
  BY <1>1, <1>k, <1>o DEF Due
<1>3. Cardinality(ToAdd(f)') <= Cardinality(ToAdd(f))
  <2>1. ToAdd(f)' \subseteq ToAdd(f)
    <3>1. g \in ToAdd(f)' => g \in ToAdd(f)
      BY <1>1 DEF ToAdd
    <3>2. QED BY <1>k, <1>s, <3>1
  <2>2. QED BY <1>s, <2>1, Sizes
<1>4. ASSUME GradeWrite(g), grader[g].fb = f PROVE Cardinality(ToAdd(f)') + 1 <= Cardinality(ToAdd(f))
  <2>1. g \in ToAdd(f) /\ g \notin ToAdd(f)'
    BY <1>1, <1>4 DEF ToAdd, PastGuard, Incremented
  <2>2. ToAdd(f)' \subseteq ToAdd(f) \ {g}
    BY <1>k, <1>s, <2>1
  <2>3. QED BY <1>s, <2>1, <2>2, Sizes
<1>5. Paid(f)
  BY <1>t, <1>o, <1>2, <1>3, PendingNat, PendingNatNext DEF Paid, Pending
<1>6. ASSUME GradeWrite(g), grader[g].fb = f PROVE Pending(f)' + 1 <= Pending(f)
  BY <1>2, <1>4, <1>6, PendingNat, PendingNatNext DEF Pending
<1>7. QED BY <1>o, <1>5, <1>6

\* Steps of the other services do not touch the graders.
LEMMA GradersLeft ==
    BatchStep \/ (\E o \in Others : OtherStep(o)) \/ (\E r \in Replayers : ReplayStep(r))
      \/ OtherCrash \/ ReplayCrash
        => grader' = grader /\ again' = again
BY DEF BatchStep, BatchStart, BatchList, BatchDone, BatchAbort, BatchAgents, BatchFilter,
       BatchUpsert, BatchGuard, BatchPublish, BatchUpdate, BatchSave, OtherStep, OtherTake,
       OtherFetch, OtherDrop, OtherNack, OtherResolve, OtherPublish, ReplayStep, ReplayList,
       ReplayStats, ReplaySync, ReplayBackfill, OtherCrash, ReplayCrash, history

\* Every step pays for the increments it brings about.
LEMMA PaidStep ==
    ASSUME TypeOK, Next, NEW f \in Feedbacks
    PROVE  Paid(f)
<1>1. CASE \E g \in Graders : GradeStep(g)
  BY <1>1, PaidFetch, PaidNack, PaidVerdict, PaidWithin DEF GradeStep
<1>2. CASE GraderCrash
  BY <1>2, PaidCrash
<1>3. CASE ~GraderCrash /\ ~\E g \in Graders : GradeStep(g)
  BY <1>3, GradersLeft, PaidElsewhere, GradeKept DEF Next
<1>4. QED BY <1>1, <1>2, <1>3

\* What a step that pays leaves of the bound on one mass.
LEMMA BoundKept ==
    ASSUME TypeOK, TypeOK', NEW f \in Feedbacks, Paid(f), early \subseteq early'
    PROVE  /\ Pending(f) <= 1 + again[f] => Pending(f)' <= 1 + again'[f]
           /\ \A n \in Nat : n + Pending(f) <= 1 + again[f] + Early(f)
                                 => n + Pending(f)' <= 1 + again'[f] + Early(f)'
<1>1. again[f] \in Nat /\ again'[f] \in Nat
  BY DEF TypeOK, Mass
<1>2. Early(f) <= Early(f)'
  BY DEF Early
<1>3. QED BY <1>1, <1>2, PendingNat, PendingNatNext DEF Paid

\* A step that changes neither what is stored nor what is about to be written.
LEMMA OnceQuiet ==
    ASSUME TypeOK, TypeOK', OnceInv, Next, stats' = stats, early' = early,
           \A g \in Graders : grader'[g].pc = "write" =>
               grader[g].pc = "write" /\ grader'[g].seen = grader[g].seen
    PROVE  OnceInv'
<1> SUFFICES ASSUME NEW f \in Feedbacks
             PROVE  /\ Pending(f)' <= 1 + again'[f]
                    /\ stats'.mass[f] + Pending(f)' <= 1 + again'[f] + Early(f)'
                    /\ \A g \in Graders : grader'[g].pc = "write" =>
                          grader'[g].seen.mass[f] + Pending(f)' <= 1 + again'[f] + Early(f)'
  BY DEF OnceInv
<1>1. stats.mass[f] \in Nat /\ \A g \in Graders : grader[g].seen.mass[f] \in Nat
  BY DEF TypeOK, Stats, Mass, Grader
<1>2. QED BY <1>1, PaidStep, BoundKept DEF OnceInv

\* What a goroutine reads is what is stored.
LEMMA OnceRead ==
    ASSUME TypeOK, TypeOK', OnceInv, NEW g \in Graders, GradeRead(g)
    PROVE  OnceInv'
<1> SUFFICES ASSUME NEW f \in Feedbacks
             PROVE  /\ Pending(f)' <= 1 + again'[f]
                    /\ stats'.mass[f] + Pending(f)' <= 1 + again'[f] + Early(f)'
                    /\ \A k \in Graders : grader'[k].pc = "write" =>
                          grader'[k].seen.mass[f] + Pending(f)' <= 1 + again'[f] + Early(f)'
  BY DEF OnceInv
<1>1. stats.mass[f] \in Nat /\ \A k \in Graders : grader[k].seen.mass[f] \in Nat
  BY DEF TypeOK, Stats, Mass, Grader
<1>2. /\ stats' = stats /\ early' = early /\ grader'[g].seen = stats
      /\ \A k \in Graders \ {g} : grader'[k] = grader[k]
  BY DEF GradeRead, TypeOK, Grader
<1>3. Paid(f)
  BY PaidWithin
<1>4. Pending(f)' <= 1 + again'[f] /\ stats.mass[f] + Pending(f)' <= 1 + again'[f] + Early(f)'
  BY <1>1, <1>2, <1>3, BoundKept DEF OnceInv
<1>5. ASSUME NEW k \in Graders \ {g}, grader[k].pc = "write"
      PROVE  grader[k].seen.mass[f] + Pending(f)' <= 1 + again'[f] + Early(f)'
  BY <1>1, <1>2, <1>3, <1>5, BoundKept DEF OnceInv
<1>6. QED BY <1>2, <1>4, <1>5

\* The increment: one more stored, one fewer to come, and no other goroutine holds an
\* older reading.
LEMMA OnceWrite ==
    ASSUME TypeOK, TypeOK', LockInv, OnceInv, NEW g \in Graders, GradeWrite(g)
    PROVE  OnceInv'
<1> SUFFICES ASSUME NEW f \in Feedbacks
             PROVE  /\ Pending(f)' <= 1 + again'[f]
                    /\ stats'.mass[f] + Pending(f)' <= 1 + again'[f] + Early(f)'
                    /\ \A k \in Graders : grader'[k].pc # "write"
  BY DEF OnceInv
<1>t. /\ grader[g].seen.mass \in [Feedbacks -> Nat] /\ grader[g].fb \in Feedbacks /\ again[f] \in Nat
      /\ grader \in [Graders -> Grader] /\ grader[g] \in Grader
  BY DEF TypeOK, Stats, Mass, Grader
<1>1. /\ grader[g].pc = "write" /\ early' = early
      /\ stats'.mass = [grader[g].seen.mass EXCEPT ![grader[g].fb] = @ + 1]
  BY DEF GradeWrite, history
<1>2. \A k \in Graders : grader'[k].pc # "write"
  <2>1. grader'[g].pc \in {"sync", "verdict"} /\ \A k \in Graders \ {g} : grader'[k] = grader[k]
    BY <1>t DEF GradeWrite, Grader
  <2>2. \A k \in Graders \ {g} : grader[k].pc # "write"
    BY <1>1 DEF LockInv, Locked
  <2>3. QED BY <2>1, <2>2
<1>3. Paid(f) /\ again' = again /\ (grader[g].fb = f => Pending(f)' + 1 <= Pending(f))
  BY PaidWithin
<1>4. Pending(f)' <= 1 + again'[f]
  BY <1>1, <1>3, BoundKept DEF OnceInv
<1>5. stats'.mass[f] + Pending(f)' <= 1 + again'[f] + Early(f)'
  <2>1. grader[g].seen.mass[f] + Pending(f) <= 1 + again[f] + Early(f)
    BY <1>1 DEF OnceInv
  <2>2. Early(f)' = Early(f)
    BY <1>1 DEF Early
  <2>3. CASE grader[g].fb = f
    <3>1. stats'.mass[f] = grader[g].seen.mass[f] + 1
      BY <1>1, <1>t, <2>3
    <3>2. grader[g].seen.mass[f] \in Nat
      BY <1>t
    <3>3. QED BY <1>3, <1>t, <2>1, <2>2, <2>3, <3>1, <3>2, PendingNat, PendingNatNext
  <2>4. CASE grader[g].fb # f
    <3>1. stats'.mass[f] = grader[g].seen.mass[f] /\ grader[g].seen.mass[f] \in Nat
      BY <1>1, <1>t, <2>4
    <3>2. QED BY <1>1, <1>3, <2>1, <3>1, BoundKept
  <2>5. QED BY <2>3, <2>4
<1>6. QED BY <1>2, <1>4, <1>5

\* A replay stores each row once; a row the live path is still to add is remembered.
LEMMA OnceReplay ==
    ASSUME TypeOK, TypeOK', OnceInv, Next, NEW r \in Replayers, ReplayStats(r),
           stats' # stats \/ early' # early
    PROVE  OnceInv'
<1> SUFFICES ASSUME NEW f \in Feedbacks
             PROVE  /\ Pending(f)' <= 1 + again'[f]
                    /\ stats'.mass[f] + Pending(f)' <= 1 + again'[f] + Early(f)'
                    /\ \A k \in Graders : grader'[k].pc = "write" =>
                          grader'[k].seen.mass[f] + Pending(f)' <= 1 + again'[f] + Early(f)'
  BY DEF OnceInv
<1>1. /\ grader' = grader /\ again' = again /\ rows' = rows
      /\ stats'.mass = MassOf(replay[r].scored) /\ early' = early \cup (replay[r].scored \cap ToCount)
  BY DEF ReplayStats
<1>2. Paid(f) /\ early \subseteq early'
  BY <1>1, PaidStep
<1>3. Pending(f)' <= 1 + again'[f]
  BY <1>2, BoundKept DEF OnceInv
<1>4. ASSUME NEW k \in Graders, grader[k].pc = "write"
      PROVE  grader[k].seen.mass[f] + Pending(f)' <= 1 + again'[f] + Early(f)'
  <2>1. grader[k].seen.mass[f] \in Nat
    BY DEF TypeOK, Stats, Mass, Grader
  <2>2. QED BY <1>2, <1>4, <2>1, BoundKept DEF OnceInv
<1>5. stats'.mass[f] + Pending(f)' <= 1 + again'[f] + Early(f)'
  <2>t. again'[f] \in Nat
    BY DEF TypeOK, Mass
  <2>1. CASE f \notin replay[r].scored
    <3>1. stats'.mass[f] = 0
      BY <1>1, <2>1 DEF MassOf
    <3>2. QED BY <1>3, <2>t, <3>1, PendingNatNext
  <2>2. CASE f \in replay[r].scored /\ f \in ToCount
    <3>1. stats'.mass[f] = 1
      BY <1>1, <2>2 DEF MassOf
    <3>2. Early(f)' = 1
      BY <1>1, <2>2 DEF Early
    <3>3. QED BY <1>3, <2>t, <3>1, <3>2, PendingNatNext
  <2>3. CASE f \in replay[r].scored /\ f \notin ToCount
    <3>1. stats'.mass[f] = 1
      BY <1>1, <2>3 DEF MassOf
    <3>2. rows[f].graded /\ \A g \in Graders : ~(PastGuard(g, f) /\ ~Incremented(g))
      BY <2>3 DEF ToCount
    <3>3. ToAdd(f)' = {}
      BY <1>1, <3>2 DEF ToAdd, PastGuard, Incremented
    <3>4. Cardinality(ToAdd(f)') = 0
      BY <3>3, FS_EmptySet
    <3>5. Due(f)' = 0
      BY <1>1, <3>2 DEF Due
    <3>6. QED BY <2>t, <3>1, <3>4, <3>5, PendingNatNext
  <2>4. QED BY <2>1, <2>2, <2>3
<1>6. QED BY <1>1, <1>3, <1>4, <1>5

\* No step goes beyond the allowance.
LEMMA OnceStep == TypeOK /\ TypeOK' /\ LockInv /\ OnceInv /\ [Next]_vars => OnceInv'
<1> SUFFICES ASSUME TypeOK, TypeOK', LockInv, OnceInv, [Next]_vars PROVE OnceInv'
  OBVIOUS
<1>1. CASE UNCHANGED vars
  <2>1. rows' = rows /\ stats' = stats /\ grader' = grader /\ again' = again /\ early' = early
    BY <1>1 DEF vars
  <2>2. \A f \in Feedbacks : ToAdd(f)' = ToAdd(f) /\ Due(f)' = Due(f) /\ Early(f)' = Early(f)
    BY <2>1 DEF ToAdd, Due, PastGuard, Incremented, Early
  <2>3. \A f \in Feedbacks : Pending(f)' = Pending(f)
    BY <2>2 DEF Pending
  <2>4. QED BY <2>1, <2>2, <2>3 DEF OnceInv
<1>2. ASSUME NEW g \in Graders, GradeStep(g) PROVE OnceInv'
  <2>n. Next
    BY <1>2 DEF Next
  <2>1. CASE GradeRead(g)
    BY <2>1, OnceRead
  <2>2. CASE GradeWrite(g)
    BY <2>2, OnceWrite
  <2>3. ASSUME ~GradeRead(g), ~GradeWrite(g) PROVE OnceInv'
    <3>1. stats' = stats /\ early' = early
      BY <1>2, <2>3 DEF GradeStep, GradeTake, GradeFetch, GradeTotal, GradeSync, GradeVerdict,
                        GradeNack, history
    <3>2. \A k \in Graders \ {g} : grader'[k] = grader[k]
      BY <1>2, <2>3 DEF GradeStep, GradeTake, GradeFetch, GradeTotal, GradeSync,
                        GradeVerdict, GradeNack, TypeOK
    <3>3. grader'[g].pc # "write"
      <4>t. grader \in [Graders -> Grader]
        BY DEF TypeOK
      <4>1. CASE \E f \in Feedbacks : GradeTake(g, f)
        BY <4>1, <4>t DEF GradeTake, GraderIdle
      <4>2. CASE GradeVerdict(g) \/ GradeNack(g)
        BY <4>2, <4>t DEF GradeVerdict, GradeNack, GraderIdle
      <4>3. CASE GradeTotal(g) \/ GradeSync(g)
        BY <4>3, <4>t DEF GradeTotal, GradeSync, Grader
      <4>4. CASE GradeFetch(g)
        BY <4>4, <4>t DEF GradeFetch, GraderIdle, Grader
      <4>5. QED BY <1>2, <2>3, <4>1, <4>2, <4>3, <4>4 DEF GradeStep
    <3>4. QED BY <2>n, <3>1, <3>2, <3>3, OnceQuiet
  <2>4. QED BY <2>1, <2>2, <2>3
<1>3. ASSUME NEW r \in Replayers, ReplayStep(r) PROVE OnceInv'
  <2>n. Next /\ grader' = grader
    BY <1>3, GradersLeft DEF Next
  <2>1. CASE ReplayStats(r) /\ stats' # stats
    BY <2>1, <2>n, OnceReplay
  <2>2. CASE stats' = stats /\ early' = early
    BY <2>2, <2>n, OnceQuiet
  <2>3. CASE ReplayStats(r) /\ stats' = stats /\ early' # early
    BY <2>3, <2>n, OnceReplay
  <2>4. QED BY <1>3, <2>1, <2>2, <2>3 DEF ReplayStep, ReplayList, ReplaySync, ReplayBackfill, history
<1>4. CASE GraderCrash
  <2>1. \A g \in Graders : grader'[g].pc = "idle"
    BY <1>4 DEF GraderCrash, GraderIdle
  <2>2. stats' = stats /\ early' = early /\ Next
    BY <1>4 DEF GraderCrash, Next
  <2>3. QED BY <2>1, <2>2, OnceQuiet
<1>5. CASE BatchStep \/ (\E o \in Others : OtherStep(o)) \/ OtherCrash \/ ReplayCrash
  <2>1. stats' = stats /\ early' = early /\ grader' = grader /\ Next
    <3>1. grader' = grader /\ Next
      BY <1>5, GradersLeft DEF Next
    <3>2. stats' = stats /\ early' = early
      BY <1>5 DEF BatchStep, BatchStart, BatchList, BatchDone, BatchAbort, BatchAgents, BatchFilter,
           BatchUpsert, BatchGuard, BatchPublish, BatchUpdate, BatchSave, OtherStep, OtherTake,
           OtherFetch, OtherDrop, OtherNack, OtherResolve, OtherPublish, OtherCrash, ReplayCrash,
           history
    <3>3. QED BY <3>1, <3>2
  <2>2. QED BY <2>1, OnceQuiet
<1>6. QED BY <1>1, <1>2, <1>3, <1>4, <1>5 DEF Next

\* However often a message is delivered, to however many goroutines, and whatever fails,
\* crashes or is replayed, a row is in the mass once, and once more only for a copy that
\* passed the guard beside another, for an increment whose verdict was lost and for a
\* replay that came before the live path.
THEOREM NoDoubleCountHolds == Spec => []NoDoubleCount
<1>1. Init => OnceInv
  <2> SUFFICES ASSUME Init, NEW f \in Feedbacks
               PROVE  /\ Pending(f) <= 1 + again[f]
                      /\ stats.mass[f] + Pending(f) <= 1 + again[f] + Early(f)
                      /\ \A g \in Graders : grader[g].pc # "write"
    BY DEF OnceInv
  <2>1. \A g \in Graders : grader[g].pc = "idle"
    BY DEF Init, GraderIdle
  <2>2. ToAdd(f) = {}
    BY <2>1 DEF ToAdd, PastGuard
  <2>3. Cardinality(ToAdd(f)) = 0
    BY <2>2, FS_EmptySet
  <2>4. again[f] = 0 /\ stats.mass[f] = 0
    BY DEF Init, EmptyMass
  <2>5. QED BY <2>1, <2>3, <2>4, PendingNat DEF Pending
<1>2. TypeOK /\ OnceInv => NoDoubleCount
  <2> SUFFICES ASSUME TypeOK, OnceInv, NEW f \in Feedbacks
               PROVE  stats.mass[f] <= 1 + again[f] + Early(f)
    BY DEF NoDoubleCount, Early
  <2>1. stats.mass[f] \in Nat /\ again[f] \in Nat
    BY DEF TypeOK, Stats, Mass
  <2>2. QED BY <2>1, PendingNat DEF OnceInv
<1>3. QED BY <1>1, <1>2, OnceStep, TypeCorrect, LockCorrect, PTL DEF Spec

===============================================================================
