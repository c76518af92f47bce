--------------------------- MODULE FeedbackLifecycle ---------------------------
(* The feedback of one agent from TrustRank's batch to the score: the batch    *)
(* flush writes rows and publishes them, feedback-others asks the LLM about    *)
(* the rows the rules leave undecided, feedback-grader adds each quality row   *)
(* to the reputation mass and grades it, and score-refresh replays all rows    *)
(* and overwrites the mass. Four processes share the rows, the stats document  *)
(* and the agent document, with single-document writes only.                   *)
(*                                                                             *)
(* The mass (A, B) is the bag of the feedback added to it; a composite is the  *)
(* mass it was computed from. Decay is left out here.                          *)
EXTENDS Naturals, FiniteSets

CONSTANTS
    Feedbacks,      \* feedback rows of the agent
    RuleCategory,   \* what the rule classifier says of each
    NumEvents,      \* length of the chain
    Log,            \* the chain: feedback given and revoked
    BatchSize,      \* TrustRank's BatchSize
    Others,         \* goroutines of feedback-others
    Graders,        \* goroutines of feedback-grader
    Replayers,      \* score-refresh's cron and trigger consumer
    MaxCopies,      \* bound on the copies of a message in a queue
    MaxFaults       \* bound on failed calls and crashes

Categories == {"quality", "unscored", "others"}    \* unscored: quantity, junk, self, no number

ASSUME ParamsAssumption ==
    /\ IsFiniteSet(Feedbacks) /\ Feedbacks # {}
    /\ IsFiniteSet(Others) /\ IsFiniteSet(Graders)
    /\ RuleCategory \in [Feedbacks -> Categories]
    /\ NumEvents \in Nat
    /\ Log \in [1 .. NumEvents -> [kind : {"new", "revoke"}, fb : Feedbacks]]
    /\ BatchSize \in Nat \ {0} /\ MaxCopies \in Nat \ {0} /\ MaxFaults \in Nat

VARIABLES
    rows,           \* feedback_history
    stats,          \* agent_score_stats: the document and its mass
    agent,          \* agents: compositeScore and totalFeedbacks
    checkpoint,     \* TrustRank's saved position
    batch,          \* TrustRank's pass
    othersQ,        \* copies in erc8004.feedback.others
    classifiedQ,    \* copies in erc8004.feedback.classified
    other,          \* feedback-others goroutines
    grader,         \* feedback-grader goroutines
    replay,         \* score-refresh cycles under way
    faults,
    \* history
    lost,           \* others feedback whose publish failed or whose message was dropped
    clobbered,      \* rows written over after an LLM answer or a grade
    interfered,     \* graders a replay overtook between their read and write
    replayed,       \* a replay came to write its results
    again,          \* per row, passes of the graded guard that may count it once more
    early           \* rows a replay counted that the live path was still to count

queues == <<othersQ, classifiedQ>>
history == <<lost, clobbered, interfered, replayed, again, early>>
vars == <<rows, stats, agent, checkpoint, batch, othersQ, classifiedQ, other, grader,
          replay, faults, lost, clobbered, interfered, replayed, again, early>>

Fault == faults < MaxFaults /\ faults' = faults + 1

-------------------------------------------------------------------------------
(* Documents.                                                                  *)

EmptyMass == [f \in Feedbacks |-> 0]
MassOf(fs) == [f \in Feedbacks |-> IF f \in fs THEN 1 ELSE 0]

NoRow == [stored |-> FALSE, cat |-> "others", llm |-> FALSE, graded |-> FALSE,
          weighted |-> FALSE, revoked |-> FALSE]

\* What BulkUpsert's $set leaves of a row: the category and the weight start
\* over, the LLM's answer is gone; verdict and revocation are omitted when
\* empty and so survive.
FreshRow(f) ==
    [rows[f] EXCEPT !.stored = TRUE, !.cat = RuleCategory[f], !.llm = FALSE,
                    !.weighted = FALSE]

Grade(row) == [row EXCEPT !.graded = TRUE, !.weighted = TRUE]

\* The rows replayAgent adds to the mass, and those whose grade it writes back.
Scored == {f \in Feedbacks : rows[f].stored /\ ~rows[f].revoked /\ rows[f].cat = "quality"}
Ungraded == {f \in Feedbacks :
                /\ rows[f].stored /\ ~rows[f].revoked /\ rows[f].cat # "others"
                /\ ~(rows[f].graded /\ rows[f].weighted)}
Stored == {f \in Feedbacks : rows[f].stored}

News(first, last) == {Log[e].fb : e \in {d \in first .. last : Log[d].kind = "new"}}
Revokes(first, last) == {Log[e].fb : e \in {d \in first .. last : Log[d].kind = "revoke"}}

BatchIdle == [pc |-> "idle", after |-> 0, end |-> 0, todo |-> {},
              agent |-> [scored |-> FALSE, composite |-> EmptyMass, total |-> 0]]
OtherIdle == [pc |-> "idle", fb |-> CHOOSE f \in Feedbacks : TRUE]
GraderIdle == [pc |-> "idle", fb |-> CHOOSE f \in Feedbacks : TRUE, total |-> 0,
               seen |-> [present |-> FALSE, mass |-> EmptyMass]]
ReplayIdle == [pc |-> "idle", scored |-> {}, fills |-> {}, total |-> 0]

Init ==
    /\ rows = [f \in Feedbacks |-> NoRow]
    /\ stats = [present |-> FALSE, mass |-> EmptyMass]
    /\ agent = [scored |-> FALSE, composite |-> EmptyMass, total |-> 0]
    /\ checkpoint = 0
    /\ batch = BatchIdle
    /\ othersQ = EmptyMass /\ classifiedQ = EmptyMass
    /\ other = [o \in Others |-> OtherIdle]
    /\ grader = [g \in Graders |-> GraderIdle]
    /\ replay = [r \in Replayers |-> ReplayIdle]
    /\ faults = 0
    /\ lost = {} /\ clobbered = {} /\ interfered = {} /\ replayed = FALSE
    /\ again = EmptyMass /\ early = {}

-------------------------------------------------------------------------------
(* TrustRank: runChain and the flush of ProcessBatch, call by call.            *)

\* loadCheckpoint: a read error replays the chain.
BatchStart ==
    /\ batch.pc = "idle"
    /\ \/ batch' = [batch EXCEPT !.pc = "list", !.after = checkpoint] /\ UNCHANGED faults
       \/ batch' = [batch EXCEPT !.pc = "list", !.after = 0] /\ Fault
    /\ UNCHANGED <<rows, stats, agent, checkpoint, queues, other, grader, replay, history>>

\* The next events and, in prefetch, the agent's document.
BatchList(last) ==
    /\ batch.pc = "list"
    /\ batch.after < last /\ last <= batch.after + BatchSize
    /\ batch' = [batch EXCEPT !.pc = "agents", !.end = last, !.agent = agent]
    /\ UNCHANGED <<rows, stats, agent, checkpoint, queues, other, grader, replay,
                   faults, history>>

BatchDone ==
    /\ batch.pc = "list" /\ batch.after = NumEvents
    /\ batch' = BatchIdle
    /\ UNCHANGED <<rows, stats, agent, checkpoint, queues, other, grader, replay,
                   faults, history>>

\* Any error ProcessBatch returns, and any crash: nothing is undone, the next
\* pass starts from the saved checkpoint.
BatchAbort ==
    /\ batch.pc # "idle" /\ Fault
    /\ batch' = BatchIdle
    /\ UNCHANGED <<rows, stats, agent, checkpoint, queues, other, grader, replay, history>>

\* agentRepo.BulkUpsert: the document as prefetch read it, one more feedback for
\* each event; a composite that was zero is omitted.
BatchAgents ==
    /\ batch.pc = "agents"
    /\ LET new == News(batch.after + 1, batch.end)
           doc == IF batch.agent.scored THEN batch.agent ELSE agent
       IN  agent' = IF new = {} THEN agent
                    ELSE [doc EXCEPT !.total = batch.agent.total + Cardinality(new)]
    /\ batch' = [batch EXCEPT !.pc = "filter"]
    /\ UNCHANGED <<rows, stats, checkpoint, queues, other, grader, replay, faults, history>>

\* filterUngradedFeedbacks.
BatchFilter ==
    /\ batch.pc = "filter"
    /\ batch' = [batch EXCEPT !.pc = "upsert",
                     !.todo = {f \in News(batch.after + 1, batch.end) : ~rows[f].graded}]
    /\ UNCHANGED <<rows, stats, agent, checkpoint, queues, other, grader, replay,
                   faults, history>>

\* feedbackRepo.BulkUpsert of what the filter let through.
BatchUpsert ==
    /\ batch.pc = "upsert"
    /\ rows' = [f \in Feedbacks |-> IF f \in batch.todo THEN FreshRow(f) ELSE rows[f]]
    /\ clobbered' = clobbered \cup {f \in batch.todo : rows[f].llm \/ rows[f].graded}
    /\ batch' = [batch EXCEPT !.pc = "guard"]
    /\ UNCHANGED <<stats, agent, checkpoint, queues, other, grader, replay, faults,
                   lost, interfered, replayed, again, early>>

\* publishOthersFeedback's lookup: graded rows are not published again, and when
\* the lookup fails all are. Rule-decided rows always are.
BatchGuard ==
    /\ batch.pc = "guard"
    /\ LET new == News(batch.after + 1, batch.end)
           skipped == {f \in new : RuleCategory[f] = "others" /\ rows[f].graded}
       IN  \/ batch' = [batch EXCEPT !.pc = "publish", !.todo = new \ skipped]
              /\ UNCHANGED faults
           \/ batch' = [batch EXCEPT !.pc = "publish", !.todo = new]
              /\ skipped # {} /\ Fault
    /\ UNCHANGED <<rows, stats, agent, checkpoint, queues, other, grader, replay, history>>

\* publishOthersFeedback, then publishClassifiedFeedback, one message at a time.
\* A failed publish is logged and forgotten.
BatchPublish(f) ==
    /\ batch.pc = "publish" /\ f \in batch.todo
    /\ batch' = [batch EXCEPT !.todo = @ \ {f}]
    /\ \/ /\ RuleCategory[f] = "others" /\ othersQ[f] < MaxCopies
          /\ othersQ' = [othersQ EXCEPT ![f] = @ + 1]
          /\ UNCHANGED <<classifiedQ, faults, lost>>
       \/ /\ RuleCategory[f] # "others" /\ classifiedQ[f] < MaxCopies
          /\ \A k \in batch.todo : RuleCategory[k] # "others"
          /\ classifiedQ' = [classifiedQ EXCEPT ![f] = @ + 1]
          /\ UNCHANGED <<othersQ, faults, lost>>
       \/ /\ Fault
          /\ lost' = IF RuleCategory[f] = "others" THEN lost \cup {f} ELSE lost
          /\ UNCHANGED queues
    /\ UNCHANGED <<rows, stats, agent, checkpoint, other, grader, replay, clobbered,
                   interfered, replayed, again, early>>

\* feedbackRepo.BulkUpdate: the batch's revocations.
BatchUpdate ==
    /\ batch.pc = "publish" /\ batch.todo = {}
    /\ LET revoked == Revokes(batch.after + 1, batch.end) \cap Stored
       IN  rows' = [f \in Feedbacks |-> IF f \in revoked
                        THEN [rows[f] EXCEPT !.revoked = TRUE] ELSE rows[f]]
    /\ batch' = [batch EXCEPT !.pc = "save"]
    /\ UNCHANGED <<stats, agent, checkpoint, queues, other, grader, replay, faults, history>>

\* saveCheckpoint: an error is logged and the pass continues from memory.
BatchSave ==
    /\ batch.pc = "save"
    /\ batch' = [batch EXCEPT !.pc = "list", !.after = batch.end]
    /\ \/ checkpoint' = batch.end /\ UNCHANGED faults
       \/ Fault /\ UNCHANGED checkpoint
    /\ UNCHANGED <<rows, stats, agent, queues, other, grader, replay, history>>

-------------------------------------------------------------------------------
(* feedback-others: handle, one delivery per goroutine.                        *)

OtherTake(o, f) ==
    /\ other[o].pc = "idle" /\ othersQ[f] > 0
    /\ othersQ' = [othersQ EXCEPT ![f] = @ - 1]
    /\ other' = [other EXCEPT ![o] = [pc |-> "fetch", fb |-> f]]
    /\ UNCHANGED <<rows, stats, agent, checkpoint, batch, classifiedQ, grader, replay,
                   faults, history>>

\* FindByID; a row with an answer only needs its publish again.
OtherFetch(o) ==
    /\ other[o].pc = "fetch" /\ rows[other[o].fb].stored
    /\ other' = [other EXCEPT ![o].pc = IF rows[other[o].fb].llm THEN "publish" ELSE "resolve"]
    /\ UNCHANGED <<rows, stats, agent, checkpoint, batch, queues, grader, replay,
                   faults, history>>

\* FindByID fails with anything but ErrNoDocuments: "permanent", the message is
\* acknowledged.
OtherDrop(o) ==
    /\ other[o].pc = "fetch" /\ Fault
    /\ other' = [other EXCEPT ![o] = OtherIdle]
    /\ lost' = lost \cup {other[o].fb}
    /\ UNCHANGED <<rows, stats, agent, checkpoint, batch, queues, grader, replay,
                   clobbered, interfered, replayed, again, early>>

\* Mutant of OtherNack: the message is acknowledged.
OtherNackDrops(o) ==
    /\ other[o].pc \in {"resolve", "publish"} /\ Fault
    /\ other' = [other EXCEPT ![o] = OtherIdle]
    /\ UNCHANGED <<rows, stats, agent, checkpoint, batch, queues, grader, replay, history>>

\* The LLM is down, its answer cannot be written or cannot be published.
OtherNack(o) ==
    /\ other[o].pc \in {"resolve", "publish"} /\ Fault
    /\ othersQ' = [othersQ EXCEPT ![other[o].fb] = @ + 1]
    /\ other' = [other EXCEPT ![o] = OtherIdle]
    /\ UNCHANGED <<rows, stats, agent, checkpoint, batch, classifiedQ, grader, replay, history>>

\* resolveLLM: any category, "others" included, and an unconditional
\* UpdateFallback: another copy of the message may have been answered meanwhile.
OtherResolve(o) ==
    /\ other[o].pc = "resolve"
    /\ LET f == other[o].fb
       IN  /\ \E c \in Categories : rows' = [rows EXCEPT ![f].cat = c, ![f].llm = TRUE]
           /\ clobbered' = IF rows[f].llm \/ rows[f].graded THEN clobbered \cup {f}
                           ELSE clobbered
    /\ other' = [other EXCEPT ![o].pc = "publish"]
    /\ UNCHANGED <<stats, agent, checkpoint, batch, queues, grader, replay, faults,
                   lost, interfered, replayed, again, early>>

OtherPublish(o) ==
    /\ other[o].pc = "publish" /\ classifiedQ[other[o].fb] < MaxCopies
    /\ classifiedQ' = [classifiedQ EXCEPT ![other[o].fb] = @ + 1]
    /\ other' = [other EXCEPT ![o] = OtherIdle]
    /\ UNCHANGED <<rows, stats, agent, checkpoint, batch, othersQ, grader, replay,
                   faults, history>>

\* The process dies; the broker puts its deliveries back.
OtherCrash ==
    /\ \E o \in Others : other[o].pc # "idle"
    /\ Fault
    /\ othersQ' = [f \in Feedbacks |->
           othersQ[f] + Cardinality({o \in Others : other[o].pc # "idle" /\ other[o].fb = f})]
    /\ other' = [o \in Others |-> OtherIdle]
    /\ UNCHANGED <<rows, stats, agent, checkpoint, batch, classifiedQ, grader, replay, history>>

-------------------------------------------------------------------------------
(* feedback-grader: handle and applyQuality.                                   *)

\* lockFor's mutex: from the read of the stats to the end of applyQuality.
Locked(g) == grader[g].pc \in {"write", "sync"}
\* g has found f ungraded and will count it, or has counted it.
PastGuard(g, f) == grader[g].pc \notin {"idle", "fetch"} /\ grader[g].fb = f
Incremented(g) == grader[g].pc \in {"sync", "verdict"} /\ grader[g].seen.mass[grader[g].fb] > 0
\* Once more: the next delivery of f passes the guard although f was counted.
OnceMore(fs) == [f \in Feedbacks |-> IF f \in fs THEN again[f] + 1 ELSE again[f]]

GradeTake(g, f) ==
    /\ grader[g].pc = "idle" /\ classifiedQ[f] > 0
    /\ classifiedQ' = [classifiedQ EXCEPT ![f] = @ - 1]
    /\ grader' = [grader EXCEPT ![g] = [GraderIdle EXCEPT !.pc = "fetch", !.fb = f]]
    /\ UNCHANGED <<rows, stats, agent, checkpoint, batch, othersQ, other, replay,
                   faults, history>>

\* Mutant of GradeFetch: the verdict is written first.
GradeFetchVerdictFirst(g) ==
    /\ grader[g].pc = "fetch"
    /\ LET row == rows[grader[g].fb]
       IN  /\ row.stored
           /\ \/ /\ row.graded \/ row.revoked
                 /\ grader' = [grader EXCEPT ![g] = GraderIdle]
                 /\ UNCHANGED rows
              \/ /\ ~row.graded /\ ~row.revoked
                 /\ grader' = [grader EXCEPT
                        ![g].pc = IF row.cat = "quality" THEN "total" ELSE "verdict"]
                 /\ rows' = [rows EXCEPT ![grader[g].fb] = Grade(@)]
    /\ UNCHANGED <<stats, agent, checkpoint, batch, queues, other, replay, faults, history>>

\* Mutant of GradeFetch: no graded guard.
GradeFetchUnguarded(g) ==
    /\ grader[g].pc = "fetch"
    /\ LET row == rows[grader[g].fb]
       IN  /\ row.stored
           /\ grader' = [grader EXCEPT
                  ![g].pc = IF row.cat = "quality" THEN "total" ELSE "verdict"]
    /\ UNCHANGED <<rows, stats, agent, checkpoint, batch, queues, other, replay,
                   faults, history>>

\* FindByID and the two guards; only quality rows go through applyQuality. A copy
\* in another goroutine may have passed the guard and not graded the row yet.
GradeFetch(g) ==
    /\ grader[g].pc = "fetch"
    /\ LET f == grader[g].fb
           row == rows[f]
       IN  /\ row.stored
           /\ \/ /\ row.graded \/ row.revoked
                 /\ grader' = [grader EXCEPT ![g] = GraderIdle]
                 /\ UNCHANGED again
              \/ /\ ~row.graded /\ ~row.revoked
                 /\ grader' = [grader EXCEPT
                        ![g].pc = IF row.cat = "quality" THEN "total" ELSE "verdict"]
                 /\ again' = OnceMore({k \in {f} : \E h \in Graders : PastGuard(h, k)})
    /\ UNCHANGED <<rows, stats, agent, checkpoint, batch, queues, other, replay,
                   faults, lost, clobbered, interfered, replayed, early>>

\* The agent's totalFeedbacks, read before the lock; 0 when the read fails.
GradeTotal(g) ==
    /\ grader[g].pc = "total"
    /\ \/ grader' = [grader EXCEPT ![g].pc = "lock", ![g].total = agent.total]
          /\ UNCHANGED faults
       \/ grader' = [grader EXCEPT ![g].pc = "lock"] /\ Fault
    /\ UNCHANGED <<rows, stats, agent, checkpoint, batch, queues, other, replay, history>>

\* Mutant of GradeRead: no lock.
GradeReadUnlocked(g) ==
    /\ grader[g].pc = "lock"
    /\ grader' = [grader EXCEPT ![g].pc = "write", ![g].seen = stats]
    /\ interfered' = interfered \ {g}
    /\ UNCHANGED <<rows, stats, agent, checkpoint, batch, queues, other, replay,
                   faults, lost, clobbered, replayed, again, early>>

GradeRead(g) ==
    /\ grader[g].pc = "lock"
    /\ \A k \in Graders : ~Locked(k)
    /\ grader' = [grader EXCEPT ![g].pc = "write", ![g].seen = stats]
    /\ interfered' = interfered \ {g}
    /\ UNCHANGED <<rows, stats, agent, checkpoint, batch, queues, other, replay,
                   faults, lost, clobbered, replayed, again, early>>

\* UpsertFromWritePath: one increment on what was read. Without prior stats the
\* composite is not synced.
GradeWrite(g) ==
    /\ grader[g].pc = "write"
    /\ LET mass == [grader[g].seen.mass EXCEPT ![grader[g].fb] = @ + 1]
       IN  /\ stats' = [present |-> TRUE, mass |-> mass]
           /\ grader' = [grader EXCEPT
                  ![g].pc = IF grader[g].seen.present THEN "sync" ELSE "verdict",
                  ![g].seen.mass = mass]
    /\ UNCHANGED <<rows, agent, checkpoint, batch, queues, other, replay, faults, history>>

\* BulkUpdateScores: an error is logged.
GradeSync(g) ==
    /\ grader[g].pc = "sync"
    /\ \/ agent' = [scored |-> TRUE, composite |-> grader[g].seen.mass,
                    total |-> grader[g].total] /\ UNCHANGED faults
       \/ Fault /\ UNCHANGED agent
    /\ grader' = [grader EXCEPT ![g].pc = "verdict"]
    /\ UNCHANGED <<rows, stats, checkpoint, batch, queues, other, replay, history>>

\* UpdateWeighting, last.
GradeVerdict(g) ==
    /\ grader[g].pc = "verdict"
    /\ rows' = [rows EXCEPT ![grader[g].fb] = Grade(@)]
    /\ grader' = [grader EXCEPT ![g] = GraderIdle]
    /\ UNCHANGED <<stats, agent, checkpoint, batch, queues, other, replay, faults, history>>

\* Any failed call but the two that are tolerated: nack and requeue. If the
\* verdict is what failed, the row is counted and not graded.
GradeNack(g) ==
    /\ grader[g].pc \in {"fetch", "total", "lock", "write", "verdict"} /\ Fault
    /\ classifiedQ' = [classifiedQ EXCEPT ![grader[g].fb] = @ + 1]
    /\ again' = OnceMore({f \in {grader[g].fb} : Incremented(g)})
    /\ grader' = [grader EXCEPT ![g] = GraderIdle]
    /\ UNCHANGED <<rows, stats, agent, checkpoint, batch, othersQ, other, replay,
                   lost, clobbered, interfered, replayed, early>>

GraderCrash ==
    /\ \E g \in Graders : grader[g].pc # "idle"
    /\ Fault
    /\ classifiedQ' = [f \in Feedbacks |->
           classifiedQ[f] + Cardinality({g \in Graders : grader[g].pc # "idle" /\ grader[g].fb = f})]
    /\ again' = OnceMore({grader[g].fb : g \in {h \in Graders : Incremented(h)}})
    /\ grader' = [g \in Graders |-> GraderIdle]
    /\ UNCHANGED <<rows, stats, agent, checkpoint, batch, othersQ, other, replay,
                   lost, clobbered, interfered, replayed, early>>

-------------------------------------------------------------------------------
(* score-refresh: runCycle, from the cron and from the trigger consumer.       *)

\* ListByAgent; when it fails the agent is replayed as if it had no feedback.
ReplayList(r) ==
    /\ replay[r].pc = "idle"
    /\ \/ replay' = [replay EXCEPT ![r] = [pc |-> "stats", scored |-> Scored,
                         fills |-> Ungraded, total |-> Cardinality(Stored)]]
          /\ UNCHANGED faults
       \/ replay' = [replay EXCEPT ![r] = [ReplayIdle EXCEPT !.pc = "stats"]] /\ Fault
    /\ UNCHANGED <<rows, stats, agent, checkpoint, batch, queues, other, grader, history>>

\* The rows the live path has still to count.
ToCount == {f \in Feedbacks : ~rows[f].graded \/ \E g \in Graders : PastGuard(g, f) /\ ~Incremented(g)}

\* BulkUpsert replaces the stats document, with rows that are backfilled only
\* later. Here and below errors are logged and the cycle goes on.
ReplayStats(r) ==
    /\ replay[r].pc = "stats"
    /\ \/ /\ stats' = [present |-> TRUE, mass |-> MassOf(replay[r].scored)]
          /\ interfered' = interfered \cup {g \in Graders : grader[g].pc = "write"}
          /\ early' = early \cup (replay[r].scored \cap ToCount)
          /\ UNCHANGED faults
       \/ Fault /\ UNCHANGED <<stats, interfered, early>>
    /\ replayed' = TRUE
    /\ replay' = [replay EXCEPT ![r].pc = "sync"]
    /\ UNCHANGED <<rows, agent, checkpoint, batch, queues, other, grader, lost, clobbered, again>>

\* Mutant of ReplaySync: only the composite is written.
ReplaySyncKeepsTotal(r) ==
    /\ replay[r].pc = "sync"
    /\ \/ agent' = [scored |-> TRUE, composite |-> MassOf(replay[r].scored),
                    total |-> agent.total] /\ UNCHANGED faults
       \/ Fault /\ UNCHANGED agent
    /\ replay' = [replay EXCEPT ![r].pc = "backfill"]
    /\ UNCHANGED <<rows, stats, checkpoint, batch, queues, other, grader, history>>

ReplaySync(r) ==
    /\ replay[r].pc = "sync"
    /\ \/ agent' = [scored |-> TRUE, composite |-> MassOf(replay[r].scored),
                    total |-> replay[r].total] /\ UNCHANGED faults
       \/ Fault /\ UNCHANGED agent
    /\ replay' = [replay EXCEPT ![r].pc = "backfill"]
    /\ UNCHANGED <<rows, stats, checkpoint, batch, queues, other, grader, history>>

\* BulkBackfillGrades.
ReplayBackfill(r) ==
    /\ replay[r].pc = "backfill"
    /\ \/ rows' = [f \in Feedbacks |-> IF f \in replay[r].fills THEN Grade(rows[f])
                                       ELSE rows[f]] /\ UNCHANGED faults
       \/ Fault /\ UNCHANGED rows
    /\ replay' = [replay EXCEPT ![r] = ReplayIdle]
    /\ UNCHANGED <<stats, agent, checkpoint, batch, queues, other, grader, history>>

ReplayCrash ==
    /\ \E r \in Replayers : replay[r].pc # "idle"
    /\ Fault
    /\ replay' = [r \in Replayers |-> ReplayIdle]
    /\ UNCHANGED <<rows, stats, agent, checkpoint, batch, queues, other, grader, history>>

-------------------------------------------------------------------------------

BatchStep ==
    \/ BatchStart \/ BatchDone \/ BatchAbort \/ BatchAgents \/ BatchFilter
    \/ BatchUpsert \/ BatchGuard \/ BatchUpdate \/ BatchSave
    \/ \E last \in 1 .. NumEvents : BatchList(last)
    \/ \E f \in Feedbacks : BatchPublish(f)

OtherStep(o) ==
    \/ OtherFetch(o) \/ OtherDrop(o) \/ OtherNack(o) \/ OtherResolve(o) \/ OtherPublish(o)
    \/ \E f \in Feedbacks : OtherTake(o, f)

GradeStep(g) ==
    \/ GradeFetch(g) \/ GradeTotal(g) \/ GradeRead(g) \/ GradeWrite(g) \/ GradeSync(g)
    \/ GradeVerdict(g) \/ GradeNack(g)
    \/ \E f \in Feedbacks : GradeTake(g, f)

ReplayStep(r) == ReplayList(r) \/ ReplayStats(r) \/ ReplaySync(r) \/ ReplayBackfill(r)

Next ==
    \/ BatchStep
    \/ \E o \in Others : OtherStep(o)
    \/ \E g \in Graders : GradeStep(g)
    \/ \E r \in Replayers : ReplayStep(r)
    \/ OtherCrash \/ GraderCrash \/ ReplayCrash

Spec == Init /\ [][Next]_vars

\* TrustRank's ticker and score-refresh's cron fire for ever, the broker
\* delivers what is ready, and a goroutine that holds a delivery runs on.
Fairness ==
    /\ WF_vars(BatchStep)
    /\ \A o \in Others : WF_vars(OtherStep(o))
    /\ \A g \in Graders : WF_vars(GradeStep(g))
    /\ \A r \in Replayers : WF_vars(ReplayStep(r))

FairSpec == Spec /\ Fairness

-------------------------------------------------------------------------------
(* Properties.                                                                 *)

Mass == [Feedbacks -> Nat]
Row == [stored : BOOLEAN, cat : Categories, llm : BOOLEAN, graded : BOOLEAN,
        weighted : BOOLEAN, revoked : BOOLEAN]
Stats == [present : BOOLEAN, mass : Mass]
Agent == [scored : BOOLEAN, composite : Mass, total : Nat]
Batch == [pc : {"idle", "list", "agents", "filter", "upsert", "guard", "publish", "save"},
          after : 0 .. NumEvents, end : 0 .. NumEvents, todo : SUBSET Feedbacks,
          agent : Agent]
Other == [pc : {"idle", "fetch", "resolve", "publish"}, fb : Feedbacks]
Grader == [pc : {"idle", "fetch", "total", "lock", "write", "sync", "verdict"},
           fb : Feedbacks, total : Nat, seen : Stats]
Replay == [pc : {"idle", "stats", "sync", "backfill"}, scored : SUBSET Feedbacks,
           fills : SUBSET Feedbacks, total : Nat]

\* Every variable keeps its type.
TypeOK ==
    /\ rows \in [Feedbacks -> Row] /\ stats \in Stats /\ agent \in Agent
    /\ checkpoint \in 0 .. NumEvents /\ batch \in Batch
    /\ othersQ \in Mass /\ classifiedQ \in Mass
    /\ other \in [Others -> Other] /\ grader \in [Graders -> Grader]
    /\ replay \in [Replayers -> Replay]
    /\ faults \in Nat
    /\ lost \subseteq Feedbacks /\ clobbered \subseteq Feedbacks
    /\ interfered \subseteq Graders /\ replayed \in BOOLEAN
    /\ again \in Mass /\ early \subseteq Feedbacks

\* A message never runs ahead of its row, so FindByID's ErrNoDocuments branch
\* ("publish raced the write") has nothing to retry.
MessageHasRow ==
    \A f \in Feedbacks :
        \/ othersQ[f] > 0 \/ classifiedQ[f] > 0
        \/ \E o \in Others : other[o].pc # "idle" /\ other[o].fb = f
        \/ \E g \in Graders : grader[g].pc # "idle" /\ grader[g].fb = f
        => rows[f].stored

\* lockFor serialises the read-modify-write of the stats: what a grader is about
\* to increment is what is stored, unless a replay came in between.
NoLostIncrement ==
    \A g \in Graders :
        grader[g].pc = "write" /\ g \notin interfered => grader[g].seen = stats

\* "verdict-LAST": whatever fails between the increment and the verdict, a graded
\* quality row is in the mass (until a replay rebuilds it, and unless the row was
\* written over).
GradedIsCounted ==
    \A f \in Feedbacks :
        rows[f].graded /\ rows[f].cat = "quality" /\ f \notin clobbered /\ ~replayed
            => stats.mass[f] > 0

\* The graded guard holds redelivery off: however often a message is delivered,
\* and whatever fails or is replayed, a row is in the mass once, and once more only
\* for a copy that passed the guard while another was past it, for an increment
\* whose verdict was lost (handler.go: "can, on requeue, double-apply one
\* increment"), and for one replay that counted it before the live path did.
NoDoubleCount ==
    \A f \in Feedbacks : stats.mass[f] <= 1 + again[f] + (IF f \in early THEN 1 ELSE 0)

\* "the authoritative score-refresh replay recomputes A/B from scratch each
\* cycle, healing any drift": after the last event the mass, the composite and
\* the count end up exact whatever raced or failed before.
DriftHealed ==
    <>[](/\ stats.mass = MassOf(Scored)
         /\ agent.composite = MassOf(Scored)
         /\ agent.total = Cardinality(Stored))

\* Every row the rules left undecided is answered by the LLM in the end, except
\* those whose message was lost and those written over.
OthersAnswered ==
    <>[](\A f \in Stored : RuleCategory[f] = "others" =>
            rows[f].llm \/ f \in lost \cup clobbered)

===============================================================================
