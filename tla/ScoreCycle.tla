------------------------------- MODULE ScoreCycle ------------------------------
(* The cycles of the score-refresh worker: a page of agents is listed, the     *)
(* history of each is replayed and its statistics replaced; at the end of a    *)
(* full cycle the verdicts of all reviewers are set on their wallets, and every *)
(* wallet in scope gets its trust from these counts and the agents it owns.    *)
(* A cron tick starts a full cycle whether or not the last one has ended, and  *)
(* an administrator's trigger starts one for a single chain beside it, while   *)
(* agents and feedback keep arriving and feedback-grader adds each new row to   *)
(* the same statistics.                                                        *)
EXTENDS Naturals, FiniteSets, Sequences, SequencesExt

CONSTANTS Order,        \* all agents in the order of their _id
          ChainOf,      \* the chain of an agent
          OwnerOf,      \* the wallet that owns an agent
          Late,         \* agents registered after the first cycle has started
          Rows,         \* feedback
          AgentOf,      \* the agent of a row
          ReviewerOf,   \* the wallet that gave it
          Junk,         \* rows whose grade is gated (self, junk, missing fields)
          Wallets,
          WalletChain,
          External,     \* wallets with an external score
          Ticks,        \* runners of full cycles: ticks overlap when one is late
          PageSize,
          Scopes,       \* scopes an administrator asks for
          MaxTriggers,  \* bound: administrator's recompute requests
          MaxRevokes,   \* bound: revoked rows
          MaxFaults     \* bound: failed reads and writes, crashes

Trigger == "trigger"    \* the runner of consumeTriggers
Runners == Ticks \cup {Trigger}
Agents == ToSet(Order)
Chains == {ChainOf[a] : a \in Agents}
All == "all"            \* chainID = 0

ASSUME ParamsAssumption ==
    /\ ChainOf \in [Agents -> Chains] /\ OwnerOf \in [Agents -> Wallets]
    /\ Late \subseteq Agents /\ Junk \subseteq Rows /\ External \subseteq Wallets
    /\ AgentOf \in [Rows -> Agents] /\ ReviewerOf \in [Rows -> Wallets]
    /\ WalletChain \in [Wallets -> Chains]
    /\ Scopes \subseteq Chains \cup {All} /\ Trigger \notin Ticks /\ All \notin Chains
    /\ PageSize \in Nat \ {0} /\ MaxTriggers \in Nat /\ MaxRevokes \in Nat /\ MaxFaults \in Nat

VARIABLES agents,       \* registered agents
          rows,         \* stored feedback that is not revoked
          revoked,
          graded,       \* rows with mass whose verdict is stored
          grading,      \* rows a grader is adding, with the statistics it has read
          stats,        \* agent_score_stats: the rows an agent's score was computed from
          counters,     \* verdict counts on the wallets
          trust,        \* what a wallet's trust was computed from
          cycles,       \* cycle of each runner
          queue,        \* scopes of the waiting triggers
          requests,     \* triggers sent
          faults

graders == <<graded, grading>>
vars == <<agents, rows, revoked, graded, grading, stats, counters, trust, cycles, queue, requests, faults>>

Fault == faults < MaxFaults /\ faults' = faults + 1
NoCount == [valid |-> 0, junk |-> 0]
NoTally == [w \in Wallets |-> NoCount]
Unrated == [rated |-> FALSE, count |-> NoCount, owns |-> {}]
\* before, failed: history, the rows stored when the page was read and the agents whose
\* read failed.
Idle == [pc |-> "idle", scope |-> All, skip |-> 0, page |-> {}, history |-> [a \in Agents |-> {}],
         before |-> {}, failed |-> {}, fills |-> {}, tally |-> NoTally, owners |-> [w \in Wallets |-> {}], scan |-> NoTally]

-------------------------------------------------------------------------------
(* Pure parts.                                                                 *)

HistoryOf(a) == {r \in rows : AgentOf[r] = a}
Mass == rows \ Junk     \* the rows a grader adds
Counts(rs) == [valid |-> Cardinality(rs \ Junk), junk |-> Cardinality(rs \cap Junk)]
TallyOf(w) == Counts({r \in rows : ReviewerOf[r] = w})
Plus(c, d) == [valid |-> c.valid + d.valid, junk |-> c.junk + d.junk]
InScope(chain, scope) == scope \in {All, chain}
\* FindAllFiltered: sorted by _id, with skip and limit.
Listing(scope) == SelectSeq(Order, LAMBDA a : a \in agents /\ InScope(ChainOf[a], scope))
Page(scope, skip) == LET l == Listing(scope) IN
    {l[i] : i \in {j \in 1..Len(l) : j > skip /\ j <= skip + PageSize}}
\* replayAgent: mass comes from rows that are not gated.
HasMass(rs) == rs \ Junk # {}
Evidence(w, count, owns) == count.valid + count.junk > 0 \/ w \in External \/ owns # {}

-------------------------------------------------------------------------------
(* The world around the worker.                                                *)

Register(a) == /\ a \in Late \ agents
               /\ agents' = agents \cup {a}
               /\ UNCHANGED <<rows, revoked, graders, stats, counters, trust, cycles, queue, requests, faults>>
GiveFeedback(r) == /\ r \notin rows \cup revoked /\ AgentOf[r] \in agents
                   /\ rows' = rows \cup {r}
                   /\ UNCHANGED <<agents, revoked, graders, stats, counters, trust, cycles, queue, requests, faults>>
Revoke(r) == /\ r \in rows /\ Cardinality(revoked) < MaxRevokes
             /\ rows' = rows \ {r} /\ revoked' = revoked \cup {r}
             /\ UNCHANGED <<agents, graders, stats, counters, trust, cycles, queue, requests, faults>>
\* TriggerRecompute, StartSimulator: the request is queued for one chain or all.
TriggerRecompute(scope) ==
    /\ requests < MaxTriggers
    /\ requests' = requests + 1
    /\ queue' = Append(queue, scope)
    /\ UNCHANGED <<agents, rows, revoked, graders, stats, counters, trust, cycles, faults>>

\* feedback-grader under the agent's lock: it reads the statistics, writes them back with
\* one row more and stores the verdict, which keeps a second delivery off.
GradeRead(r) ==
    /\ r \in Mass \ graded
    /\ \A k \in grading : AgentOf[k.row] # AgentOf[r]
    /\ grading' = grading \cup {[row |-> r, seen |-> stats[AgentOf[r]]]}
    /\ UNCHANGED <<agents, rows, revoked, graded, stats, counters, trust, cycles, queue, requests, faults>>
GradeWrite(k) ==
    /\ stats' = [stats EXCEPT ![AgentOf[k.row]] = k.seen \cup {k.row}]
    /\ graded' = graded \cup {k.row} /\ grading' = grading \ {k}
    /\ UNCHANGED <<agents, rows, revoked, counters, trust, cycles, queue, requests, faults>>
\* The delivery is given back.
GradeNack(k) ==
    /\ Fault /\ grading' = grading \ {k}
    /\ UNCHANGED <<agents, rows, revoked, graded, stats, counters, trust, cycles, queue, requests>>

-------------------------------------------------------------------------------
(* One cycle.                                                                  *)

At(x, where) == cycles[x].pc = where
Go(x, where) == cycles' = [cycles EXCEPT ![x].pc = where]
\* Ends the cycle; the trigger consumer acknowledges its message then.
End(x) == /\ cycles' = [cycles EXCEPT ![x] = Idle]
          /\ queue' = IF x = Trigger THEN Tail(queue) ELSE queue

Begin(x) ==
    /\ At(x, "idle") /\ (x = Trigger => queue # <<>>)
    /\ LET scope == IF x = Trigger THEN Head(queue) ELSE All IN
       cycles' = [cycles EXCEPT ![x] = [Idle EXCEPT !.pc = "list", !.scope = scope]]
    /\ UNCHANGED <<agents, rows, revoked, graders, stats, counters, trust, queue, requests, faults>>

ListPage(x) ==
    /\ At(x, "list")
    /\ LET page == Page(cycles[x].scope, cycles[x].skip) IN
       \/ /\ page # {}
          /\ cycles' = [cycles EXCEPT ![x].pc = "read", ![x].page = page]
          /\ UNCHANGED <<queue, faults>>
       \/ /\ page = {}
          /\ Go(x, "fill")
          /\ UNCHANGED <<queue, faults>>
       \/ Fault /\ End(x)
    /\ UNCHANGED <<agents, rows, revoked, graders, stats, counters, trust, requests>>

\* ListByAgent for each agent of the page; where it fails the agent is replayed
\* without feedback.  Rows without a verdict get theirs at the end of the cycle.
ReadPage(x) ==
    /\ At(x, "read")
    /\ \E failed \in SUBSET cycles[x].page :
         /\ Cardinality(failed) <= 1
         /\ IF failed = {} THEN UNCHANGED faults ELSE Fault
         /\ LET h == [a \in Agents |-> IF a \in cycles[x].page \ failed THEN HistoryOf(a) ELSE {}]
                stale == {r \in Mass : AgentOf[r] \in cycles[x].page \ failed} \ graded
            IN  cycles' = [cycles EXCEPT ![x].pc = "write", ![x].before = rows, ![x].failed = failed,
                                         ![x].history = h, ![x].fills = @ \cup stale]
    /\ UNCHANGED <<agents, rows, revoked, graders, stats, counters, trust, queue, requests>>

\* Mutant of Tallied: the owners keep the agents of the last page only.
MutTallied(c) ==
    LET read == UNION {c.history[a] : a \in c.page} IN
    [c EXCEPT !.pc = IF Cardinality(c.page) < PageSize THEN "fill" ELSE "list",
              !.skip = @ + Cardinality(c.page), !.page = {}, !.history = Idle.history,
              !.before = {}, !.failed = {},
              !.tally = [w \in Wallets |-> Plus(@[w], Counts({r \in read : ReviewerOf[r] = w}))],
              !.owners = [w \in Wallets |-> {a \in c.page : OwnerOf[a] = w /\ HasMass(c.history[a])}]]

\* The page's part of the cycle: verdicts of the reviewers, agents of the owners.
Tallied(c) ==
    LET read == UNION {c.history[a] : a \in c.page} IN
    [c EXCEPT !.pc = IF Cardinality(c.page) < PageSize THEN "fill" ELSE "list",
              !.skip = @ + Cardinality(c.page), !.page = {}, !.history = Idle.history,
              !.before = {}, !.failed = {},
              !.tally = [w \in Wallets |-> Plus(@[w], Counts({r \in read : ReviewerOf[r] = w}))],
              !.owners = [w \in Wallets |-> @[w] \cup {a \in c.page : OwnerOf[a] = w /\ HasMass(c.history[a])}]]

\* Mutant of WritePage: the collection is replaced, not the page.
MutWritePage(x) ==
    /\ At(x, "write")
    /\ stats' = cycles[x].history
    /\ cycles' = [cycles EXCEPT ![x] = Tallied(@)]
    /\ UNCHANGED <<agents, rows, revoked, graders, counters, trust, queue, requests, faults>>

\* BulkUpsert replaces the statistics of the page; its error is only logged.
WritePage(x) ==
    /\ At(x, "write")
    /\ LET c == cycles[x] IN
       /\ \/ stats' = [a \in Agents |-> IF a \in c.page THEN c.history[a] ELSE stats[a]] /\ UNCHANGED faults
          \/ Fault /\ UNCHANGED stats
       /\ cycles' = [cycles EXCEPT ![x] = Tallied(c)]
    /\ UNCHANGED <<agents, rows, revoked, graders, counters, trust, queue, requests>>

\* BulkBackfillGrades: the verdicts of the rows the cycle has replayed.
Backfill(x) ==
    /\ At(x, "fill")
    /\ \/ graded' = graded \cup cycles[x].fills /\ UNCHANGED faults
       \/ Fault /\ UNCHANGED graded
    /\ cycles' = [cycles EXCEPT ![x].pc = "count", ![x].fills = {}]
    /\ UNCHANGED <<agents, rows, revoked, grading, stats, counters, trust, queue, requests>>

\* feedbackCountersForCycle: a scoped cycle has not seen every verdict.
SetsCounters(scope) == scope = All

\* BulkSetFeedbackCounters sets the wallets that are in the tally.
SetCounters(x) ==
    /\ At(x, "count")
    /\ \/ /\ SetsCounters(cycles[x].scope)
          /\ counters' = [w \in Wallets |-> IF cycles[x].tally[w] = NoCount THEN counters[w]
                                            ELSE cycles[x].tally[w]]
          /\ UNCHANGED faults
       \/ /\ SetsCounters(cycles[x].scope) => Fault
          /\ ~SetsCounters(cycles[x].scope) => UNCHANGED faults
          /\ UNCHANGED counters
    /\ cycles' = [cycles EXCEPT ![x].pc = "scan", ![x].tally = NoTally]
    /\ UNCHANGED <<agents, rows, revoked, graders, stats, trust, queue, requests>>

\* ScanAll.
ScanWallets(x) ==
    /\ At(x, "scan")
    /\ \/ /\ cycles' = [cycles EXCEPT ![x].pc = "trust", ![x].scan = counters]
          /\ UNCHANGED <<queue, faults>>
       \/ Fault /\ End(x)
    /\ UNCHANGED <<agents, rows, revoked, graders, stats, counters, trust, requests>>

InReach(w, c) == InScope(WalletChain[w], c.scope)

\* BulkSetTrustScore, then BulkSetUnrated; the first error ends the cycle.
WriteTrust(x) ==
    /\ At(x, "trust")
    /\ LET c == cycles[x] IN
       \/ /\ trust' = [w \in Wallets |->
                IF InReach(w, c) /\ Evidence(w, c.scan[w], c.owners[w])
                THEN [rated |-> TRUE, count |-> c.scan[w], owns |-> c.owners[w]] ELSE trust[w]]
          /\ Go(x, "unrate")
          /\ UNCHANGED <<queue, faults>>
       \/ Fault /\ End(x) /\ UNCHANGED trust
    /\ UNCHANGED <<agents, rows, revoked, graders, stats, counters, requests>>
WriteUnrated(x) ==
    /\ At(x, "unrate")
    /\ LET c == cycles[x] IN
       \/ /\ trust' = [w \in Wallets |->
                IF InReach(w, c) /\ ~Evidence(w, c.scan[w], c.owners[w]) THEN Unrated ELSE trust[w]]
          /\ UNCHANGED faults
       \/ Fault /\ UNCHANGED trust
    /\ End(x)
    /\ UNCHANGED <<agents, rows, revoked, graders, stats, counters, requests>>

\* The worker dies and is started again: an unacknowledged trigger comes back.
Crash ==
    /\ Fault /\ \E x \in Runners : ~At(x, "idle")
    /\ cycles' = [x \in Runners |-> Idle]
    /\ UNCHANGED <<agents, rows, revoked, graders, stats, counters, trust, queue, requests>>

Init == /\ agents = Agents \ Late
        /\ rows = {} /\ revoked = {}
        /\ graded = {} /\ grading = {}
        /\ stats = [a \in Agents |-> {}]
        /\ counters = NoTally
        /\ trust = [w \in Wallets |-> Unrated]
        /\ cycles = [x \in Runners |-> Idle]
        /\ queue = <<>> /\ requests = 0 /\ faults = 0

CycleStep(x) == Begin(x) \/ ListPage(x) \/ ReadPage(x) \/ WritePage(x) \/ Backfill(x)
                \/ SetCounters(x) \/ ScanWallets(x) \/ WriteTrust(x) \/ WriteUnrated(x)
Next == \/ \E a \in Agents : Register(a)
        \/ \E r \in Rows : GiveFeedback(r) \/ Revoke(r) \/ GradeRead(r)
        \/ \E k \in grading : GradeWrite(k) \/ GradeNack(k)
        \/ \E s \in Scopes : TriggerRecompute(s)
        \/ \E x \in Runners : CycleStep(x)
        \/ Crash
Spec == Init /\ [][Next]_vars

\* The cron schedule and the trigger consumer never stop taking their next step.
Fairness == \A x \in Runners : WF_vars(CycleStep(x))
FairSpec == Spec /\ Fairness

-------------------------------------------------------------------------------
(* Properties.                                                                 *)

\* Whoever writes a score holds a reading of it, and between reading and writing rows
\* arrive and others write.  A score loses a row that is still stored only to a reading
\* from before: a cycle that read the agent's history before the row came, or could not
\* read it, or a grader that read the statistics before the row was in them.  No page
\* that has shifted, no scope, no crash and no revocation takes it.
OldReading(x, a, r) ==
    At(x, "write") /\ a \in cycles[x].page /\ (r \notin cycles[x].before \/ a \in cycles[x].failed)
NoScoreRegress ==
    [][\A a \in Agents : \A r \in (stats[a] \cap rows) \ stats'[a] :
          \/ \E x \in Runners : OldReading(x, a, r)
          \/ \E k \in grading : AgentOf[k.row] = a /\ r \notin k.seen]_vars

Settled(a) == stats[a] = HistoryOf(a)
Counted(w) == TallyOf(w) # NoCount => counters[w] = TallyOf(w)
OwnsOf(w) == {a \in agents : OwnerOf[a] = w /\ HasMass(HistoryOf(a))}
Trusted(w) ==
    trust[w] = IF Evidence(w, counters[w], OwnsOf(w))
               THEN [rated |-> TRUE, count |-> counters[w], owns |-> OwnsOf(w)] ELSE Unrated
\* Once registrations, feedback and failures stop, the cycles bring every score,
\* every reviewer's counts and every wallet's trust to what the stored feedback
\* says, however they have overlapped; a reviewer whose last row was revoked
\* keeps the counts of the past.
ScoresSettle == <>[]((\A a \in agents : Settled(a)) /\ \A w \in Wallets : Counted(w) /\ Trusted(w))

===============================================================================
