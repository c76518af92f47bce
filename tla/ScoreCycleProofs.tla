----------------------------- MODULE ScoreCycleProofs ----------------------------
(* A score loses a stored row only to a reading from before the row, for any   *)
(* agents, pages, chains, cycles, graders, registrations, feedback, revocations *)
(* and failures.                                                               *)
EXTENDS ScoreCycle, TLAPS

RowsOf(a) == {r \in Rows : AgentOf[r] = a}

\* The parts of the state the argument is about.
ShapeOK ==
    /\ rows \subseteq Rows
    /\ DOMAIN cycles = Runners
    /\ DOMAIN stats = Agents
    /\ \A x \in Runners : DOMAIN cycles[x] = DOMAIN Idle

\* A score has rows of its own agent only, and so has what a grader is adding to.
OwnRows ==
    /\ \A a \in Agents : stats[a] \subseteq RowsOf(a)
    /\ \A x \in Runners : At(x, "write") =>
          \A a \in Agents : cycles[x].history[a] \subseteq RowsOf(a)
    /\ \A k \in grading : k.row \in Rows /\ k.seen \subseteq RowsOf(AgentOf[k.row])

\* What a cycle is about to write has every row of the agents it could read that was
\* stored then.
ReadCovers ==
    \A x \in Runners : At(x, "write") =>
        \A a \in Agents : a \in cycles[x].page \ cycles[x].failed =>
            RowsOf(a) \cap cycles[x].before \subseteq cycles[x].history[a]

CycleInv == ShapeOK /\ OwnRows /\ ReadCovers

-------------------------------------------------------------------------------
\* The record of a cycle.
LEMMA IdleShape ==
    /\ DOMAIN Idle = {"pc", "scope", "skip", "page", "history", "before", "failed", "fills",
                      "tally", "owners", "scan"}
    /\ Idle.pc = "idle"
BY DEF Idle

\* A tallied page leaves the record of a cycle that has nothing to write.
LEMMA TalliedShape ==
    ASSUME NEW c, DOMAIN c = DOMAIN Idle
    PROVE  DOMAIN Tallied(c) = DOMAIN Idle /\ Tallied(c).pc \in {"fill", "list"}
<1>1. PICK pc, skip, h, tally, owners :
        /\ Tallied(c) = [c EXCEPT !.pc = pc, !.skip = skip, !.page = {}, !.history = h, !.before = {},
                                  !.failed = {}, !.tally = tally, !.owners = owners]
        /\ pc \in {"fill", "list"}
  <2> DEFINE read == UNION {c.history[a] : a \in c.page}
             pc == IF Cardinality(c.page) < PageSize THEN "fill" ELSE "list"
             skip == c.skip + Cardinality(c.page)
             h == Idle.history
             tally == [w \in Wallets |-> Plus(c.tally[w], Counts({r \in read : ReviewerOf[r] = w}))]
             owners == [w \in Wallets |-> c.owners[w] \cup {a \in c.page : OwnerOf[a] = w /\ HasMass(c.history[a])}]
  <2>1. Tallied(c) = [c EXCEPT !.pc = pc, !.skip = skip, !.page = {}, !.history = h, !.before = {},
                               !.failed = {}, !.tally = tally, !.owners = owners]
    BY Zenon DEF Tallied
  <2>2. pc \in {"fill", "list"}
    OBVIOUS
  <2> HIDE DEF pc, skip, h, tally, owners
  <2> QED
    BY <2>1, <2>2
<1>0. DOMAIN c = {"pc", "scope", "skip", "page", "history", "before", "failed", "fills",
                  "tally", "owners", "scan"}
  BY IdleShape
<1>2. LET d == [c EXCEPT !.pc = pc, !.skip = skip, !.page = {}, !.history = h, !.before = {},
                         !.failed = {}, !.tally = tally, !.owners = owners]
      IN  DOMAIN d = DOMAIN c /\ d.pc = pc
  BY <1>0
<1> QED
  BY <1>1, <1>2

\* Init: no score, no cycle, no row.
LEMMA CycleInvInit == Init => CycleInv
<1> SUFFICES ASSUME Init PROVE CycleInv
  OBVIOUS
<1>1. \A x \in Runners : cycles[x] = Idle
  BY DEF Init
<1>2. ShapeOK
  BY <1>1 DEF Init, ShapeOK
<1>3. OwnRows /\ ReadCovers
  BY <1>1, IdleShape DEF Init, OwnRows, ReadCovers, At
<1> QED
  BY <1>2, <1>3 DEF CycleInv

\* A step that leaves the cycles and the scores alone.
LEMMA WorldStep ==
    ASSUME CycleInv, UNCHANGED <<stats, cycles>>, rows' \subseteq Rows,
           \A k \in grading' : k \in grading
               \/ (k.row \in Rows /\ k.seen = stats[AgentOf[k.row]] /\ AgentOf[k.row] \in Agents)
    PROVE  CycleInv'
<1>1. ShapeOK' /\ ReadCovers'
  BY DEF CycleInv, ShapeOK, ReadCovers, At
<1>2. OwnRows'
  <2>1. \A k \in grading' : k.row \in Rows /\ k.seen \subseteq RowsOf(AgentOf[k.row])
    BY DEF CycleInv, OwnRows
  <2> QED
    BY <2>1 DEF CycleInv, OwnRows, At
<1> QED
  BY <1>1, <1>2 DEF CycleInv

\* The step of one cycle that does not come to "write": scores stay as they are or
\* become what the cycle held.
LEMMA QuietStep ==
    ASSUME CycleInv, NEW x \in Runners, NEW c,
           cycles' = [cycles EXCEPT ![x] = c], DOMAIN c = DOMAIN Idle, c.pc # "write",
           DOMAIN stats' = Agents, rows' = rows, grading' = grading,
           \A a \in Agents : \/ stats'[a] = stats[a]
                             \/ At(x, "write") /\ stats'[a] = cycles[x].history[a]
    PROVE  CycleInv'
<1>1. /\ DOMAIN cycles' = Runners /\ cycles'[x] = c
      /\ \A y \in Runners \ {x} : cycles'[y] = cycles[y]
  BY DEF CycleInv, ShapeOK
<1>2. \A y \in Runners : At(y, "write")' => y # x /\ At(y, "write") /\ cycles'[y] = cycles[y]
  BY <1>1 DEF At
<1>3. ShapeOK'
  BY <1>1 DEF CycleInv, ShapeOK
<1>4. OwnRows'
  <2>1. \A a \in Agents : stats'[a] \subseteq RowsOf(a)
    BY DEF CycleInv, OwnRows
  <2> QED
    BY <1>2, <2>1 DEF CycleInv, OwnRows
<1>5. ReadCovers'
  BY <1>2 DEF CycleInv, ReadCovers
<1> QED
  BY <1>3, <1>4, <1>5 DEF CycleInv

\* The page is read: all stored feedback of its agents, but for those whose read fails.
LEMMA ReadStep ==
    ASSUME CycleInv, NEW x \in Runners, ReadPage(x)
    PROVE  CycleInv'
<1>1. PICK failed, h, fills :
        /\ cycles' = [cycles EXCEPT ![x] = [cycles[x] EXCEPT !.pc = "write", !.before = rows,
                          !.failed = failed, !.history = h, !.fills = fills]]
        /\ h = [a \in Agents |-> IF a \in cycles[x].page \ failed THEN HistoryOf(a) ELSE {}]
  <2>1. PICK failed \in SUBSET cycles[x].page :
          LET h == [a \in Agents |-> IF a \in cycles[x].page \ failed THEN HistoryOf(a) ELSE {}]
              stale == {r \in Mass : AgentOf[r] \in cycles[x].page \ failed} \ graded
          IN  cycles' = [cycles EXCEPT ![x].pc = "write", ![x].before = rows, ![x].failed = failed,
                                       ![x].history = h, ![x].fills = @ \cup stale]
    BY DEF ReadPage
  <2> DEFINE h == [a \in Agents |-> IF a \in cycles[x].page \ failed THEN HistoryOf(a) ELSE {}]
             fills == cycles[x].fills \cup ({r \in Mass : AgentOf[r] \in cycles[x].page \ failed} \ graded)
  <2>2. cycles' = [cycles EXCEPT ![x] = [cycles[x] EXCEPT !.pc = "write", !.before = rows,
                          !.failed = failed, !.history = h, !.fills = fills]]
    BY <2>1 DEF CycleInv, ShapeOK
  <2>3. h = [a \in Agents |-> IF a \in cycles[x].page \ failed THEN HistoryOf(a) ELSE {}]
    OBVIOUS
  <2> HIDE DEF h, fills
  <2> QED
    BY <2>2, <2>3
<1> DEFINE c == [cycles[x] EXCEPT !.pc = "write", !.before = rows, !.failed = failed,
                                  !.history = h, !.fills = fills]
<1>2. /\ DOMAIN cycles' = Runners /\ cycles'[x] = c
      /\ \A y \in Runners \ {x} : cycles'[y] = cycles[y]
  BY <1>1 DEF CycleInv, ShapeOK
<1>3. /\ DOMAIN c = DOMAIN Idle /\ c.history = h /\ c.before = rows /\ c.failed = failed
      /\ c.page = cycles[x].page
  BY IdleShape DEF CycleInv, ShapeOK
<1> HIDE DEF c
<1>4. UNCHANGED <<stats, rows, grading>>
  BY DEF ReadPage, graders
<1>5. \A a \in Agents : h[a] \subseteq RowsOf(a)
  BY <1>1 DEF HistoryOf, RowsOf, CycleInv, ShapeOK
<1>6. \A a \in Agents : a \in c.page \ c.failed => RowsOf(a) \cap c.before \subseteq h[a]
  BY <1>1, <1>3 DEF HistoryOf, RowsOf
<1>7. ShapeOK'
  BY <1>2, <1>3, <1>4 DEF CycleInv, ShapeOK
<1>8. OwnRows'
  BY <1>2, <1>3, <1>4, <1>5 DEF CycleInv, OwnRows, At
<1>9. ReadCovers'
  BY <1>2, <1>3, <1>6 DEF CycleInv, ReadCovers, At
<1> QED
  BY <1>7, <1>8, <1>9 DEF CycleInv

\* Every step of a cycle keeps the invariant.
LEMMA CycleKept ==
    ASSUME CycleInv, NEW x \in Runners, CycleStep(x)
    PROVE  CycleInv'
<1> USE IdleShape DEF CycleInv, ShapeOK
<1>q. ASSUME UNCHANGED <<rows, grading>>, DOMAIN stats' = Agents,
             \A a \in Agents : \/ stats'[a] = stats[a]
                               \/ At(x, "write") /\ stats'[a] = cycles[x].history[a],
             NEW c, cycles' = [cycles EXCEPT ![x] = c], DOMAIN c = DOMAIN Idle, c.pc # "write"
      PROVE  CycleInv'
  BY <1>q, QuietStep
<1>0. \A pc : /\ DOMAIN [cycles[x] EXCEPT !.pc = pc] = DOMAIN Idle
              /\ [cycles[x] EXCEPT !.pc = pc].pc = pc
  OBVIOUS
<1>g. ASSUME UNCHANGED <<rows, grading, stats>>, NEW pc, Go(x, pc), pc # "write" PROVE CycleInv'
  <2>1. cycles' = [cycles EXCEPT ![x] = [cycles[x] EXCEPT !.pc = pc]]
    BY <1>g DEF Go
  <2> QED
    BY <1>0, <1>g, <1>q, <2>1
<1>e. ASSUME UNCHANGED <<rows, grading, stats>>, End(x) PROVE CycleInv'
  BY <1>e, <1>q DEF End
<1>1. CASE Begin(x)
  <2>1. PICK scope : cycles' = [cycles EXCEPT ![x] = [Idle EXCEPT !.pc = "list", !.scope = scope]]
    BY <1>1 DEF Begin
  <2> DEFINE c == [Idle EXCEPT !.pc = "list", !.scope = scope]
  <2>2. DOMAIN c = DOMAIN Idle /\ c.pc = "list"
    OBVIOUS
  <2> HIDE DEF c
  <2>3. cycles' = [cycles EXCEPT ![x] = c]
    BY <2>1 DEF c
  <2>4. UNCHANGED <<rows, grading, stats>>
    BY <1>1 DEF Begin, graders
  <2> QED
    BY <1>q, <2>2, <2>3, <2>4
<1>3. CASE ListPage(x)
  <2>u. UNCHANGED <<rows, grading, stats>>
    BY <1>3 DEF ListPage, graders
  <2>1. CASE cycles' = [cycles EXCEPT ![x].pc = "read", ![x].page = Page(cycles[x].scope, cycles[x].skip)]
    <3> DEFINE c == [cycles[x] EXCEPT !.pc = "read", !.page = Page(cycles[x].scope, cycles[x].skip)]
    <3>1. cycles' = [cycles EXCEPT ![x] = c]
      BY <2>1
    <3>2. DOMAIN c = DOMAIN Idle /\ c.pc = "read"
      OBVIOUS
    <3> HIDE DEF c
    <3> QED
      BY <1>q, <2>u, <3>1, <3>2
  <2>2. CASE Go(x, "fill")
    BY <1>g, <2>u, <2>2
  <2>3. CASE End(x)
    BY <1>e, <2>u, <2>3
  <2> QED
    BY <1>3, <2>1, <2>2, <2>3 DEF ListPage
<1>4. CASE ReadPage(x)
  BY <1>4, ReadStep
<1>5. CASE WritePage(x)
  <2> DEFINE c == Tallied(cycles[x])
  <2>1. DOMAIN c = DOMAIN Idle /\ c.pc \in {"fill", "list"}
    BY TalliedShape
  <2> HIDE DEF c
  <2>2. cycles' = [cycles EXCEPT ![x] = c] /\ UNCHANGED <<rows, grading>>
    BY <1>5 DEF WritePage, graders, c
  <2>3. /\ DOMAIN stats' = Agents
        /\ \A a \in Agents : \/ stats'[a] = stats[a]
                             \/ At(x, "write") /\ stats'[a] = cycles[x].history[a]
    BY <1>5 DEF WritePage
  <2> QED
    BY <1>q, <2>1, <2>2, <2>3
<1>6. CASE Backfill(x)
  <2> DEFINE c == [cycles[x] EXCEPT !.pc = "count", !.fills = {}]
  <2>1. cycles' = [cycles EXCEPT ![x] = c] /\ UNCHANGED <<rows, grading, stats>>
    BY <1>6 DEF Backfill
  <2>2. DOMAIN c = DOMAIN Idle /\ c.pc = "count"
    OBVIOUS
  <2> HIDE DEF c
  <2> QED
    BY <1>q, <2>1, <2>2
<1>7. CASE SetCounters(x)
  <2> DEFINE c == [cycles[x] EXCEPT !.pc = "scan", !.tally = NoTally]
  <2>1. cycles' = [cycles EXCEPT ![x] = c] /\ UNCHANGED <<rows, grading, stats>>
    BY <1>7 DEF SetCounters, graders
  <2>2. DOMAIN c = DOMAIN Idle /\ c.pc = "scan"
    OBVIOUS
  <2> HIDE DEF c
  <2> QED
    BY <1>q, <2>1, <2>2
<1>8. CASE ScanWallets(x)
  <2>u. UNCHANGED <<rows, grading, stats>>
    BY <1>8 DEF ScanWallets, graders
  <2>1. CASE cycles' = [cycles EXCEPT ![x].pc = "trust", ![x].scan = counters]
    <3> DEFINE c == [cycles[x] EXCEPT !.pc = "trust", !.scan = counters]
    <3>1. cycles' = [cycles EXCEPT ![x] = c]
      BY <2>1
    <3>2. DOMAIN c = DOMAIN Idle /\ c.pc = "trust"
      OBVIOUS
    <3> HIDE DEF c
    <3> QED
      BY <1>q, <2>u, <3>1, <3>2
  <2>2. CASE End(x)
    BY <1>e, <2>u, <2>2
  <2> QED
    BY <1>8, <2>1, <2>2 DEF ScanWallets
<1>9. CASE WriteTrust(x) \/ WriteUnrated(x)
  <2>u. UNCHANGED <<rows, grading, stats>>
    BY <1>9 DEF WriteTrust, WriteUnrated, graders
  <2>1. Go(x, "unrate") \/ End(x)
    BY <1>9 DEF WriteTrust, WriteUnrated
  <2> QED
    BY <1>e, <1>g, <2>u, <2>1
<1> QED
  BY <1>1, <1>3, <1>4, <1>5, <1>6, <1>7, <1>8, <1>9 DEF CycleStep

\* A grader writes back what it has read with a row of the same agent.
LEMMA GradeKept ==
    ASSUME CycleInv, NEW k \in grading, GradeWrite(k)
    PROVE  CycleInv'
<1>1. /\ stats' = [stats EXCEPT ![AgentOf[k.row]] = k.seen \cup {k.row}]
      /\ grading' = grading \ {k} /\ UNCHANGED <<rows, cycles>>
  BY DEF GradeWrite
<1>2. k.row \in Rows /\ k.seen \cup {k.row} \subseteq RowsOf(AgentOf[k.row])
  BY DEF CycleInv, OwnRows, RowsOf
<1>3. \A a \in Agents : stats'[a] \subseteq RowsOf(a)
  BY <1>1, <1>2 DEF CycleInv, ShapeOK, OwnRows
<1>4. ShapeOK' /\ ReadCovers'
  BY <1>1 DEF CycleInv, ShapeOK, ReadCovers, At
<1>5. OwnRows'
  BY <1>1, <1>3 DEF CycleInv, OwnRows, At
<1> QED
  BY <1>4, <1>5 DEF CycleInv

\* The worker dies: every cycle is gone.
LEMMA CrashKept ==
    ASSUME CycleInv, Crash
    PROVE  CycleInv'
<1>1. cycles' = [x \in Runners |-> Idle] /\ UNCHANGED <<stats, rows, grading>>
  BY DEF Crash, graders
<1> QED
  BY <1>1, IdleShape DEF CycleInv, ShapeOK, OwnRows, ReadCovers, At

\* Every step of a cycle, of a grader and of the world around them keeps CycleInv.
LEMMA CycleInvStep == CycleInv /\ [Next]_vars => CycleInv'
<1> SUFFICES ASSUME CycleInv, [Next]_vars PROVE CycleInv'
  OBVIOUS
<1>0. rows \subseteq Rows
  BY DEF CycleInv, ShapeOK
<1>1. CASE \E a \in Agents : Register(a)
  BY <1>0, <1>1, WorldStep DEF Register, graders
<1>2. ASSUME NEW r \in Rows, GiveFeedback(r) \/ Revoke(r) PROVE CycleInv'
  BY <1>0, <1>2, WorldStep DEF GiveFeedback, Revoke, graders
<1>3. ASSUME NEW r \in Rows, GradeRead(r) PROVE CycleInv'
  <2>1. /\ grading' = grading \cup {[row |-> r, seen |-> stats[AgentOf[r]]]}
        /\ UNCHANGED <<stats, cycles, rows>>
    BY <1>3 DEF GradeRead
  <2>2. AgentOf[r] \in Agents
    BY ParamsAssumption
  <2> QED
    BY <1>0, <2>1, <2>2, WorldStep
<1>4. CASE \E s \in Scopes : TriggerRecompute(s)
  BY <1>0, <1>4, WorldStep DEF TriggerRecompute, graders
<1>5. ASSUME NEW x \in Runners, CycleStep(x) PROVE CycleInv'
  BY <1>5, CycleKept
<1>6. CASE Crash
  BY <1>6, CrashKept
<1>7. CASE UNCHANGED vars
  BY <1>0, <1>7, WorldStep DEF vars
<1>8. ASSUME NEW k \in grading, GradeNack(k) PROVE CycleInv'
  BY <1>0, <1>8, WorldStep DEF GradeNack
<1> QED
  BY <1>1, <1>2, <1>3, <1>4, <1>5, <1>6, <1>7, <1>8, GradeKept DEF Next

\* A row that a step takes from a score was not in the reading the writer held.
LEMMA LossExplained ==
    ASSUME CycleInv, Next, NEW a \in Agents, NEW r \in (stats[a] \cap rows) \ stats'[a]
    PROVE  \/ \E x \in Runners : OldReading(x, a, r)
           \/ \E k \in grading : AgentOf[k.row] = a /\ r \notin k.seen
<1>0. r \in RowsOf(a)
  BY DEF CycleInv, OwnRows
<1>1. ASSUME NEW x \in Runners, WritePage(x) PROVE OldReading(x, a, r)
  <2>1. At(x, "write") /\ a \in cycles[x].page /\ r \notin cycles[x].history[a]
    BY <1>1 DEF WritePage
  <2> QED
    BY <1>0, <2>1 DEF CycleInv, ReadCovers, OldReading
<1>2. ASSUME NEW k \in grading, GradeWrite(k) PROVE AgentOf[k.row] = a /\ r \notin k.seen
  <2>1. stats' = [stats EXCEPT ![AgentOf[k.row]] = k.seen \cup {k.row}] /\ DOMAIN stats = Agents
    BY <1>2 DEF GradeWrite, CycleInv, ShapeOK
  <2> QED
    BY <2>1
<1>3. CASE UNCHANGED stats
  BY <1>3
<1> QED
  BY <1>1, <1>2, <1>3 DEF Next, CycleStep, Register, GiveFeedback, Revoke, GradeRead, GradeNack,
     TriggerRecompute, Begin, ListPage, ReadPage, Backfill, SetCounters, ScanWallets, WriteTrust,
     WriteUnrated, Crash

-------------------------------------------------------------------------------
\* However many cycles and graders hold readings of the same statistics, fail, die and
\* write over one another, a stored row leaves a score only with a reading from before
\* the row.
THEOREM NoScoreRegressHolds == Spec => NoScoreRegress
<1>1. CycleInv /\ [Next]_vars =>
        [\A a \in Agents : \A r \in (stats[a] \cap rows) \ stats'[a] :
            \/ \E x \in Runners : OldReading(x, a, r)
            \/ \E k \in grading : AgentOf[k.row] = a /\ r \notin k.seen]_vars
  BY LossExplained
<1> QED
  BY <1>1, CycleInvInit, CycleInvStep, PTL DEF Spec, NoScoreRegress

===============================================================================
