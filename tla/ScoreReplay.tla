------------------------------ MODULE ScoreReplay ------------------------------
(* The score of one agent. New feedback is graded live, one increment of the   *)
(* mass at a time (feedback-grader), while the score-refresh worker replays    *)
(* the whole history in one pass (scorerefresh/replay.go), stores the mass, the *)
(* snapshots of the three windows, the service scores and the grades that were *)
(* missing, and rates the wallets of the reviewers and the owner. Time is      *)
(* counted in half-lives of the mass.                                          *)
(* Here a replay is one step: what may happen between its reads and writes is   *)
(* in ScoreCycle and FeedbackLifecycle.                                        *)
EXTENDS Scoring, ServiceMatch

CONSTANTS Kinds,        \* feedback that may be given: records of all it carries
          Clients,      \* wallets that give feedback
          Owner,        \* the client that owns the agent: its feedback is self-feedback
          Services,     \* endpoints the agent declares, in order
          Statuses,     \* offchain status of each of them: -1, 0, 1 or 5
          Names,        \* name of each of them
          Card,         \* the card fields the agent fills
          Windows,      \* ages of the snapshots, oldest first
          MaxRows,      \* bound: rows given
          MaxNow,       \* bound: half-lives
          MaxRevokes    \* bound: revocations

ASSUME ParamsAssumption ==
    /\ Services \in Seq(Seq(STRING)) /\ Len(Statuses) = Len(Services) /\ Len(Names) = Len(Services)
    /\ Windows \in Seq(Nat)
    /\ \A i \in 1..Len(Windows) : \A j \in i..Len(Windows) : Windows[i] >= Windows[j]
    /\ IsFiniteSet(Clients) /\ Owner \in Clients
    /\ \A k \in Kinds :
          /\ k.client \in Clients /\ k.v \in 0..10
          /\ k.signals \in [reasoning : 0..1, attachment : 0..1, breakdown : 0..1,
                            payment : 0..1, confidence : 0..1]
    /\ MaxRows \in Nat /\ MaxNow \in Nat /\ MaxRevokes \in Nat

Neutral == 50           \* trust of a wallet that has none
NoMass == [a |-> 0, b |-> 0]
NoStats == [stored |-> FALSE, a |-> 0, b |-> 0, at |-> 0, fails |-> 0, tasks |-> 0, adoption |-> 0,
            services |-> 0, publisher |-> 0, published |-> FALSE, compliance |-> 0, composite |-> 0]

VARIABLES rows,         \* feedback of the agent, oldest first
          now,
          stats,        \* agent_score_stats
          trust,        \* trust of the clients' wallets
          counted       \* history: the weight at which a row is in the stored mass

vars == <<rows, now, stats, trust, counted>>

Init ==
    /\ rows = <<>> /\ now = 0 /\ stats = NoStats
    /\ trust = [c \in Clients |-> Neutral] /\ counted = <<>>

Scorable(r) == r.cat = "quality" /\ r.value = "number"

-------------------------------------------------------------------------------
(* replayAgent.                                                                *)

NoService == [a |-> 0, b |-> 0, last |-> 0, fails |-> 0, total |-> 0]
Start == [a |-> 0, b |-> 0, last |-> 0, at |-> 0, fails |-> 0, tasks |-> 0, snaps |-> <<>>,
          users |-> {}, stale |-> {}, valid |-> [c \in Clients |-> 0], junk |-> [c \in Clients |-> 0],
          services |-> [i \in 1..Len(Services) |-> NoService]]

DecayTo(acc, t) ==
    IF acc.last >= t THEN acc
    ELSE LET mass == DecayMass([a |-> acc.a, b |-> acc.b], acc.last, t)
         IN  [acc EXCEPT !.a = mass.a, !.b = mass.b, !.last = t]

TakeSnapshot(acc, t) == LET d == DecayTo(acc, t) IN
    [d EXCEPT !.snaps = Append(@, [a |-> d.a, b |-> d.b, fails |-> d.fails])]
\* Mutant of OpensBefore: a window that opens with the event is taken before it.
MutOpensBefore(at, i, t) == at - Windows[i] <= t
OpensBefore(at, i, t) == at - Windows[i] < t
OpenWindow(acc, at, i, t) ==
    IF i > Len(acc.snaps) /\ OpensBefore(at, i, t) THEN TakeSnapshot(acc, at - Windows[i]) ELSE acc
\* The windows that open before time t and have no snapshot yet.
SnapshotsBefore(acc, at, t) ==
    LET taken[i \in 0..Len(Windows)] == IF i = 0 THEN acc ELSE OpenWindow(taken[i - 1], at, i, t)
    IN  taken[Len(Windows)]

ServiceStep(svc, r, w) ==
    LET mass == ApplyFeedbackToMass([a |-> svc.a, b |-> svc.b], svc.last, w, r.v, r.at)
    IN  [a |-> mass.a, b |-> mass.b, last |-> r.at, fails |-> Streak(svc.fails, r.v), total |-> svc.total + 1]
\* The service whose accumulator a row goes to.
Credited(endpoint) == LET m == MatchService(Services, endpoint) IN
    IF m = 0 THEN {} ELSE {IndexOf(Services, m)}

CreditedTo == [e \in {k.endpoint : k \in Kinds} |-> Credited(e)]

ScoreRow(acc, r, at, trusts) ==
    LET before == DecayTo(SnapshotsBefore(acc, at, r.at), r.at)
        w == Weight(r, trusts[r.client])
        mass == AddMass([a |-> before.a, b |-> before.b], w, r.v)
    IN  [before EXCEPT !.a = mass.a, !.b = mass.b, !.at = r.at, !.tasks = @ + 1,
                       !.fails = Streak(@, r.v),
                       !.services = [i \in DOMAIN @ |-> IF i \in CreditedTo[r.endpoint]
                                                        THEN ServiceStep(@[i], r, w) ELSE @[i]]]

GradeStep(acc, r) ==
    [acc EXCEPT !.stale = IF r.verdict # GradeOf(r) THEN @ \cup {r.id} ELSE @,
                !.valid[r.client] = IF Gated(r) THEN @ ELSE @ + 1,
                !.junk[r.client] = IF Gated(r) THEN @ + 1 ELSE @]

UserStep(acc, r, at) ==
    IF r.at >= at - Windows[1] /\ r.cat \in {"quality", "quantity"}
    THEN [acc EXCEPT !.users = @ \cup {r.client}] ELSE acc

ReplayRow(acc, r, at, trusts) ==
    LET seen == UserStep(acc, r, at) IN
    CASE r.revoked -> acc
      [] ~r.revoked /\ r.cat = "others" -> seen
      [] ~r.revoked /\ r.cat # "others" ->
           LET graded == GradeStep(seen, r)
           IN  IF Scorable(r) THEN ScoreRow(graded, r, at, trusts) ELSE graded

\* Row after row, and the windows no row comes after.
RowsReplayed(history, at, trusts) ==
    LET acc[n \in 0..Len(history)] ==
            IF n = 0 THEN Start ELSE ReplayRow(acc[n - 1], history[n], at, trusts)
    IN  acc
Replay(history, at, trusts) ==
    DecayTo(SnapshotsBefore(RowsReplayed(history, at, trusts)[Len(history)], at, at + 1), at)

ServiceChecks == {[place |-> i, name |-> Names[i], status |-> Statuses[i]] : i \in 1..Len(Services)}
ServicesNow == ServicesScore(ServiceChecks)
ComplianceNow == ComplianceScore(Card)
MassOf(x) == [a |-> x.a, b |-> x.b]

-------------------------------------------------------------------------------
(* Steps.                                                                      *)

\* trustrank stores a row; the rules have given it a category.
Give(k) ==
    /\ Len(rows) < MaxRows
    /\ rows' = Append(rows, [id |-> Len(rows) + 1, at |-> now, revoked |-> FALSE, verdict |-> "",
                             client |-> k.client, cat |-> k.cat, value |-> k.value, v |-> k.v,
                             self |-> k.client = Owner, signals |-> k.signals, endpoint |-> k.endpoint])
    /\ UNCHANGED <<now, stats, trust, counted>>

\* The LLM answers for a row the rules left undecided.
Resolve(i, cat) ==
    /\ rows[i].cat = "others" /\ rows' = [rows EXCEPT ![i].cat = cat]
    /\ UNCHANGED <<now, stats, trust, counted>>

Revoke(i) ==
    /\ ~rows[i].revoked
    /\ Cardinality({j \in DOMAIN rows : rows[j].revoked}) < MaxRevokes
    /\ rows' = [rows EXCEPT ![i].revoked = TRUE]
    /\ UNCHANGED <<now, stats, trust, counted>>

Tick == now < MaxNow /\ now' = now + 1 /\ UNCHANGED <<rows, stats, trust, counted>>

\* Mutant of LiveMass: the stored mass is not decayed to the new row.
MutLiveMass(r, w) == AddMass(MassOf(stats), w, r.v)
LiveMass(r, w) == ApplyFeedbackToMass(MassOf(stats), stats.at, w, r.v, r.at)

\* handler.go: one increment, the other components carried from the stored stats.
LiveStats(r) ==
    LET w == Weight(r, trust[r.client])
        mass == LiveMass(r, w)
        rep == Reputation(mass, stats.fails)
    IN  [stats EXCEPT !.stored = TRUE, !.a = mass.a, !.b = mass.b, !.at = r.at,
                      !.composite = CompositeRenorm(CompositeParts(rep, stats.adoption, stats.services,
                            stats.publisher, stats.compliance, mass.b > 0, stats.published))]

Grade(i) ==
    LET r == rows[i] IN
    /\ r.verdict = "" /\ ~r.revoked /\ r.cat # "others"
    /\ rows' = [rows EXCEPT ![i].verdict = GradeOf(r)]
    /\ IF Scorable(r) /\ ~r.self
       THEN stats' = LiveStats(r) /\ counted' = [j \in DOMAIN counted \cup {i} |->
                                         IF j = i THEN Weight(r, trust[r.client]) ELSE counted[j]]
       ELSE UNCHANGED <<stats, counted>>
    /\ UNCHANGED <<now, trust>>

\* A reviewer is rated by its verdicts, the owner also by the agent it owns.
RatedTrust(c, acc, direct) ==
    LET owns == c = Owner /\ acc.b > 0 IN
    IF acc.valid[c] + acc.junk[c] = 0 /\ ~owns THEN trust[c]
    ELSE WalletTrust(ReviewerReliability(acc.valid[c], acc.junk[c]), 0, direct, FALSE, owns)

\* One cycle of the worker over the agent: statistics, grades, wallets.
Refresh ==
    LET acc == Replay(rows, now, trust)
        rep == Reputation(MassOf(acc), acc.fails)
        adoption == Adoption(Cardinality(acc.users))
        services == ServicesNow
        compliance == ComplianceNow
        direct == AgentDirectReputation(rep, adoption, services, compliance, acc.b > 0)
    IN  /\ stats' = [stored |-> TRUE, a |-> acc.a, b |-> acc.b, at |-> acc.at, fails |-> acc.fails,
                     tasks |-> acc.tasks, adoption |-> adoption, services |-> services,
                     publisher |-> trust[Owner], published |-> TRUE, compliance |-> compliance,
                     composite |-> CompositeRenorm(CompositeParts(rep, adoption, services, trust[Owner],
                            compliance, acc.b > 0, TRUE))]
        /\ rows' = [i \in DOMAIN rows |-> IF i \in acc.stale THEN [rows[i] EXCEPT !.verdict = GradeOf(rows[i])]
                                          ELSE rows[i]]
        /\ counted' = [i \in {j \in DOMAIN rows : Scorable(rows[j]) /\ ~rows[j].revoked} |->
                            Weight(rows[i], trust[rows[i].client])]
        /\ trust' = [c \in Clients |-> RatedTrust(c, acc, direct)]
        /\ UNCHANGED now

Next ==
    \/ \E k \in Kinds : Give(k)
    \/ \E i \in DOMAIN rows : Revoke(i) \/ Grade(i) \/ \E cat \in {"quality", "junk"} : Resolve(i, cat)
    \/ Tick \/ Refresh

Spec == Init /\ [][Next]_vars

-------------------------------------------------------------------------------
(* Properties.                                                                 *)

\* Doubled k times: what a mass at time k is worth at time 0, where no row is rounded.
Doubled(x, k) == LET d[n \in 0..k] == IF n = 0 THEN x ELSE 2 * d[n - 1] IN d[k]
\* What the rows in the stored mass are worth: of the part of each, at the weight it
\* was counted with.
Due(part) ==
    TotalOf([i \in 1..Len(rows) |-> IF i \in DOMAIN counted
                                    THEN Doubled(counted[i] * part[i] * Unit, rows[i].at) ELSE 0], Len(rows))

\* The score the API and the ranking read never overstates the evidence: decayed
\* to now, the stored mass is at most the decayed sum of the rows in it, however
\* live increments, late grades and replays follow each other; and the services of
\* an agent, nested or with one endpoint twice, never share out more mass or more
\* tasks than the replay of it holds (feedbackgrade/handler.go applyQuality,
\* replay.go, MatchService).
LiveNeverOverstates ==
    rows # <<>> =>
    LET live == DecayMass(MassOf(stats), stats.at, now)
        whole == Replay(rows, now, trust)
        Held(s) == DecayMass(MassOf(s), s.last, now).b
    IN  /\ Doubled(live.a, now) <= Due([i \in DOMAIN rows |-> rows[i].v])
        /\ Doubled(live.b, now) <= Due([i \in DOMAIN rows |-> 1])
        /\ TotalOf([i \in 1..Len(Services) |-> Held(whole.services[i])], Len(Services)) <= whole.b
        /\ TotalOf([i \in 1..Len(Services) |-> whole.services[i].total], Len(Services)) <= whole.tasks

\* The snapshots taken on the way of the single pass are what a replay of the rows
\* given by then would have found at that time, with the streak of that time
\* (replay.go, the milestones strictly before an event).
GivenBy(t) == SubSeq(rows, 1, Cardinality({i \in DOMAIN rows : rows[i].at <= t}))
SnapshotsAreHistory ==
    rows # <<>> =>
    LET whole == Replay(rows, now, trust) IN
    \A i \in 1..Len(Windows) :
        LET t == now - Windows[i]
            then == Replay(GivenBy(t), t, trust)
        IN  whole.snaps[i] = [a |-> then.a, b |-> then.b, fails |-> then.fails]
===============================================================================
