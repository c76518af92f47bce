-------------------------------- MODULE TagScale -------------------------------
(* The dynamic value scale of one (tag1, tag2) pair whose tags say "quality".  *)
(* The processors of all chains run at once in one process and share the       *)
(* stored tier votes and the scale cache: each looks the scale up for a new    *)
(* feedback, stores the row, adds its vote, reads the votes again and, when    *)
(* their majority is no longer the detected scale, changes it in two updates   *)
(* and leaves a correction, which the rescale worker claims and applies to the *)
(* rows written before.                                                        *)
EXTENDS Classifier, FiniteSets

CONSTANTS Chains,
          Feedbacks,
          Tag1, Tag2,   \* the pair
          ChainOf,      \* the chain of a feedback
          TierOf,       \* AssignTier of its value
          Negative,     \* feedback with a value below zero
          MinSamples,   \* votes before a scale is detected
          NoScale,      \* ""
          NoEntry,      \* no entry in the scale cache
          NoFb,         \* no feedback
          MaxScaleFaults  \* bound: failed calls, crashes of either worker

Scales == Tiers \cup {NoScale}
ASSUME ScaleAssumption ==
    /\ ChainOf \in [Feedbacks -> Chains] /\ TierOf \in [Feedbacks -> Tiers]
    /\ {Tag1, Tag2} \subseteq Tags /\ Classify(Tag1, Tag2, "star5").category = "quality"
    /\ \A f \in Negative : f \in Feedbacks /\ TierOf[f] = "unbounded"
    /\ NoFb \notin Feedbacks /\ IsFiniteSet(Feedbacks)
    /\ MinSamples \in Nat \ {0} /\ MaxScaleFaults \in Nat
    /\ NoScale \notin Tiers /\ NoEntry \notin Scales

\* isRevoked is a field of the stored row only when it is set (omitempty).
FieldOf(flag) == IF flag THEN {TRUE} ELSE {}
NoRow == [scale |-> NoScale, quality |-> FALSE, isRevoked |-> FieldOf(FALSE)]

VARIABLES stats,        \* tag_value_stats: votes, detected, version, locked
          scaleRows,    \* feedback rows
          read,         \* feedback whose block a batch has read
          saved,        \* feedback behind the chain's checkpoint
          cache,        \* tagScaleCache entry: a scale, or NoEntry when absent
          corrs,        \* stored corrections, by the version in their id
          work,         \* flush of each chain
          claimed,      \* version the rescale worker has claimed, 0 for none
          clock,        \* stands for nowUnix: advances with every detection
          scaleFaults,  \* failures so far
          lost          \* history: a row may keep its old scale for a race or a failure

scaleVars == <<stats, scaleRows, read, saved, cache, corrs, work, claimed, clock, scaleFaults, lost>>

ScaleFault == scaleFaults < MaxScaleFaults /\ scaleFaults' = scaleFaults + 1
Idle == [pc |-> "idle", fb |-> NoFb, scale |-> NoScale, seen |-> 0,
         new |-> NoScale, now |-> 0, covers |-> {}]
Flushed(w) == [Idle EXCEPT !.pc = "done", !.fb = w.fb]
NoVotes == [t \in Tiers |-> 0]

-------------------------------------------------------------------------------
(* Pure parts.                                                                 *)

Rank == [t \in Tiers |-> CASE t = "binary" -> 0 [] t = "star5" -> 1 [] t = "star10" -> 2
                           [] t = "pct100" -> 3 [] t = "unbounded" -> 4]
\* argmaxTier: the most votes, ties to the narrower scale.
ArgmaxTier(v) ==
    IF \A t \in Tiers : v[t] = 0 THEN NoScale
    ELSE CHOOSE t \in Tiers : \A u \in Tiers \ {t} :
            v[t] > v[u] \/ (v[t] = v[u] /\ Rank[t] < Rank[u])
VoteCount(v) == v["binary"] + v["star5"] + v["star10"] + v["pct100"] + v["unbounded"]
IsQuality(scale) == Classify(Tag1, Tag2, scale).category = "quality"
\* handleNewFeedback: without a detected scale the value's own tier is taken, and
\* a negative value has no scale.
ScaleFor(f, detected) == IF detected = NoScale \/ f \in Negative THEN TierOf[f] ELSE detected
RowOf(scale) == [scale |-> scale, quality |-> IsQuality(scale), isRevoked |-> FieldOf(FALSE)]

-------------------------------------------------------------------------------
(* A chain's batch of one feedback.                                            *)

At(c, where) == work[c].pc = where

\* lookupScale, first half: a live cache entry, or the stored scale.
Lookup(c) ==
    /\ At(c, "idle")
    /\ \E f \in Feedbacks \ saved :
         /\ ChainOf[f] = c
         /\ read' = read \cup {f}
         /\ \/ /\ cache # NoEntry
               /\ work' = [work EXCEPT ![c] = [Idle EXCEPT !.pc = "row", !.fb = f, !.scale = ScaleFor(f, cache)]]
               /\ UNCHANGED scaleFaults
            \/ /\ cache = NoEntry /\ stats.exists
               /\ work' = [work EXCEPT ![c] = [Idle EXCEPT !.pc = "cache", !.fb = f, !.scale = stats.detected]]
               /\ UNCHANGED scaleFaults
            \/ /\ cache = NoEntry
               /\ IF stats.exists THEN ScaleFault ELSE UNCHANGED scaleFaults
               /\ work' = [work EXCEPT ![c] = [Idle EXCEPT !.pc = "row", !.fb = f, !.scale = TierOf[f]]]
    /\ UNCHANGED <<stats, scaleRows, saved, cache, corrs, claimed, clock, lost>>
\* Second half: what was read is cached for five minutes.
CacheScale(c) ==
    /\ At(c, "cache")
    /\ cache' = work[c].scale
    /\ work' = [work EXCEPT ![c].pc = "row", ![c].scale = ScaleFor(work[c].fb, @)]
    /\ UNCHANGED <<stats, scaleRows, read, saved, corrs, claimed, clock, scaleFaults, lost>>
Expire == /\ cache # NoEntry
          /\ cache' = NoEntry
          /\ UNCHANGED <<stats, scaleRows, read, saved, corrs, work, claimed, clock, scaleFaults, lost>>

\* A correction that is still to be listed will bring f to scale s.
ToBeCorrected(f, s) == \E v \in DOMAIN corrs : corrs[v].status = "pending" /\ corrs[v].scale = s
                                              /\ f \in corrs[v].covers
Stale(f, s) == IsQuality(s) /\ stats.detected \notin {NoScale, s} /\ ~ToBeCorrected(f, stats.detected)

\* flush: the row is upserted.
StoreRow(c) ==
    /\ At(c, "row")
    /\ LET f == work[c].fb
           s == work[c].scale IN
       /\ scaleRows' = [scaleRows EXCEPT ![f] = RowOf(s)]
       /\ lost' = (lost \/ Stale(f, s))
       /\ work' = [work EXCEPT ![c] = [Flushed(@) EXCEPT !.pc = IF IsQuality(s) THEN "vote" ELSE "done"]]
    /\ UNCHANGED <<stats, read, saved, cache, corrs, claimed, clock, scaleFaults>>

\* BulkIncrementTiers; flushTierStats is best-effort: its errors end it.
Vote(c) ==
    /\ At(c, "vote")
    /\ \/ /\ stats' = [stats EXCEPT !.votes[TierOf[work[c].fb]] = @ + 1, !.exists = TRUE]
          /\ work' = [work EXCEPT ![c].pc = "detect"]
          /\ UNCHANGED scaleFaults
       \/ ScaleFault /\ work' = [work EXCEPT ![c] = Flushed(@)] /\ UNCHANGED stats
    /\ UNCHANGED <<scaleRows, read, saved, cache, corrs, claimed, clock, lost>>

\* GetByKeys, argmaxTier.  Feedback no batch has read yet is taken
\* to be younger than nowUnix, the worst case, and so outside of the correction.
Detect(c) ==
    /\ At(c, "detect")
    /\ LET new == ArgmaxTier(stats.votes) IN
       \/ /\ VoteCount(stats.votes) < MinSamples \/ new = stats.detected
          /\ work' = [work EXCEPT ![c] = Flushed(@)]
          /\ UNCHANGED <<clock, scaleFaults>>
       \/ /\ VoteCount(stats.votes) >= MinSamples /\ new # stats.detected
          /\ clock' = clock + 1
          /\ work' = [work EXCEPT ![c].pc = "set", ![c].seen = stats.version,
                                  ![c].new = new, ![c].now = clock + 1, ![c].covers = read]
          /\ UNCHANGED scaleFaults
       \/ ScaleFault /\ work' = [work EXCEPT ![c] = Flushed(@)] /\ UNCHANGED clock
    /\ UNCHANGED <<stats, scaleRows, read, saved, cache, corrs, claimed, lost>>

\* SetDetectedScale, whatever scale is stored by now.
Change(c) == stats' = [stats EXCEPT !.detected = work[c].new, !.version = @ + 1, !.locked = TRUE]
\* The first update matches until the scale is locked ...
SetUnlocked(c) ==
    /\ At(c, "set")
    /\ \/ /\ IF stats.locked THEN UNCHANGED stats ELSE Change(c)
          /\ work' = [work EXCEPT ![c].pc = "setLocked"]
          /\ UNCHANGED scaleFaults
       \/ ScaleFault /\ work' = [work EXCEPT ![c] = Flushed(@)] /\ UNCHANGED stats
    /\ UNCHANGED <<scaleRows, read, saved, cache, corrs, claimed, clock, lost>>
\* ... and the second whenever it is locked, by the first one too.
SetLocked(c) ==
    /\ At(c, "setLocked")
    /\ \/ /\ Change(c)
          /\ cache' = NoEntry
          /\ work' = [work EXCEPT ![c].pc = "correct"]
          /\ UNCHANGED <<scaleFaults, lost>>
       \/ /\ ScaleFault
          /\ work' = [work EXCEPT ![c] = Flushed(@)]
          /\ lost' = (lost \/ stats.detected = work[c].new)
          /\ UNCHANGED <<stats, cache>>
    /\ UNCHANGED <<scaleRows, read, saved, corrs, claimed, clock>>

With(v, corr) == [u \in DOMAIN corrs \cup {v} |-> IF u = v THEN corr ELSE corrs[u]]

\* What the correction of c does not bring to the detected scale: another chain
\* has changed the scale since, rows are younger than the detection, or a later
\* detection has already left a correction to another scale.
Misses(c) == \/ stats.detected # work[c].new
             \/ \E f \in Feedbacks \ work[c].covers : scaleRows[f].quality /\ scaleRows[f].scale # work[c].new
             \/ \E w \in DOMAIN corrs : corrs[w].at > work[c].now /\ corrs[w].scale # work[c].new

\* UpsertCorrection: an existing correction of the same version is kept.
UpsertCorrection(c) ==
    /\ At(c, "correct")
    /\ LET v == work[c].seen + 1 IN
       \/ /\ v \notin DOMAIN corrs
          /\ corrs' = With(v, [scale |-> work[c].new, at |-> work[c].now,
                               covers |-> work[c].covers, status |-> "pending"])
          /\ lost' = (lost \/ Misses(c))
          /\ UNCHANGED scaleFaults
       \/ /\ v \in DOMAIN corrs
          /\ lost' = TRUE
          /\ UNCHANGED <<corrs, scaleFaults>>
       \/ ScaleFault /\ lost' = TRUE /\ UNCHANGED corrs
    /\ work' = [work EXCEPT ![c] = Flushed(@)]
    /\ UNCHANGED <<stats, scaleRows, read, saved, cache, claimed, clock>>

\* Mutant of SaveBatch: the checkpoint stays where it is.
MutSaveBatch(c) ==
    /\ At(c, "done")
    /\ work' = [work EXCEPT ![c] = Idle]
    /\ UNCHANGED <<stats, scaleRows, read, saved, cache, corrs, claimed, clock, scaleFaults, lost>>

\* The checkpoint moves on; a failure before it flushes the feedback again.
SaveBatch(c) ==
    /\ At(c, "done")
    /\ saved' = saved \cup {work[c].fb}
    /\ work' = [work EXCEPT ![c] = Idle]
    /\ UNCHANGED <<stats, scaleRows, read, cache, corrs, claimed, clock, scaleFaults, lost>>
AbortBatch(c) ==
    /\ ~At(c, "idle") /\ ScaleFault
    /\ lost' = (lost \/ At(c, "correct")
                     \/ (At(c, "setLocked") /\ stats.detected = work[c].new))
    /\ work' = [work EXCEPT ![c] = Idle]
    /\ UNCHANGED <<stats, scaleRows, read, saved, cache, corrs, claimed, clock>>

-------------------------------------------------------------------------------
(* The rescale worker.                                                         *)

PendingVersions == {v \in DOMAIN corrs : corrs[v].status = "pending"}

\* ClaimPending: oldest first.
Claim ==
    /\ claimed = 0
    /\ \E v \in PendingVersions :
         /\ \A w \in PendingVersions : corrs[v].at <= corrs[w].at
         /\ claimed' = v
         /\ corrs' = [corrs EXCEPT ![v].status = "in_progress"]
    /\ UNCHANGED <<stats, scaleRows, read, saved, cache, work, clock, scaleFaults, lost>>

Busy == claimed # 0
Finish(status) == corrs' = [corrs EXCEPT ![claimed].status = status] /\ claimed' = 0

\* FindServiceFeedbacksByTagPair: quality rows older than the detection in which
\* isRevoked is stored, as FALSE.
FindRows(c) == {f \in c.covers : scaleRows[f] # NoRow /\ scaleRows[f].quality /\ FALSE \in scaleRows[f].isRevoked}
\* buildScaleUpdates, BulkUpdateValueScale.
Rescaled(found, s) ==
    [f \in Feedbacks |-> IF f \in found THEN [RowOf(s) EXCEPT !.isRevoked = scaleRows[f].isRevoked] ELSE scaleRows[f]]

\* processCorrection, MarkDone. The rows are listed and written in one step: the
\* query finds none, so there is nothing that could change in between.
Rescale ==
    /\ Busy
    /\ scaleRows' = Rescaled(FindRows(corrs[claimed]), corrs[claimed].scale)
    /\ Finish("done")
    /\ UNCHANGED <<stats, read, saved, cache, work, clock, scaleFaults, lost>>
\* A failed correction is marked so and one whose worker dies stays claimed:
\* neither is taken up again.
RescaleFails == /\ Busy /\ ScaleFault
                /\ lost' = TRUE
                /\ \E status \in {"failed", "in_progress"} : Finish(status)
                /\ UNCHANGED <<stats, scaleRows, read, saved, cache, work, clock>>

ScaleInit ==
    /\ stats = [exists |-> FALSE, votes |-> NoVotes, detected |-> NoScale, version |-> 0, locked |-> FALSE]
    /\ scaleRows = [f \in Feedbacks |-> NoRow] /\ read = {} /\ saved = {}
    /\ cache = NoEntry /\ corrs = [v \in {} |-> {}]
    /\ work = [c \in Chains |-> Idle]
    /\ claimed = 0 /\ clock = 0
    /\ scaleFaults = 0 /\ lost = FALSE

ChainStep(c) == \/ Lookup(c) \/ CacheScale(c) \/ StoreRow(c) \/ Vote(c) \/ Detect(c)
                \/ SetUnlocked(c) \/ SetLocked(c) \/ UpsertCorrection(c) \/ SaveBatch(c)
RescaleStep == Claim \/ Rescale
ScaleNext == \/ \E c \in Chains : ChainStep(c) \/ AbortBatch(c)
             \/ Expire \/ RescaleStep \/ RescaleFails
ScaleSpec == ScaleInit /\ [][ScaleNext]_scaleVars

-------------------------------------------------------------------------------
(* Properties.                                                                 *)

Quiet == /\ \A c \in Chains : work[c].pc = "idle"
         /\ claimed = 0 /\ PendingVersions = {}

\* The quality rows of a tier whose batch is past its vote.
PastVote == {"detect", "set", "setLocked", "correct", "done"}
VotedRows(t) ==
    {f \in Feedbacks : /\ TierOf[f] = t /\ scaleRows[f].quality
                       /\ f \in saved \/ \E c \in Chains : work[c].pc \in PastVote /\ work[c].fb = f}

\* The tier votes stand for stored rows: whatever the chains do at once and
\* wherever a batch fails, is dropped or flushed again, the votes of a tier are
\* the quality rows of that tier, but for one more (a batch that voted and is
\* flushed again) or one less (a vote that is dropped) for each failure
\* (flushTierStats: best-effort, after the rows and before the checkpoint).
VotesFollowRows ==
    \A t \in Tiers :
        /\ stats.votes[t] <= Cardinality(VotedRows(t)) + scaleFaults
        /\ Cardinality(VotedRows(t)) <= stats.votes[t] + scaleFaults

\* The rescale worker "retroactively corrects feedback rows" (README.md): with no
\* flush under way and no correction left, every quality row has the detected
\* scale; rows that a race or a failure may have left behind (lost) aside.
RowsConverge ==
    Quiet /\ ~lost /\ stats.detected # NoScale =>
        \A f \in Feedbacks : scaleRows[f].quality => scaleRows[f].scale = stats.detected

===============================================================================
