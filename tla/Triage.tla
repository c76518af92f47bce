--------------------------------- MODULE Triage --------------------------------
(* How one feedback gets its category. The processor decides by the rules, with *)
(* the scale that is detected for the tags; what they leave open is sent to      *)
(* feedback-others, where each goroutine runs the hybrid classifier, with the    *)
(* scale of the value alone, and stores the answer. A batch that failed is       *)
(* processed again and stores the row as new: whether the client is the owner is  *)
(* asked again of a document the failed flush may have advanced, and the flag of *)
(* a pass that found so stays, as FALSE is not written. Grades, revocations and  *)
(* crashes are in FeedbackLifecycle, the detection of scales is in TagScale.     *)
EXTENDS Classifier

CONSTANTS TagPairs,     \* <<tag1, tag2>> of the feedback
          Amounts,       \* its value, in tenths
          Detected,     \* scales that may be detected for the tags, "" for none
          Desks,        \* goroutines of feedback-others
          MaxStores,    \* bound: times the batch is processed
          MaxAsked      \* bound: messages in the queue

ASSUME TriageAssumption ==
    /\ TagPairs \subseteq Tags \X Tags /\ Detected \subseteq Tiers \cup {""}
    /\ MaxStores \in Nat /\ MaxAsked \in Nat

VARIABLES item,         \* the feedback: its tags and value (a number or not)
          entry,        \* its row
          asked,        \* feedback.others: messages waiting
          desk,         \* goroutine -> where it is
          told,         \* it was published as classified
          ownerFound    \* history: some pass found the client to be the owner

triageVars == <<item, entry, asked, desk, told, ownerFound>>

Unwritten == [times |-> 0, category |-> "", feature |-> "", scale |-> "", self |-> FALSE, fallback |-> FALSE]

TriageInit ==
    /\ item \in [tags : TagPairs, value : Amounts, numeric : BOOLEAN]
    /\ entry = Unwritten /\ asked = 0
    /\ desk = [d \in Desks |-> "idle"] /\ told = FALSE /\ ownerFound = FALSE

OwnTier == IF item.numeric THEN AssignTier(item.value) ELSE ""
\* handleNewFeedback: a negative value is unbounded whatever is detected.
RowScale(detected) ==
    IF item.numeric /\ item.value < 0 THEN "unbounded"
    ELSE IF detected = "" THEN OwnTier ELSE detected

RowRule(scale, self) == IF self THEN SelfFeedbackResult ELSE Classify(item.tags[1], item.tags[2], scale)

\* $set leaves the flag alone when it is FALSE (omitempty).
SelfKept(self) == entry.self \/ self

\* handleNewFeedback and the flush: the row is stored, then published.
StoreItem(detected, self) ==
    /\ entry.times < MaxStores /\ asked < MaxAsked
    /\ LET rule == RowRule(RowScale(detected), self) IN
       /\ entry' = [times |-> entry.times + 1, category |-> rule.category, feature |-> rule.feature,
                    scale |-> RowScale(detected), self |-> SelfKept(self), fallback |-> FALSE]
       /\ IF rule.category = "others"
          THEN asked' = asked + 1 /\ UNCHANGED told
          ELSE told' = TRUE /\ UNCHANGED asked
    /\ ownerFound' = (ownerFound \/ self)
    /\ UNCHANGED <<item, desk>>

\* handle: a row that has an answer is published again and no more.
FetchItem(d) ==
    /\ desk[d] = "idle" /\ asked > 0
    /\ asked' = asked - 1
    /\ desk' = [desk EXCEPT ![d] = IF entry.fallback THEN "publish" ELSE "ask"]
    /\ UNCHANGED <<item, entry, told, ownerFound>>

\* UpdateFallback: a feature that is empty is not written.
Answered(row, res) == [row EXCEPT !.category = res.category, !.fallback = TRUE,
                                  !.feature = IF res.feature = "" THEN @ ELSE res.feature]

\* resolveLLM
AskItem(d) ==
    /\ desk[d] = "ask"
    /\ \E answer \in AiAnswers :
       LET res == Hybrid(item.tags[1], item.tags[2], OwnTier, answer) IN
       IF res.source = "fallback"
       THEN asked' = asked + 1 /\ desk' = [desk EXCEPT ![d] = "idle"] /\ UNCHANGED entry
       ELSE /\ entry' = Answered(entry, res)
            /\ desk' = [desk EXCEPT ![d] = "publish"] /\ UNCHANGED asked
    /\ UNCHANGED <<item, told, ownerFound>>

\* The classified row is published, or the message goes back.
PublishItem(d) ==
    /\ desk[d] = "publish" /\ desk' = [desk EXCEPT ![d] = "idle"]
    /\ \/ told' = TRUE /\ UNCHANGED asked
       \/ asked' = asked + 1 /\ UNCHANGED told
    /\ UNCHANGED <<item, entry, ownerFound>>

TriageNext ==
    \/ \E scale \in Detected, self \in BOOLEAN : StoreItem(scale, self)
    \/ \E d \in Desks : FetchItem(d) \/ AskItem(d) \/ PublishItem(d)
TriageSpec == TriageInit /\ [][TriageNext]_triageVars

-------------------------------------------------------------------------------
(* Properties.                                                                 *)

Named(class) == \E i \in 1..2 : Is(item.tags[i], class)

\* What the grader scores (feedbackgrade/handler.go:80).
Scores == entry.category = "quality" /\ ~entry.self

\* Only judgments score: the tags of a row in the category quality name no spam,
\* measured metric or record number, whichever of the processor, two goroutines of
\* feedback-others and the AI service had the last word; on a scale without a bound it
\* is there by an answer of the AI service alone; and a row that any pass found to be
\* the owner's does not score, although a later pass or an answer to an earlier one may
\* call it quality (classifier.go, hybrid.go, feedbackother/handler.go).
OnlyJudgmentsScore ==
    /\ entry.category = "quality" =>
          /\ ~Named("spam") /\ ~Named("metric") /\ ~Is(item.tags[1], "uuid")
          /\ ~(Named("digits") /\ \A i \in 1..2 : Is(item.tags[i], "digits"))
          /\ entry.scale = "unbounded" => entry.fallback /\ AsksAi(item.tags[1], item.tags[2], OwnTier)
    /\ Scores => ~ownerFound
================================================================================
