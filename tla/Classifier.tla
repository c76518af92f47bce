------------------------------- MODULE Classifier ------------------------------
(* What kind of feedback a pair of tags names (domain/classifier): the cascade   *)
(* of rules junk, quantity, quality over the tags and the scale of the value,    *)
(* the tier of a single value, and the hybrid classifier, which asks the AI      *)
(* service where no rule decides. A tag is known by the patterns it matches and  *)
(* the lists it is on.                                                           *)
EXTENDS Naturals

CONSTANTS Tags,         \* tags, trimmed and in lower case
          ClassesOf     \* tag -> patterns and lists it is in

Classes == {"empty", "spam", "noise", "digits", "uuid", "emoji", "metric", "quality", "keyword", "infra"}
ASSUME TagsAssumption == ClassesOf \in [Tags -> SUBSET Classes]

Categories == {"quality", "quantity", "junk", "others"}
Tiers == {"binary", "star5", "star10", "pct100", "unbounded"}

\* AssignTier of a real value, given in tenths: below 0, between 0 and 1 and above
\* 100 no bounded scale fits.
AssignTier(tenths) ==
    CASE tenths \in {0, 10} -> "binary"
      [] tenths > 10 /\ tenths <= 50 -> "star5"
      [] tenths > 50 /\ tenths <= 100 -> "star10"
      [] tenths > 100 /\ tenths <= 1000 -> "pct100"
      [] OTHER -> "unbounded"

-------------------------------------------------------------------------------
(* The patterns.                                                               *)

Is(tag, class) == class \in ClassesOf[tag]
Empty(tag) == Is(tag, "empty")

IsSpam(t1, t2) == Is(t1, "spam") \/ Is(t2, "spam")
IsNoise(t1, t2) == Is(t1, "noise") /\ ClassesOf[t2] \cap {"empty", "noise", "digits"} # {}
IsAllDigits(t1, t2) == Is(t1, "digits") /\ Is(t2, "digits")
IsUuid(t1, t2) == Is(t1, "uuid") \/ (Empty(t1) /\ Is(t2, "uuid"))
IsJunk(t1, t2) == IsSpam(t1, t2) \/ IsNoise(t1, t2) \/ IsAllDigits(t1, t2) \/ IsUuid(t1, t2)

IsMetric(t1, t2) == Is(t1, "metric") \/ Is(t2, "metric")
\* The list of judgments is for tag1; a keyword may be in either.
IsJudgment(t1, t2) == Is(t1, "quality") \/ Is(t1, "keyword") \/ Is(t2, "keyword")

FeatureOf(t1, t2) == IF Is(t1, "infra") \/ Is(t2, "infra") THEN "infrastructure" ELSE "agent_domain"

-------------------------------------------------------------------------------
(* The cascade.                                                                *)

Rule(category, feature) == [category |-> category, feature |-> feature, source |-> "rule"]
Undecided == [category |-> "others", feature |-> "", source |-> "fallback"]
SelfFeedbackResult == Rule("junk", "self_feedback")

\* Mutant of Classify: judgments are looked for before metrics.
MutClassify(t1, t2, scale) ==
    IF IsJunk(t1, t2) THEN Rule("junk", "")
    ELSE IF Empty(t1) /\ Empty(t2) THEN Undecided
    ELSE IF Is(t1, "emoji") /\ Empty(t2) THEN Rule("others", "")
    ELSE IF IsJudgment(t1, t2)
         THEN Rule(IF scale = "unbounded" THEN "quantity" ELSE "quality", FeatureOf(t1, t2))
    ELSE IF IsMetric(t1, t2) THEN Rule("quantity", FeatureOf(t1, t2))
    ELSE Undecided

\* An emoji alone is "others" by a rule, the empty and the unknown by none.
Classify(t1, t2, scale) ==
    IF IsJunk(t1, t2) THEN Rule("junk", "")
    ELSE IF Empty(t1) /\ Empty(t2) THEN Undecided
    ELSE IF Is(t1, "emoji") /\ Empty(t2) THEN Rule("others", "")
    ELSE IF IsMetric(t1, t2) THEN Rule("quantity", FeatureOf(t1, t2))
    ELSE IF IsJudgment(t1, t2)
         THEN Rule(IF scale = "unbounded" THEN "quantity" ELSE "quality", FeatureOf(t1, t2))
    ELSE Undecided

-------------------------------------------------------------------------------
(* The hybrid classifier. An answer of the AI service is a category, with a      *)
(* feature; a transport error, another status than 200, a body that cannot be    *)
(* decoded and a category that does not exist are all the fallback.              *)

AiAnswers == {[category |-> c, feature |-> "agent_domain", source |-> "llm"] : c \in Categories}
             \cup {Undecided}

\* What the answer is made into: the rules' word on spam, noise and metrics stands.
Overridden(t1, t2, answer) ==
    IF IsSpam(t1, t2) \/ IsNoise(t1, t2)
    THEN [category |-> "junk", feature |-> "", source |-> "override"]
    ELSE IF answer.category = "quality" /\ IsMetric(t1, t2)
    THEN [category |-> "quantity", feature |-> FeatureOf(t1, t2), source |-> "override"]
    ELSE answer

\* Without an AI service what no rule decides stays "others".
AsksAi(t1, t2, scale) == Classify(t1, t2, scale).source # "rule"
Hybrid(t1, t2, scale, answer) ==
    IF AsksAi(t1, t2, scale) THEN Overridden(t1, t2, answer) ELSE Classify(t1, t2, scale)
================================================================================
