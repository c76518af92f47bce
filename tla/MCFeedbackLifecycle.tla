-------------------------- MODULE MCFeedbackLifecycle --------------------------
(* Small instances of FeedbackLifecycle: rows the rules decide (f1) and rows   *)
(* they leave to the LLM (f2), with and without a revocation.                  *)
EXTENDS FeedbackLifecycle, TLC

CONSTANTS f1, f2, g1, g2, r1, r2, o1, o2

MCOthers == [f \in {f2} |-> "others"]
MCMixed == [f \in {f1, f2} |-> IF f = f1 THEN "quality" ELSE "others"]

Given(f) == [kind |-> "new", fb |-> f]
Revoked(f) == [kind |-> "revoke", fb |-> f]

MCOneOther == <<Given(f2)>>
MCTwoThenRevoked == <<Given(f1), Given(f2), Revoked(f1)>>
WorkerSymmetry == Permutations(Graders) \cup Permutations(Others)

===============================================================================
