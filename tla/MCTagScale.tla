------------------------------- MODULE MCTagScale ------------------------------
(* Two chains that share a tag pair: a vote for star5, one for a wider scale    *)
(* and one that fits no scale.                                                  *)
EXTENDS TagScale

CONSTANTS c1, c2, f1, f2, f3, quality, none

MCClassesOf == [t \in {quality, none} |-> IF t = quality THEN {"quality", "keyword"} ELSE {"empty"}]
MCChainOf == [f \in {f1, f2, f3} |-> IF f = f2 THEN c2 ELSE c1]
MCTierOf == [f \in {f1, f2, f3} |-> IF f = f1 THEN "star5" ELSE IF f = f2 THEN "pct100" ELSE "unbounded"]

===============================================================================
