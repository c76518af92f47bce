------------------------------ MODULE MCScoreCycle -----------------------------
(* Two agents of two chains: the first in _id order is registered late, moves  *)
(* the other to a later page and gets both rows, one of them without mass.  One *)
(* wallet gives them, the other owns both agents.                              *)
EXTENDS ScoreCycle

CONSTANTS a1, a2, r1, r2, w1, w2, k1, k2

MCOrder == <<a1, a2>>
MCChainOf == [a \in {a1, a2} |-> IF a = a1 THEN k1 ELSE k2]
MCOwnerOf == [a \in {a1, a2} |-> w2]
MCAgentOf == [r \in {r1, r2} |-> a1]
MCReviewerOf == [r \in {r1, r2} |-> w1]
MCWalletChain == [w \in {w1, w2} |-> IF w = w1 THEN k1 ELSE k2]

===============================================================================
