---------------------------- MODULE MCConsumerPool -----------------------------
(* Two queues; one of the messages of the first has a body that does not       *)
(* decode.                                                                     *)
EXTENDS ConsumerPool, TLC

CONSTANTS k1, k2, m1, m2, m3

MCKeyOf == [m \in Messages |-> IF m = m3 THEN k2 ELSE k1]

===============================================================================
