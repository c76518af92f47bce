---------------------------- MODULE MCCircuitBreaker ----------------------------
(* Jobs of one chain, two of them for the same contract.                       *)
EXTENDS CircuitBreaker

CONSTANTS j1, j2, j3, j4, c1, c2, c3

MCJobs == {j1, j2, j3}
MCFourJobs == MCJobs \cup {j4}
MCContractOf == [j \in MCJobs |-> IF j = j3 THEN c2 ELSE c1]
MCThreeContracts == [j \in MCFourJobs |-> CASE j = j3 -> c2 [] j = j4 -> c3 [] OTHER -> c1]

===============================================================================
