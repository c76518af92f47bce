----------------------------- MODULE MCUriPipeline -----------------------------
(* Small instances of UriPipeline for TLC.                                     *)
EXTENDS UriPipeline, TLC

CONSTANTS u1, u2

WorkerSymmetry == Permutations(Workers)

\* Three events; the second carries no URI.
MCUriOf == [e \in Pos |-> CASE e = 1 -> u1 [] e = 2 -> NoUri [] OTHER -> u2]

\* Two events, each with a URI of its own: uri_fetched can be moved back.
MCUriOfEach == [e \in Pos |-> IF e = 1 THEN u1 ELSE u2]

===============================================================================
