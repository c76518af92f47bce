------------------------------- MODULE Serving --------------------------------
(* What is served from the derived data, and what keeps that data, part by part: *)
(* the score of an agent (ScoreReplay), the realtime stream (WebSocketHub), the   *)
(* limiter and the page cache (ApiServer), the off-chain rows (UriFetch), the     *)
(* reset of everything derived (ResetTool) and the lists read page by page        *)
(* (ReadSide). The parts share no variable, so a behaviour takes one of them and   *)
(* leaves the others as they are.                                                *)
EXTENDS ScoreReplay, WebSocketHub, ApiServer, UriFetch, ResetTool, ReadSide

VARIABLE servingPart    \* the part a behaviour is about

servingVars == <<servingPart, vars, hubVars, apiVars, fetchVars, resetVars, readVars>>

ServingParts == {"score", "stream", "api", "fetch", "reset", "read"}

\* The parts a behaviour is not about keep one initial state.
ServingInit ==
    /\ servingPart \in ServingParts
    /\ Init /\ HubInit /\ ApiInit /\ ResetInit
    /\ FetchInit /\ (servingPart # "fetch" => \A u \in Uris : site[u].answer = CHOOSE a \in Answers : TRUE)
    /\ ReadInit /\ (servingPart # "read" => reader.list = CHOOSE l \in Lists : TRUE)

ScorePart == servingPart = "score" /\ Next
             /\ UNCHANGED <<servingPart, hubVars, apiVars, fetchVars, resetVars, readVars>>
StreamPart == servingPart = "stream" /\ HubNext
              /\ UNCHANGED <<servingPart, vars, apiVars, fetchVars, resetVars, readVars>>
ApiPart == servingPart = "api" /\ ApiNext
           /\ UNCHANGED <<servingPart, vars, hubVars, fetchVars, resetVars, readVars>>
FetchPart == servingPart = "fetch" /\ FetchNext
             /\ UNCHANGED <<servingPart, vars, hubVars, apiVars, resetVars, readVars>>
ResetPart == servingPart = "reset" /\ ResetNext
             /\ UNCHANGED <<servingPart, vars, hubVars, apiVars, fetchVars, readVars>>
ReadPart == servingPart = "read" /\ ReadNext
            /\ UNCHANGED <<servingPart, vars, hubVars, apiVars, fetchVars, resetVars>>

ServingNext == ScorePart \/ StreamPart \/ ApiPart \/ FetchPart \/ ResetPart \/ ReadPart

\* Every property of the parts is one of safety: no fairness is assumed.
ServingSpec == ServingInit /\ [][ServingNext]_servingVars
===============================================================================
