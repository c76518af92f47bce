------------------------------- MODULE MCServing -------------------------------
(* Small instances of the parts of Serving. Score: two nested services, one of   *)
(* them declared twice; feedback that passes, fails, waits for the LLM, or is the *)
(* owner's. Fetch: an endpoint and a data URI that unpacks beyond the cap. Read:   *)
(* lists of every kind, two reviewers and three agents on two chains.              *)
EXTENDS Serving

CONSTANTS c1, c2, a1, a2, a3        \* c2 owns the agent

\* Score.
Plain == [reasoning |-> 0, attachment |-> 0, breakdown |-> 0, payment |-> 0, confidence |-> 1]
Rich == [Plain EXCEPT !.reasoning = 1, !.attachment = 1, !.breakdown = 1, !.payment = 1]
Given(client, cat, v, signals, endpoint) ==
    [client |-> client, cat |-> cat, value |-> "number", v |-> v, signals |-> signals, endpoint |-> endpoint]

MCServices == <<<<"host">>, <<"host", "/", "a">>, <<"host", "/", "a", "/">>>>
MCStatuses == <<1, 5, -1>>
MCNames == <<"web", "mcp", "ens">>
MCCard == {"agentURI", "name", "services", "image"}
MCWindows == <<2, 1, 0>>
MCKinds == {Given(c1, "quality", 10, Rich, <<"host", "/", "a", "?", "q">>),
            Given(c1, "quality", 2, Plain, <<"host", "/">>),
            Given(c1, "others", 8, Plain, <<>>),
            Given(c2, "quality", 10, Rich, <<"other">>)}

\* Pages of the API live for one unit of time.
MCTtl == [p \in Pages |-> 1]

\* Fetch.
MCUris == {[scheme |-> "https"],
           [scheme |-> "data", comma |-> TRUE, base64 |-> TRUE, alphabet |-> TRUE, enc |-> "gzip", stream |-> "long"]}

\* Read.
OfAgent(category, status, desc) ==
    [kind |-> "feedbacks", category |-> category, status |-> status, desc |-> desc]
MCLists == {OfAgent("", "", TRUE), OfAgent("others", "", FALSE), OfAgent("", "revoked", FALSE),
            OfAgent("", "accepted", TRUE), [kind |-> "penalties", mode |-> "both"],
            [kind |-> "wallets", chains |-> {1, 2}],
            [kind |-> "agents", chains |-> {1, 2}, sort |-> "score_desc", minScore |-> 1],
            [kind |-> "clients"], [kind |-> "stars"]}
MCChainOf == (a1 :> 1) @@ (a2 :> 1) @@ (a3 :> 2)
===============================================================================
