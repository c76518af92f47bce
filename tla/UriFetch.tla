-------------------------------- MODULE UriFetch -------------------------------
(* Fetching an off-chain URI and storing what came back: the resolver          *)
(* (domain/uri), the HTTP client with its retries (infra/https, pkg/retry) and  *)
(* the three callers that write one offchain_data row: the event_uri consumer   *)
(* (requeues a message whose row could not be written), the service_uri          *)
(* consumer (always acknowledges) and the API's reconnect of an endpoint. They  *)
(* share the rows and no lock, and each runs under a context that may be        *)
(* cancelled at any time. What the event_uri consumer does with its cursor is   *)
(* in UriPipeline.                                                              *)
EXTENDS Naturals, Integers, FiniteSets, Bags

CONSTANTS Uris,         \* URIs, records of what their text says (see Parsed)
          Workers,      \* calls of a handler that may run at once
          Answers,      \* what an endpoint may answer
          MaxTry,       \* retries after the first attempt
          MaxChanges,   \* bound: changes of an endpoint's answer
          MaxMessages,  \* bound: messages and API calls
          MaxCancels    \* bound: cancelled contexts and failed writes

Callers == {"event", "service", "reconnect"}
Bodies == {"json", "text"}
Transient == {"busy"}                       \* 429 and 5xx
AllAnswers == Bodies \cup Transient \cup {"gone", "refused", "cut", "huge"}

ASSUME FetchAssumption ==
    /\ Answers \subseteq AllAnswers
    /\ {MaxTry, MaxChanges, MaxMessages, MaxCancels} \subseteq Nat

VARIABLES site,         \* endpoint -> its answer now and how often it changed
          fetchQueue,        \* <<caller, uri>> messages and calls waiting (a bag)
          job,          \* worker -> the handler it runs
          row,          \* uri -> its offchain_data row
          got,          \* history: uri -> outcomes that a fetch of it ended with
          sent,         \* messages and calls so far
          cancels       \* cancelled contexts and failed writes so far

fetchVars == <<site, fetchQueue, job, row, got, sent, cancels>>

NoRow == [status |-> 0, content |-> "", error |-> ""]
Idle == [pc |-> "idle"]

-------------------------------------------------------------------------------
(* DetectURIType, IPFSToGatewayURL, ArweaveToGatewayURL and ParseDataURI: what  *)
(* is known of a URI before any request. "get": ask the endpoint.               *)

\* Unpacked payload of a data URI: gunzip, dezstd and debrotli refuse a stream
\* that is broken or longer than the cap.
Inflate(uri) == IF uri.enc # "" /\ uri.stream \in {"broken", "long"} THEN "parse"
                ELSE IF uri.stream = "json" THEN "json" ELSE "text"

\* enc is only looked at when the payload is base64.
ParseDataURI(uri) ==
    IF ~uri.comma THEN "parse"
    ELSE IF ~uri.base64 THEN IF uri.stream = "json" THEN "json" ELSE "text"
    ELSE IF ~uri.alphabet THEN "parse"
    ELSE Inflate(uri)

Parsed(uri) ==
    CASE uri.scheme = "data" -> ParseDataURI(uri)
      [] uri.scheme \in {"ipfs", "arweave"} -> IF uri.id = "" THEN "parse" ELSE "get"
      [] uri.scheme = "https" -> "get"
      [] OTHER -> "unsupported"

-------------------------------------------------------------------------------
(* retry.Do as FetchBody uses it. An error that wraps another one is final; so  *)
(* is every network error (a url.Error) and every error of readLimitedBody that *)
(* is wrapped. A 4xx is marked final; 429, 5xx and a body over the limit are    *)
(* plain errors and are retried.                                                *)

Final(answer) == answer \in Bodies \cup {"gone", "refused", "cut"}
Exhausted(tries) == tries > MaxTry

\* UpsertSuccess, UpsertFetchedNotJSON, UpsertFailure: every field is set.
Stored(outcome) ==
    CASE outcome = "json" -> [status |-> 5, content |-> outcome, error |-> ""]
      [] outcome = "text" -> [status |-> 1, content |-> outcome, error |-> ""]
      [] OTHER -> [status |-> -1, content |-> "", error |-> outcome]

-------------------------------------------------------------------------------
FetchInit ==
    /\ site \in [Uris -> [answer : Answers, changes : {0}]]
    /\ fetchQueue = EmptyBag /\ sent = 0 /\ cancels = 0
    /\ job = [w \in Workers |-> Idle]
    /\ row = [u \in Uris |-> NoRow]
    /\ got = [u \in Uris |-> {}]

\* A message is published, or a reader asks for a reconnect.
Ask(caller, uri) ==
    /\ sent < MaxMessages
    /\ sent' = sent + 1
    /\ fetchQueue' = fetchQueue (+) SetToBag({<<caller, uri>>})
    /\ UNCHANGED <<site, job, row, got, cancels>>

\* The endpoint's answer changes. External.
Change(uri) ==
    /\ Parsed(uri) = "get" /\ site[uri].changes < MaxChanges
    /\ \E a \in Answers \ {site[uri].answer} :
          site' = [site EXCEPT ![uri] = [answer |-> a, changes |-> @.changes + 1]]
    /\ UNCHANGED <<fetchQueue, job, row, got, sent, cancels>>

\* Handle / ReconnectServiceEndpoint up to the first request.
TakeMessage(w) ==
    /\ job[w] = Idle
    /\ \E m \in BagToSet(fetchQueue) :
          /\ fetchQueue' = fetchQueue (-) SetToBag({m})
          /\ job' = [job EXCEPT ![w] = [pc |-> IF Parsed(m[2]) = "get" THEN "get" ELSE "write",
                                        caller |-> m[1], uri |-> m[2], tries |-> 1,
                                        cancelled |-> FALSE,
                                        outcome |-> Parsed(m[2])]]
          /\ got' = [got EXCEPT ![m[2]] = IF Parsed(m[2]) = "get" THEN @ ELSE @ \cup {Parsed(m[2])}]
    /\ UNCHANGED <<site, row, sent, cancels>>

\* The process stops, or the API's client goes away.
Cancel(w) ==
    /\ job[w] # Idle /\ ~job[w].cancelled /\ cancels < MaxCancels
    /\ job' = [job EXCEPT ![w].cancelled = TRUE]
    /\ cancels' = cancels + 1
    /\ UNCHANGED <<site, fetchQueue, row, got, sent>>

\* One attempt of FetchBody.
Get(w) ==
    /\ job[w].pc = "get" /\ ~job[w].cancelled
    /\ LET answer == site[job[w].uri].answer
           ends == Final(answer) \/ Exhausted(job[w].tries)
       IN  /\ job' = [job EXCEPT ![w].pc = IF ends THEN "write" ELSE "backoff", ![w].outcome = answer]
           /\ got' = [got EXCEPT ![job[w].uri] = IF ends THEN @ \cup {answer} ELSE @]
    /\ UNCHANGED <<site, fetchQueue, row, sent, cancels>>

Backoff(w) ==
    /\ job[w].pc = "backoff" /\ ~job[w].cancelled
    /\ job' = [job EXCEPT ![w].pc = "get", ![w].tries = @ + 1]
    /\ UNCHANGED <<site, fetchQueue, row, got, sent, cancels>>

\* The request or the wait is cut short: the fetch ends with the context's error.
Interrupted(w) ==
    /\ job[w].pc \in {"get", "backoff"} /\ job[w].cancelled
    /\ job' = [job EXCEPT ![w].pc = "write", ![w].outcome = "cancelled"]
    /\ UNCHANGED <<site, fetchQueue, row, got, sent, cancels>>

\* The row of the fetch, written under the same context.
WriteRow(w) ==
    /\ job[w].pc = "write" /\ ~job[w].cancelled
    /\ row' = [row EXCEPT ![job[w].uri] = Stored(job[w].outcome)]
    /\ job' = [job EXCEPT ![w] = Idle]
    /\ UNCHANGED <<site, fetchQueue, got, sent, cancels>>

\* Mutant of WriteLost: the row of a cancelled fetch is written all the same.
MutWriteLost(w) ==
    /\ job[w].pc = "write" /\ job[w].cancelled
    /\ row' = [row EXCEPT ![job[w].uri] = Stored(job[w].outcome)]
    /\ job' = [job EXCEPT ![w] = Idle]
    /\ UNCHANGED <<site, fetchQueue, got, sent, cancels>>
\* The row cannot be written: only the event_uri consumer has its message again.
WriteLost(w) ==
    /\ job[w].pc = "write" /\ job[w].cancelled
    /\ fetchQueue' = IF job[w].caller = "event"
                THEN fetchQueue (+) SetToBag({<<"event", job[w].uri>>}) ELSE fetchQueue
    /\ job' = [job EXCEPT ![w] = Idle]
    /\ UNCHANGED <<site, row, got, sent, cancels>>

FetchNext ==
    \/ \E c \in Callers, u \in Uris : Ask(c, u)
    \/ \E u \in Uris : Change(u)
    \/ \E w \in Workers : \/ TakeMessage(w) \/ Cancel(w) \/ Get(w) \/ Backoff(w)
                          \/ Interrupted(w) \/ WriteRow(w) \/ WriteLost(w)

FetchSpec == FetchInit /\ [][FetchNext]_fetchVars

-------------------------------------------------------------------------------
\* A stored row is what one fetch of that URI ended with, whole: its status, its
\* content and its error belong together, and neither a cancelled context nor an
\* answer that was to be retried ever marks an endpoint as failed, whoever else
\* writes the same row (offchain/repo.go, consumer_service_uri.go, agent.go).
RowIsAnAnswer ==
    \A u \in Uris : row[u] = NoRow \/ \E outcome \in got[u] : row[u] = Stored(outcome)
================================================================================
