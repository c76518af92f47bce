------------------------------ MODULE ServiceMatch -----------------------------
(* Which declared service a feedback endpoint belongs to                       *)
(* (domain/serviceendpoint), and how the API looks the feedback of a service   *)
(* up. A normalised endpoint is the sequence of its parts: path segments and   *)
(* the marks "/", "?" and "#"; <<>> is an empty endpoint.                      *)
EXTENDS Naturals, Sequences, SequencesExt

Marks == {"/", "?", "#"}

\* Normalize: blanks and case are gone, and so is every slash at the end.
Normalize(endpoint) ==
    LET kept == {n \in 0..Len(endpoint) : \A i \in n + 1..Len(endpoint) : endpoint[i] = "/"}
    IN  SubSeq(endpoint, 1, CHOOSE n \in kept : \A k \in kept : n <= k)

HasPrefixAtBoundary(longer, shorter) ==
    IsPrefix(shorter, longer)
    /\ (Len(shorter) = Len(longer) \/ longer[Len(shorter) + 1] \in Marks)

Related(one, other) ==
    LET fb == Normalize(one)
        svc == Normalize(other)
    IN  fb # <<>> /\ svc # <<>> /\ (HasPrefixAtBoundary(fb, svc) \/ HasPrefixAtBoundary(svc, fb))

\* MatchService: the related service with the longest endpoint, the first of them.
\* The services are given by their endpoints; 0 when none is related.
MatchService(services, endpoint) ==
    LET related == {i \in 1..Len(services) : Related(endpoint, services[i])}
        Longer(i, j) == Len(Normalize(services[i])) > Len(Normalize(services[j]))
    IN  IF related = {} THEN 0
        ELSE CHOOSE i \in related : \A j \in related \ {i} : Longer(i, j) \/ (~Longer(j, i) /\ i < j)

\* BuildIndex and the accumulator of a match: the first service with that endpoint.
IndexOf(services, i) ==
    CHOOSE k \in 1..Len(services) :
        /\ Normalize(services[k]) = Normalize(services[i])
        /\ \A j \in 1..k - 1 : Normalize(services[j]) # Normalize(services[i])

\* boundaryPrefixes: what is left of a slash, and the endpoint itself.
BoundaryPrefixes(endpoint) ==
    {Normalize(SubSeq(endpoint, 1, n - 1)) : n \in {i \in 1..Len(endpoint) : endpoint[i] = "/"}}
    \cup {endpoint}

\* EndpointRelatedFilter: the stored endpoints that the query of a service selects.
Selected(service, stored) ==
    LET base == Normalize(service) IN
    /\ base # <<>>
    /\ \/ HasPrefixAtBoundary(stored, base)
       \/ stored \in BoundaryPrefixes(base) \ {<<>>}
================================================================================
