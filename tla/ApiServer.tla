-------------------------------- MODULE ApiServer ------------------------------
(* What stands before the handlers of the HTTP API: one token bucket for each   *)
(* client address, forgotten when the address is idle (middleware/ratelimit.go, *)
(* golang.org/x/time/rate), and the response cache that all pages share, with a *)
(* time to live for each route (middleware/cache.go, cache/cache.go). The pages *)
(* are read from the stores, which the workers write.                          *)
EXTENDS Naturals

CONSTANTS Addrs,        \* client addresses, as realIP tells them apart
          Pages,        \* cached URLs
          Ttl,          \* time to live of each of them
          Burst,        \* depth of a bucket
          Rate,         \* tokens a bucket gains in one unit of time
          IdleTTL,      \* how long an address is remembered
          Slots,        \* requests that may run at once
          MaxTime,      \* bound: units of time
          MaxWrites,    \* bound: writes to the stores
          MaxHandling   \* bound: how long a handler takes

\* A bucket is full again by the time its address is forgotten.
ASSUME ApiAssumption ==
    /\ Burst \in Nat \ {0} /\ Rate \in Nat /\ IdleTTL \in Nat /\ IdleTTL * Rate >= Burst
    /\ Ttl \in [Pages -> Nat] /\ MaxTime \in Nat /\ MaxWrites \in Nat /\ MaxHandling \in Nat

Times == 0..MaxTime
NoVisitor == [known |-> FALSE, tokens |-> 0, last |-> 0, seen |-> 0]
NoEntry == [known |-> FALSE, version |-> 0, expiry |-> 0]
NoRequest == [pc |-> "free"]

VARIABLES clock,
          visitors,     \* ipLimiterStore: bucket and last request of an address
          cache,        \* cache.Memory: the body kept for a page
          version,      \* version of what the stores hold
          requests,     \* the requests whose handler runs
          allowed,      \* history: requests allowed since a time, for each address
          until         \* history: when a version stopped being the current one

apiVars == <<clock, visitors, cache, version, requests, allowed, until>>

Versions == 0..MaxWrites

ApiInit ==
    /\ clock = 0 /\ version = 0
    /\ visitors = [a \in Addrs |-> NoVisitor]
    /\ cache = [p \in Pages |-> NoEntry]
    /\ requests = [s \in Slots |-> NoRequest]
    /\ allowed = [a \in Addrs |-> [t \in Times |-> 0]]
    /\ until = [v \in Versions |-> MaxTime]

-------------------------------------------------------------------------------
(* The rate limiter.                                                           *)

AtMost(n, cap) == IF n < cap THEN n ELSE cap
\* The visitor of an address as allow finds it: a new one has a full bucket.
Found(a) ==
    IF visitors[a].known
    THEN [visitors[a] EXCEPT !.tokens = AtMost(@ + Rate * (clock - visitors[a].last), Burst), !.last = clock]
    ELSE [known |-> TRUE, tokens |-> Burst, last |-> clock, seen |-> clock]
\* Mutant of Seen: the time of the last request is only set with the bucket.
MutSeen(v) == v
Seen(v) == [v EXCEPT !.seen = clock]

Allowed(a) == Found(a).tokens > 0
TakeToken(a) == visitors' = [visitors EXCEPT ![a] = [Seen(Found(a)) EXCEPT !.tokens = @ - 1]]
           /\ allowed' = [allowed EXCEPT ![a] = [t \in Times |-> IF t <= clock THEN @[t] + 1 ELSE @[t]]]

\* 429: the bucket is empty.
Refuse(a) ==
    /\ ~Allowed(a) /\ visitors' = [visitors EXCEPT ![a] = Seen(Found(a))]
    /\ UNCHANGED <<clock, cache, version, requests, allowed, until>>

\* cleanupLoop: the addresses that were idle for longer than IdleTTL.
Cleanup ==
    /\ visitors' = [a \in Addrs |-> IF visitors[a].seen + IdleTTL < clock THEN NoVisitor ELSE visitors[a]]
    /\ visitors' # visitors
    /\ UNCHANGED <<clock, cache, version, requests, allowed, until>>

-------------------------------------------------------------------------------
(* ResponseCache around a handler.                                             *)

\* Mutant of Fresh: only the janitor looks at the expiry.
MutFresh(p) == cache[p].known
Fresh(p) == cache[p].known /\ clock <= cache[p].expiry

\* The page is in the cache: it is served as it was stored.
Hit(a, p) ==
    /\ Allowed(a) /\ Fresh(p) /\ TakeToken(a)
    /\ UNCHANGED <<clock, cache, version, requests, until>>

\* It is not: the handler starts.
Miss(a, s, p) ==
    /\ requests[s].pc = "free" /\ Allowed(a) /\ ~Fresh(p) /\ TakeToken(a)
    /\ requests' = [requests EXCEPT ![s] = [pc |-> "called", page |-> p, at |-> clock, version |-> version]]
    /\ UNCHANGED <<clock, cache, version, until>>

\* The handler reads the stores.
Read(s) ==
    /\ requests[s].pc = "called"
    /\ requests' = [requests EXCEPT ![s].pc = "read", ![s].version = version]
    /\ UNCHANGED <<clock, visitors, cache, version, allowed, until>>

\* It answers 200 and the body is kept, whatever was stored meanwhile.
Answer(s) ==
    /\ requests[s].pc = "read"
    /\ LET p == requests[s].page IN
        cache' = [cache EXCEPT ![p] = [known |-> TRUE, version |-> requests[s].version, expiry |-> clock + Ttl[p]]]
    /\ requests' = [requests EXCEPT ![s] = NoRequest]
    /\ UNCHANGED <<clock, visitors, version, allowed, until>>

\* It answers anything else: an error of a store, a bad request.
HandlerFails(s) ==
    /\ requests[s].pc # "free"
    /\ requests' = [requests EXCEPT ![s] = NoRequest]
    /\ UNCHANGED <<clock, visitors, cache, version, allowed, until>>

\* StartJanitor: expired entries go.
Janitor ==
    /\ cache' = [p \in Pages |-> IF clock > cache[p].expiry THEN NoEntry ELSE cache[p]]
    /\ cache' # cache
    /\ UNCHANGED <<clock, visitors, version, requests, allowed, until>>

-------------------------------------------------------------------------------
(* A worker writes what the pages show; time passes, at most MaxHandling of it  *)
(* while a handler runs.                                                       *)

StoreWrite ==
    /\ version < MaxWrites /\ version' = version + 1
    /\ until' = [until EXCEPT ![version] = clock]
    /\ UNCHANGED <<clock, visitors, cache, requests, allowed>>

ClockTick ==
    /\ clock < MaxTime /\ clock' = clock + 1
    /\ \A s \in Slots : requests[s].pc # "free" => clock < requests[s].at + MaxHandling
    /\ UNCHANGED <<visitors, cache, version, requests, allowed, until>>

ApiNext ==
    \/ \E a \in Addrs : Refuse(a) \/ \E p \in Pages : Hit(a, p) \/ \E s \in Slots : Miss(a, s, p)
    \/ \E s \in Slots : Read(s) \/ Answer(s) \/ HandlerFails(s)
    \/ Cleanup \/ Janitor \/ StoreWrite \/ ClockTick

ApiSpec == ApiInit /\ [][ApiNext]_apiVars

-------------------------------------------------------------------------------
(* Properties.                                                                 *)

\* No address gets more requests through in a window that ends now than a bucket
\* holds and gains in it, although its bucket is forgotten and made anew, full,
\* between two requests (ratelimit.go allow and cleanupLoop).
BurstBounded ==
    \A a \in Addrs : \A t \in 0..clock : allowed[a][t] <= Burst + Rate * (clock - t)

\* A page served from the cache was true of the stores at most its time to live
\* and the time of one handler ago, also when a slow handler stores what it read
\* over the newer page of a fast one (cache.go ResponseCache, cache/cache.go Get).
PageFresh ==
    \A p \in Pages : Fresh(p) => until[cache[p].version] + Ttl[p] + MaxHandling >= clock
================================================================================
