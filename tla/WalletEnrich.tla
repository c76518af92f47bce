----------------------------- MODULE WalletEnrich ------------------------------
(* The wallet-enrich daemon (app/extenrich): a queue consumer that batches new *)
(* wallets for a cheap RPC pass, rate-limited explorer and ENS workers behind  *)
(* bounded job channels, and a periodic sweep that lists what is still missing.*)
(* All of them write the external subdocument of a wallet, in the runtime      *)
(* database and in a permanent cache, from snapshots taken earlier.            *)
(* The score of a subdocument is left out.  A graceful stop does to the stores *)
(* and the queue what a prefix of the steps followed by a crash does: Crash    *)
(* stands for both.                                                            *)
EXTENDS Naturals, Sequences, FiniteSets

CONSTANTS Wallets,
          Named,        \* wallets with an ENS name (chain 1)
          Unserved,     \* wallets on chains the explorer may refuse for good
          Sweepers,     \* sweeps that may run at once (cron does not exclude them)
          Explorers,    \* explorer workers, one per API key
          EnsWorkers,
          JobCap,       \* capacity of a job channel (1000 in the code)
          NoDoc,        \* no snapshot
          Nobody,       \* no wallet
          MaxFaults,    \* bound: failed and refused calls, lost publishes, crashes
          MaxResets     \* bound: runs of restart-trustrank

ASSUME ParamsAssumption ==
    /\ Named \subseteq Wallets /\ Unserved \subseteq Wallets
    /\ JobCap \in Nat \ {0} /\ MaxFaults \in Nat /\ MaxResets \in Nat
    /\ Nobody \notin Wallets
    /\ "batch" \notin Sweepers /\ Explorers \cap EnsWorkers = {}

Features == {"cheap", "rich"}
\* ExternalDoc: cheapFetched (and present, always written with it),
\* richFetched, ensFetched, complete, explorerSkipped, ens # "", ensAt # 0.
Doc == [cheap : BOOLEAN, rich : BOOLEAN, ensF : BOOLEAN, complete : BOOLEAN,
        skipped : BOOLEAN, ens : BOOLEAN, ensAt : BOOLEAN]
ASSUME NoDocAssumption == NoDoc \notin Doc
Empty == [cheap |-> FALSE, rich |-> FALSE, ensF |-> FALSE, complete |-> FALSE,
          skipped |-> FALSE, ens |-> FALSE, ensAt |-> FALSE]

Passes == {"batch"} \cup Sweepers
Workers == Explorers \cup EnsWorkers
Kinds == {"cheap", "explorer", "ens"}

VARIABLES alive,        \* the daemon runs
          known,        \* wallets that exist in the runtime database
          doc,          \* their external subdocument
          cache,        \* wallet_external_cache
          queue,        \* wallet_enrich messages waiting at the broker
          unacked,      \* messages the consumer has and has not acknowledged
          sub,          \* the delivery submit() is working on
          subUpd,       \* the cache hit it is about to write
          entries,      \* cheapBatcher.entries
          pc,           \* control of the batcher's flush and of each sweep
          kind,         \* which of its three sweeps a sweep is in
          todo,         \* wallets left in the loop it runs
          snap,         \* snapshots it works from
          upd,          \* cache hits it is about to write
          jobs,         \* explorerJobs and ensJobs
          wk,           \* the job a worker is at, and what it has yet to write to the cache
          had,          \* history: features the cache held at the last reset
          lookupFailed, \* history: a cache lookup failed since
          faults, resets

stores == <<known, doc, cache>>
consumer == <<queue, unacked, sub, subUpd, entries>>
passes == <<pc, kind, todo, snap, upd>>
history == <<had, lookupFailed, resets>>
vars == <<alive, stores, consumer, passes, jobs, wk, history, faults>>

None == [w \in Wallets |-> NoDoc]
Picked(s) == {w \in Wallets : s[w] # NoDoc}
Fault == faults < MaxFaults /\ faults' = faults + 1

-------------------------------------------------------------------------------
(* The updates.                                                                *)

\* buildExternalSet: every field but ens, ensAvatar and ensAt.
SetExternal(old, d) == [d EXCEPT !.ens = old.ens, !.ensAt = old.ensAt]
\* buildExternalENSSet.
SetExternalENS(old, d) == [old EXCEPT !.ens = d.ens, !.ensAt = d.ensAt, !.ensF = d.ensF]
Set(k, old, d) == IF k = "ens" THEN SetExternalENS(old, d) ELSE SetExternal(old, d)
SetAll(k, store, u) == [w \in Wallets |-> IF u[w] = NoDoc THEN store[w] ELSE Set(k, store[w], u[w])]

\* cheapPassBatch
CheapDoc(d) == [d EXCEPT !.cheap = TRUE, !.complete = FALSE]
\* enrichOneExplorer, writeExplorerSkipped
RichDoc(d) == [d EXCEPT !.rich = TRUE, !.complete = TRUE]
SkippedDoc(d) == [d EXCEPT !.rich = TRUE, !.complete = FALSE, !.skipped = TRUE]
\* enrichOneENS; ensCacheHit, which leaves ENSFetched unset.
EnsDoc(d, name) == [d EXCEPT !.ens = name, !.ensAt = TRUE, !.ensF = TRUE]
EnsHit(d, c) == [d EXCEPT !.ens = c.ens, !.ensAt = TRUE, !.ensF = FALSE]

\* Mutant of Hit: the cheap pass asks for a complete cache entry.
MutHitComplete(k, d, c) ==
    CASE k = "cheap" -> IF c.complete THEN c ELSE NoDoc
      [] k = "explorer" -> IF c.complete THEN c ELSE NoDoc
      [] k = "ens" -> IF c.ensAt THEN EnsHit(d, c) ELSE NoDoc

\* cacheHitUpdate, explorerCacheHit, ensCacheHit.
Hit(k, d, c) ==
    CASE k = "cheap" -> IF c.cheap THEN c ELSE NoDoc
      [] k = "explorer" -> IF c.complete THEN c ELSE NoDoc
      [] k = "ens" -> IF c.ensAt THEN EnsHit(d, c) ELSE NoDoc

\* Mutant of Due: the explorer sweep waits for the ENS pass.
MutDueAfterEns(k, d) ==
    CASE k = "cheap" -> ~d.cheap
      [] k = "explorer" -> d.cheap /\ d.ensF /\ ~d.rich /\ ~d.skipped
      [] k = "ens" -> d.cheap /\ ~d.ensF

\* The filters of the three sweeps.
Due(k, d) ==
    CASE k = "cheap" -> ~d.cheap
      [] k = "explorer" -> d.cheap /\ ~d.rich /\ ~d.skipped
      [] k = "ens" -> d.cheap /\ ~d.ensF

\* What a later write uses of a snapshot: the rest of it is overwritten or not
\* written at all, and is not kept in the state.
Taken(k, d) == CASE k = "cheap" -> [d EXCEPT !.complete = FALSE, !.ens = FALSE, !.ensAt = FALSE]
                 [] k = "explorer" -> [d EXCEPT !.complete = FALSE, !.rich = FALSE, !.ens = FALSE, !.ensAt = FALSE]
                 [] k = "ens" -> Empty
Written(k, d) == IF k = "ens" THEN [Empty EXCEPT !.ens = d.ens, !.ensAt = d.ensAt, !.ensF = d.ensF]
                 ELSE [d EXCEPT !.ens = FALSE, !.ensAt = FALSE]
Job(k, w, d) == [w |-> w, snap |-> Taken(k, d)]
TrySend(ch, j) == IF Len(ch) < JobCap THEN Append(ch, j) ELSE ch
\* enqueueDownstream: what is pending goes to the workers, unless their channel
\* is full.
Downstream(w, d) ==
    [explorer |-> IF d.rich \/ d.skipped THEN jobs.explorer ELSE TrySend(jobs.explorer, Job("explorer", w, d)),
     ens |-> IF d.ensF THEN jobs.ens ELSE TrySend(jobs.ens, Job("ens", w, d))]

-------------------------------------------------------------------------------
(* TrustRank: a wallet is created, and announced unless the publish fails.     *)

Discover(w) == /\ w \notin known
               /\ known' = known \cup {w}
               /\ \/ queue' = queue \cup {w} /\ UNCHANGED faults
                  \/ Fault /\ UNCHANGED queue
               /\ UNCHANGED <<alive, doc, cache, unacked, sub, subUpd, entries, passes, jobs, wk, history>>

-------------------------------------------------------------------------------
(* The consumer: submit().                                                     *)

Ack(w) == unacked' = unacked \ {w}

\* GetByAddress: an enriched wallet goes downstream and is acknowledged.
Receive(w) ==
    /\ alive /\ sub = Nobody /\ w \in queue
    /\ queue' = queue \ {w}
    /\ \/ /\ doc[w].cheap
          /\ jobs' = Downstream(w, doc[w])
          /\ UNCHANGED <<unacked, sub, faults>>
       \/ /\ ~doc[w].cheap
          /\ sub' = w /\ unacked' = unacked \cup {w}
          /\ UNCHANGED <<jobs, faults>>
       \/ Fault /\ UNCHANGED <<unacked, sub, jobs>>
    /\ UNCHANGED <<alive, stores, subUpd, entries, passes, wk, history>>

\* applyCheapCacheHit reads the cache; a miss joins the batch.
SubmitLookup ==
    /\ alive /\ sub # Nobody /\ subUpd = NoDoc
    /\ \/ /\ cache[sub].cheap
          /\ subUpd' = cache[sub]
          /\ UNCHANGED <<sub, entries, lookupFailed, faults>>
       \/ /\ IF cache[sub].cheap THEN Fault /\ lookupFailed' = TRUE
                                 ELSE UNCHANGED <<faults, lookupFailed>>
          /\ entries' = entries \cup {sub}
          /\ sub' = Nobody /\ UNCHANGED subUpd
    /\ UNCHANGED <<alive, stores, queue, unacked, passes, jobs, wk, had, resets>>

\* The hit is written and goes downstream; an error is acknowledged too.
SubmitHit == /\ alive /\ sub # Nobody /\ subUpd # NoDoc
             /\ \/ /\ doc' = [doc EXCEPT ![sub] = SetExternal(@, subUpd)]
                   /\ jobs' = Downstream(sub, subUpd)
                   /\ UNCHANGED faults
                \/ Fault /\ UNCHANGED <<doc, jobs>>
             /\ Ack(sub)
             /\ sub' = Nobody /\ subUpd' = NoDoc
             /\ UNCHANGED <<alive, known, cache, queue, entries, passes, wk, history>>

-------------------------------------------------------------------------------
(* Cheap passes (cheapPassChain), by the batcher and by a sweep, and the cache *)
(* lookups of the other sweeps.                                                *)

At(p, where) == alive /\ pc[p] = where
Go(p, where) == pc' = [pc EXCEPT ![p] = where]
\* What follows a phase: the batcher reads its wallets again, a sweep goes on
\* to its next phase, after the last one to the next time cron starts it.
Done(p) == /\ kind' = [kind EXCEPT ![p] =
                         CASE p = "batch" -> "cheap"
                           [] p # "batch" /\ @ = "cheap" -> "explorer"
                           [] p # "batch" /\ @ = "explorer" -> "ens"
                           [] OTHER -> "cheap"]
           /\ Go(p, IF p = "batch" THEN "post" ELSE "list")
           /\ snap' = [snap EXCEPT ![p] = None]
           /\ upd' = [upd EXCEPT ![p] = None]

\* flush() takes the entries; flushChain reads each wallet again.
Flush == /\ At("batch", "idle") /\ entries # {}
         /\ entries' = {}
         /\ todo' = [todo EXCEPT !["batch"] = entries]
         /\ Go("batch", "list")
         /\ UNCHANGED <<alive, stores, queue, unacked, sub, subUpd, kind, snap, upd, jobs, wk, history, faults>>
Refetch(w) == /\ At("batch", "list") /\ w \in todo["batch"]
              /\ todo' = [todo EXCEPT !["batch"] = @ \ {w}]
              /\ \/ /\ doc[w].cheap
                    /\ jobs' = Downstream(w, doc[w])
                    /\ Ack(w) /\ UNCHANGED <<snap, faults>>
                 \/ /\ ~doc[w].cheap
                    /\ snap' = [snap EXCEPT !["batch"][w] = Taken("cheap", doc[w])]
                    /\ UNCHANGED <<jobs, unacked, faults>>
                 \/ Fault /\ Ack(w) /\ UNCHANGED <<snap, jobs>>
              /\ UNCHANGED <<alive, stores, queue, sub, subUpd, entries, pc, kind, upd, wk, history>>
Refetched == /\ At("batch", "list") /\ todo["batch"] = {}
             /\ Go("batch", IF Picked(snap["batch"]) = {} THEN "idle" ELSE "lookup")
             /\ UNCHANGED <<alive, stores, consumer, kind, todo, snap, upd, jobs, wk, history, faults>>

\* A sweep lists the wallets due for its phase; nothing to do ends the phase.
List(s) ==
    /\ At(s, "list") /\ s \in Sweepers
    /\ LET due == {w \in known : Due(kind[s], doc[w])} IN
       IF due = {} THEN Done(s)
       ELSE /\ snap' = [snap EXCEPT ![s] = [w \in Wallets |-> IF w \in due THEN Taken(kind[s], doc[w]) ELSE NoDoc]]
            /\ Go(s, "lookup") /\ UNCHANGED <<kind, upd>>
    /\ UNCHANGED <<alive, stores, consumer, todo, jobs, wk, history, faults>>

\* The misses go to the RPC, or to the job channel.
Misses(p, miss) ==
    IF Picked(miss) = {} THEN Done(p) /\ UNCHANGED todo
    ELSE /\ Go(p, IF kind[p] = "cheap" THEN "rpc" ELSE "push")
         /\ todo' = [todo EXCEPT ![p] = IF kind[p] = "cheap" THEN @ ELSE Picked(miss)]
         /\ snap' = [snap EXCEPT ![p] = miss]
         /\ upd' = [upd EXCEPT ![p] = None]
         /\ UNCHANGED kind

\* lookupCache: an error counts as a miss for every wallet.
Lookup(p) ==
    /\ At(p, "lookup")
    /\ LET hit(w) == Hit(kind[p], snap[p][w], cache[w])
           hits == [w \in Wallets |-> IF snap[p][w] = NoDoc \/ hit(w) = NoDoc THEN NoDoc
                                      ELSE Written(kind[p], hit(w))]
       IN \/ /\ hits # None
             /\ upd' = [upd EXCEPT ![p] = hits]
             /\ snap' = [snap EXCEPT ![p] = [w \in Wallets |->
                           IF hits[w] = NoDoc THEN snap[p][w] ELSE NoDoc]]
             /\ Go(p, "hits")
             /\ UNCHANGED <<kind, todo, faults, lookupFailed>>
          \/ /\ IF hits = None THEN UNCHANGED <<faults, lookupFailed>>
                               ELSE Fault /\ lookupFailed' = TRUE
             /\ Misses(p, snap[p])
    /\ UNCHANGED <<alive, stores, consumer, jobs, wk, had, resets>>

\* The hits are written to the runtime database; an error ends the phase.
WriteHits(p) ==
    /\ At(p, "hits")
    /\ \/ doc' = SetAll(kind[p], doc, upd[p]) /\ Misses(p, snap[p]) /\ UNCHANGED faults
       \/ Fault /\ Done(p) /\ UNCHANGED <<doc, todo>>
    /\ UNCHANGED <<alive, known, cache, consumer, jobs, wk, history>>

\* FetchBalanceNonce and the first write of writeThrough: the wallets whose
\* results came back are written from the snapshots.
FetchCheap(p) ==
    /\ At(p, "rpc")
    /\ \E ok \in SUBSET Picked(snap[p]) :
         /\ IF ok = Picked(snap[p]) THEN UNCHANGED faults ELSE Fault
         /\ upd' = [upd EXCEPT ![p] = [w \in Wallets |-> IF w \in ok THEN Written("cheap", CheapDoc(snap[p][w])) ELSE NoDoc]]
         /\ doc' = SetAll("cheap", doc, upd'[p])
    /\ Go(p, "cache")
    /\ UNCHANGED <<alive, known, cache, consumer, kind, todo, snap, jobs, wk, history>>
\* Its second write, to the cache.
CacheCheap(p) == /\ At(p, "cache")
                 /\ \/ cache' = SetAll("cheap", cache, upd[p]) /\ UNCHANGED faults
                    \/ Fault /\ UNCHANGED cache
                 /\ Done(p)
                 /\ UNCHANGED <<alive, known, doc, consumer, todo, jobs, wk, history>>

\* flushChain after the pass: each wallet is read again and acknowledged.
PostBatch(w) == /\ At("batch", "post") /\ w \in unacked
                /\ w # sub /\ w \notin entries
                /\ jobs' = IF doc[w].cheap THEN Downstream(w, doc[w]) ELSE jobs
                /\ Ack(w)
                /\ UNCHANGED <<alive, stores, queue, sub, subUpd, entries, passes, wk, history, faults>>
PostDone == /\ At("batch", "post") /\ unacked \subseteq entries \cup {sub}
            /\ Go("batch", "idle")
            /\ UNCHANGED <<alive, stores, consumer, kind, todo, snap, upd, jobs, wk, history, faults>>

\* The sweeps block on a full channel.
Push(s, w) == /\ At(s, "push") /\ w \in todo[s]
              /\ kind[s] \in {"explorer", "ens"} /\ Len(jobs[kind[s]]) < JobCap
              /\ jobs' = [jobs EXCEPT ![kind[s]] = Append(@, Job(kind[s], w, snap[s][w]))]
              /\ todo' = [todo EXCEPT ![s] = @ \ {w}]
              /\ IF todo[s] = {w} THEN Done(s) ELSE UNCHANGED <<pc, kind, snap, upd>>
              /\ UNCHANGED <<alive, stores, consumer, wk, history, faults>>

-------------------------------------------------------------------------------
(* The workers.                                                                *)

KindOf(x) == IF x \in Explorers THEN "explorer" ELSE "ens"

WorkerIdle == [at |-> "idle", w |-> Nobody, doc |-> NoDoc]
\* An explorer worker takes a job off its channel, and waits for its turn.
TakeJob(x) == /\ alive /\ wk[x].at = "idle" /\ jobs.explorer # <<>>
              /\ jobs' = [jobs EXCEPT !.explorer = Tail(@)]
              /\ LET j == Head(jobs.explorer)
                 IN wk' = [wk EXCEPT ![x] = [at |-> "fetch", w |-> j.w, doc |-> j.snap]]
              /\ UNCHANGED <<alive, stores, consumer, passes, history, faults>>
\* What came of a fetch is written to the runtime database (writeThrough,
\* writeThroughENS); the cache is next.
WriteThrough(x, w, d) ==
    /\ doc' = [doc EXCEPT ![w] = Set(KindOf(x), @, d)]
    /\ wk' = [wk EXCEPT ![x] = [at |-> "cache", w |-> w, doc |-> Written(KindOf(x), d)]]
\* The explorer answers, or refuses the chain for good; after any other error,
\* of the write too, nothing is written.  The snapshot is all it works from.
EnrichOneExplorer(x) ==
    /\ alive /\ wk[x].at = "fetch"
    /\ \/ WriteThrough(x, wk[x].w, RichDoc(wk[x].doc)) /\ UNCHANGED faults
       \/ /\ wk[x].w \in Unserved /\ Fault
          /\ WriteThrough(x, wk[x].w, SkippedDoc(wk[x].doc))
       \/ Fault /\ wk' = [wk EXCEPT ![x] = WorkerIdle] /\ UNCHANGED doc
    /\ UNCHANGED <<alive, known, cache, consumer, passes, jobs, history>>
\* An ENS worker's job: the name or none.  It writes these fields only and uses
\* nothing of the snapshot, so that taking the job and writing are one step.
EnrichOneENS(x) ==
    /\ alive /\ wk[x].at = "idle" /\ jobs.ens # <<>>
    /\ jobs' = [jobs EXCEPT !.ens = Tail(@)]
    /\ LET j == Head(jobs.ens)
       IN \/ WriteThrough(x, j.w, EnsDoc(j.snap, j.w \in Named)) /\ UNCHANGED faults
          \/ Fault /\ UNCHANGED <<doc, wk>>
    /\ UNCHANGED <<alive, known, cache, consumer, passes, history>>
\* The second write, to the cache.
WriteCache(x) == /\ alive /\ wk[x].at = "cache"
                 /\ \/ cache' = [cache EXCEPT ![wk[x].w] = Set(KindOf(x), @, wk[x].doc)] /\ UNCHANGED faults
                    \/ Fault /\ UNCHANGED cache
                 /\ wk' = [wk EXCEPT ![x] = WorkerIdle]
                 /\ UNCHANGED <<alive, known, doc, consumer, passes, jobs, history>>

-------------------------------------------------------------------------------
(* The process, and restart-trustrank.                                         *)

FreshMemory == /\ sub' = Nobody /\ subUpd' = NoDoc /\ entries' = {} /\ unacked' = {}
               /\ pc' = [p \in Passes |-> IF p = "batch" THEN "idle" ELSE "list"] /\ kind' = [p \in Passes |-> "cheap"]
               /\ todo' = [p \in Passes |-> {}]
               /\ snap' = [p \in Passes |-> None] /\ upd' = [p \in Passes |-> None]
               /\ jobs' = [explorer |-> <<>>, ens |-> <<>>]
               /\ wk' = [x \in Workers |-> WorkerIdle]
Crash == /\ alive /\ Fault
         /\ alive' = FALSE
         /\ queue' = queue \cup unacked
         /\ FreshMemory
         /\ UNCHANGED <<stores, history>>
Restart == /\ ~alive
           /\ alive' = TRUE
           /\ UNCHANGED <<stores, consumer, passes, jobs, wk, history, faults>>
\* The workers are stopped, the queue is deleted and the analyzed database
\* dropped; the cache lives in another database.
Reset == /\ alive /\ resets < MaxResets
         /\ resets' = resets + 1
         /\ alive' = FALSE
         /\ known' = {} /\ queue' = {}
         /\ doc' = [w \in Wallets |-> Empty]
         /\ had' = [w \in Wallets |-> {f \in {"cheap", "rich"} :
                      IF f = "cheap" THEN cache[w].cheap ELSE cache[w].complete}]
         /\ lookupFailed' = FALSE
         /\ FreshMemory
         /\ UNCHANGED <<cache, faults>>

Init == /\ alive = TRUE /\ known = {} /\ queue = {} /\ unacked = {}
        /\ doc = [w \in Wallets |-> Empty] /\ cache = [w \in Wallets |-> Empty]
        /\ sub = Nobody /\ subUpd = NoDoc /\ entries = {}
        /\ pc = [p \in Passes |-> IF p = "batch" THEN "idle" ELSE "list"] /\ kind = [p \in Passes |-> "cheap"]
        /\ todo = [p \in Passes |-> {}]
        /\ snap = [p \in Passes |-> None] /\ upd = [p \in Passes |-> None]
        /\ jobs = [explorer |-> <<>>, ens |-> <<>>]
        /\ wk = [x \in Workers |-> WorkerIdle]
        /\ had = [w \in Wallets |-> {}] /\ lookupFailed = FALSE
        /\ faults = 0 /\ resets = 0

ConsumerStep == SubmitLookup \/ SubmitHit \/ \E w \in Wallets : Receive(w)
PassStep(p) == Lookup(p) \/ WriteHits(p) \/ FetchCheap(p) \/ CacheCheap(p)
BatchStep == \/ Flush \/ Refetched \/ PostDone \/ PassStep("batch")
             \/ \E w \in Wallets : Refetch(w) \/ PostBatch(w)
SweepStep(s) == List(s) \/ PassStep(s) \/ \E w \in Wallets : Push(s, w)
WorkerStep(x) == \/ x \in Explorers /\ (TakeJob(x) \/ EnrichOneExplorer(x))
                 \/ x \in EnsWorkers /\ EnrichOneENS(x)
                 \/ WriteCache(x)

Next == \/ \E w \in Wallets : Discover(w)
        \/ ConsumerStep \/ BatchStep
        \/ \E s \in Sweepers : SweepStep(s)
        \/ \E x \in Workers : WorkerStep(x)
        \/ Crash \/ Restart \/ Reset

Spec == Init /\ [][Next]_vars

\* The goroutines run, cron starts sweeps, the container is restarted.
Fairness == /\ WF_vars(ConsumerStep) /\ WF_vars(BatchStep) /\ WF_vars(Restart)
            /\ \A s \in Sweepers : WF_vars(SweepStep(s))
            /\ \A x \in Workers : WF_vars(WorkerStep(x))
FairSpec == Spec /\ Fairness

-------------------------------------------------------------------------------
(* Properties.                                                                 *)

\* Enriched, with nothing on its way that was begun before: no job, no snapshot
\* and no write of it but those of the ENS pass.
Settled(w) == /\ doc[w].cheap /\ doc[w].rich /\ sub # w
              /\ \A i \in DOMAIN jobs.explorer : jobs.explorer[i].w # w
              /\ \A x \in Explorers : wk[x].w # w
              /\ \A p \in Passes : kind[p] # "ens" => snap[p][w] = NoDoc /\ upd[p][w] = NoDoc

\* app.go: data the cache held when the runtime database was last dropped is not
\* fetched again in the lifetime that follows, unless a cache lookup failed.
\* Within a lifetime, crashes included, a wallet that is enriched may be fetched
\* again only by work begun before it was: once that is over, no message, sweep
\* or older write takes it up again.
CacheHonoured ==
    [][\A w \in Wallets :
         /\ (\E p \in Passes : At(p, "rpc") /\ snap[p][w] # NoDoc /\ pc'[p] = "cache")
               => ("cheap" \notin had[w] \/ lookupFailed)
         /\ (\E x \in Explorers : wk[x].at = "idle" /\ wk'[x].w = w)
               => ("rich" \notin had[w] \/ lookupFailed)
         /\ Settled(w) => Settled(w)' \/ Reset]_vars

\* The sweep is the source of truth: every wallet of the runtime database gets
\* its cheap and its explorer data in the end and keeps it, whatever was lost,
\* deferred by a full channel or overwritten by an older snapshot.
WalletEnriched ==
    \A w \in Wallets : <>[](w \in known) => <>[](doc[w].cheap /\ doc[w].rich)

===============================================================================
