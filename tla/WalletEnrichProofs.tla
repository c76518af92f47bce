--------------------------- MODULE WalletEnrichProofs --------------------------
(* What a wallet had in the permanent cache before the runtime database was     *)
(* dropped is not fetched again, and a wallet that is enriched is taken up by   *)
(* nothing new, for any wallets, sweeps, workers and faults.                    *)
EXTENDS WalletEnrich, TLAPS

USE ParamsAssumption, NoDocAssumption

\* A subdocument, or none.
MaybeDoc == Doc \cup {NoDoc}
JobOf == [w : Wallets, snap : Doc]
Places == {"idle", "list", "lookup", "hits", "rpc", "cache", "post", "push"}

\* What a worker has at hand names a wallet and holds a subdocument.
WorkerOK(k) == \/ k.at = "idle" /\ k.w = Nobody
               \/ k.at \in {"fetch", "cache"} /\ k.w \in Wallets /\ k.doc \in Doc

EnrichTypeOK ==
    /\ alive \in BOOLEAN /\ lookupFailed \in BOOLEAN
    /\ doc \in [Wallets -> Doc] /\ cache \in [Wallets -> Doc]
    /\ unacked \subseteq Wallets /\ entries \subseteq Wallets
    /\ sub \in Wallets \cup {Nobody} /\ subUpd \in MaybeDoc
    /\ pc \in [Passes -> Places]
    /\ kind \in [Passes -> Kinds] /\ kind["batch"] = "cheap"
    /\ DOMAIN todo = Passes
    /\ snap \in [Passes -> [Wallets -> MaybeDoc]] /\ upd \in [Passes -> [Wallets -> MaybeDoc]]
    /\ jobs \in [{"explorer", "ens"} -> Seq(JobOf)]
    /\ DOMAIN wk = Workers /\ \A x \in Workers : WorkerOK(wk[x])
    /\ had \in [Wallets -> SUBSET Features]

-------------------------------------------------------------------------------
(* A complete cache entry has both kinds of data, so what the cache held at a  *)
(* reset it keeps: every write that is on its way to it must say so.           *)

StoreInv == \A w \in Wallets :
    /\ cache[w].complete => cache[w].cheap /\ cache[w].rich
    /\ "cheap" \in had[w] => cache[w].cheap
    /\ "rich" \in had[w] => "cheap" \in had[w]
\* The explorer is given wallets that have their cheap data.
JobsInv == \A i \in DOMAIN jobs["explorer"] : jobs["explorer"][i].snap.cheap
WorkInv(x) == x \in Explorers /\ wk[x].at # "idle" =>
    wk[x].doc.cheap /\ (wk[x].at = "cache" => wk[x].doc.rich)
SubInv == subUpd # NoDoc => sub # Nobody /\ subUpd.cheap
PassInv(p) ==
    /\ pc[p] = "push" => todo[p] \subseteq Picked(snap[p])
    /\ pc[p] \in {"rpc", "cache"} => kind[p] = "cheap"
    /\ \A w \in Wallets :
          /\ kind[p] = "explorer" /\ snap[p][w] # NoDoc => snap[p][w].cheap
          /\ pc[p] = "cache" /\ upd[p][w] # NoDoc => upd[p][w].cheap /\ ~upd[p][w].complete

CacheInv == /\ StoreInv /\ JobsInv /\ SubInv
            /\ \A x \in Workers : WorkInv(x)
            /\ \A p \in Passes : PassInv(p)

-------------------------------------------------------------------------------
(* While no lookup failed: a wallet whose cheap data the cache had is fetched  *)
(* by no cheap pass.  One whose entry was complete gets its explorer data      *)
(* together with the cheap data, and so is never due for the explorer.         *)

StoreHonours == \A w \in Wallets : "rich" \in had[w] =>
    cache[w].complete /\ (doc[w].cheap => doc[w].rich)
JobsHonour == \A i \in DOMAIN jobs["explorer"] : "rich" \notin had[jobs["explorer"][i].w]
WorkHonours(x) == x \in Explorers /\ wk[x].at # "idle" => "rich" \notin had[wk[x].w]
SubHonours == sub # Nobody /\ subUpd # NoDoc /\ "rich" \in had[sub] => subUpd.rich
PassHonours(p) == \A w \in Wallets :
    /\ "cheap" \in had[w] =>
          /\ pc[p] \in {"hits", "rpc"} /\ kind[p] = "cheap" => snap[p][w] = NoDoc
          /\ pc[p] = "cache" => upd[p][w] = NoDoc
    /\ "rich" \in had[w] =>
          /\ kind[p] = "explorer" => snap[p][w] = NoDoc
          /\ pc[p] = "hits" /\ kind[p] # "ens" /\ upd[p][w] # NoDoc => upd[p][w].rich

HonourInv == /\ StoreHonours /\ JobsHonour /\ SubHonours
             /\ \A x \in Workers : WorkHonours(x)
             /\ \A p \in Passes : PassHonours(p)

EnrichInv == EnrichTypeOK /\ CacheInv /\ (~lookupFailed => HonourInv)

-------------------------------------------------------------------------------
(* The updates.                                                                *)

\* A subdocument without data is one.
LEMMA EmptyFacts == Empty \in Doc /\ ~Empty.cheap /\ ~Empty.complete
BY DEF Empty, Doc

\* The explorer and the cheap pass replace the fetched data and keep the name;
\* the ENS pass does the reverse.
LEMMA SetFacts ==
    ASSUME NEW k, NEW old \in Doc, NEW d \in Doc
    PROVE  /\ Set(k, old, d) \in Doc
           /\ k = "ens" => /\ Set(k, old, d).cheap = old.cheap /\ Set(k, old, d).rich = old.rich
                           /\ Set(k, old, d).complete = old.complete
           /\ k # "ens" => /\ Set(k, old, d).cheap = d.cheap /\ Set(k, old, d).rich = d.rich
                           /\ Set(k, old, d).complete = d.complete
BY DEF Set, SetExternal, SetExternalENS, Doc

\* submit() writes a hit of the cheap pass.
LEMMA SetExternalFacts ==
    ASSUME NEW old \in Doc, NEW d \in Doc
    PROVE  /\ SetExternal(old, d) \in Doc
           /\ SetExternal(old, d).cheap = d.cheap /\ SetExternal(old, d).rich = d.rich
BY DEF SetExternal, Doc

\* What each fetch makes of a snapshot.
LEMMA FetchFacts ==
    ASSUME NEW d \in Doc
    PROVE  /\ CheapDoc(d) \in Doc /\ CheapDoc(d).cheap /\ ~CheapDoc(d).complete
           /\ RichDoc(d) \in Doc /\ RichDoc(d).cheap = d.cheap /\ RichDoc(d).rich
           /\ SkippedDoc(d) \in Doc /\ SkippedDoc(d).cheap = d.cheap /\ SkippedDoc(d).rich
           /\ \A name \in BOOLEAN : EnsDoc(d, name) \in Doc
BY DEF CheapDoc, RichDoc, SkippedDoc, EnsDoc, Doc

\* A snapshot keeps the cheap data, and a write all that the cache is asked for.
LEMMA KeptFacts ==
    ASSUME NEW k \in Kinds, NEW d \in Doc
    PROVE  /\ Taken(k, d) \in Doc
           /\ k # "ens" => Taken(k, d).cheap = d.cheap
           /\ Written(k, d) \in Doc
           /\ k # "ens" => /\ Written(k, d).cheap = d.cheap /\ Written(k, d).rich = d.rich
                           /\ Written(k, d).complete = d.complete
<1>1. Taken(k, d) \in Doc /\ (k # "ens" => Taken(k, d).cheap = d.cheap)
  BY DEF Taken, Doc, Kinds, Empty
<1>2. Written(k, d) \in Doc
  BY DEF Written, Doc, Empty
<1>3. k # "ens" => /\ Written(k, d).cheap = d.cheap /\ Written(k, d).rich = d.rich
                   /\ Written(k, d).complete = d.complete
  BY DEF Written, Doc
<1>4. QED BY <1>1, <1>2, <1>3

\* The cheap pass takes any cache entry with cheap data, the explorer a complete
\* one.
LEMMA HitFacts ==
    ASSUME NEW k \in Kinds, NEW d \in Doc, NEW c \in Doc
    PROVE  /\ Hit(k, d, c) \in MaybeDoc
           /\ k = "cheap" => Hit(k, d, c) = IF c.cheap THEN c ELSE NoDoc
           /\ k = "explorer" => Hit(k, d, c) = IF c.complete THEN c ELSE NoDoc
<1>1. EnsHit(d, c) \in Doc
  BY DEF EnsHit, Doc
<1>2. QED BY <1>1 DEF Hit, Kinds, MaybeDoc

\* A store after a write of some wallets.
LEMMA SetAllFacts ==
    ASSUME NEW k, NEW store \in [Wallets -> Doc], NEW u \in [Wallets -> MaybeDoc]
    PROVE  /\ SetAll(k, store, u) \in [Wallets -> Doc]
           /\ \A w \in Wallets :
                /\ u[w] = NoDoc => SetAll(k, store, u)[w] = store[w]
                /\ u[w] # NoDoc => u[w] \in Doc /\ SetAll(k, store, u)[w] = Set(k, store[w], u[w])
<1>1. \A w \in Wallets : u[w] # NoDoc => u[w] \in Doc /\ Set(k, store[w], u[w]) \in Doc
  BY SetFacts DEF MaybeDoc
<1>2. QED BY <1>1 DEF SetAll

\* A job goes to a channel or is dropped.
LEMMA TrySendFacts ==
    ASSUME NEW ch \in Seq(JobOf), NEW j \in JobOf
    PROVE  /\ TrySend(ch, j) \in Seq(JobOf)
           /\ \A i \in DOMAIN TrySend(ch, j) :
                TrySend(ch, j)[i] = j \/ (i \in DOMAIN ch /\ TrySend(ch, j)[i] = ch[i])
BY DEF TrySend

\* What goes downstream keeps the channels' jobs; the explorer's new one has the
\* snapshot's cheap data and is for a wallet without explorer data.
LEMMA DownstreamFacts ==
    ASSUME EnrichTypeOK, NEW w \in Wallets, NEW d \in Doc
    PROVE  /\ Downstream(w, d) \in [{"explorer", "ens"} -> Seq(JobOf)]
           /\ \A i \in DOMAIN Downstream(w, d)["explorer"] :
                LET j == Downstream(w, d)["explorer"][i]
                IN  \/ i \in DOMAIN jobs["explorer"] /\ j = jobs["explorer"][i]
                    \/ j.w = w /\ j.snap.cheap = d.cheap /\ ~d.rich
<1>1. jobs.explorer \in Seq(JobOf) /\ jobs.ens \in Seq(JobOf)
  BY DEF EnrichTypeOK
<1>2. /\ Job("explorer", w, d) \in JobOf /\ Job("ens", w, d) \in JobOf
      /\ Job("explorer", w, d).w = w /\ Job("explorer", w, d).snap.cheap = d.cheap
  BY KeptFacts DEF Job, JobOf, Kinds
<1>3. /\ TrySend(jobs.explorer, Job("explorer", w, d)) \in Seq(JobOf)
      /\ TrySend(jobs.ens, Job("ens", w, d)) \in Seq(JobOf)
  BY <1>1, <1>2, TrySendFacts
<1>4. Downstream(w, d) \in [{"explorer", "ens"} -> Seq(JobOf)]
  BY <1>1, <1>3 DEF Downstream
<1>5. Downstream(w, d)["explorer"] = IF d.rich \/ d.skipped THEN jobs.explorer
                                     ELSE TrySend(jobs.explorer, Job("explorer", w, d))
  BY DEF Downstream
<1>6. ASSUME NEW i \in DOMAIN Downstream(w, d)["explorer"]
      PROVE  LET j == Downstream(w, d)["explorer"][i]
             IN  \/ i \in DOMAIN jobs["explorer"] /\ j = jobs["explorer"][i]
                 \/ j.w = w /\ j.snap.cheap = d.cheap /\ ~d.rich
  <2>1. CASE d.rich \/ d.skipped
    BY <2>1, <1>5, <1>6
  <2>2. CASE ~(d.rich \/ d.skipped)
    <3> DEFINE new == Job("explorer", w, d)
    <3>1. Downstream(w, d)["explorer"] = TrySend(jobs.explorer, new) /\ ~d.rich
      BY <2>2, <1>5
    <3>2. new \in JobOf /\ new.w = w /\ new.snap.cheap = d.cheap
      BY <1>2
    <3> HIDE DEF new
    <3>3. i \in DOMAIN TrySend(jobs.explorer, new)
      BY <1>6, <3>1
    <3>4. \/ TrySend(jobs.explorer, new)[i] = new
          \/ i \in DOMAIN jobs.explorer /\ TrySend(jobs.explorer, new)[i] = jobs.explorer[i]
      BY <3>2, <3>3, <1>1, TrySendFacts
    <3>5. QED BY <3>1, <3>2, <3>4
  <2>3. QED BY <2>1, <2>2
<1>7. QED BY <1>4, <1>6

-------------------------------------------------------------------------------
(* Memory.                                                                     *)

\* With empty memory, what the stores hold is all there is.
LEMMA FreshInv ==
    ASSUME FreshMemory, alive' \in BOOLEAN, lookupFailed' \in BOOLEAN,
           doc' \in [Wallets -> Doc], cache' \in [Wallets -> Doc],
           had' \in [Wallets -> SUBSET Features],
           StoreInv', ~lookupFailed' => StoreHonours'
    PROVE  EnrichInv'
<1>1. EnrichTypeOK'
  <2>1. /\ pc' \in [Passes -> Places] /\ kind' \in [Passes -> Kinds] /\ kind'["batch"] = "cheap"
        /\ DOMAIN todo' = Passes
    BY DEF FreshMemory, Passes, Places, Kinds
  <2>2. snap' \in [Passes -> [Wallets -> MaybeDoc]] /\ upd' \in [Passes -> [Wallets -> MaybeDoc]]
    BY DEF FreshMemory, MaybeDoc, None
  <2>3. jobs' \in [{"explorer", "ens"} -> Seq(JobOf)]
    <3> DEFINE none == <<>>
    <3>1. none \in Seq(JobOf) /\ jobs' = [explorer |-> none, ens |-> none]
      BY DEF FreshMemory
    <3> HIDE DEF none
    <3>2. QED BY <3>1
  <2>4. DOMAIN wk' = Workers /\ \A x \in Workers : WorkerOK(wk'[x])
    BY DEF FreshMemory, WorkerOK, WorkerIdle
  <2>5. sub' = Nobody /\ subUpd' = NoDoc /\ entries' = {} /\ unacked' = {}
    BY DEF FreshMemory
  <2>6. QED BY <2>1, <2>2, <2>3, <2>4, <2>5 DEF EnrichTypeOK, MaybeDoc
<1>2. CacheInv'
  BY DEF FreshMemory, CacheInv, JobsInv, SubInv, WorkInv, WorkerIdle, PassInv, None
<1>3. ~lookupFailed' => HonourInv'
  BY DEF FreshMemory, HonourInv, JobsHonour, SubHonours, WorkHonours, WorkerIdle, PassHonours, None
<1>4. QED BY <1>1, <1>2, <1>3 DEF EnrichInv

\* Nothing is enriched and nothing is in memory.
LEMMA EnrichInit == Init => EnrichInv
<1> SUFFICES ASSUME Init PROVE EnrichInv
  OBVIOUS
<1>1. EnrichTypeOK
  <2>1. /\ pc \in [Passes -> Places] /\ kind \in [Passes -> Kinds] /\ kind["batch"] = "cheap"
        /\ DOMAIN todo = Passes
    BY DEF Init, Passes, Places, Kinds
  <2>2. snap \in [Passes -> [Wallets -> MaybeDoc]] /\ upd \in [Passes -> [Wallets -> MaybeDoc]]
    BY DEF Init, MaybeDoc, None
  <2>3. jobs \in [{"explorer", "ens"} -> Seq(JobOf)]
    <3> DEFINE none == <<>>
    <3>1. none \in Seq(JobOf) /\ jobs = [explorer |-> none, ens |-> none]
      BY DEF Init
    <3> HIDE DEF none
    <3>2. QED BY <3>1
  <2>4. DOMAIN wk = Workers /\ \A x \in Workers : WorkerOK(wk[x])
    BY DEF Init, WorkerOK, WorkerIdle
  <2>5. sub = Nobody /\ subUpd = NoDoc /\ entries = {} /\ unacked = {}
    BY DEF Init
  <2>6. QED BY <2>1, <2>2, <2>3, <2>4, <2>5, EmptyFacts DEF Init, EnrichTypeOK, MaybeDoc, Features
<1>2. CacheInv
  BY EmptyFacts DEF Init, CacheInv, StoreInv, JobsInv, SubInv, WorkInv, WorkerIdle, PassInv, None
<1>3. HonourInv
  BY DEF Init, HonourInv, StoreHonours, JobsHonour, SubHonours, WorkHonours, WorkerIdle, PassHonours, None
<1>4. QED BY <1>1, <1>2, <1>3 DEF EnrichInv

\* A crash, a restart and restart-trustrank keep EnrichInv: the reset takes note
\* of what the cache holds, and the runtime database forgets all.
LEMMA ProcessNext == EnrichInv /\ (Crash \/ Restart \/ Reset) => EnrichInv'
<1> SUFFICES ASSUME EnrichInv, Crash \/ Restart \/ Reset PROVE EnrichInv'
  OBVIOUS
<1>1. CASE Crash
  BY <1>1, FreshInv DEF Crash, stores, history, EnrichInv, EnrichTypeOK, CacheInv, HonourInv,
     StoreInv, StoreHonours
<1>2. CASE Restart
  BY <1>2 DEF Restart, stores, consumer, passes, history, EnrichInv, EnrichTypeOK, CacheInv,
     HonourInv, StoreInv, StoreHonours, JobsInv, JobsHonour, SubInv, SubHonours, WorkInv,
     WorkHonours, PassInv, PassHonours
<1>3. CASE Reset
  <2>1. had' \in [Wallets -> SUBSET Features]
    BY <1>3 DEF Reset, Features
  <2>2. doc' \in [Wallets -> Doc] /\ cache' \in [Wallets -> Doc]
    BY <1>3, EmptyFacts DEF Reset, EnrichInv, EnrichTypeOK
  <2>3. StoreInv' /\ StoreHonours'
    BY <1>3, EmptyFacts DEF Reset, EnrichInv, CacheInv, StoreInv, StoreHonours
  <2>4. QED BY <1>3, <2>1, <2>2, <2>3, FreshInv DEF Reset
<1>4. QED BY <1>1, <1>2, <1>3

-------------------------------------------------------------------------------
(* What a step leaves alone.                                                   *)

\* The stores' part holds as long as the stores and the history do not change.
LEMMA StoresKept ==
    ASSUME EnrichInv, UNCHANGED <<doc, cache, had>>
    PROVE  StoreInv' /\ (~lookupFailed => StoreHonours')
BY DEF EnrichInv, CacheInv, HonourInv, StoreInv, StoreHonours

\* So does the workers' part.
LEMMA WorkersKept ==
    ASSUME EnrichInv, UNCHANGED <<wk, had>>
    PROVE  \A x \in Workers : WorkInv(x)' /\ (~lookupFailed => WorkHonours(x)')
BY DEF EnrichInv, CacheInv, HonourInv, WorkInv, WorkHonours

\* So does the delivery under way, and one that is done has no hit left.
LEMMA SubKept ==
    ASSUME EnrichInv, UNCHANGED <<had>>, \/ UNCHANGED <<sub, subUpd>>
                                         \/ subUpd' = NoDoc
    PROVE  SubInv' /\ (~lookupFailed => SubHonours')
BY DEF EnrichInv, CacheInv, HonourInv, SubInv, SubHonours

\* A step of one pass leaves the others as they are.
LEMMA PassesKept ==
    ASSUME EnrichInv, NEW p \in Passes, UNCHANGED <<had>>,
           \A r \in Passes \ {p} : UNCHANGED <<pc[r], kind[r], todo[r], snap[r], upd[r]>>,
           PassInv(p)', ~lookupFailed => PassHonours(p)'
    PROVE  \A r \in Passes : PassInv(r)' /\ (~lookupFailed => PassHonours(r)')
BY DEF EnrichInv, CacheInv, HonourInv, PassInv, PassHonours

\* A step of the consumer or of a worker leaves all of them.
LEMMA AllPassesKept ==
    ASSUME EnrichInv, UNCHANGED <<passes, had>>
    PROVE  \A r \in Passes : PassInv(r)' /\ (~lookupFailed => PassHonours(r)')
BY DEF EnrichInv, CacheInv, HonourInv, PassInv, PassHonours, passes

\* So do jobs that stay where they are.
LEMMA JobsKept ==
    ASSUME EnrichInv, UNCHANGED <<jobs, had>>
    PROVE  JobsInv' /\ (~lookupFailed => JobsHonour')
BY DEF EnrichInv, CacheInv, HonourInv, JobsInv, JobsHonour

\* A wallet with cheap data goes downstream: one the cache had complete has its
\* explorer data already and is no job.
LEMMA JobsNext ==
    ASSUME EnrichInv, UNCHANGED <<had>>, NEW w \in Wallets, NEW d \in Doc, d.cheap,
           jobs' = jobs \/ jobs' = Downstream(w, d),
           ~lookupFailed => ("rich" \in had[w] => d.rich)
    PROVE  /\ jobs' \in [{"explorer", "ens"} -> Seq(JobOf)]
           /\ JobsInv' /\ (~lookupFailed => JobsHonour')
<1>1. CASE jobs' = jobs
  BY <1>1, JobsKept DEF EnrichInv, EnrichTypeOK
<1>2. CASE jobs' = Downstream(w, d)
  <2>1. EnrichTypeOK
    BY DEF EnrichInv
  <2>2. ASSUME NEW i \in DOMAIN jobs'["explorer"]
        PROVE  /\ jobs'["explorer"][i].snap.cheap
               /\ ~lookupFailed => "rich" \notin had[jobs'["explorer"][i].w]
    BY <1>2, <2>1, <2>2, DownstreamFacts
       DEF EnrichInv, CacheInv, HonourInv, JobsInv, JobsHonour
  <2>3. QED BY <1>2, <2>1, <2>2, DownstreamFacts DEF JobsInv, JobsHonour
<1>3. QED BY <1>1, <1>2

\* The conjuncts together.
LEMMA InvParts ==
    ASSUME EnrichTypeOK', ~lookupFailed' => ~lookupFailed,
           StoreInv' /\ (~lookupFailed => StoreHonours'),
           JobsInv' /\ (~lookupFailed => JobsHonour'),
           SubInv' /\ (~lookupFailed => SubHonours'),
           \A x \in Workers : WorkInv(x)' /\ (~lookupFailed => WorkHonours(x)'),
           \A p \in Passes : PassInv(p)' /\ (~lookupFailed => PassHonours(p)')
    PROVE  EnrichInv'
BY DEF EnrichInv, CacheInv, HonourInv

-------------------------------------------------------------------------------
(* The consumer.                                                               *)

\* A delivery is downstream, under way, or lost: the stores are only read.
LEMMA ReceiveNext ==
    ASSUME EnrichInv, NEW w \in Wallets, Receive(w) \/ Discover(w) PROVE EnrichInv'
<1>1. UNCHANGED <<alive, doc, cache, had, lookupFailed, subUpd, entries, passes, wk>>
  BY DEF Receive, Discover, stores, history
<1>2. JobsInv' /\ (~lookupFailed => JobsHonour') /\ jobs' \in [{"explorer", "ens"} -> Seq(JobOf)]
  <2>1. CASE doc[w].cheap /\ jobs' = Downstream(w, doc[w])
    <3>1. doc[w] \in Doc /\ (~lookupFailed => ("rich" \in had[w] => doc[w].rich))
      BY <2>1 DEF EnrichInv, EnrichTypeOK, HonourInv, StoreHonours
    <3>2. QED BY <2>1, <3>1, <1>1, JobsNext
  <2>2. CASE jobs' = jobs
    BY <2>2, <1>1, JobsKept DEF EnrichInv, EnrichTypeOK
  <2>3. QED BY <2>1, <2>2 DEF Receive, Discover
<1>3. unacked' \subseteq Wallets /\ sub' \in Wallets \cup {Nobody}
  BY DEF Receive, Discover, EnrichInv, EnrichTypeOK
<1>4. EnrichTypeOK'
  BY <1>1, <1>2, <1>3 DEF EnrichInv, EnrichTypeOK, passes
<1>5. SubInv' /\ (~lookupFailed => SubHonours')
  <2>1. sub' = sub \/ sub = Nobody
    BY DEF Receive, Discover
  <2>2. subUpd' = subUpd /\ (sub = Nobody => subUpd = NoDoc)
    BY <1>1 DEF EnrichInv, CacheInv, SubInv
  <2>3. CASE sub' = sub
    BY <2>2, <2>3, <1>1, SubKept
  <2>4. CASE sub = Nobody
    BY <2>2, <2>4 DEF SubInv, SubHonours
  <2>5. QED BY <2>1, <2>3, <2>4
<1>6. QED
  BY <1>1, <1>2, <1>4, <1>5, StoresKept, WorkersKept, AllPassesKept, InvParts

\* The lookup of submit(): a complete entry comes with its explorer data.
LEMMA SubmitLookupNext == ASSUME EnrichInv, SubmitLookup PROVE EnrichInv'
<1>1. /\ UNCHANGED <<alive, doc, cache, had, unacked, passes, jobs, wk>>
      /\ lookupFailed' = lookupFailed \/ lookupFailed' = TRUE
  BY DEF SubmitLookup, stores
<1>2. sub \in Wallets /\ cache[sub] \in Doc
  BY DEF SubmitLookup, EnrichInv, EnrichTypeOK
<1>3. EnrichTypeOK'
  BY <1>1, <1>2 DEF SubmitLookup, EnrichInv, EnrichTypeOK, passes, MaybeDoc
<1>4. SubInv' /\ (~lookupFailed => SubHonours')
  <2>1. CASE subUpd' = cache[sub] /\ sub' = sub /\ cache[sub].cheap
    <3>1. SubInv'
      BY <2>1, <1>2 DEF SubInv
    <3>2. ~lookupFailed => ("rich" \in had[sub] => cache[sub].rich)
      BY <1>2 DEF EnrichInv, CacheInv, StoreInv, HonourInv, StoreHonours
    <3>3. QED BY <2>1, <1>1, <3>1, <3>2 DEF SubHonours
  <2>2. CASE sub' = Nobody /\ subUpd' = NoDoc
    BY <2>2 DEF SubInv, SubHonours
  <2>3. QED BY <2>1, <2>2 DEF SubmitLookup
<1>5. QED
  BY <1>1, <1>3, <1>4, StoresKept, WorkersKept, AllPassesKept, JobsKept, InvParts

\* The hit is written: the wallet has its explorer data if the cache had.
LEMMA SubmitHitNext == ASSUME EnrichInv, SubmitHit PROVE EnrichInv'
<1>1. /\ UNCHANGED <<alive, cache, had, lookupFailed, entries, passes, wk>>
      /\ unacked' \subseteq unacked /\ sub' = Nobody /\ subUpd' = NoDoc
  BY DEF SubmitHit, Ack, history
<1>2. /\ sub \in Wallets /\ subUpd \in Doc /\ subUpd.cheap
      /\ (~lookupFailed => ("rich" \in had[sub] => subUpd.rich))
  BY DEF SubmitHit, EnrichInv, EnrichTypeOK, MaybeDoc, CacheInv, SubInv, HonourInv, SubHonours
<1>3. JobsInv' /\ (~lookupFailed => JobsHonour') /\ jobs' \in [{"explorer", "ens"} -> Seq(JobOf)]
  BY <1>1, <1>2, JobsNext DEF SubmitHit
<1>4. doc' = doc \/ doc' = [doc EXCEPT ![sub] = SetExternal(doc[sub], subUpd)]
  BY DEF SubmitHit
<1>5. doc' \in [Wallets -> Doc]
  <2>1. doc \in [Wallets -> Doc] /\ SetExternal(doc[sub], subUpd) \in Doc
    BY <1>2, SetExternalFacts DEF EnrichInv, EnrichTypeOK
  <2>2. QED BY <1>4, <2>1
<1>6. EnrichTypeOK'
  BY <1>1, <1>3, <1>5 DEF EnrichInv, EnrichTypeOK, passes, MaybeDoc
<1>7. StoreInv' /\ (~lookupFailed => StoreHonours')
  <2>1. StoreInv'
    BY <1>1 DEF EnrichInv, CacheInv, StoreInv
  <2>2. ASSUME ~lookupFailed, NEW w \in Wallets, "rich" \in had[w]
        PROVE  cache[w].complete /\ (doc'[w].cheap => doc'[w].rich)
    <3>1. cache[w].complete /\ (doc[w].cheap => doc[w].rich)
      BY <2>2 DEF EnrichInv, HonourInv, StoreHonours
    <3>2. CASE doc'[w] = doc[w]
      BY <3>1, <3>2
    <3>3. CASE w = sub /\ doc'[w] = SetExternal(doc[w], subUpd)
      <4>1. doc[w] \in Doc
        BY DEF EnrichInv, EnrichTypeOK
      <4>2. QED BY <2>2, <3>1, <3>3, <4>1, <1>2, SetExternalFacts
    <3>4. QED BY <3>2, <3>3, <1>4 DEF EnrichInv, EnrichTypeOK
  <2>3. QED BY <2>1, <2>2, <1>1 DEF StoreHonours
<1>8. SubInv' /\ (~lookupFailed => SubHonours')
  BY <1>1 DEF SubInv, SubHonours
<1>9. QED
  BY <1>1, <1>3, <1>6, <1>7, <1>8, WorkersKept, AllPassesKept, InvParts

-------------------------------------------------------------------------------
(* Passes.                                                                     *)

\* A pass that ends its phase, and one that goes on with the wallets the cache
\* did not have.
LEMMA DoneFacts ==
    ASSUME EnrichTypeOK, NEW p \in Passes, Done(p)
    PROVE  /\ pc' \in [Passes -> Places] /\ kind' \in [Passes -> Kinds] /\ kind'["batch"] = "cheap"
           /\ snap' \in [Passes -> [Wallets -> MaybeDoc]]
           /\ upd' \in [Passes -> [Wallets -> MaybeDoc]]
           /\ \A r \in Passes \ {p} : UNCHANGED <<pc[r], kind[r], snap[r], upd[r]>>
           /\ pc'[p] \in {"post", "list"} /\ snap'[p] = None /\ upd'[p] = None
<1>1. None \in [Wallets -> MaybeDoc]
  BY DEF None, MaybeDoc
<1>2. pc' \in [Passes -> Places] /\ pc'[p] \in {"post", "list"}
  BY DEF Done, Go, EnrichTypeOK, Places
<1>3. kind' \in [Passes -> Kinds] /\ kind'["batch"] = "cheap"
  BY DEF Done, EnrichTypeOK, Kinds, Passes
<1>4. /\ snap' \in [Passes -> [Wallets -> MaybeDoc]] /\ upd' \in [Passes -> [Wallets -> MaybeDoc]]
      /\ snap'[p] = None /\ upd'[p] = None
  BY <1>1 DEF Done, EnrichTypeOK
<1>5. \A r \in Passes \ {p} : UNCHANGED <<pc[r], kind[r], snap[r], upd[r]>>
  BY DEF Done, Go, EnrichTypeOK
<1>6. QED BY <1>2, <1>3, <1>4, <1>5

\* A pass that ends its phase has nothing on its way to the stores.
LEMMA DoneInv ==
    ASSUME NEW p \in Passes, pc'[p] \in {"post", "list", "idle"}, snap'[p] = None, upd'[p] = None
    PROVE  PassInv(p)' /\ PassHonours(p)'
BY DEF PassInv, PassHonours, None

\* Without misses the phase ends; otherwise they go to the RPC or to the channel.
LEMMA MissesFacts ==
    ASSUME EnrichTypeOK, NEW p \in Passes, Misses(p, snap[p])
    PROVE  /\ pc' \in [Passes -> Places] /\ kind' \in [Passes -> Kinds] /\ kind'["batch"] = "cheap"
           /\ snap' \in [Passes -> [Wallets -> MaybeDoc]]
           /\ upd' \in [Passes -> [Wallets -> MaybeDoc]] /\ DOMAIN todo' = Passes
           /\ \A r \in Passes \ {p} : UNCHANGED <<pc[r], kind[r], todo[r], snap[r], upd[r]>>
           /\ \/ pc'[p] \in {"post", "list"} /\ snap'[p] = None /\ upd'[p] = None
              \/ /\ kind'[p] = kind[p] /\ snap'[p] = snap[p] /\ upd'[p] = None
                 /\ IF kind[p] = "cheap" THEN pc'[p] = "rpc"
                    ELSE pc'[p] = "push" /\ todo'[p] = Picked(snap[p])
<1>1. CASE Picked(snap[p]) = {}
  <2>1. Done(p) /\ todo' = todo
    BY <1>1 DEF Misses
  <2>2. QED BY <2>1, DoneFacts DEF EnrichTypeOK
<1>2. CASE Picked(snap[p]) # {}
  <2>1. /\ Go(p, IF kind[p] = "cheap" THEN "rpc" ELSE "push")
        /\ todo' = [todo EXCEPT ![p] = IF kind[p] = "cheap" THEN @ ELSE Picked(snap[p])]
        /\ snap' = [snap EXCEPT ![p] = snap[p]]
        /\ upd' = [upd EXCEPT ![p] = None]
        /\ UNCHANGED kind
    BY <1>2 DEF Misses
  <2>2. None \in [Wallets -> MaybeDoc]
    BY DEF None, MaybeDoc
  <2>3. pc' \in [Passes -> Places] /\ pc'[p] = (IF kind[p] = "cheap" THEN "rpc" ELSE "push")
    BY <2>1 DEF Go, EnrichTypeOK, Places
  <2>4. /\ snap' = snap /\ upd' \in [Passes -> [Wallets -> MaybeDoc]] /\ upd'[p] = None
        /\ DOMAIN todo' = Passes
        /\ kind[p] # "cheap" => todo'[p] = Picked(snap[p])
    BY <2>1, <2>2 DEF EnrichTypeOK
  <2>5. \A r \in Passes \ {p} : UNCHANGED <<pc[r], kind[r], todo[r], snap[r], upd[r]>>
    BY <2>1 DEF Go, EnrichTypeOK
  <2>6. QED BY <2>1, <2>3, <2>4, <2>5 DEF EnrichTypeOK
<1>3. QED BY <1>1, <1>2

\* The misses of a cheap pass hold no wallet whose data the cache had.
LEMMA MissesInv ==
    ASSUME EnrichInv, NEW p \in Passes, Misses(p, snap[p]), UNCHANGED had,
           ~lookupFailed => \A w \in Wallets :
               "cheap" \in had[w] /\ kind[p] = "cheap" => snap[p][w] = NoDoc
    PROVE  \A r \in Passes : PassInv(r)' /\ (~lookupFailed => PassHonours(r)')
<1>1. EnrichTypeOK /\ PassInv(p) /\ (~lookupFailed => PassHonours(p))
  BY DEF EnrichInv, CacheInv, HonourInv
<1>2. CASE pc'[p] \in {"post", "list"} /\ snap'[p] = None /\ upd'[p] = None
  BY <1>2, <1>1, DoneInv, MissesFacts, PassesKept
<1>3. CASE /\ kind'[p] = kind[p] /\ snap'[p] = snap[p] /\ upd'[p] = None
           /\ IF kind[p] = "cheap" THEN pc'[p] = "rpc"
              ELSE pc'[p] = "push" /\ todo'[p] = Picked(snap[p])
  <2>1. PassInv(p)'
    BY <1>1, <1>3 DEF PassInv, Picked
  <2>2. ~lookupFailed => PassHonours(p)'
    BY <1>1, <1>3 DEF PassHonours
  <2>3. QED BY <1>1, <2>1, <2>2, MissesFacts, PassesKept
<1>4. QED BY <1>1, <1>2, <1>3, MissesFacts

-------------------------------------------------------------------------------
(* The batcher.                                                                *)

\* flush() and the ends of its loops move control only: what the batcher looks up
\* and fetches it read in the loop before.
LEMMA FlushNext == ASSUME EnrichInv, Flush \/ Refetched \/ PostDone PROVE EnrichInv'
<1> DEFINE b == "batch"
<1>0. b \in Passes
  BY DEF Passes
<1>1. /\ UNCHANGED <<alive, doc, cache, had, lookupFailed, unacked, sub, subUpd, kind, snap, upd,
                     jobs, wk>>
      /\ entries' \subseteq entries
      /\ \E where \in {"idle", "list", "lookup"} : pc' = [pc EXCEPT !["batch"] = where]
      /\ todo' = todo \/ todo' = [todo EXCEPT !["batch"] = entries]
  BY DEF Flush, Refetched, PostDone, Go, stores, consumer, history
<1>2. EnrichTypeOK'
  <2>1. pc' \in [Passes -> Places] /\ DOMAIN todo' = Passes
    BY <1>1 DEF EnrichInv, EnrichTypeOK, Places
  <2>2. QED BY <1>1, <2>1 DEF EnrichInv, EnrichTypeOK
<1>3. /\ pc'["batch"] \in {"idle", "list", "lookup"}
      /\ \A r \in Passes \ {b} : UNCHANGED <<pc[r], kind[r], todo[r], snap[r], upd[r]>>
  BY <1>0, <1>1 DEF EnrichInv, EnrichTypeOK
<1>4. PassInv(b)' /\ (~lookupFailed => PassHonours(b)')
  BY <1>0, <1>1, <1>3 DEF EnrichInv, EnrichTypeOK, CacheInv, HonourInv, PassInv, PassHonours
<1>5. \A r \in Passes : PassInv(r)' /\ (~lookupFailed => PassHonours(r)')
  BY <1>0, <1>1, <1>3, <1>4, PassesKept
<1>6. QED
  BY <1>1, <1>2, <1>5, StoresKept, WorkersKept, SubKept, JobsKept, InvParts

\* A wallet is read again: it goes downstream, or its snapshot is taken.
LEMMA RefetchNext ==
    ASSUME EnrichInv, NEW w \in Wallets, Refetch(w) \/ PostBatch(w) PROVE EnrichInv'
<1> DEFINE b == "batch"
<1>0. b \in Passes /\ kind["batch"] = "cheap" /\ doc[w] \in Doc
  BY DEF Passes, EnrichInv, EnrichTypeOK
<1>1. /\ UNCHANGED <<alive, doc, cache, had, lookupFailed, sub, subUpd, entries, pc, kind, upd, wk>>
      /\ unacked' \subseteq unacked
      /\ pc["batch"] \in {"list", "post"}
      /\ todo' = todo \/ todo' = [todo EXCEPT !["batch"] = todo["batch"] \ {w}]
      /\ snap' = snap \/ snap' = [snap EXCEPT !["batch"][w] = Taken("cheap", doc[w])]
      /\ jobs' = jobs \/ (doc[w].cheap /\ jobs' = Downstream(w, doc[w]))
  BY DEF Refetch, PostBatch, At, Ack, stores, history, passes
<1>2. JobsInv' /\ (~lookupFailed => JobsHonour') /\ jobs' \in [{"explorer", "ens"} -> Seq(JobOf)]
  <2>1. CASE doc[w].cheap /\ jobs' = Downstream(w, doc[w])
    <3>1. ~lookupFailed => ("rich" \in had[w] => doc[w].rich)
      BY <2>1 DEF EnrichInv, HonourInv, StoreHonours
    <3>2. QED BY <1>0, <1>1, <2>1, <3>1, JobsNext
  <2>2. CASE jobs' = jobs
    BY <2>2, <1>1, JobsKept DEF EnrichInv, EnrichTypeOK
  <2>3. QED BY <1>1, <2>1, <2>2
<1>3. snap' \in [Passes -> [Wallets -> MaybeDoc]] /\ DOMAIN todo' = Passes
  <2>1. Taken("cheap", doc[w]) \in MaybeDoc
    BY <1>0, KeptFacts DEF Kinds, MaybeDoc
  <2>2. snap \in [Passes -> [Wallets -> MaybeDoc]] /\ DOMAIN todo = Passes
    BY DEF EnrichInv, EnrichTypeOK
  <2>3. QED BY <1>0, <1>1, <2>1, <2>2
<1>4. EnrichTypeOK'
  BY <1>1, <1>2, <1>3 DEF EnrichInv, EnrichTypeOK
<1>5. \A r \in Passes \ {b} : UNCHANGED <<pc[r], kind[r], todo[r], snap[r], upd[r]>>
  BY <1>0, <1>1 DEF EnrichInv, EnrichTypeOK
<1>6. PassInv(b)' /\ (~lookupFailed => PassHonours(b)')
  BY <1>0, <1>1 DEF EnrichInv, CacheInv, HonourInv, PassInv, PassHonours
<1>7. \A r \in Passes : PassInv(r)' /\ (~lookupFailed => PassHonours(r)')
  BY <1>0, <1>1, <1>5, <1>6, PassesKept
<1>8. QED
  BY <1>1, <1>2, <1>4, <1>7, StoresKept, WorkersKept, SubKept, InvParts

-------------------------------------------------------------------------------
(* The phases of a pass.                                                       *)

\* The lookup: unless it fails, no wallet the cache has the data of is a miss.
LEMMA LookupNext == ASSUME EnrichInv, NEW p \in Passes, Lookup(p) PROVE EnrichInv'
<1> DEFINE hit(w) == Hit(kind[p], snap[p][w], cache[w])
           hits == [w \in Wallets |-> IF snap[p][w] = NoDoc \/ hit(w) = NoDoc THEN NoDoc
                                      ELSE Written(kind[p], hit(w))]
           rest == [w \in Wallets |-> IF hits[w] = NoDoc THEN snap[p][w] ELSE NoDoc]
<1>1. /\ UNCHANGED <<alive, doc, cache, had, unacked, sub, subUpd, entries, jobs, wk>>
      /\ pc[p] = "lookup"
  BY DEF Lookup, At, stores, consumer
<1>2. /\ EnrichTypeOK /\ StoreInv /\ PassInv(p)
      /\ ~lookupFailed => StoreHonours /\ PassHonours(p)
      /\ kind[p] \in Kinds /\ snap[p] \in [Wallets -> MaybeDoc] /\ cache \in [Wallets -> Doc]
  BY DEF EnrichInv, CacheInv, HonourInv, EnrichTypeOK
<1>3. ASSUME NEW w \in Wallets
      PROVE  /\ hits[w] \in MaybeDoc
             /\ snap[p][w] = NoDoc => hits[w] = NoDoc
             /\ kind[p] = "cheap" /\ cache[w].cheap /\ snap[p][w] # NoDoc => hits[w] # NoDoc
             /\ kind[p] # "ens" /\ hits[w] # NoDoc => hits[w].rich = cache[w].rich
  <2>1. CASE snap[p][w] = NoDoc
    BY <2>1 DEF MaybeDoc
  <2>2. CASE snap[p][w] # NoDoc
    <3>1. snap[p][w] \in Doc /\ cache[w] \in Doc
      BY <1>2, <2>2 DEF MaybeDoc
    <3>2. /\ hit(w) \in MaybeDoc
          /\ kind[p] = "cheap" => hit(w) = IF cache[w].cheap THEN cache[w] ELSE NoDoc
          /\ kind[p] = "explorer" => hit(w) = IF cache[w].complete THEN cache[w] ELSE NoDoc
      BY <1>2, <3>1, HitFacts
    <3> HIDE DEF hit
    <3>3. hits[w] = IF hit(w) = NoDoc THEN NoDoc ELSE Written(kind[p], hit(w))
      BY <2>2
    <3> HIDE DEF hits
    <3>4. CASE hit(w) = NoDoc
      BY <3>1, <3>2, <3>3, <3>4, <1>2 DEF MaybeDoc
    <3>5. CASE hit(w) # NoDoc
      <4>1. hit(w) \in Doc /\ (kind[p] # "ens" => hit(w) = cache[w])
        BY <3>2, <3>5, <1>2 DEF MaybeDoc, Kinds
      <4>2. hits[w] \in Doc /\ (kind[p] # "ens" => hits[w].rich = hit(w).rich)
        BY <3>3, <3>5, <4>1, <1>2, KeptFacts
      <4>3. QED BY <4>1, <4>2, <2>2 DEF MaybeDoc
    <3>6. QED BY <3>4, <3>5
  <2>3. QED BY <2>1, <2>2
<1>d. hits = [w \in Wallets |-> hits[w]]
  OBVIOUS
<1>4. CASE /\ hits # None
           /\ upd' = [upd EXCEPT ![p] = hits] /\ snap' = [snap EXCEPT ![p] = rest]
           /\ Go(p, "hits") /\ UNCHANGED <<kind, todo, lookupFailed>>
  <2>1. hits \in [Wallets -> MaybeDoc]
    BY <1>3
  <2>2. rest \in [Wallets -> MaybeDoc]
    BY <1>2 DEF MaybeDoc
  <2>3. \A w \in Wallets : rest[w] = IF hits[w] = NoDoc THEN snap[p][w] ELSE NoDoc
    OBVIOUS
  <2> HIDE DEF hits, rest
  <2>4. /\ upd' \in [Passes -> [Wallets -> MaybeDoc]] /\ snap' \in [Passes -> [Wallets -> MaybeDoc]]
        /\ upd'[p] = hits /\ snap'[p] = rest
    BY <1>4, <1>2, <2>1, <2>2 DEF EnrichTypeOK
  <2>5. pc' \in [Passes -> Places] /\ pc'[p] = "hits"
    BY <1>4, <1>2 DEF Go, EnrichTypeOK, Places
  <2>6. EnrichTypeOK'
    BY <1>1, <1>2, <1>4, <2>4, <2>5 DEF EnrichTypeOK
  <2>7. PassInv(p)'
    BY <1>2, <1>4, <2>3, <2>4, <2>5 DEF PassInv
  <2>8. ~lookupFailed => PassHonours(p)'
    <3> SUFFICES ASSUME ~lookupFailed PROVE PassHonours(p)'
      OBVIOUS
    <3>1. ASSUME NEW w \in Wallets, "cheap" \in had[w], kind[p] = "cheap" PROVE rest[w] = NoDoc
      BY <3>1, <1>2, <1>3, <2>3 DEF StoreInv
    <3>2. ASSUME NEW w \in Wallets, "rich" \in had[w], kind[p] # "ens", hits[w] # NoDoc
          PROVE  hits[w].rich
      <4>1. cache[w].rich
        BY <3>2, <1>2 DEF StoreInv, StoreHonours
      <4>2. QED BY <3>2, <4>1, <1>3
    <3>3. ASSUME NEW w \in Wallets, "rich" \in had[w], kind[p] = "explorer" PROVE rest[w] = NoDoc
      BY <3>3, <1>2, <2>3 DEF PassHonours
    <3>4. QED BY <1>1, <1>4, <2>4, <2>5, <3>1, <3>2, <3>3 DEF PassHonours
  <2>9. \A r \in Passes \ {p} : UNCHANGED <<pc[r], kind[r], todo[r], snap[r], upd[r]>>
    BY <1>2, <1>4 DEF Go, EnrichTypeOK
  <2>10. \A r \in Passes : PassInv(r)' /\ (~lookupFailed => PassHonours(r)')
    BY <1>1, <2>7, <2>8, <2>9, PassesKept
  <2>11. QED
    BY <1>1, <1>4, <2>6, <2>10, StoresKept, WorkersKept, SubKept, JobsKept, InvParts
<1>5. CASE /\ IF hits = None THEN UNCHANGED <<faults, lookupFailed>> ELSE Fault /\ lookupFailed' = TRUE
           /\ Misses(p, snap[p])
  <2>1. EnrichTypeOK'
    BY <1>1, <1>2, <1>5, MissesFacts DEF EnrichTypeOK
  <2>2. CASE lookupFailed'
    <3>1. ASSUME NEW r \in Passes PROVE PassInv(r)'
      <4>1. CASE r # p
        <5>1. PassInv(r) /\ UNCHANGED <<pc[r], kind[r], todo[r], snap[r], upd[r]>>
          BY <4>1, <1>2, <1>5, MissesFacts DEF EnrichInv, CacheInv
        <5>2. QED BY <5>1 DEF PassInv
      <4>2. CASE r = p /\ pc'[p] \in {"post", "list"} /\ snap'[p] = None /\ upd'[p] = None
        BY <4>2, DoneInv
      <4>3. CASE /\ r = p /\ kind'[p] = kind[p] /\ snap'[p] = snap[p] /\ upd'[p] = None
                 /\ IF kind[p] = "cheap" THEN pc'[p] = "rpc"
                    ELSE pc'[p] = "push" /\ todo'[p] = Picked(snap[p])
        BY <4>3, <1>2 DEF PassInv, Picked
      <4>4. QED BY <4>1, <4>2, <4>3, <1>2, <1>5, MissesFacts
    <3>2. StoreInv' /\ JobsInv' /\ SubInv' /\ \A x \in Workers : WorkInv(x)'
      BY <1>1, StoresKept, WorkersKept, SubKept, JobsKept
    <3>3. QED BY <2>1, <2>2, <3>1, <3>2 DEF EnrichInv, CacheInv
  <2>3. CASE ~lookupFailed'
    <3>1. hits = None /\ lookupFailed' = lookupFailed
      BY <1>5, <2>3
    <3>2. \A w \in Wallets : hits[w] = NoDoc
      BY <3>1 DEF None
    <3> HIDE DEF hits
    <3>3. \A w \in Wallets : "cheap" \in had[w] /\ kind[p] = "cheap" => snap[p][w] = NoDoc
      BY <3>2, <1>2, <1>3 DEF StoreInv
    <3>4. \A r \in Passes : PassInv(r)' /\ (~lookupFailed => PassHonours(r)')
      BY <1>1, <1>5, <3>3, MissesInv
    <3>5. QED
      BY <1>1, <2>1, <3>1, <3>4, StoresKept, WorkersKept, SubKept, JobsKept, InvParts
  <2>4. QED BY <2>2, <2>3
<1>6. QED BY <1>4, <1>5 DEF Lookup

\* The hits reach the runtime database: where the cache had both kinds of data,
\* both are written.
LEMMA WriteHitsNext == ASSUME EnrichInv, NEW p \in Passes, WriteHits(p) PROVE EnrichInv'
<1>1. /\ UNCHANGED <<alive, cache, had, lookupFailed, unacked, sub, subUpd, entries, jobs, wk>>
      /\ pc[p] = "hits"
  BY DEF WriteHits, At, consumer, history
<1>2. /\ EnrichTypeOK /\ StoreInv /\ PassInv(p)
      /\ ~lookupFailed => StoreHonours /\ PassHonours(p)
      /\ doc \in [Wallets -> Doc] /\ upd[p] \in [Wallets -> MaybeDoc]
  BY DEF EnrichInv, CacheInv, HonourInv, EnrichTypeOK
<1>3. CASE doc' = SetAll(kind[p], doc, upd[p]) /\ Misses(p, snap[p])
  <2>1. doc' \in [Wallets -> Doc]
    BY <1>2, <1>3, SetAllFacts
  <2>2. EnrichTypeOK'
    BY <1>1, <1>2, <1>3, <2>1, MissesFacts DEF EnrichTypeOK
  <2>3. StoreInv' /\ (~lookupFailed => StoreHonours')
    <3>1. StoreInv'
      BY <1>1, <1>2 DEF StoreInv
    <3>2. ASSUME ~lookupFailed, NEW w \in Wallets, "rich" \in had[w]
          PROVE  cache[w].complete /\ (doc'[w].cheap => doc'[w].rich)
      <4>1. cache[w].complete /\ (doc[w].cheap => doc[w].rich) /\ doc[w] \in Doc
        BY <3>2, <1>2 DEF StoreHonours
      <4>2. CASE upd[p][w] = NoDoc
        BY <4>1, <4>2, <1>2, <1>3, SetAllFacts
      <4>3. CASE upd[p][w] # NoDoc
        <5>1. upd[p][w] \in Doc /\ doc'[w] = Set(kind[p], doc[w], upd[p][w])
          BY <4>3, <1>2, <1>3, SetAllFacts
        <5>2. kind[p] # "ens" => upd[p][w].rich
          BY <3>2, <4>3, <1>1, <1>2 DEF PassHonours
        <5>3. QED BY <4>1, <5>1, <5>2, SetFacts
      <4>4. QED BY <4>2, <4>3
    <3>3. QED BY <3>1, <3>2, <1>1 DEF StoreHonours
  <2>4. \A r \in Passes : PassInv(r)' /\ (~lookupFailed => PassHonours(r)')
    <3>1. ~lookupFailed => \A w \in Wallets :
             "cheap" \in had[w] /\ kind[p] = "cheap" => snap[p][w] = NoDoc
      BY <1>1, <1>2 DEF PassHonours
    <3>2. QED BY <1>1, <1>3, <3>1, MissesInv
  <2>5. QED
    BY <1>1, <2>2, <2>3, <2>4, WorkersKept, SubKept, JobsKept, InvParts
<1>4. CASE Done(p) /\ UNCHANGED <<doc, todo>>
  <2>1. EnrichTypeOK'
    BY <1>1, <1>2, <1>4, DoneFacts DEF EnrichTypeOK
  <2>2. \A r \in Passes : PassInv(r)' /\ (~lookupFailed => PassHonours(r)')
    BY <1>1, <1>2, <1>4, DoneFacts, DoneInv, PassesKept
  <2>3. QED
    BY <1>1, <1>4, <2>1, <2>2, StoresKept, WorkersKept, SubKept, JobsKept, InvParts
<1>5. QED BY <1>3, <1>4 DEF WriteHits

\* The results of the RPC are written to the runtime database: they are for
\* wallets the cache has no cheap data of.
LEMMA FetchCheapNext == ASSUME EnrichInv, NEW p \in Passes, FetchCheap(p) PROVE EnrichInv'
<1>1. /\ UNCHANGED <<alive, cache, had, lookupFailed, unacked, sub, subUpd, entries, jobs, wk,
                     kind, todo, snap>>
      /\ pc[p] = "rpc" /\ pc' = [pc EXCEPT ![p] = "cache"]
  BY DEF FetchCheap, At, Go, consumer, history
<1>2. /\ EnrichTypeOK /\ StoreInv /\ PassInv(p)
      /\ ~lookupFailed => StoreHonours /\ PassHonours(p)
      /\ doc \in [Wallets -> Doc] /\ snap[p] \in [Wallets -> MaybeDoc]
  BY DEF EnrichInv, CacheInv, HonourInv, EnrichTypeOK
<1>3. PICK ok \in SUBSET Picked(snap[p]) :
         /\ upd' = [upd EXCEPT ![p] = [w \in Wallets |->
                      IF w \in ok THEN Written("cheap", CheapDoc(snap[p][w])) ELSE NoDoc]]
         /\ doc' = SetAll("cheap", doc, upd'[p])
  BY DEF FetchCheap
<1>4. \A w \in Wallets : upd'[p][w] = IF w \in ok THEN Written("cheap", CheapDoc(snap[p][w])) ELSE NoDoc
  BY <1>2, <1>3 DEF EnrichTypeOK
<1>5. ASSUME NEW w \in Wallets
      PROVE  /\ upd'[p][w] \in MaybeDoc
             /\ upd'[p][w] # NoDoc => /\ w \in ok /\ snap[p][w] # NoDoc
                                      /\ upd'[p][w].cheap /\ ~upd'[p][w].complete
  <2>1. CASE w \in ok
    <3>1. snap[p][w] # NoDoc /\ snap[p][w] \in Doc
      BY <2>1, <1>2 DEF Picked, MaybeDoc
    <3>2. CheapDoc(snap[p][w]) \in Doc /\ CheapDoc(snap[p][w]).cheap /\ ~CheapDoc(snap[p][w]).complete
      BY <3>1, FetchFacts
    <3>3. QED BY <2>1, <3>1, <3>2, <1>4, KeptFacts DEF MaybeDoc, Kinds
  <2>2. CASE w \notin ok
    BY <2>2, <1>4 DEF MaybeDoc
  <2>3. QED BY <2>1, <2>2
<1>6. upd'[p] \in [Wallets -> MaybeDoc] /\ upd' \in [Passes -> [Wallets -> MaybeDoc]]
  <2> DEFINE u == [w \in Wallets |-> IF w \in ok THEN Written("cheap", CheapDoc(snap[p][w])) ELSE NoDoc]
  <2>1. upd' = [upd EXCEPT ![p] = u] /\ upd \in [Passes -> [Wallets -> MaybeDoc]]
    BY <1>2, <1>3 DEF EnrichTypeOK
  <2>2. \A w \in Wallets : u[w] = upd'[p][w]
    BY <1>4
  <2>3. u \in [Wallets -> MaybeDoc]
    BY <2>2, <1>5
  <2> HIDE DEF u
  <2>4. QED BY <2>1, <2>3
<1>7. doc' \in [Wallets -> Doc]
  BY <1>2, <1>3, <1>6, SetAllFacts
<1>8. pc' \in [Passes -> Places] /\ pc'[p] = "cache"
  BY <1>1, <1>2 DEF EnrichTypeOK, Places
<1>9. EnrichTypeOK'
  BY <1>1, <1>2, <1>6, <1>7, <1>8 DEF EnrichTypeOK
<1>10. ASSUME ~lookupFailed, NEW w \in Wallets, "cheap" \in had[w] PROVE upd'[p][w] = NoDoc
  BY <1>1, <1>2, <1>5, <1>10 DEF PassInv, PassHonours
<1>11. StoreInv' /\ (~lookupFailed => StoreHonours')
  <2>1. StoreInv'
    BY <1>1, <1>2 DEF StoreInv
  <2>2. ASSUME ~lookupFailed, NEW w \in Wallets, "rich" \in had[w]
        PROVE  cache[w].complete /\ (doc'[w].cheap => doc'[w].rich)
    <3>1. upd'[p][w] = NoDoc
      BY <2>2, <1>2, <1>10 DEF StoreInv
    <3>2. doc'[w] = doc[w]
      <4>1. \A u \in [Wallets -> MaybeDoc] : u[w] = NoDoc => SetAll("cheap", doc, u)[w] = doc[w]
        BY <1>2, SetAllFacts
      <4>2. SetAll("cheap", doc, upd'[p])[w] = doc[w]
        BY <3>1, <4>1, <1>6
      <4>3. QED BY <4>2, <1>3
    <3>3. QED BY <2>2, <3>2, <1>2 DEF StoreHonours
  <2>3. QED BY <2>1, <2>2, <1>1 DEF StoreHonours
<1>12. PassInv(p)' /\ (~lookupFailed => PassHonours(p)')
  <2>1. PassInv(p)'
    BY <1>1, <1>2, <1>5, <1>8 DEF PassInv
  <2>2. ~lookupFailed => PassHonours(p)'
    BY <1>1, <1>2, <1>8, <1>10 DEF PassHonours
  <2>3. QED BY <2>1, <2>2
<1>13. \A r \in Passes \ {p} : UNCHANGED <<pc[r], kind[r], todo[r], snap[r], upd[r]>>
  BY <1>1, <1>2, <1>3 DEF EnrichTypeOK
<1>14. \A r \in Passes : PassInv(r)' /\ (~lookupFailed => PassHonours(r)')
  BY <1>1, <1>12, <1>13, PassesKept
<1>15. QED
  BY <1>1, <1>9, <1>11, <1>14, WorkersKept, SubKept, JobsKept, InvParts

\* The same results are written to the cache: no complete entry is replaced.
LEMMA CacheCheapNext == ASSUME EnrichInv, NEW p \in Passes, CacheCheap(p) PROVE EnrichInv'
<1>1. /\ UNCHANGED <<alive, doc, had, lookupFailed, unacked, sub, subUpd, entries, jobs, wk, todo>>
      /\ pc[p] = "cache" /\ Done(p)
      /\ cache' = cache \/ cache' = SetAll("cheap", cache, upd[p])
  BY DEF CacheCheap, At, consumer, history
<1>2. /\ EnrichTypeOK /\ StoreInv /\ PassInv(p)
      /\ ~lookupFailed => StoreHonours /\ PassHonours(p)
      /\ cache \in [Wallets -> Doc] /\ upd[p] \in [Wallets -> MaybeDoc]
  BY DEF EnrichInv, CacheInv, HonourInv, EnrichTypeOK
<1>3. cache' \in [Wallets -> Doc]
  BY <1>1, <1>2, SetAllFacts
<1>4. EnrichTypeOK'
  BY <1>1, <1>2, <1>3, DoneFacts DEF EnrichTypeOK
<1>5. ASSUME NEW w \in Wallets
      PROVE  /\ cache'[w].complete => cache'[w].cheap /\ cache'[w].rich
             /\ cache[w].cheap => cache'[w].cheap
             /\ upd[p][w] = NoDoc => cache'[w] = cache[w]
  <2>1. CASE cache'[w] = cache[w]
    BY <2>1, <1>2 DEF StoreInv
  <2>2. CASE cache'[w] # cache[w]
    <3>1. /\ upd[p][w] # NoDoc /\ upd[p][w] \in Doc /\ cache[w] \in Doc
          /\ SetAll("cheap", cache, upd[p])[w] = Set("cheap", cache[w], upd[p][w])
      BY <2>2, <1>1, <1>2, SetAllFacts
    <3>2. cache'[w] = Set("cheap", cache[w], upd[p][w])
      BY <2>2, <3>1, <1>1
    <3>3. upd[p][w].cheap /\ ~upd[p][w].complete
      BY <3>1, <1>1, <1>2 DEF PassInv
    <3>4. QED BY <3>1, <3>2, <3>3, SetFacts
  <2>3. QED BY <2>1, <2>2
<1>6. StoreInv' /\ (~lookupFailed => StoreHonours')
  <2>1. StoreInv'
    BY <1>1, <1>2, <1>5 DEF StoreInv
  <2>2. ASSUME ~lookupFailed, NEW w \in Wallets, "rich" \in had[w]
        PROVE  cache'[w].complete /\ (doc[w].cheap => doc[w].rich)
    <3>1. upd[p][w] = NoDoc
      BY <2>2, <1>1, <1>2 DEF PassHonours, StoreInv
    <3>2. QED BY <2>2, <3>1, <1>2, <1>5 DEF StoreHonours
  <2>3. QED BY <2>1, <2>2, <1>1 DEF StoreHonours
<1>7. \A r \in Passes : PassInv(r)' /\ (~lookupFailed => PassHonours(r)')
  BY <1>1, <1>2, DoneFacts, DoneInv, PassesKept
<1>8. QED
  BY <1>1, <1>4, <1>6, <1>7, WorkersKept, SubKept, JobsKept, InvParts

-------------------------------------------------------------------------------
(* The sweeps and the workers.                                                 *)

\* A sweep lists what is due: for the explorer, wallets that have cheap data and
\* no explorer data.
LEMMA ListNext == ASSUME EnrichInv, NEW s \in Sweepers, List(s) PROVE EnrichInv'
<1> DEFINE due == {w \in known : Due(kind[s], doc[w])}
           listed == [w \in Wallets |-> IF w \in due THEN Taken(kind[s], doc[w]) ELSE NoDoc]
<1>0. s \in Passes
  BY DEF Passes
<1>1. /\ UNCHANGED <<alive, doc, cache, had, lookupFailed, unacked, sub, subUpd, entries, jobs, wk,
                     todo>>
  BY DEF List, stores, consumer, history
<1>2. /\ EnrichTypeOK /\ kind[s] \in Kinds /\ \A w \in Wallets : doc[w] \in Doc
      /\ ~lookupFailed => StoreHonours
  BY <1>0 DEF EnrichInv, HonourInv, EnrichTypeOK
<1>3. CASE Done(s)
  <2>1. EnrichTypeOK'
    BY <1>0, <1>1, <1>2, <1>3, DoneFacts DEF EnrichTypeOK
  <2>2. \A r \in Passes : PassInv(r)' /\ (~lookupFailed => PassHonours(r)')
    BY <1>0, <1>1, <1>2, <1>3, DoneFacts, DoneInv, PassesKept
  <2>3. QED
    BY <1>1, <2>1, <2>2, StoresKept, WorkersKept, SubKept, JobsKept, InvParts
<1>4. CASE /\ snap' = [snap EXCEPT ![s] = listed]
           /\ Go(s, "lookup") /\ UNCHANGED <<kind, upd>>
  <2>1. ASSUME NEW w \in Wallets
        PROVE  /\ listed[w] \in MaybeDoc
               /\ kind[s] = "explorer" /\ listed[w] # NoDoc => listed[w].cheap /\ doc[w].cheap /\ ~doc[w].rich
    <3>1. CASE w \in due
      <4>1. Taken(kind[s], doc[w]) \in Doc /\ (kind[s] # "ens" => Taken(kind[s], doc[w]).cheap = doc[w].cheap)
        BY <1>2, KeptFacts
      <4>2. kind[s] = "explorer" => doc[w].cheap /\ ~doc[w].rich
        BY <3>1 DEF Due
      <4>3. QED BY <3>1, <4>1, <4>2 DEF MaybeDoc
    <3>2. CASE w \notin due
      BY <3>2 DEF MaybeDoc
    <3>3. QED BY <3>1, <3>2
  <2>2. listed \in [Wallets -> MaybeDoc]
    BY <2>1
  <2> HIDE DEF listed
  <2>3. /\ snap' \in [Passes -> [Wallets -> MaybeDoc]] /\ snap'[s] = listed
        /\ pc' \in [Passes -> Places] /\ pc'[s] = "lookup"
        /\ \A r \in Passes \ {s} : UNCHANGED <<pc[r], kind[r], todo[r], snap[r], upd[r]>>
    BY <1>0, <1>1, <1>2, <1>4, <2>2 DEF Go, EnrichTypeOK, Places
  <2>4. EnrichTypeOK'
    BY <1>1, <1>2, <1>4, <2>3 DEF EnrichTypeOK
  <2>5. PassInv(s)'
    BY <1>4, <2>1, <2>3 DEF PassInv
  <2>6. ~lookupFailed => PassHonours(s)'
    BY <1>1, <1>2, <1>4, <2>1, <2>3 DEF PassHonours, StoreHonours
  <2>7. \A r \in Passes : PassInv(r)' /\ (~lookupFailed => PassHonours(r)')
    BY <1>0, <1>1, <2>3, <2>5, <2>6, PassesKept
  <2>8. QED
    BY <1>1, <2>4, <2>7, StoresKept, WorkersKept, SubKept, JobsKept, InvParts
<1>5. QED BY <1>3, <1>4 DEF List

\* A sweep hands a wallet to a channel: to the explorer's, one with cheap data
\* whose entry was not complete.
LEMMA PushNext ==
    ASSUME EnrichInv, NEW s \in Sweepers, NEW w \in Wallets, Push(s, w) PROVE EnrichInv'
<1> DEFINE k == kind[s]
           new == Job(k, w, snap[s][w])
<1>0. s \in Passes
  BY DEF Passes
<1>1. /\ UNCHANGED <<alive, doc, cache, had, lookupFailed, unacked, sub, subUpd, entries, wk>>
      /\ pc[s] = "push" /\ w \in todo[s] /\ k \in {"explorer", "ens"}
      /\ jobs' = [jobs EXCEPT ![k] = Append(jobs[k], new)]
      /\ todo' = [todo EXCEPT ![s] = todo[s] \ {w}]
      /\ Done(s) \/ UNCHANGED <<pc, kind, snap, upd>>
  BY DEF Push, At, stores, consumer, history
<1>2. /\ EnrichTypeOK /\ PassInv(s) /\ (~lookupFailed => PassHonours(s)) /\ JobsInv
      /\ ~lookupFailed => JobsHonour
  BY <1>0 DEF EnrichInv, CacheInv, HonourInv
<1>3. snap[s][w] \in Doc /\ snap[s][w] # NoDoc
  BY <1>0, <1>1, <1>2 DEF PassInv, Picked, EnrichTypeOK, MaybeDoc
<1>4. /\ new \in JobOf /\ new.w = w
      /\ k = "explorer" => new.snap.cheap
      /\ k = "explorer" /\ ~lookupFailed => "rich" \notin had[w]
  <2>1. Taken(k, snap[s][w]) \in Doc /\ (k = "explorer" => Taken(k, snap[s][w]).cheap = snap[s][w].cheap)
    BY <1>1, <1>3, KeptFacts DEF Kinds
  <2>2. new \in JobOf /\ new.w = w /\ new.snap = Taken(k, snap[s][w])
    BY <2>1 DEF Job, JobOf
  <2>3. k = "explorer" => snap[s][w].cheap /\ (~lookupFailed => "rich" \notin had[w])
    BY <1>2, <1>3 DEF PassInv, PassHonours
  <2>4. QED BY <2>1, <2>2, <2>3
<1> HIDE DEF new
<1>5. jobs["explorer"] \in Seq(JobOf) /\ jobs["ens"] \in Seq(JobOf)
  BY <1>2 DEF EnrichTypeOK
<1>6. /\ jobs' \in [{"explorer", "ens"} -> Seq(JobOf)]
      /\ \/ jobs'["explorer"] = jobs["explorer"]
         \/ k = "explorer" /\ jobs'["explorer"] = Append(jobs["explorer"], new)
  <2>1. Append(jobs[k], new) \in Seq(JobOf)
    BY <1>1, <1>4, <1>5
  <2>2. jobs \in [{"explorer", "ens"} -> Seq(JobOf)]
    BY <1>2 DEF EnrichTypeOK
  <2>3. QED BY <1>1, <2>1, <2>2
<1>7. JobsInv' /\ (~lookupFailed => JobsHonour')
  <2>1. CASE jobs'["explorer"] = jobs["explorer"]
    BY <2>1, <1>1, <1>2 DEF JobsInv, JobsHonour
  <2>2. CASE k = "explorer" /\ jobs'["explorer"] = Append(jobs["explorer"], new)
    <3>1. ASSUME NEW i \in DOMAIN jobs'["explorer"]
          PROVE  jobs'["explorer"][i] = new
                 \/ (i \in DOMAIN jobs["explorer"] /\ jobs'["explorer"][i] = jobs["explorer"][i])
      BY <2>2, <3>1, <1>4, <1>5
    <3>2. QED BY <2>2, <3>1, <1>1, <1>2, <1>4 DEF JobsInv, JobsHonour
  <2>3. QED BY <2>1, <2>2, <1>6
<1>8. DOMAIN todo' = Passes /\ todo'[s] \subseteq todo[s] /\ \A r \in Passes \ {s} : todo'[r] = todo[r]
  BY <1>0, <1>1, <1>2 DEF EnrichTypeOK
<1>9. EnrichTypeOK'
  BY <1>0, <1>1, <1>2, <1>6, <1>8, DoneFacts DEF EnrichTypeOK
<1>10. \A r \in Passes : PassInv(r)' /\ (~lookupFailed => PassHonours(r)')
  <2>1. CASE Done(s)
    BY <2>1, <1>0, <1>1, <1>2, <1>8, DoneFacts, DoneInv, PassesKept
  <2>2. CASE UNCHANGED <<pc, kind, snap, upd>>
    <3>1. PassInv(s)' /\ (~lookupFailed => PassHonours(s)')
      BY <2>2, <1>1, <1>2, <1>8 DEF PassInv, PassHonours
    <3>2. QED BY <2>2, <3>1, <1>0, <1>1, <1>8, PassesKept
  <2>3. QED BY <1>1, <2>1, <2>2
<1>11. QED
  BY <1>1, <1>7, <1>9, <1>10, StoresKept, WorkersKept, SubKept, InvParts

\* A channel whose first job is taken.
LEMMA TakenFacts ==
    ASSUME EnrichInv, NEW k \in {"explorer", "ens"}, jobs[k] # <<>>,
           jobs' = [jobs EXCEPT ![k] = Tail(jobs[k])], UNCHANGED had
    PROVE  /\ jobs' \in [{"explorer", "ens"} -> Seq(JobOf)]
           /\ JobsInv' /\ (~lookupFailed => JobsHonour')
           /\ Head(jobs[k]).w \in Wallets /\ Head(jobs[k]).snap \in Doc
           /\ k = "explorer" => /\ Head(jobs[k]).snap.cheap
                                /\ ~lookupFailed => "rich" \notin had[Head(jobs[k]).w]
<1> DEFINE j == Head(jobs[k])
<1>2. JobsInv /\ (~lookupFailed => JobsHonour)
  BY DEF EnrichInv, CacheInv, HonourInv
<1>3. jobs[k] \in Seq(JobOf) /\ jobs \in [{"explorer", "ens"} -> Seq(JobOf)]
  BY DEF EnrichInv, EnrichTypeOK
<1>4. /\ 1 \in DOMAIN jobs[k] /\ j = jobs[k][1] /\ Tail(jobs[k]) \in Seq(JobOf)
      /\ \A i \in DOMAIN Tail(jobs[k]) : i + 1 \in DOMAIN jobs[k] /\ Tail(jobs[k])[i] = jobs[k][i + 1]
  BY <1>3
<1>5. j.w \in Wallets /\ j.snap \in Doc
  <2>1. j \in JobOf
    BY <1>3, <1>4
  <2>2. QED BY <2>1 DEF JobOf
<1>6. k = "explorer" => j.snap.cheap /\ (~lookupFailed => "rich" \notin had[j.w])
  BY <1>2, <1>4 DEF JobsInv, JobsHonour
<1>7. jobs' \in [{"explorer", "ens"} -> Seq(JobOf)] /\ JobsInv' /\ (~lookupFailed => JobsHonour')
  <2>1. /\ jobs' \in [{"explorer", "ens"} -> Seq(JobOf)] /\ jobs'[k] = Tail(jobs[k])
        /\ (k # "explorer" => jobs'["explorer"] = jobs["explorer"])
    BY <1>3, <1>4
  <2>2. ASSUME NEW i \in DOMAIN jobs'["explorer"]
        PROVE  \E n \in DOMAIN jobs["explorer"] : jobs'["explorer"][i] = jobs["explorer"][n]
    BY <2>1, <2>2, <1>4
  <2>3. QED BY <2>1, <2>2, <1>2 DEF JobsInv, JobsHonour
<1>8. QED BY <1>5, <1>6, <1>7

\* An explorer worker takes a job: for a wallet with cheap data, whose entry was
\* not complete.
LEMMA TakeJobNext ==
    ASSUME EnrichInv, NEW x \in Workers, x \in Explorers, TakeJob(x) PROVE EnrichInv'
<1> DEFINE j == Head(jobs["explorer"])
<1>1. /\ UNCHANGED <<alive, doc, cache, had, lookupFailed, unacked, sub, subUpd, entries, passes>>
      /\ jobs["explorer"] # <<>> /\ jobs' = [jobs EXCEPT !["explorer"] = Tail(jobs["explorer"])]
      /\ wk' = [wk EXCEPT ![x] = [at |-> "fetch", w |-> j.w, doc |-> j.snap]]
  BY DEF TakeJob, stores, consumer, history
<1>2. /\ jobs' \in [{"explorer", "ens"} -> Seq(JobOf)] /\ JobsInv' /\ (~lookupFailed => JobsHonour')
      /\ j.w \in Wallets /\ j.snap \in Doc /\ j.snap.cheap
      /\ ~lookupFailed => "rich" \notin had[j.w]
  BY <1>1, TakenFacts
<1> HIDE DEF j
<1>3. /\ DOMAIN wk' = Workers
      /\ \A y \in Workers : wk'[y] = IF y = x THEN [at |-> "fetch", w |-> j.w, doc |-> j.snap] ELSE wk[y]
  BY <1>1 DEF EnrichInv, EnrichTypeOK
<1>4. \A y \in Workers : WorkerOK(wk'[y])
  <2>1. WorkerOK([at |-> "fetch", w |-> j.w, doc |-> j.snap])
    BY <1>2 DEF WorkerOK
  <2>2. QED BY <2>1, <1>3 DEF EnrichInv, EnrichTypeOK
<1>5. EnrichTypeOK'
  BY <1>1, <1>2, <1>3, <1>4 DEF EnrichInv, EnrichTypeOK, passes
<1>6. \A y \in Workers : WorkInv(y)' /\ (~lookupFailed => WorkHonours(y)')
  <2>1. ASSUME NEW y \in Workers, y # x PROVE WorkInv(y)' /\ (~lookupFailed => WorkHonours(y)')
    BY <2>1, <1>1, <1>3 DEF EnrichInv, CacheInv, HonourInv, WorkInv, WorkHonours
  <2>2. WorkInv(x)' /\ (~lookupFailed => WorkHonours(x)')
    BY <1>1, <1>2, <1>3 DEF WorkInv, WorkHonours
  <2>3. QED BY <2>1, <2>2
<1>7. QED
  BY <1>1, <1>2, <1>5, <1>6, StoresKept, SubKept, AllPassesKept, InvParts

\* What came of a fetch is written to the runtime database: the explorer's comes
\* with explorer data, and for a wallet whose entry was not complete.
LEMMA WriteThroughNext ==
    ASSUME EnrichInv, NEW x \in Workers, NEW w0 \in Wallets, NEW d \in Doc,
           WriteThrough(x, w0, d),
           x \in Explorers => d.cheap /\ d.rich /\ (~lookupFailed => "rich" \notin had[w0]),
           UNCHANGED <<alive, cache, had, lookupFailed, unacked, sub, subUpd, entries, passes>>,
           jobs' \in [{"explorer", "ens"} -> Seq(JobOf)], JobsInv', ~lookupFailed => JobsHonour'
    PROVE  EnrichInv'
<1> DEFINE k == KindOf(x)
<1>1. /\ k \in {"explorer", "ens"} /\ (k = "explorer" <=> x \in Explorers)
      /\ doc' = [doc EXCEPT ![w0] = Set(k, doc[w0], d)]
      /\ wk' = [wk EXCEPT ![x] = [at |-> "cache", w |-> w0, doc |-> Written(k, d)]]
  BY DEF WriteThrough, KindOf
<1>2. /\ EnrichTypeOK /\ StoreInv /\ \A y \in Workers : WorkInv(y)
      /\ ~lookupFailed => StoreHonours /\ \A y \in Workers : WorkHonours(y)
  BY DEF EnrichInv, CacheInv, HonourInv
<1> HIDE DEF k
<1>3. /\ Written(k, d) \in Doc
      /\ x \in Explorers => Written(k, d).cheap /\ Written(k, d).rich
  BY <1>1, KeptFacts DEF Kinds
<1>4. /\ doc \in [Wallets -> Doc] /\ doc[w0] \in Doc /\ Set(k, doc[w0], d) \in Doc
      /\ k = "ens" => /\ Set(k, doc[w0], d).cheap = doc[w0].cheap
                      /\ Set(k, doc[w0], d).rich = doc[w0].rich
  BY <1>2, SetFacts DEF EnrichTypeOK
<1>5. doc' \in [Wallets -> Doc]
  BY <1>1, <1>4
<1>6. /\ DOMAIN wk' = Workers
      /\ \A y \in Workers :
           wk'[y] = IF y = x THEN [at |-> "cache", w |-> w0, doc |-> Written(k, d)] ELSE wk[y]
  BY <1>1, <1>2 DEF EnrichTypeOK
<1>7. EnrichTypeOK'
  <2>1. WorkerOK([at |-> "cache", w |-> w0, doc |-> Written(k, d)])
    BY <1>3 DEF WorkerOK
  <2>2. \A y \in Workers : WorkerOK(wk[y])
    BY <1>2 DEF EnrichTypeOK
  <2>3. \A y \in Workers : WorkerOK(wk'[y])
    BY <1>6, <2>1, <2>2
  <2>4. QED BY <2>3, <1>2, <1>5, <1>6 DEF EnrichTypeOK, passes
<1>8. StoreInv' /\ (~lookupFailed => StoreHonours')
  <2>1. StoreInv'
    BY <1>2 DEF StoreInv
  <2>2. ASSUME ~lookupFailed, NEW w \in Wallets, "rich" \in had[w]
        PROVE  cache[w].complete /\ (doc'[w].cheap => doc'[w].rich)
    <3>1. cache[w].complete /\ (doc[w].cheap => doc[w].rich)
      BY <2>2, <1>2 DEF StoreHonours
    <3>2. CASE w # w0
      BY <3>1, <3>2, <1>1, <1>4
    <3>3. CASE w = w0
      BY <3>1, <3>3, <2>2, <1>1, <1>4
    <3>4. QED BY <3>2, <3>3
  <2>3. QED BY <2>1, <2>2 DEF StoreHonours
<1>9. \A y \in Workers : WorkInv(y)' /\ (~lookupFailed => WorkHonours(y)')
  <2>1. ASSUME NEW y \in Workers, y # x PROVE WorkInv(y)' /\ (~lookupFailed => WorkHonours(y)')
    BY <2>1, <1>6, <1>2 DEF WorkInv, WorkHonours
  <2>2. WorkInv(x)' /\ (~lookupFailed => WorkHonours(x)')
    BY <1>3, <1>6 DEF WorkInv, WorkHonours
  <2>3. QED BY <2>1, <2>2
<1>10. QED
  BY <1>7, <1>8, <1>9, SubKept, AllPassesKept, InvParts

\* A worker that is idle again has nothing at hand.
LEMMA IdleNext ==
    ASSUME EnrichInv, NEW x \in Workers, wk' = [wk EXCEPT ![x] = WorkerIdle], UNCHANGED had
    PROVE  /\ DOMAIN wk' = Workers /\ \A y \in Workers : WorkerOK(wk'[y])
           /\ \A y \in Workers : WorkInv(y)' /\ (~lookupFailed => WorkHonours(y)')
<1>1. DOMAIN wk' = Workers /\ \A y \in Workers : wk'[y] = IF y = x THEN WorkerIdle ELSE wk[y]
  BY DEF EnrichInv, EnrichTypeOK
<1>2. WorkerOK(WorkerIdle) /\ WorkerIdle.at = "idle"
  BY DEF WorkerOK, WorkerIdle
<1>3. \A y \in Workers : WorkerOK(wk'[y])
  BY <1>1, <1>2 DEF EnrichInv, EnrichTypeOK
<1>4. \A y \in Workers : WorkInv(y)' /\ (~lookupFailed => WorkHonours(y)')
  BY <1>1, <1>2 DEF EnrichInv, CacheInv, HonourInv, WorkInv, WorkHonours
<1>5. QED BY <1>1, <1>3, <1>4

\* The explorer's answer is written, its refusal too, or the job is given up.
LEMMA EnrichExplorerNext ==
    ASSUME EnrichInv, NEW x \in Workers, x \in Explorers, EnrichOneExplorer(x) PROVE EnrichInv'
<1>1. /\ UNCHANGED <<alive, cache, had, lookupFailed, unacked, sub, subUpd, entries, passes, jobs>>
      /\ wk[x].at = "fetch"
  BY DEF EnrichOneExplorer, consumer, history
<1>2. /\ wk[x].w \in Wallets /\ wk[x].doc \in Doc /\ wk[x].doc.cheap
      /\ ~lookupFailed => "rich" \notin had[wk[x].w]
  BY <1>1 DEF EnrichInv, EnrichTypeOK, WorkerOK, CacheInv, WorkInv, HonourInv, WorkHonours
<1>3. JobsInv' /\ (~lookupFailed => JobsHonour') /\ jobs' \in [{"explorer", "ens"} -> Seq(JobOf)]
  BY <1>1, JobsKept DEF EnrichInv, EnrichTypeOK
<1>4. ASSUME NEW d \in {RichDoc(wk[x].doc), SkippedDoc(wk[x].doc)}, WriteThrough(x, wk[x].w, d)
      PROVE  EnrichInv'
  <2>1. d \in Doc /\ d.cheap /\ d.rich
    BY <1>2, FetchFacts
  <2>2. QED BY <1>1, <1>2, <1>3, <1>4, <2>1, WriteThroughNext
<1>5. CASE wk' = [wk EXCEPT ![x] = WorkerIdle] /\ UNCHANGED doc
  <2>1. EnrichTypeOK'
    BY <1>1, <1>5, IdleNext DEF EnrichInv, EnrichTypeOK, passes
  <2>2. QED
    BY <1>1, <1>5, <2>1, IdleNext, StoresKept, SubKept, AllPassesKept, JobsKept, InvParts
<1>6. QED BY <1>4, <1>5 DEF EnrichOneExplorer

\* An ENS worker changes none of the data the others fetch.
LEMMA EnrichENSNext ==
    ASSUME EnrichInv, NEW x \in Workers, x \in EnsWorkers, EnrichOneENS(x) PROVE EnrichInv'
<1> DEFINE j == Head(jobs["ens"])
<1>1. /\ UNCHANGED <<alive, cache, had, lookupFailed, unacked, sub, subUpd, entries, passes>>
      /\ jobs["ens"] # <<>> /\ jobs' = [jobs EXCEPT !["ens"] = Tail(jobs["ens"])]
      /\ \/ WriteThrough(x, j.w, EnsDoc(j.snap, j.w \in Named))
         \/ UNCHANGED <<doc, wk>>
  BY DEF EnrichOneENS, consumer, history
<1>2. /\ jobs' \in [{"explorer", "ens"} -> Seq(JobOf)] /\ JobsInv' /\ (~lookupFailed => JobsHonour')
      /\ j.w \in Wallets /\ j.snap \in Doc
  BY <1>1, TakenFacts
<1> HIDE DEF j
<1>3. CASE WriteThrough(x, j.w, EnsDoc(j.snap, j.w \in Named))
  <2>1. EnsDoc(j.snap, j.w \in Named) \in Doc /\ x \notin Explorers
    <3>1. (j.w \in Named) \in BOOLEAN
      OBVIOUS
    <3>2. QED BY <1>2, <3>1, FetchFacts
  <2>2. QED BY <1>1, <1>2, <1>3, <2>1, WriteThroughNext
<1>4. CASE UNCHANGED <<doc, wk>>
  <2>1. EnrichTypeOK'
    BY <1>1, <1>2, <1>4 DEF EnrichInv, EnrichTypeOK, passes
  <2>2. QED
    BY <1>1, <1>2, <1>4, <2>1, StoresKept, WorkersKept, SubKept, AllPassesKept, InvParts
<1>5. QED BY <1>1, <1>3, <1>4

\* The second write: an entry that was complete is written by the ENS pass only.
LEMMA WriteCacheNext == ASSUME EnrichInv, NEW x \in Workers, WriteCache(x) PROVE EnrichInv'
<1> DEFINE k == KindOf(x)
           w0 == wk[x].w
<1>1. /\ UNCHANGED <<alive, doc, had, lookupFailed, unacked, sub, subUpd, entries, passes, jobs>>
      /\ wk[x].at = "cache" /\ wk' = [wk EXCEPT ![x] = WorkerIdle]
      /\ cache' = cache \/ cache' = [cache EXCEPT ![w0] = Set(k, cache[w0], wk[x].doc)]
      /\ k = "ens" \/ x \in Explorers
  BY DEF WriteCache, consumer, history, KindOf
<1>2. /\ EnrichTypeOK /\ StoreInv /\ \A y \in Workers : WorkInv(y)
      /\ ~lookupFailed => StoreHonours /\ \A y \in Workers : WorkHonours(y)
  BY DEF EnrichInv, CacheInv, HonourInv
<1>3. w0 \in Wallets /\ wk[x].doc \in Doc /\ cache \in [Wallets -> Doc] /\ cache[w0] \in Doc
  BY <1>1, <1>2 DEF EnrichTypeOK, WorkerOK
<1>4. Set(k, cache[w0], wk[x].doc) \in Doc
  BY <1>3, SetFacts
<1>5. cache' \in [Wallets -> Doc]
  BY <1>1, <1>3, <1>4
<1>6. /\ DOMAIN wk' = Workers /\ \A y \in Workers : WorkerOK(wk'[y])
      /\ \A y \in Workers : WorkInv(y)' /\ (~lookupFailed => WorkHonours(y)')
  BY <1>1, IdleNext
<1>7. EnrichTypeOK'
  BY <1>1, <1>2, <1>5, <1>6 DEF EnrichTypeOK, passes
<1>8. StoreInv' /\ (~lookupFailed => StoreHonours')
  <2>1. ASSUME NEW w \in Wallets
        PROVE  /\ cache'[w].complete => cache'[w].cheap /\ cache'[w].rich
               /\ cache[w].cheap => cache'[w].cheap
               /\ ~lookupFailed /\ "rich" \in had[w] => cache'[w].complete
    <3>1. CASE cache'[w] = cache[w]
      BY <3>1, <1>2 DEF StoreInv, StoreHonours
    <3>2. CASE w = w0 /\ cache'[w] = Set(k, cache[w0], wk[x].doc)
      <4>1. CASE k = "ens"
        BY <3>2, <4>1, <1>2, <1>3, SetFacts DEF StoreInv, StoreHonours
      <4>2. CASE k # "ens"
        <5>1. /\ wk[x].doc.cheap /\ wk[x].doc.rich
              /\ ~lookupFailed => "rich" \notin had[w0]
          BY <4>2, <1>1, <1>2 DEF WorkInv, WorkHonours
        <5>2. QED BY <3>2, <4>2, <5>1, <1>3, SetFacts
      <4>3. QED BY <4>1, <4>2
    <3>3. QED BY <3>1, <3>2, <1>1, <1>3
  <2>2. QED BY <2>1, <1>1, <1>2 DEF StoreInv, StoreHonours
<1>9. QED
  BY <1>1, <1>6, <1>7, <1>8, SubKept, AllPassesKept, JobsKept, InvParts

-------------------------------------------------------------------------------
(* The invariant and the promise.                                              *)

\* Every step keeps EnrichInv.
LEMMA EnrichNext == EnrichInv /\ [Next]_vars => EnrichInv'
<1> SUFFICES ASSUME EnrichInv, [Next]_vars PROVE EnrichInv'
  OBVIOUS
<1>1. ASSUME NEW p \in Passes, PassStep(p) PROVE EnrichInv'
  BY <1>1, LookupNext, WriteHitsNext, FetchCheapNext, CacheCheapNext DEF PassStep
<1>2. ASSUME NEW w \in Wallets, Discover(w) PROVE EnrichInv'
  BY <1>2, ReceiveNext
<1>3. CASE ConsumerStep
  BY <1>3, ReceiveNext, SubmitLookupNext, SubmitHitNext DEF ConsumerStep
<1>4. CASE BatchStep
  <2>1. "batch" \in Passes
    BY DEF Passes
  <2>2. QED BY <1>4, <2>1, <1>1, FlushNext, RefetchNext DEF BatchStep
<1>5. ASSUME NEW s \in Sweepers, SweepStep(s) PROVE EnrichInv'
  <2>1. s \in Passes
    BY DEF Passes
  <2>2. QED BY <1>5, <2>1, <1>1, ListNext, PushNext DEF SweepStep
<1>6. ASSUME NEW x \in Workers, WorkerStep(x) PROVE EnrichInv'
  BY <1>6, TakeJobNext, EnrichExplorerNext, EnrichENSNext, WriteCacheNext DEF WorkerStep
<1>7. CASE Crash \/ Restart \/ Reset
  BY <1>7, ProcessNext
<1>8. CASE UNCHANGED vars
  <2>1. EnrichTypeOK'
    BY <1>8 DEF vars, stores, consumer, passes, history, EnrichInv, EnrichTypeOK
  <2>2. UNCHANGED <<doc, cache, had, lookupFailed, jobs, sub, subUpd, passes, wk>>
    BY <1>8 DEF vars, stores, consumer, passes, history
  <2>3. QED
    BY <2>1, <2>2, StoresKept, WorkersKept, SubKept, AllPassesKept, JobsKept, InvParts
<1>9. QED
  BY <1>2, <1>3, <1>4, <1>5, <1>6, <1>7, <1>8 DEF Next

\* EnrichInv holds throughout.
LEMMA EnrichInvHolds == Spec => []EnrichInv
BY EnrichInit, EnrichNext, PTL DEF Spec

\* Only a worker, or a fresh start, changes what the workers hold.
LEMMA WorkersWrite ==
    [Next]_vars => wk' = wk \/ FreshMemory \/ \E y \in Workers : WorkerStep(y)
<1> SUFFICES ASSUME [Next]_vars, ~\E y \in Workers : WorkerStep(y) PROVE wk' = wk \/ FreshMemory
  OBVIOUS
<1>1. ASSUME NEW p, PassStep(p) PROVE wk' = wk
  BY <1>1 DEF PassStep, Lookup, WriteHits, FetchCheap, CacheCheap
<1>2. CASE (\E w \in Wallets : Discover(w)) \/ ConsumerStep
  BY <1>2 DEF Discover, ConsumerStep, SubmitLookup, SubmitHit, Receive
<1>3. CASE BatchStep
  BY <1>3, <1>1 DEF BatchStep, Flush, Refetched, PostDone, Refetch, PostBatch
<1>4. ASSUME NEW s \in Sweepers, SweepStep(s) PROVE wk' = wk
  BY <1>4, <1>1 DEF SweepStep, List, Push
<1>5. CASE Crash \/ Restart \/ Reset \/ UNCHANGED vars
  BY <1>5 DEF Crash, Restart, Reset, vars
<1>6. QED BY <1>2, <1>3, <1>4, <1>5 DEF Next

-------------------------------------------------------------------------------
(* What is settled.                                                            *)

NoJob(w) == \A i \in DOMAIN jobs["explorer"] : jobs["explorer"][i].w # w
NotAtWork(w) == \A x \in Explorers : wk[x].w # w
Quiet(p, w) == kind[p] # "ens" => snap[p][w] = NoDoc /\ upd[p][w] = NoDoc

\* What goes downstream is no job for a wallet with explorer data.
LEMMA NoJobNext ==
    ASSUME EnrichTypeOK, NEW w \in Wallets, Settled(w), NEW v \in Wallets, NEW d \in Doc,
           jobs' = jobs \/ jobs' = Downstream(v, d), v = w => d.rich
    PROVE  NoJob(w)'
<1>1. NoJob(w)
  BY DEF Settled, NoJob
<1>2. CASE jobs' = jobs
  BY <1>1, <1>2 DEF NoJob
<1>3. CASE jobs' = Downstream(v, d)
  <2>1. ASSUME NEW i \in DOMAIN jobs'["explorer"] PROVE jobs'["explorer"][i].w # w
    BY <1>1, <1>3, <2>1, DownstreamFacts DEF NoJob
  <2>2. QED BY <2>1 DEF NoJob
<1>4. QED BY <1>2, <1>3

\* The consumer takes up wallets without cheap data only, and what it writes is
\* for the wallet it took up.
LEMMA SettledConsumer ==
    ASSUME EnrichInv, NEW w \in Wallets, Settled(w),
           ConsumerStep \/ \E v \in Wallets : Discover(v)
    PROVE  Settled(w)'
<1>1. /\ UNCHANGED <<passes, wk>> /\ EnrichTypeOK /\ doc[w] \in Doc
      /\ doc[w].cheap /\ doc[w].rich /\ sub # w /\ w # Nobody
  BY DEF ConsumerStep, SubmitLookup, SubmitHit, Receive, Discover, EnrichInv, EnrichTypeOK, Settled
<1>2. sub' # w /\ doc'[w] = doc[w]
  BY <1>1 DEF ConsumerStep, SubmitLookup, SubmitHit, Receive, Discover, stores, EnrichTypeOK
<1>3. NoJob(w)'
  <2>1. CASE jobs' = jobs
    BY <2>1 DEF Settled, NoJob
  <2>2. ASSUME NEW v \in Wallets, Receive(v) PROVE NoJob(w)'
    <3>1. doc[v] \in Doc /\ (jobs' = jobs \/ jobs' = Downstream(v, doc[v]))
      BY <2>2, <1>1 DEF Receive, EnrichTypeOK
    <3>2. QED BY <3>1, <1>1, NoJobNext
  <2>3. CASE SubmitHit
    <3>1. sub \in Wallets /\ subUpd \in Doc /\ (jobs' = jobs \/ jobs' = Downstream(sub, subUpd))
      BY <2>3, <1>1 DEF SubmitHit, EnrichTypeOK, MaybeDoc
    <3>2. QED BY <3>1, <1>1, NoJobNext
  <2>4. QED BY <2>1, <2>2, <2>3 DEF ConsumerStep, SubmitLookup, Discover
<1>4. QED BY <1>1, <1>2, <1>3 DEF Settled, NoJob, passes

\* A phase of a pass takes up no wallet it holds no snapshot of; the ENS sweep
\* writes the name only.
LEMMA SettledPass ==
    ASSUME EnrichInv, NEW w \in Wallets, Settled(w), NEW p \in Passes, PassStep(p)
    PROVE  Settled(w)'
<1>1. UNCHANGED <<consumer, jobs, wk>>
  BY DEF PassStep, Lookup, WriteHits, FetchCheap, CacheCheap
<1>2. /\ EnrichTypeOK /\ PassInv(p) /\ doc \in [Wallets -> Doc] /\ doc[w] \in Doc
      /\ doc[w].cheap /\ doc[w].rich /\ \A r \in Passes : Quiet(r, w)
      /\ upd[p] \in [Wallets -> MaybeDoc] /\ snap[p] \in [Wallets -> MaybeDoc]
  BY DEF EnrichInv, CacheInv, EnrichTypeOK, Settled, Quiet
<1>3. ASSUME Done(p) PROVE \A r \in Passes : Quiet(r, w)'
  BY <1>2, <1>3, DoneFacts DEF Quiet, None
<1>4. ASSUME Misses(p, snap[p]) PROVE \A r \in Passes : Quiet(r, w)'
  BY <1>2, <1>4, MissesFacts DEF Quiet, None
<1>5. (\A r \in Passes : Quiet(r, w)') /\ doc'[w].cheap /\ doc'[w].rich
  <2>1. CASE Lookup(p)
    <3>1. doc' = doc
      BY <2>1 DEF Lookup, stores
    <3>2. CASE Misses(p, snap[p])
      BY <3>1, <3>2, <1>2, <1>4
    <3>3. ASSUME UNCHANGED kind, \A r \in Passes \ {p} : UNCHANGED <<snap[r], upd[r]>>,
                 snap[p][w] = NoDoc => snap'[p][w] = NoDoc /\ upd'[p][w] = NoDoc
          PROVE  (\A r \in Passes : Quiet(r, w)') /\ doc'[w].cheap /\ doc'[w].rich
      <4>1. ASSUME NEW r \in Passes PROVE Quiet(r, w)'
        BY <3>3, <4>1, <1>2 DEF Quiet
      <4>2. QED BY <4>1, <3>1, <1>2
    <3>4. \/ Misses(p, snap[p])
          \/ /\ UNCHANGED kind /\ \A r \in Passes \ {p} : UNCHANGED <<snap[r], upd[r]>>
             /\ snap[p][w] = NoDoc => snap'[p][w] = NoDoc /\ upd'[p][w] = NoDoc
      BY <2>1, <1>2 DEF Lookup, EnrichTypeOK
    <3>5. QED BY <3>2, <3>3, <3>4
  <2>2. CASE WriteHits(p)
    <3>1. \A r \in Passes : Quiet(r, w)'
      BY <2>2, <1>3, <1>4 DEF WriteHits
    <3>2. CASE doc' = doc
      BY <3>1, <3>2, <1>2
    <3>3. CASE doc' = SetAll(kind[p], doc, upd[p])
      <4>1. CASE upd[p][w] = NoDoc
        BY <3>1, <3>3, <4>1, <1>2, SetAllFacts
      <4>2. CASE upd[p][w] # NoDoc
        <5>1. kind[p] = "ens" /\ upd[p][w] \in Doc /\ doc'[w] = Set(kind[p], doc[w], upd[p][w])
          BY <3>3, <4>2, <1>2, SetAllFacts DEF Quiet
        <5>2. QED BY <5>1, <3>1, <1>2, SetFacts
      <4>3. QED BY <4>1, <4>2
    <3>4. QED BY <2>2, <3>2, <3>3 DEF WriteHits
  <2>3. CASE FetchCheap(p)
    <3>1. snap[p][w] = NoDoc /\ upd[p][w] = NoDoc
      BY <2>3, <1>2 DEF FetchCheap, At, PassInv, Quiet
    <3>2. PICK ok \in SUBSET Picked(snap[p]) :
             /\ upd' = [upd EXCEPT ![p] = [v \in Wallets |->
                          IF v \in ok THEN Written("cheap", CheapDoc(snap[p][v])) ELSE NoDoc]]
             /\ doc' = SetAll("cheap", doc, upd'[p])
      BY <2>3 DEF FetchCheap
    <3>3. /\ upd'[p][w] = NoDoc /\ \A r \in Passes \ {p} : upd'[r] = upd[r]
      BY <3>1, <3>2, <1>2 DEF EnrichTypeOK, Picked
    <3>4. doc'[w] = doc[w]
      BY <3>2, <3>3 DEF SetAll
    <3>5. UNCHANGED <<kind, snap>>
      BY <2>3 DEF FetchCheap
    <3>6. QED BY <3>1, <3>3, <3>4, <3>5, <1>2 DEF Quiet
  <2>4. CASE CacheCheap(p)
    BY <2>4, <1>2, <1>3 DEF CacheCheap
  <2>5. QED BY <2>1, <2>2, <2>3, <2>4 DEF PassStep
<1>6. QED BY <1>1, <1>5 DEF Settled, Quiet, consumer

\* The batcher drops a wallet it finds enriched.
LEMMA SettledBatch ==
    ASSUME EnrichInv, NEW w \in Wallets, Settled(w), BatchStep
    PROVE  Settled(w)'
<1>0. "batch" \in Passes
  BY DEF Passes
<1>1. CASE PassStep("batch")
  BY <1>0, <1>1, SettledPass
<1>2. CASE Flush \/ Refetched \/ PostDone
  BY <1>2 DEF Flush, Refetched, PostDone, Settled, stores, consumer
<1>3. ASSUME NEW v \in Wallets, Refetch(v) \/ PostBatch(v) PROVE Settled(w)'
  <2>1. /\ UNCHANGED <<doc, sub, wk, kind, upd>> /\ EnrichTypeOK /\ doc[v] \in Doc
        /\ doc[w].cheap /\ doc[w].rich
        /\ jobs' = jobs \/ jobs' = Downstream(v, doc[v])
    BY <1>3 DEF Refetch, PostBatch, stores, passes, EnrichInv, EnrichTypeOK, Settled
  <2>2. NoJob(w)'
    BY <2>1, NoJobNext
  <2>3. snap' = snap \/ (v # w /\ snap' = [snap EXCEPT !["batch"][v] = Taken("cheap", doc[v])])
    BY <1>3, <2>1 DEF Refetch, PostBatch, passes
  <2>4. ASSUME NEW r \in Passes PROVE snap'[r][w] = snap[r][w]
    <3>1. snap \in [Passes -> [Wallets -> MaybeDoc]]
      BY <2>1 DEF EnrichTypeOK
    <3>2. snap' = snap \/ (v # w /\ snap' = [snap EXCEPT !["batch"] = [snap["batch"] EXCEPT ![v] = Taken("cheap", doc[v])]])
      BY <2>3
    <3>3. QED BY <1>0, <3>1, <3>2
  <2>5. QED BY <2>1, <2>2, <2>4 DEF Settled, NoJob
<1>4. QED BY <1>1, <1>2, <1>3 DEF BatchStep

\* A sweep lists no wallet that has what it looks for.
LEMMA SettledSweep ==
    ASSUME EnrichInv, NEW w \in Wallets, Settled(w), NEW s \in Sweepers, SweepStep(s)
    PROVE  Settled(w)'
<1>0. s \in Passes
  BY DEF Passes
<1>1. /\ EnrichTypeOK /\ PassInv(s) /\ doc[w].cheap /\ doc[w].rich /\ kind[s] \in Kinds
      /\ \A r \in Passes : Quiet(r, w)
  BY <1>0 DEF EnrichInv, EnrichTypeOK, CacheInv, Settled, Quiet
<1>2. ASSUME Done(s) PROVE \A r \in Passes : Quiet(r, w)'
  BY <1>0, <1>1, <1>2, DoneFacts DEF Quiet, None
<1>3. CASE PassStep(s)
  BY <1>0, <1>3, SettledPass
<1>4. CASE List(s)
  <2>1. UNCHANGED <<doc, sub, jobs, wk>>
    BY <1>4 DEF List, stores, consumer
  <2>2. \A r \in Passes : Quiet(r, w)'
    <3>1. Done(s) \/ (/\ UNCHANGED <<kind, upd>>
                      /\ snap' = [snap EXCEPT ![s] = [v \in Wallets |->
                           IF v \in {u \in known : Due(kind[s], doc[u])}
                           THEN Taken(kind[s], doc[v]) ELSE NoDoc]])
      BY <1>4 DEF List
    <3>2. CASE /\ UNCHANGED <<kind, upd>>
               /\ snap' = [snap EXCEPT ![s] = [v \in Wallets |->
                    IF v \in {u \in known : Due(kind[s], doc[u])}
                    THEN Taken(kind[s], doc[v]) ELSE NoDoc]]
      <4>1. kind[s] # "ens" => ~Due(kind[s], doc[w])
        BY <1>1 DEF Due, Kinds
      <4>2. /\ kind[s] # "ens" => snap'[s][w] = NoDoc
            /\ \A r \in Passes \ {s} : snap'[r] = snap[r]
        BY <4>1, <3>2, <1>0, <1>1 DEF EnrichTypeOK
      <4>3. QED BY <4>2, <3>2, <1>1 DEF Quiet
    <3>3. QED BY <3>1, <3>2, <1>2
  <2>3. QED BY <2>1, <2>2 DEF Settled, Quiet
<1>5. ASSUME NEW v \in Wallets, Push(s, v) PROVE Settled(w)'
  <2>1. /\ UNCHANGED <<doc, sub, wk>> /\ pc[s] = "push" /\ v \in todo[s]
        /\ kind[s] \in {"explorer", "ens"}
        /\ jobs' = [jobs EXCEPT ![kind[s]] = Append(jobs[kind[s]], Job(kind[s], v, snap[s][v]))]
        /\ Done(s) \/ UNCHANGED <<pc, kind, snap, upd>>
    BY <1>5 DEF Push, At, stores, consumer
  <2>2. \A r \in Passes : Quiet(r, w)'
    BY <2>1, <1>1, <1>2 DEF Quiet
  <2>3. NoJob(w)'
    <3>1. NoJob(w)
      BY DEF Settled, NoJob
    <3>2. jobs["explorer"] \in Seq(JobOf) /\ jobs \in [{"explorer", "ens"} -> Seq(JobOf)]
      BY <1>1 DEF EnrichTypeOK
    <3>3. CASE kind[s] = "ens"
      BY <3>1, <3>2, <3>3, <2>1 DEF NoJob
    <3>4. CASE kind[s] = "explorer"
      <4> DEFINE new == Job("explorer", v, snap[s][v])
      <4>1. v # w
        BY <3>4, <2>1, <1>0, <1>1 DEF PassInv, Picked, Quiet
      <4>2. new.w = v
        BY DEF Job
      <4>3. jobs'["explorer"] = Append(jobs["explorer"], new)
        BY <2>1, <3>2, <3>4
      <4> HIDE DEF new
      <4>4. ASSUME NEW i \in DOMAIN jobs'["explorer"]
            PROVE  jobs'["explorer"][i] = new
                   \/ (i \in DOMAIN jobs["explorer"] /\ jobs'["explorer"][i] = jobs["explorer"][i])
        BY <4>3, <4>4, <3>2
      <4>5. QED BY <3>1, <4>1, <4>2, <4>4 DEF NoJob
    <3>5. QED BY <2>1, <3>3, <3>4
  <2>4. QED BY <2>1, <2>2, <2>3 DEF Settled, Quiet, NoJob
<1>6. QED BY <1>3, <1>4, <1>5 DEF SweepStep

\* A worker has no other jobs than the channel's.
LEMMA SettledWorker ==
    ASSUME EnrichInv, NEW w \in Wallets, Settled(w), NEW x \in Workers, WorkerStep(x)
    PROVE  Settled(w)'
<1>1. /\ UNCHANGED <<consumer, passes>> /\ NoJob(w) /\ NotAtWork(w) /\ w # Nobody
      /\ doc[w] \in Doc /\ doc[w].cheap /\ doc[w].rich /\ doc \in [Wallets -> Doc]
      /\ DOMAIN wk = Workers /\ WorkerOK(wk[x])
      /\ jobs["explorer"] \in Seq(JobOf) /\ jobs \in [{"explorer", "ens"} -> Seq(JobOf)]
  BY DEF WorkerStep, TakeJob, EnrichOneExplorer, EnrichOneENS, WriteCache, EnrichInv,
     EnrichTypeOK, Settled, NoJob, NotAtWork
<1>2. ASSUME NEW d \in Doc, NEW v \in Wallets, WriteThrough(x, v, d), x \in Explorers => v # w
      PROVE  NotAtWork(w)' /\ doc'[w].cheap /\ doc'[w].rich
  <2>1. NotAtWork(w)'
    BY <1>1, <1>2 DEF WriteThrough, NotAtWork, Workers
  <2>2. CASE v # w
    BY <2>1, <2>2, <1>1, <1>2 DEF WriteThrough
  <2>3. CASE v = w
    <3>1. KindOf(x) = "ens" /\ doc'[w] = Set("ens", doc[w], d)
      BY <2>3, <1>1, <1>2 DEF WriteThrough, KindOf
    <3>2. QED BY <2>1, <3>1, <1>1, SetFacts
  <2>4. QED BY <2>2, <2>3
<1>3. CASE x \in Explorers /\ TakeJob(x)
  <2>1. /\ jobs["explorer"] # <<>> /\ jobs'["explorer"] = Tail(jobs["explorer"]) /\ doc' = doc
        /\ wk' = [wk EXCEPT ![x] = [at |-> "fetch", w |-> Head(jobs["explorer"]).w,
                                    doc |-> Head(jobs["explorer"]).snap]]
    BY <1>1, <1>3 DEF TakeJob, stores
  <2>2. Head(jobs["explorer"]).w # w
    BY <2>1, <1>1 DEF NoJob
  <2>3. NotAtWork(w)'
    BY <2>1, <2>2, <1>1 DEF NotAtWork, Workers
  <2>4. \A i \in DOMAIN Tail(jobs["explorer"]) :
           i + 1 \in DOMAIN jobs["explorer"] /\ Tail(jobs["explorer"])[i] = jobs["explorer"][i + 1]
    BY <2>1, <1>1
  <2>5. NoJob(w)'
    BY <2>1, <2>4, <1>1 DEF NoJob
  <2>6. QED BY <2>1, <2>3, <2>5, <1>1 DEF Settled, NoJob, NotAtWork, consumer, passes
<1>4. CASE x \in Explorers /\ EnrichOneExplorer(x)
  <2>1. jobs' = jobs
    BY <1>4 DEF EnrichOneExplorer
  <2>2. wk[x].w # w /\ wk[x].w \in Wallets /\ wk[x].doc \in Doc
    BY <1>1, <1>4 DEF EnrichOneExplorer, NotAtWork, WorkerOK
  <2>3. NotAtWork(w)' /\ doc'[w].cheap /\ doc'[w].rich
    <3>1. ASSUME NEW d \in {RichDoc(wk[x].doc), SkippedDoc(wk[x].doc)}, WriteThrough(x, wk[x].w, d)
          PROVE  NotAtWork(w)' /\ doc'[w].cheap /\ doc'[w].rich
      <4>1. d \in Doc
        BY <2>2, FetchFacts
      <4>2. QED BY <3>1, <4>1, <2>2, <1>2
    <3>2. CASE wk' = [wk EXCEPT ![x] = WorkerIdle] /\ UNCHANGED doc
      BY <3>2, <1>1 DEF NotAtWork, WorkerIdle, Workers
    <3>3. QED BY <1>4, <3>1, <3>2 DEF EnrichOneExplorer
  <2>4. QED BY <2>1, <2>3, <1>1 DEF Settled, NoJob, NotAtWork, consumer, passes
<1>5. CASE x \in EnsWorkers /\ EnrichOneENS(x)
  <2>1. /\ jobs'["explorer"] = jobs["explorer"] /\ jobs["ens"] # <<>> /\ x \notin Explorers
        /\ \/ WriteThrough(x, Head(jobs["ens"]).w, EnsDoc(Head(jobs["ens"]).snap, Head(jobs["ens"]).w \in Named))
           \/ UNCHANGED <<doc, wk>>
    BY <1>1, <1>5 DEF EnrichOneENS
  <2>2. Head(jobs["ens"]).w \in Wallets /\ Head(jobs["ens"]).snap \in Doc
    <3>1. Head(jobs["ens"]) \in JobOf
      BY <2>1, <1>1
    <3>2. QED BY <3>1 DEF JobOf
  <2>3. EnsDoc(Head(jobs["ens"]).snap, Head(jobs["ens"]).w \in Named) \in Doc
    <3>1. (Head(jobs["ens"]).w \in Named) \in BOOLEAN
      OBVIOUS
    <3>2. QED BY <2>2, <3>1, FetchFacts
  <2>4. NotAtWork(w)' /\ doc'[w].cheap /\ doc'[w].rich
    <3>1. CASE UNCHANGED <<doc, wk>>
      BY <3>1, <1>1 DEF NotAtWork
    <3>2. QED BY <2>1, <2>2, <2>3, <3>1, <1>2
  <2>5. QED BY <2>1, <2>4, <1>1 DEF Settled, NoJob, NotAtWork, consumer, passes
<1>6. CASE WriteCache(x)
  <2>1. jobs' = jobs /\ doc' = doc /\ wk' = [wk EXCEPT ![x] = WorkerIdle]
    BY <1>6 DEF WriteCache
  <2>2. NotAtWork(w)'
    BY <2>1, <1>1 DEF NotAtWork, WorkerIdle, Workers
  <2>3. QED BY <2>1, <2>2, <1>1 DEF Settled, NoJob, NotAtWork, consumer, passes
<1>7. QED BY <1>3, <1>4, <1>5, <1>6 DEF WorkerStep

\* Nothing but the drop of the runtime database takes a settled wallet up again.
LEMMA SettledNext ==
    ASSUME EnrichInv, [Next]_vars, NEW w \in Wallets, Settled(w)
    PROVE  Settled(w)' \/ Reset
<1>1. CASE ConsumerStep \/ \E v \in Wallets : Discover(v)
  BY <1>1, SettledConsumer
<1>2. CASE BatchStep
  BY <1>2, SettledBatch
<1>3. ASSUME NEW s \in Sweepers, SweepStep(s) PROVE Settled(w)'
  BY <1>3, SettledSweep
<1>4. ASSUME NEW x \in Workers, WorkerStep(x) PROVE Settled(w)'
  BY <1>4, SettledWorker
<1>5. CASE Crash
  BY <1>5 DEF Crash, FreshMemory, Settled, stores, None, WorkerIdle, Workers
<1>6. CASE Restart
  BY <1>6 DEF Restart, Settled, stores, consumer, passes
<1>7. CASE UNCHANGED vars
  BY <1>7 DEF vars, Settled, stores, consumer, passes
<1>8. QED BY <1>1, <1>2, <1>3, <1>4, <1>5, <1>6, <1>7 DEF Next

-------------------------------------------------------------------------------
(* The promise.                                                                *)

\* CacheHonoured asks this of one step and one wallet.
Honours(w) ==
    /\ (\E p \in Passes : At(p, "rpc") /\ snap[p][w] # NoDoc /\ pc'[p] = "cache")
           => ("cheap" \notin had[w] \/ lookupFailed)
    /\ (\E x \in Explorers : wk[x].at = "idle" /\ wk'[x].w = w)
           => ("rich" \notin had[w] \/ lookupFailed)
    /\ Settled(w) => Settled(w)' \/ Reset

\* A step from a state of EnrichInv honours the cache.
LEMMA HonoursStep == EnrichInv /\ [Next]_vars => \A w \in Wallets : Honours(w)
<1> SUFFICES ASSUME EnrichInv, [Next]_vars, NEW w \in Wallets PROVE Honours(w)
  OBVIOUS
<1>1. ASSUME NEW p \in Passes, pc[p] = "rpc", snap[p][w] # NoDoc
      PROVE  "cheap" \notin had[w] \/ lookupFailed
  <2>1. PassInv(p) /\ (~lookupFailed => PassHonours(p))
    BY DEF EnrichInv, CacheInv, HonourInv
  <2>2. QED BY <1>1, <2>1 DEF PassInv, PassHonours
<1>2. ASSUME NEW x \in Explorers, wk[x].at = "idle", wk'[x].w = w
      PROVE  "rich" \notin had[w] \/ lookupFailed
  <2>1. x \in Workers /\ DOMAIN wk = Workers /\ wk[x].w = Nobody /\ w # Nobody
    BY <1>2 DEF Workers, WorkerOK, EnrichInv, EnrichTypeOK
  <2>2. PICK y \in Workers : WorkerStep(y)
    <3>1. ~FreshMemory /\ wk' # wk
      BY <1>2, <2>1 DEF FreshMemory, WorkerIdle
    <3>2. QED BY <3>1, WorkersWrite
  <2>3. wk' = wk \/ \E v : wk' = [wk EXCEPT ![y] = v]
    BY <2>2 DEF WorkerStep, TakeJob, EnrichOneExplorer, EnrichOneENS, WriteThrough, WriteCache
  <2>4. y = x
    BY <1>2, <2>1, <2>3
  <2>5. TakeJob(x)
    BY <1>2, <2>2, <2>4 DEF WorkerStep, EnrichOneExplorer, WriteCache
  <2>6. /\ jobs["explorer"] # <<>> /\ jobs["explorer"] \in Seq(JobOf)
        /\ wk'[x].w = Head(jobs["explorer"]).w
    BY <2>1, <2>5 DEF TakeJob, EnrichInv, EnrichTypeOK
  <2>7. 1 \in DOMAIN jobs["explorer"] /\ jobs["explorer"][1].w = w
    BY <1>2, <2>6
  <2>8. ~lookupFailed => JobsHonour
    BY DEF EnrichInv, HonourInv
  <2>9. QED BY <2>7, <2>8 DEF JobsHonour
<1>3. QED BY <1>1, <1>2, SettledNext DEF Honours, At

\* What the cache held when the runtime database was last dropped is not fetched
\* again, unless a cache lookup failed; within a lifetime an enriched wallet is
\* taken up by nothing that was not begun before: with any number of overlapping
\* sweeps and workers, full channels, lost writes, crashes and resets.
THEOREM CacheHonouredHolds == Spec => CacheHonoured
<1>1. EnrichInv /\ [Next]_vars => [\A w \in Wallets : Honours(w)]_vars
  BY HonoursStep
<1>2. CacheHonoured <=> [][\A w \in Wallets : Honours(w)]_vars
  BY DEF CacheHonoured, Honours
<1>3. QED BY <1>1, <1>2, EnrichInvHolds, PTL DEF Spec

===============================================================================
