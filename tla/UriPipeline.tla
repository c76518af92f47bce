------------------------------ MODULE UriPipeline ------------------------------
(* One chain's path from decoded events to TrustRank: the uri-bootstrap        *)
(* producer scans the events collection and publishes the URIs it meets, the   *)
(* event_uri consumers resolve them and push the uri_fetched cursor, and       *)
(* TrustRank processes events up to that cursor from a checkpoint of its own.  *)
(* All three exchange positions through the config collection only.            *)
(*                                                                             *)
(* A position (blockNumber, logIndex) is its rank in the chain's total order,  *)
(* 1..NumEvents; 0 is the nil cursor and an absent config entry.               *)
EXTENDS Naturals, FiniteSets

CONSTANTS
    NumEvents,      \* number of events the contracts of the chain emit
    URIs, NoUri,    \* URIs, and the mark of an event that carries none
    UriOf,          \* the URI of each event
    Terminal,       \* the statuses a handler may leave: -1 or 1 (unusable), 5 (success)
    Workers,        \* handler goroutines of the event_uri ConsumerPool
    ScanLimit,      \* batchSize of the producer's listing
    RankLimit,      \* BatchSize of TrustRank's listing
    MaxCopies,      \* bound on the copies of a message in the queue
    MaxFaults       \* bound on failed store or broker calls and crashes

Pos == 1 .. NumEvents
Cursor == 0 .. NumEvents

ASSUME ParamsAssumption ==
    /\ NumEvents \in Nat
    /\ NoUri \notin URIs
    /\ UriOf \in [Pos -> URIs \cup {NoUri}]
    /\ Terminal # {} /\ "absent" \notin Terminal
    /\ IsFiniteSet(Workers)
    /\ ScanLimit \in Nat \ {0} /\ RankLimit \in Nat \ {0}
    /\ MaxCopies \in Nat \ {0} /\ MaxFaults \in Nat

VARIABLES
    decoded,        \* rows of the events collection
    eventUri,       \* copies of each event's message ready in the event_uri queue
    offchain,       \* status of each URI in offchain_data
    uriScanned,     \* config entry uri_scanned_X
    uriFetched,     \* config entry uri_fetched_X
    checkpoint,     \* config entry trustrank_worker_X
    scan,           \* the producer's runChain: cursor, last and unpublished rows of its page
    pc, msg,        \* per worker: its place in Handle and the event it handles
    rank,           \* TrustRank's runChain: after, bound, last row and rows of its page
    faults,         \* faults so far
    \* history
    offered,        \* events the producer went past with no Publish error
    unpublished,    \* events whose Publish failed
    processed,      \* events of the batches ProcessBatch completed
    lateForScan,    \* events decoded behind a row the producer had already listed
    lateForRank     \* events decoded behind a row TrustRank had listed or processed

config == <<uriScanned, uriFetched, checkpoint>>
workers == <<pc, msg>>
history == <<offered, unpublished, processed, lateForScan, lateForRank>>
vars == <<decoded, eventUri, offchain, uriScanned, uriFetched, checkpoint, scan,
          pc, msg, rank, faults, offered, unpublished, processed, lateForScan,
          lateForRank>>

-------------------------------------------------------------------------------
(* Listing: the rows after a cursor and up to a bound, oldest first, at most   *)
(* limit of them. A page is named by its last row.                             *)

Rows(after, upTo) == {e \in decoded : after < e /\ e <= upTo}

IsPageEnd(after, bound, limit, last) ==
    /\ last \in Rows(after, bound)
    /\ Cardinality(Rows(after, last)) <= limit
    /\ Cardinality(Rows(after, last)) < limit => Rows(last, bound) = {}

HasUri(e) == UriOf[e] # NoUri
Resolved(e) == e \in Pos /\ HasUri(e) /\ offchain[UriOf[e]] \in Terminal
Holders(e) == {w \in Workers : pc[w] # "idle" /\ msg[w] = e}

Fault == faults < MaxFaults /\ faults' = faults + 1

ScanIdle == [pc |-> "idle", cursor |-> 0, end |-> 0, todo |-> {}]
RankIdle == [pc |-> "idle", after |-> 0, bound |-> 0, end |-> 0, page |-> {}]

Init ==
    /\ decoded = {}
    /\ eventUri = [e \in Pos |-> 0]
    /\ offchain = [u \in URIs |-> "absent"]
    /\ uriScanned = 0 /\ uriFetched = 0 /\ checkpoint = 0
    /\ scan = ScanIdle
    /\ pc = [w \in Workers |-> "idle"] /\ msg = [w \in Workers |-> 0]
    /\ rank = RankIdle
    /\ faults = 0
    /\ offered = {} /\ unpublished = {} /\ processed = {}
    /\ lateForScan = {} /\ lateForRank = {}

-------------------------------------------------------------------------------
(* event-decoder: rows appear in any order (four workers, requeued messages);  *)
(* a second delivery of the same log upserts the same row.                     *)

Decode(e) ==
    /\ e \notin decoded
    /\ decoded' = decoded \cup {e}
    /\ lateForScan' = IF e <= uriScanned \/ e <= scan.end
                      THEN lateForScan \cup {e} ELSE lateForScan
    /\ lateForRank' = IF e <= checkpoint \/ e <= rank.end \/ \E p \in processed : e < p
                      THEN lateForRank \cup {e} ELSE lateForRank
    /\ UNCHANGED <<eventUri, offchain, config, scan, workers, rank, faults,
                   offered, unpublished, processed>>

-------------------------------------------------------------------------------
(* uri-bootstrap producer: runChain, one at a time per chain.                  *)

\* loadCursor: any read error counts as "no cursor" and rescans the chain.
ScanStart ==
    /\ scan.pc = "idle"
    /\ \E c \in {uriScanned, 0} :
         /\ scan' = [pc |-> "list", cursor |-> c, end |-> c, todo |-> {}]
         /\ IF c = uriScanned THEN UNCHANGED faults ELSE Fault
    /\ UNCHANGED <<decoded, eventUri, offchain, config, workers, rank, history>>

ScanList ==
    /\ scan.pc = "list"
    /\ \E last \in decoded :
         /\ IsPageEnd(scan.cursor, NumEvents, ScanLimit, last)
         /\ scan' = [scan EXCEPT !.pc = "publish", !.end = last,
                                 !.todo = Rows(scan.cursor, last)]
    /\ UNCHANGED <<decoded, eventUri, offchain, config, workers, rank, faults, history>>

\* An empty listing ends the pass.
ScanDone ==
    /\ scan.pc = "list"
    /\ Rows(scan.cursor, NumEvents) = {}
    /\ scan' = ScanIdle
    /\ UNCHANGED <<decoded, eventUri, offchain, config, workers, rank, faults, history>>

\* The listing fails, or the pass is cancelled (another chain's error cancels
\* the errgroup): the next pass reads the saved cursor.
ScanAbort ==
    /\ scan.pc # "idle" /\ Fault
    /\ scan' = ScanIdle
    /\ UNCHANGED <<decoded, eventUri, offchain, config, workers, rank, history>>

\* publishEventURI for the next row of the page: a failed publish is logged
\* and the scan moves on.
ScanPublish(e) ==
    /\ scan.pc = "publish"
    /\ e \in scan.todo /\ \A f \in scan.todo : e <= f
    /\ scan' = [scan EXCEPT !.todo = @ \ {e}]
    /\ \/ /\ HasUri(e) /\ eventUri[e] < MaxCopies
          /\ eventUri' = [eventUri EXCEPT ![e] = @ + 1]
          /\ offered' = offered \cup {e}
          /\ UNCHANGED <<faults, unpublished>>
       \/ /\ ~HasUri(e)
          /\ offered' = offered \cup {e}
          /\ UNCHANGED <<eventUri, faults, unpublished>>
       \/ /\ HasUri(e) /\ Fault
          /\ unpublished' = unpublished \cup {e}
          /\ UNCHANGED <<eventUri, offered>>
    /\ UNCHANGED <<decoded, offchain, config, workers, rank, processed,
                   lateForScan, lateForRank>>

\* Mutant of ScanSave: the cursor is saved before the page is published.
ScanSaveEarly ==
    /\ scan.pc = "publish"
    /\ scan' = [scan EXCEPT !.pc = "list", !.cursor = scan.end]
    /\ \/ uriScanned' = scan.end /\ UNCHANGED faults
       \/ Fault /\ UNCHANGED uriScanned
    /\ UNCHANGED <<decoded, eventUri, offchain, uriFetched, checkpoint, workers,
                   rank, history>>

\* saveCursor: errors are logged and the pass continues from memory.
ScanSave ==
    /\ scan.pc = "publish" /\ scan.todo = {}
    /\ scan' = [scan EXCEPT !.pc = "list", !.cursor = scan.end]
    /\ \/ uriScanned' = scan.end /\ UNCHANGED faults
       \/ Fault /\ UNCHANGED uriScanned
    /\ UNCHANGED <<decoded, eventUri, offchain, uriFetched, checkpoint, workers,
                   rank, history>>

-------------------------------------------------------------------------------
(* EventURIConsumer: one worker goroutine handling one delivery.               *)

Receive(w, e) ==
    /\ pc[w] = "idle" /\ eventUri[e] > 0
    /\ eventUri' = [eventUri EXCEPT ![e] = @ - 1]
    /\ pc' = [pc EXCEPT ![w] = "fetch"] /\ msg' = [msg EXCEPT ![w] = e]
    /\ UNCHANGED <<decoded, offchain, config, scan, rank, faults, history>>

\* handleMessage: every fetch outcome is written over what the row held.
FetchAndRecord(w) ==
    /\ pc[w] = "fetch"
    /\ \E status \in Terminal :
         offchain' = [offchain EXCEPT ![UriOf[msg[w]]] = status]
    /\ pc' = [pc EXCEPT ![w] = "getCursor"]
    /\ UNCHANGED <<decoded, eventUri, config, scan, msg, rank, faults, history>>

\* Mutant of Requeue: a failed write still advances the cursor.
RequeueAdvances(w) ==
    /\ pc[w] = "fetch" /\ Fault
    /\ pc' = [pc EXCEPT ![w] = "getCursor"]
    /\ UNCHANGED <<decoded, eventUri, offchain, config, scan, msg, rank, history>>

\* The offchain_data write fails: nack and requeue, the cursor is not touched.
Requeue(w) ==
    /\ pc[w] = "fetch" /\ Fault
    /\ eventUri' = [eventUri EXCEPT ![msg[w]] = @ + 1]
    /\ pc' = [pc EXCEPT ![w] = "idle"]
    /\ UNCHANGED <<decoded, offchain, config, scan, msg, rank, history>>

\* advanceFetchedCursor, first call: Get and compare. An error gives up.
GetFetched(w) ==
    /\ pc[w] = "getCursor"
    /\ \/ /\ pc' = [pc EXCEPT ![w] = IF msg[w] <= uriFetched
                                     THEN "ack" ELSE "setIfAbsent"]
          /\ UNCHANGED faults
       \/ Fault /\ pc' = [pc EXCEPT ![w] = "ack"]
    /\ UNCHANGED <<decoded, eventUri, offchain, config, scan, msg, rank, history>>

\* advanceFetchedCursor, second call: SetIfAbsent.
SetFetchedIfAbsent(w) ==
    /\ pc[w] = "setIfAbsent"
    /\ \/ /\ uriFetched = 0
          /\ uriFetched' = msg[w]
          /\ pc' = [pc EXCEPT ![w] = "ack"]
          /\ UNCHANGED faults
       \/ /\ uriFetched # 0
          /\ pc' = [pc EXCEPT ![w] = "update"]
          /\ UNCHANGED <<uriFetched, faults>>
       \/ /\ Fault
          /\ pc' = [pc EXCEPT ![w] = "ack"]
          /\ UNCHANGED uriFetched
    /\ UNCHANGED <<decoded, eventUri, offchain, uriScanned, checkpoint, scan, msg,
                   rank, history>>

\* advanceFetchedCursor, third call: UpdateMetadata, unconditional.
UpdateFetched(w) ==
    /\ pc[w] = "update"
    /\ \/ uriFetched' = msg[w] /\ UNCHANGED faults
       \/ Fault /\ UNCHANGED uriFetched
    /\ pc' = [pc EXCEPT ![w] = "ack"]
    /\ UNCHANGED <<decoded, eventUri, offchain, uriScanned, checkpoint, scan, msg,
                   rank, history>>

Ack(w) ==
    /\ pc[w] = "ack"
    /\ pc' = [pc EXCEPT ![w] = "idle"]
    /\ UNCHANGED <<decoded, eventUri, offchain, config, scan, msg, rank, faults, history>>

\* Mutant of BootstrapCrash: deliveries are acknowledged on receipt.
BootstrapCrashAutoAck ==
    /\ Fault
    /\ scan' = ScanIdle
    /\ pc' = [w \in Workers |-> "idle"]
    /\ UNCHANGED <<decoded, eventUri, offchain, config, msg, rank, history>>

\* The uri-bootstrap process dies: the producer's position is lost and the
\* broker puts the unacknowledged messages back.
BootstrapCrash ==
    /\ Fault
    /\ scan' = ScanIdle
    /\ eventUri' = [e \in Pos |-> eventUri[e] + Cardinality(Holders(e))]
    /\ pc' = [w \in Workers |-> "idle"]
    /\ UNCHANGED <<decoded, offchain, config, msg, rank, history>>

-------------------------------------------------------------------------------
(* TrustRank: runChain, one at a time per chain.                               *)

\* loadCheckpoint: a read error, like an absent entry, replays the chain.
RankStart ==
    /\ rank.pc = "idle"
    /\ \E c \in {checkpoint, 0} :
         /\ rank' = [pc |-> "bound", after |-> c, bound |-> 0, end |-> c, page |-> {}]
         /\ IF c = checkpoint THEN UNCHANGED faults ELSE Fault
    /\ UNCHANGED <<decoded, eventUri, offchain, config, scan, workers, history>>

\* Mutant of RankBound: the upper bound is exclusive.
RankBoundExclusive ==
    /\ rank.pc = "bound"
    /\ \/ /\ uriFetched # 0
          /\ rank' = [rank EXCEPT !.pc = "list", !.bound = uriFetched - 1]
          /\ UNCHANGED faults
       \/ uriFetched = 0 /\ rank' = RankIdle /\ UNCHANGED faults
       \/ Fault /\ rank' = RankIdle
    /\ UNCHANGED <<decoded, eventUri, offchain, config, scan, workers, history>>

\* loadURICursor: without a cursor (absent or unreadable) there is no pass.
RankBound ==
    /\ rank.pc = "bound"
    /\ \/ /\ uriFetched # 0
          /\ rank' = [rank EXCEPT !.pc = "list", !.bound = uriFetched]
          /\ UNCHANGED faults
       \/ uriFetched = 0 /\ rank' = RankIdle /\ UNCHANGED faults
       \/ Fault /\ rank' = RankIdle
    /\ UNCHANGED <<decoded, eventUri, offchain, config, scan, workers, history>>

\* Mutant of RankList: the query has a limit and no sort.
RankListUnsorted ==
    /\ rank.pc = "list"
    /\ \E page \in SUBSET Rows(rank.after, rank.bound) :
         \E last \in page :
            /\ Cardinality(page) <= RankLimit
            /\ rank' = [rank EXCEPT !.pc = "process", !.end = last, !.page = page]
    /\ UNCHANGED <<decoded, eventUri, offchain, config, scan, workers, faults, history>>

RankList ==
    /\ rank.pc = "list"
    /\ \E last \in decoded :
         /\ IsPageEnd(rank.after, rank.bound, RankLimit, last)
         /\ rank' = [rank EXCEPT !.pc = "process", !.end = last,
                                 !.page = Rows(rank.after, last)]
    /\ UNCHANGED <<decoded, eventUri, offchain, config, scan, workers, faults, history>>

RankDone ==
    /\ rank.pc = "list"
    /\ Rows(rank.after, rank.bound) = {}
    /\ rank' = RankIdle
    /\ UNCHANGED <<decoded, eventUri, offchain, config, scan, workers, faults, history>>

\* ProcessBatch succeeds on the listed page.
RankProcess ==
    /\ rank.pc = "process"
    /\ processed' = processed \cup rank.page
    /\ rank' = [rank EXCEPT !.pc = "save"]
    /\ UNCHANGED <<decoded, eventUri, offchain, config, scan, workers, faults,
                   offered, unpublished, lateForScan, lateForRank>>

\* Mutant of RankAbort: the checkpoint is saved although the batch failed.
RankAbortSaves ==
    /\ rank.pc # "idle" /\ Fault
    /\ rank' = RankIdle
    /\ checkpoint' = rank.end
    /\ UNCHANGED <<decoded, eventUri, offchain, uriScanned, uriFetched, scan,
                   workers, history>>

\* ProcessBatch returns an error, or the process dies: the pass is over and
\* the next one starts again from the saved checkpoint.
RankAbort ==
    /\ rank.pc # "idle" /\ Fault
    /\ rank' = RankIdle
    /\ UNCHANGED <<decoded, eventUri, offchain, config, scan, workers, history>>

\* saveCheckpoint: errors are logged and the pass continues from memory.
RankSave ==
    /\ rank.pc = "save"
    /\ rank' = [rank EXCEPT !.pc = "list", !.after = rank.end]
    /\ \/ checkpoint' = rank.end /\ UNCHANGED faults
       \/ Fault /\ UNCHANGED checkpoint
    /\ UNCHANGED <<decoded, eventUri, offchain, uriScanned, uriFetched, scan,
                   workers, history>>

-------------------------------------------------------------------------------

ScanStep ==
    \/ ScanStart \/ ScanList \/ ScanDone \/ ScanAbort \/ ScanSave
    \/ \E e \in Pos : ScanPublish(e)

HandleStep(w) ==
    \/ FetchAndRecord(w) \/ Requeue(w) \/ GetFetched(w)
    \/ SetFetchedIfAbsent(w) \/ UpdateFetched(w) \/ Ack(w)

RankStep ==
    \/ RankStart \/ RankBound \/ RankList \/ RankDone
    \/ RankProcess \/ RankAbort \/ RankSave

Next ==
    \/ \E e \in Pos : Decode(e)
    \/ ScanStep
    \/ \E w \in Workers : HandleStep(w)
    \/ \E w \in Workers, e \in Pos : Receive(w, e)
    \/ BootstrapCrash
    \/ RankStep

Spec == Init /\ [][Next]_vars

\* The tickers of both daemons fire for ever, the broker hands ready messages
\* to idle workers, and a goroutine that is handling a message runs on (its
\* calls are bounded by the handler timeout). Faults are never required.
Fairness ==
    /\ WF_vars(ScanStep)
    /\ \A w \in Workers : WF_vars(HandleStep(w))
    /\ WF_vars(\E w \in Workers, e \in Pos : Receive(w, e))
    /\ WF_vars(RankStep)

FairSpec == Spec /\ Fairness

-------------------------------------------------------------------------------
(* Safety.                                                                     *)

ScanState == [pc : {"idle", "list", "publish"}, cursor : Cursor, end : Cursor,
              todo : SUBSET Pos]
RankState == [pc : {"idle", "bound", "list", "process", "save"}, after : Cursor,
              bound : Cursor, end : Cursor, page : SUBSET Pos]

\* Every variable keeps its type.
TypeOK ==
    /\ decoded \subseteq Pos
    /\ eventUri \in [Pos -> Nat]
    /\ offchain \in [URIs -> Terminal \cup {"absent"}]
    /\ uriScanned \in Cursor /\ uriFetched \in Cursor /\ checkpoint \in Cursor
    /\ scan \in ScanState /\ rank \in RankState
    /\ pc \in [Workers -> {"idle", "fetch", "getCursor", "setIfAbsent", "update", "ack"}]
    /\ msg \in [Workers -> Cursor]
    /\ faults \in Nat
    /\ offered \subseteq Pos /\ unpublished \subseteq Pos /\ processed \subseteq Pos
    /\ lateForScan \subseteq Pos /\ lateForRank \subseteq Pos

\* The saved scan cursor covers what was published: a row at or below
\* uri_scanned was handed to the broker, failed to publish, or was decoded
\* behind the scan (runChain publishes a whole page before saveCursor).
ScanCursorCovers ==
    \A e \in decoded :
        e <= uriScanned => e \in offered \cup unpublished \cup lateForScan

\* TrustRank never runs ahead of the URI consumer: whatever it processed lies at
\* or below an event whose URI was resolved, however workers race on the cursor.
RankBehindResolution ==
    \A e \in processed : \E f \in Pos : e <= f /\ Resolved(f)

\* The saved checkpoint covers what was processed: a row at or below it was in a
\* completed batch or was decoded behind TrustRank's listing.
CheckpointCovers ==
    \A e \in decoded : e <= checkpoint => e \in processed \cup lateForRank

-------------------------------------------------------------------------------
(* Inductive strengthenings of the invariants above.                           *)

\* Why TrustRank stays behind: a worker only touches the cursor with an event it
\* has resolved, so whatever value the race leaves in uri_fetched is resolved,
\* and so is every bound a pass took from it.
ResolutionInv ==
    /\ \A e \in Pos : eventUri[e] > 0 => HasUri(e)
    /\ \A w \in Workers : pc[w] # "idle" => msg[w] \in Pos /\ HasUri(msg[w])
    /\ \A w \in Workers : pc[w] \notin {"idle", "fetch"} => Resolved(msg[w])
    /\ uriFetched # 0 => Resolved(uriFetched)
    /\ rank.pc \in {"list", "process", "save"} => Resolved(rank.bound)
    /\ rank.pc = "process" => \A e \in rank.page : e <= rank.bound
    /\ RankBehindResolution

\* Why the scan cursor covers the rows: so do the position in memory and, up to
\* its end, the page being published.
ScanInv ==
    /\ ScanCursorCovers
    /\ scan.cursor <= scan.end
    /\ scan.pc = "list" => scan.cursor = scan.end /\ scan.todo = {}
    /\ scan.pc # "idle" =>
         \A e \in decoded :
            e <= scan.end => e \in offered \cup unpublished \cup lateForScan \cup scan.todo

\* The same of the checkpoint and TrustRank's pass.
CheckpointInv ==
    /\ CheckpointCovers
    /\ rank.after <= rank.end
    /\ rank.pc \in {"bound", "list"} => rank.after = rank.end
    /\ rank.pc # "idle" =>
         \A e \in decoded :
            e <= rank.end =>
                \/ e \in processed \cup lateForRank
                \/ rank.pc = "process" /\ e \in rank.page

\* Why TrustRank goes in order: what lies below a processed event is processed
\* itself, or was decoded late.
OrderInv ==
    /\ \A p \in processed : \A e \in decoded : e < p => e \in processed \cup lateForRank
    /\ rank.pc = "process" => \A e \in rank.page : e \in decoded /\ e <= rank.end

-------------------------------------------------------------------------------
(* Action properties.                                                          *)

\* Events are processed in chain order (runChain: "strict chronological
\* order"): an event processed for the first time is newer than all processed
\* before it, unless it was decoded late and a replay picks it up.
ChronologicalOrder ==
    [][\A e \in processed' \ processed :
          e \in lateForRank \/ \A p \in processed : p < e]_vars

-------------------------------------------------------------------------------
(* Liveness, under FairSpec.                                                   *)

\* The URI of every decoded event is resolved in the end, unless the event came
\* behind the scan or its publish failed: neither is ever retried.
UriResolvedEventually ==
    \A e \in Pos :
        (e \in decoded /\ HasUri(e)) ~>
            (Resolved(e) \/ e \in unpublished \/ e \in lateForScan)

\* An event at or below uri_fetched is processed in the end, unless it was
\* decoded late or a racing worker takes the cursor back below it.
BoundedEventProcessed ==
    \A e \in Pos :
        (e \in decoded /\ e <= uriFetched) ~>
            (e \in processed \/ e \in lateForRank \/ uriFetched < e)

===============================================================================
