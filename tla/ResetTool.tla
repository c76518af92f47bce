------------------------------- MODULE ResetTool -------------------------------
(* restart-trustrank: the tool that wipes everything derived from the events    *)
(* and has the driver replay them from the first one, while the services of the *)
(* compose file are stopped and started around it. Whatever fails ends the tool *)
(* where it is (log.Fatalf) and the operator runs it again. The driver's own     *)
(* failures are in UriPipeline and TagScale; here it only has the two writes a   *)
(* reset must not separate: what it derives from an event, then its checkpoint.  *)
EXTENDS Naturals, FiniteSets

CONSTANTS ChainIDs,
          Late,         \* chains whose contract is added while the system runs
          MaxEvents,    \* bound: events of a chain
          MaxRuns,      \* bound: runs of the tool
          Options       \* flags the operator may set: "no-stop-indexer", "no-restart-workers"

ASSUME ResetAssumption ==
    /\ Late \subseteq ChainIDs /\ {MaxEvents, MaxRuns} \subseteq Nat
    /\ Options \subseteq {"no-stop-indexer", "no-restart-workers"}

\* The services: the indexer, the decoder that stores its logs as events (called
\* consumer), the resolver of their URIs, the driver, and the workers on the queues
\* the driver fills.
ComposeServices == {"indexer", "consumer", "uri-resolver", "trustrank-worker", "workers"}
Collections == {"rows", "counts"}       \* written by key; written with $inc

VARIABLES up,           \* services that run
          contracts,    \* chains whose contract is stored
          rawLogs,      \* chain -> logs the indexer has published, a few of them still in their queue
          events,       \* chain -> events stored; the resolver's cursor is behind them
          uriFetched,   \* chain -> uri_fetched cursor, 0 when there is none
          checkpoint,   \* chain -> trustrank_worker cursor, 0 when there is none
          applied,      \* chain -> the event written whose checkpoint is not, or 0
          derivedRows,         \* chain -> events with rows in the analyzed database
          counts,       \* <<chain, event>> -> times it was counted there
          messages,        \* <<chain, event, gen>> the driver published
          gen,          \* resets that have begun to drop
          stale,        \* history: a consumer had a message of an earlier reset
          tool          \* the tool: where it is, its flags, its chains, what is left to drop

resetVars == <<up, contracts, rawLogs, events, uriFetched, checkpoint, applied, derivedRows, counts, messages, gen,
               stale, tool>>
derived == <<derivedRows, counts>>

NoTool == [pc |-> "idle", runs |-> 0, flags |-> {}, chains |-> {}, left |-> {},
           target |-> [c \in ChainIDs |-> 0]]

ResetInit ==
    /\ up = ComposeServices /\ contracts = ChainIDs \ Late
    /\ rawLogs = [c \in ChainIDs |-> 0] /\ events = rawLogs /\ uriFetched = events
    /\ checkpoint = events /\ applied = events
    /\ derivedRows = [c \in ChainIDs |-> {}] /\ counts = [x \in ChainIDs \X (1..MaxEvents) |-> 0]
    /\ messages = {} /\ gen = 0 /\ stale = FALSE /\ tool = NoTool

-------------------------------------------------------------------------------
(* The workers around the tool, each with a module of its own: here only what a  *)
(* reset can disturb.                                                           *)

AddContract(c) ==
    /\ c \notin contracts
    /\ contracts' = contracts \cup {c}
    /\ UNCHANGED <<up, rawLogs, events, uriFetched, checkpoint, applied, derived, messages, gen, stale, tool>>

Index(c) ==
    /\ "indexer" \in up /\ c \in contracts /\ rawLogs[c] < MaxEvents
    /\ rawLogs' = [rawLogs EXCEPT ![c] = @ + 1]
    /\ UNCHANGED <<up, contracts, events, uriFetched, checkpoint, applied, derived, messages, gen, stale, tool>>

\* The queue of the logs is not deleted: the decoder works off what is left in it
\* while the driver replays.
StoreEvent(c) ==
    /\ "consumer" \in up /\ events[c] < rawLogs[c]
    /\ events' = [events EXCEPT ![c] = @ + 1]
    /\ UNCHANGED <<up, contracts, rawLogs, uriFetched, checkpoint, applied, derived, messages, gen, stale, tool>>

ResolveUri(c) ==
    /\ "uri-resolver" \in up /\ uriFetched[c] < events[c]
    /\ uriFetched' = [uriFetched EXCEPT ![c] = @ + 1]
    /\ UNCHANGED <<up, contracts, rawLogs, events, checkpoint, applied, derived, messages, gen, stale, tool>>

\* The driver derives the event after its checkpoint, publishes, then saves it.
Apply(c) ==
    /\ "trustrank-worker" \in up /\ applied[c] = 0 /\ checkpoint[c] < uriFetched[c]
    /\ LET e == checkpoint[c] + 1 IN
       /\ applied' = [applied EXCEPT ![c] = e]
       /\ derivedRows' = [derivedRows EXCEPT ![c] = @ \cup {e}]
       /\ counts' = [counts EXCEPT ![<<c, e>>] = @ + 1]
       /\ messages' = messages \cup {<<c, e, gen>>}
    /\ UNCHANGED <<up, contracts, rawLogs, events, uriFetched, checkpoint, gen, stale, tool>>

SaveCheckpoint(c) ==
    /\ "trustrank-worker" \in up /\ applied[c] # 0
    /\ checkpoint' = [checkpoint EXCEPT ![c] = applied[c]]
    /\ applied' = [applied EXCEPT ![c] = 0]
    /\ UNCHANGED <<up, contracts, rawLogs, events, uriFetched, derived, messages, gen, stale, tool>>

Consume ==
    /\ "workers" \in up
    /\ \E m \in messages :
          /\ messages' = messages \ {m}
          /\ stale' = (stale \/ m[3] < gen)
    /\ UNCHANGED <<up, contracts, rawLogs, events, uriFetched, checkpoint, applied, derived, gen, tool>>

-------------------------------------------------------------------------------
(* main, in its order.                                                          *)

At(pc) == tool.pc = pc
Goto(pc) == tool' = [tool EXCEPT !.pc = pc]
Flag(f) == f \in tool.flags

\* collectChainIDs: contracts and checkpoints, read while everything still runs.
Collect ==
    /\ tool.pc \in {"idle", "done", "failed"} /\ tool.runs < MaxRuns
    /\ \E flags \in SUBSET Options :
          tool' = [NoTool EXCEPT !.pc = "stop", !.runs = tool.runs + 1, !.flags = flags,
                                 !.chains = contracts \cup {c \in ChainIDs : checkpoint[c] # 0}]
    /\ UNCHANGED <<up, contracts, rawLogs, events, uriFetched, checkpoint, applied, derived, messages, gen, stale>>

\* Mutant of Stopped: only what reads the events is stopped.
MutStopped == {"indexer", "uri-resolver"}
\* What composeStop is given: every writer of the analyzed database.
Stopped == ComposeServices

\* A stopped driver forgets the event it was at.
StopWorkers ==
    /\ At("stop")
    /\ IF Flag("no-stop-indexer") THEN UNCHANGED <<up, applied>>
       ELSE /\ up' = up \ Stopped
            /\ applied' = IF "trustrank-worker" \in Stopped THEN [c \in ChainIDs |-> 0] ELSE applied
    /\ Goto("queues")
    /\ UNCHANGED <<contracts, rawLogs, events, uriFetched, checkpoint, derived, messages, gen, stale>>

\* The queues whose consumers write derived data. Those of service_uri, deleted for
\* the listed chains only, lead to offchain_data, which is not reset.
DeleteQueues ==
    /\ At("queues")
    /\ messages' = {}
    /\ tool' = [tool EXCEPT !.pc = "drop", !.left = Collections]
    /\ UNCHANGED <<up, contracts, rawLogs, events, uriFetched, checkpoint, applied, derived, gen, stale>>

\* resetAnalyzedExceptCache: one collection after the other, in any order.
Drop ==
    /\ At("drop") /\ tool.left # {}
    /\ \E coll \in tool.left :
          /\ tool' = [tool EXCEPT !.left = @ \ {coll}]
          /\ derivedRows' = IF coll = "rows" THEN [c \in ChainIDs |-> {}] ELSE derivedRows
          /\ counts' = IF coll = "counts" THEN [x \in DOMAIN counts |-> 0] ELSE counts
    /\ gen' = IF tool.left = Collections THEN gen + 1 ELSE gen
    /\ UNCHANGED <<up, contracts, rawLogs, events, uriFetched, checkpoint, applied, messages, stale>>

\* Every document named trustrank_worker_<chain id>, listed or not.
DeleteCheckpoints ==
    /\ At("drop") /\ tool.left = {}
    /\ checkpoint' = [c \in ChainIDs |-> 0]
    /\ Goto(IF Flag("no-restart-workers") THEN "indexer" ELSE "driver")
    /\ UNCHANGED <<up, contracts, rawLogs, events, uriFetched, applied, derived, messages, gen, stale>>

\* restartComposeWorkers: the driver alone, and after 12 seconds the others.
StartDriver ==
    /\ At("driver")
    /\ up' = up \cup {"trustrank-worker"}
    /\ Goto("others")
    /\ UNCHANGED <<contracts, rawLogs, events, uriFetched, checkpoint, applied, derived, messages, gen, stale>>

StartOthers ==
    /\ At("others")
    /\ up' = up \cup {"uri-resolver", "workers", "consumer"}
    /\ Goto("wait")
    /\ UNCHANGED <<contracts, rawLogs, events, uriFetched, checkpoint, applied, derived, messages, gen, stale>>

\* waitTrustRankCaughtUp: a poll that finds no listed chain pending. The cursors
\* are read chain by chain, each as it is then; both only grow meanwhile.
CaughtUp ==
    /\ At("wait")
    /\ \A c \in tool.chains : uriFetched[c] = 0 \/ (checkpoint[c] # 0 /\ checkpoint[c] >= uriFetched[c])
    /\ tool' = [tool EXCEPT !.pc = "indexer", !.target = uriFetched]
    /\ UNCHANGED <<up, contracts, rawLogs, events, uriFetched, checkpoint, applied, derived, messages, gen, stale>>

StartIndexer ==
    /\ At("indexer")
    /\ up' = IF Flag("no-stop-indexer") THEN up ELSE up \cup {"indexer"}
    /\ Goto("done")
    /\ UNCHANGED <<contracts, rawLogs, events, uriFetched, checkpoint, applied, derived, messages, gen, stale>>

\* A command, a write or the wait fails, or the operator interrupts the tool.
ToolFails ==
    /\ tool.pc \notin {"idle", "done", "failed"}
    /\ Goto("failed")
    /\ UNCHANGED <<up, contracts, rawLogs, events, uriFetched, checkpoint, applied, derived, messages, gen, stale>>

ToolStep == \/ Collect \/ StopWorkers \/ DeleteQueues \/ Drop \/ DeleteCheckpoints
            \/ StartDriver \/ StartOthers \/ CaughtUp \/ StartIndexer \/ ToolFails
ResetNext ==
    \/ \E c \in ChainIDs : AddContract(c) \/ Index(c) \/ StoreEvent(c) \/ ResolveUri(c) \/ Apply(c) \/ SaveCheckpoint(c)
    \/ Consume \/ ToolStep

ResetSpec == ResetInit /\ [][ResetNext]_resetVars

-------------------------------------------------------------------------------
\* Once a reset has restarted the driver, what the analyzed database holds is one
\* replay of the events: none is counted twice, nothing of an event is there without
\* the rest, no consumer worked on a message of the data that was dropped, and when
\* the tool says it is done every event that was resolved, on a chain it listed, has
\* been replayed (restart-trustrank/main.go: the order of its steps).
FreshReplay ==
    tool.pc \in {"others", "wait", "indexer", "done"} =>
        /\ ~stale
        /\ \A c \in ChainIDs, e \in 1..MaxEvents :
              counts[<<c, e>>] = IF e \in derivedRows[c] THEN 1 ELSE 0
        /\ \A c \in tool.chains : 1..tool.target[c] \subseteq derivedRows[c]
================================================================================
