----------------------------- MODULE AgentIdentity -----------------------------
(* The identity side of the TrustRank processor, for one chain: a batch of     *)
(* events is applied in memory to the agent documents prefetched for it, and   *)
(* flushed store by store: agents, identity history, feedback rows, ownership  *)
(* of wallets, service URIs.  Ownership is reconciled agent by agent in three  *)
(* writes whose errors are only logged.  Only then is the checkpoint saved, so *)
(* what fails earlier is flushed again, from documents already changed.        *)
(* Grades and counters of feedback are FeedbackLifecycle, pages and bounds of  *)
(* the event list UriPipeline, tier votes TagScale.                            *)
EXTENDS Naturals, Sequences

CONSTANTS Agents, Addrs,
          NoAddr,       \* the empty address
          NoDoc,        \* no agent document
          NoAgent,      \* no agent
          Log,          \* events in chain order: [kind, agent, addr]
          BatchSize,
          MaxFaults     \* bound: failed calls and crashes

EventKinds == {"registered", "transfer", "wallet", "uri", "feedback"}
ASSUME ParamsAssumption ==
    /\ Log \in Seq([kind : EventKinds, agent : Agents, addr : Addrs \cup {NoAddr}])
    /\ BatchSize \in Nat \ {0} /\ MaxFaults \in Nat
    /\ NoAddr \notin Addrs /\ NoAgent \notin Agents

Pos == 1..Len(Log)
Doc == [owner : Addrs \cup {NoAddr}, wallet : Addrs \cup {NoAddr}]
ASSUME NoDocAssumption == NoDoc \notin Doc
Stub == [owner |-> NoAddr, wallet |-> NoAddr]

VARIABLES decoded,      \* events that can be listed: 1..decoded
          checkpoint,   \* trustrank checkpoint of the chain, 0 when absent
          agents,       \* agents collection
          history,      \* identity_history rows, by event
          rows,         \* feedback rows, by event: is it a self-feedback
          known,        \* wallets that exist
          owned,        \* ownedAgentIds
          announced,    \* wallets published to wallet_enrich
          offered,      \* "uri" events whose service URIs were published
          pc,           \* control of the pass
          after,        \* the pass's position
          batch,        \* batchState: next, end, docs, dirty, rows
          rec,          \* ReconcileOwnership: agent, next write, wasNew
          faults,
          torn,         \* history: a pass stopped behind the checkpoint
          unlinked,     \* history: agents whose last reconcile failed
          unoffered     \* history: "uri" events whose publish failed

stores == <<checkpoint, agents, history, rows, known, owned, announced, offered>>
notes == <<torn, unlinked, unoffered>>
vars == <<decoded, stores, pc, after, batch, rec, faults, notes>>

Fault == faults < MaxFaults /\ faults' = faults + 1

-------------------------------------------------------------------------------
(* Phase 2: the batch in memory.                                               *)

\* getOrCreateAgent
DocOf(docs, a) == IF docs[a] = NoDoc THEN Stub ELSE docs[a]

\* Mutant of Owned: a transfer is recorded in the history only.
MutOwned(d, e) == IF e.kind = "registered" THEN e.addr ELSE d.owner

\* handleRegistered, handleTransfer; a Transfer without an address is dropped.
Owned(d, e) == IF e.kind \in {"registered", "transfer"} THEN e.addr ELSE d.owner

\* handleMetadataSet for agentWallet: an empty value clears it.
WalletOf(d, e) == IF e.kind = "wallet" THEN e.addr ELSE d.wallet

\* Mutant of IsSelf: the registered wallet is not looked at.
MutIsSelf(d, client) == client = d.owner

IsSelf(d, client) == client = d.owner \/ (d.wallet # NoAddr /\ client = d.wallet)
Dropped(e) == e.kind = "transfer" /\ e.addr = NoAddr

\* processEvent on the batch state.
Process(b, i) ==
    LET e == Log[i]
        d == DocOf(b.docs, e.agent) IN
    IF Dropped(e) THEN [b EXCEPT !.next = i]
    ELSE [b EXCEPT !.next = i,
                   !.docs = [@ EXCEPT ![e.agent] = [owner |-> Owned(d, e), wallet |-> WalletOf(d, e)]],
                   !.dirty = @ \cup {e.agent},
                   !.rows = IF e.kind = "feedback" THEN [@ EXCEPT ![i] = IF IsSelf(d, e.addr) THEN "self" ELSE "other"] ELSE @]
NoRows == [i \in Pos |-> "none"]
EmptyBatch == [next |-> 0, end |-> 0, docs |-> [a \in Agents |-> NoDoc], dirty |-> {}, rows |-> NoRows]

\* BulkUpsert $sets the document: an empty agentWallet is omitted from it.
Stored(old, new) == IF new.wallet = NoAddr /\ old # NoDoc THEN [new EXCEPT !.wallet = old.wallet] ELSE new
Upserted(S) == [a \in Agents |-> IF a \in S THEN Stored(agents[a], batch.docs[a]) ELSE agents[a]]

-------------------------------------------------------------------------------
(* The driver: runChain.                                                       *)

Decode == /\ decoded < Len(Log)
          /\ decoded' = decoded + 1
          /\ UNCHANGED <<stores, pc, after, batch, rec, faults, notes>>

NoRec == [agent |-> NoAgent, at |-> "none", wasNew |-> FALSE]

\* loadCheckpoint: an error replays the chain.
Start == /\ pc = "idle"
         /\ pc' = "list"
         /\ \/ after' = checkpoint /\ UNCHANGED faults
            \/ after' = 0 /\ checkpoint # 0 /\ Fault
         /\ UNCHANGED <<decoded, stores, batch, rec, notes>>
List == /\ pc = "list"
        /\ LET end == IF decoded - after < BatchSize THEN decoded ELSE after + BatchSize IN
           IF after >= decoded THEN pc' = "idle" /\ UNCHANGED batch
           ELSE \* prefetch
                /\ pc' = "process"
                /\ batch' = [EmptyBatch EXCEPT !.next = after, !.end = end, !.docs = agents]
        /\ UNCHANGED <<decoded, stores, after, rec, faults, notes>>
\* The loop of ProcessBatch: processEvent for one event after the other.
ProcessEvent == /\ pc = "process"
                /\ batch' = Process(batch, batch.next + 1)
                /\ pc' = IF batch.next + 1 = batch.end THEN "agents" ELSE "process"
                /\ UNCHANGED <<decoded, stores, after, rec, faults, notes>>

Forget == pc' = "idle" /\ batch' = EmptyBatch /\ rec' = NoRec
Behind == torn' = (torn \/ after < checkpoint)
\* The process dies, or a phase that is not best-effort fails.
Abort == /\ pc # "idle" /\ Fault
         /\ Forget /\ Behind
         /\ UNCHANGED <<decoded, stores, after, unlinked, unoffered>>

-------------------------------------------------------------------------------
(* Phase 3: flush.                                                             *)

\* An unordered bulk write that fails may have written some of its documents.
FlushAgents ==
    /\ pc = "agents"
    /\ \/ agents' = Upserted(batch.dirty) /\ pc' = "history" /\ UNCHANGED <<batch, rec, faults, torn>>
       \/ Fault /\ (\E S \in SUBSET batch.dirty : agents' = Upserted(S)) /\ Forget /\ Behind
    /\ UNCHANGED <<decoded, checkpoint, history, rows, known, owned, announced, offered, after,
                   unlinked, unoffered>>

InBatch(kinds) == {i \in (after + 1)..batch.end : Log[i].kind \in kinds /\ ~Dropped(Log[i])}
FlushHistory ==
    /\ pc = "history"
    /\ history' = history \cup InBatch(EventKinds \ {"feedback"})
    /\ pc' = "rows"
    /\ UNCHANGED <<decoded, checkpoint, agents, rows, known, owned, announced, offered, after,
                   batch, rec, faults, notes>>
FlushRows ==
    /\ pc = "rows"
    /\ rows' = [i \in Pos |-> IF batch.rows[i] = "none" THEN rows[i] ELSE batch.rows[i]]
    /\ pc' = "owner"
    /\ UNCHANGED <<decoded, checkpoint, agents, history, known, owned, announced, offered, after,
                   batch, rec, faults, notes>>

\* ReconcileOwnership, for one dirty agent at a time: UpsertCold, the pull from
\* every other wallet, the add to the owner's, and the message for a new wallet.
OwnerNow == batch.docs[rec.agent].owner
Failed == /\ Fault /\ rec' = NoRec
          /\ unlinked' = unlinked \cup {rec.agent}
\* Mutant of ReconcileUpsert: only new wallets are linked.
MutUpsertNew(a) ==
    /\ pc = "owner" /\ rec = NoRec /\ a \in batch.dirty
    /\ batch' = [batch EXCEPT !.dirty = @ \ {a}]
    /\ LET o == batch.docs[a].owner IN
       \/ o = NoAddr /\ UNCHANGED <<known, rec, faults, unlinked>>
       \/ /\ o # NoAddr
          /\ known' = known \cup {o}
          /\ rec' = IF o \in known THEN NoRec ELSE [agent |-> a, at |-> "pull", wasNew |-> TRUE]
          /\ UNCHANGED <<faults, unlinked>>
       \/ o # NoAddr /\ Fault /\ unlinked' = unlinked \cup {a} /\ UNCHANGED <<known, rec>>
    /\ UNCHANGED <<decoded, checkpoint, agents, history, rows, owned, announced, offered, pc, after,
                   torn, unoffered>>

\* UpsertCold reads the document back: that this fails leaves what a failed pull leaves.
ReconcileUpsert(a) ==
    /\ pc = "owner" /\ rec = NoRec /\ a \in batch.dirty
    /\ batch' = [batch EXCEPT !.dirty = @ \ {a}]
    /\ LET o == batch.docs[a].owner IN
       \/ o = NoAddr /\ UNCHANGED <<known, rec, faults, unlinked>>
       \/ /\ o # NoAddr
          /\ known' = known \cup {o}
          /\ rec' = [agent |-> a, at |-> "pull", wasNew |-> o \notin known]
          /\ UNCHANGED <<faults, unlinked>>
       \/ o # NoAddr /\ Fault /\ unlinked' = unlinked \cup {a} /\ UNCHANGED <<known, rec>>
    /\ UNCHANGED <<decoded, checkpoint, agents, history, rows, owned, announced, offered, pc, after,
                   torn, unoffered>>

\* Mutant of ReconcilePull: the agent is added to its owner first.
MutPullLast ==
    /\ rec.at = "pull"
    /\ owned' = [owned EXCEPT ![OwnerNow] = @ \cup {rec.agent}]
    /\ rec' = [rec EXCEPT !.at = "add"]
    /\ UNCHANGED <<decoded, checkpoint, agents, history, rows, known, announced, offered, pc, after,
                   batch, torn, unoffered, faults, unlinked>>

ReconcilePull ==
    /\ rec.at = "pull"
    /\ \/ /\ owned' = [o \in Addrs |-> IF o = OwnerNow THEN owned[o] ELSE owned[o] \ {rec.agent}]
          /\ rec' = [rec EXCEPT !.at = "add"]
          /\ UNCHANGED <<faults, unlinked>>
       \/ Failed /\ UNCHANGED owned
    /\ UNCHANGED <<decoded, checkpoint, agents, history, rows, known, announced, offered, pc, after,
                   batch, torn, unoffered>>
ReconcileAdd ==
    /\ rec.at = "add"
    /\ \/ /\ owned' = [owned EXCEPT ![OwnerNow] = @ \cup {rec.agent}]
          /\ unlinked' = unlinked \ {rec.agent}
          /\ rec' = IF rec.wasNew THEN [rec EXCEPT !.at = "announce"] ELSE NoRec
          /\ UNCHANGED faults
       \/ Failed /\ UNCHANGED owned
    /\ UNCHANGED <<decoded, checkpoint, agents, history, rows, known, announced, offered, pc, after,
                   batch, torn, unoffered>>
Announce ==
    /\ rec.at = "announce"
    /\ \/ announced' = announced \cup {OwnerNow} /\ UNCHANGED faults
       \/ Fault /\ UNCHANGED announced
    /\ rec' = NoRec
    /\ UNCHANGED <<decoded, checkpoint, agents, history, rows, known, owned, offered, pc, after,
                   batch, notes>>
Reconciled ==
    /\ pc = "owner" /\ rec = NoRec /\ batch.dirty = {}
    /\ pc' = "services"
    /\ UNCHANGED <<decoded, stores, after, batch, rec, faults, notes>>

\* applyIdentityFromURI collects the service URIs of the cards.
ServiceUris == InBatch({"uri"})
\* Each publish that fails is logged.
PublishServices ==
    /\ pc = "services"
    /\ LET uris == ServiceUris IN
       \/ offered' = offered \cup uris /\ UNCHANGED <<faults, unoffered>>
       \/ /\ Fault
          /\ \E S \in SUBSET uris : offered' = offered \cup (uris \ S) /\ unoffered' = unoffered \cup S
    /\ pc' = "save"
    /\ UNCHANGED <<decoded, checkpoint, agents, history, rows, known, owned, announced, after,
                   batch, rec, torn, unlinked>>

\* saveCheckpoint: an error is logged and the pass goes on from memory.
Save == /\ pc = "save"
        /\ after' = batch.end
        /\ pc' = "list" /\ batch' = EmptyBatch
        /\ \/ checkpoint' = batch.end /\ UNCHANGED faults
           \/ Fault /\ UNCHANGED checkpoint
        /\ UNCHANGED <<decoded, agents, history, rows, known, owned, announced, offered, rec, notes>>

Init == /\ decoded = 0 /\ checkpoint = 0
        /\ agents = [a \in Agents |-> NoDoc]
        /\ history = {} /\ rows = NoRows
        /\ known = {} /\ owned = [o \in Addrs |-> {}] /\ announced = {} /\ offered = {}
        /\ pc = "idle" /\ after = 0 /\ batch = EmptyBatch /\ rec = NoRec
        /\ faults = 0 /\ torn = FALSE /\ unlinked = {} /\ unoffered = {}

PassStep == \/ Start \/ List \/ ProcessEvent \/ FlushAgents \/ FlushHistory \/ FlushRows
            \/ \E a \in Agents : ReconcileUpsert(a)
            \/ ReconcilePull \/ ReconcileAdd \/ Announce \/ Reconciled
            \/ PublishServices \/ Save
Next == Decode \/ PassStep \/ Abort
Spec == Init /\ [][Next]_vars

-------------------------------------------------------------------------------
(* Properties.                                                                 *)

\* ReconcileOwnership: an agent is in the list of one wallet at most, also
\* between its writes and after one of them failed.
OneWallet == \A a \in Agents, o, p \in Addrs :
                a \in owned[o] /\ a \in owned[p] => o = p

\* The owner that the first p events give an agent.
OwnerAt(a, p) ==
    LET S == {i \in 1..p : Log[i].agent = a /\ Log[i].kind \in {"registered", "transfer"} /\ ~Dropped(Log[i])}
    IN IF S = {} THEN NoAddr ELSE Log[CHOOSE i \in S : \A j \in S : j <= i].addr
WalletAt(a, p) ==
    LET S == {i \in 1..p : Log[i].agent = a /\ Log[i].kind = "wallet"}
    IN IF S = {} THEN NoAddr ELSE Log[CHOOSE i \in S : \A j \in S : j <= i].addr

\* Between passes the owner of every stored agent is the one of some prefix of
\* the events that is not behind the checkpoint, whichever documents of a failed
\* batch were written and however often it was flushed; except after a replay
\* from the first event that stopped early.
OwnerNotBehind ==
    pc = "idle" /\ ~torn =>
        \A a \in Agents : \E p \in checkpoint..decoded : DocOf(agents, a).owner = OwnerAt(a, p)

\* handleNewFeedback: feedback of the agent's owner or registered wallet at that
\* time is recorded as self-feedback wherever the batches are cut, as long as no
\* batch is processed twice.
SelfCaught ==
    faults = 0 =>
        \A i \in Pos : rows[i] = "other" =>
            Log[i].addr \notin {OwnerAt(Log[i].agent, i), WalletAt(Log[i].agent, i)}

\* Once the chain is quiet every agent ends, and stays, in the list of its last
\* owner, whatever crashed in between, unless a reconcile of it failed or a
\* replay stopped early.
OwnershipSettles ==
    \A a \in Agents :
        <>[](decoded = Len(Log)) =>
        <>[](\/ torn \/ a \in unlinked
             \/ LET o == OwnerAt(a, Len(Log)) IN o = NoAddr \/ a \in owned[o])

===============================================================================
