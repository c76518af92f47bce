----------------------------- MODULE ProcessorProofs ----------------------------
(* Proofs about the parts of the processor, for any events, batches, chains,   *)
(* tags and bytes: the writes of ReconcileOwnership never give an agent to two  *)
(* wallets, stored owners are not behind the checkpoint, self-feedback is        *)
(* caught, tier votes stand for rows, what is cut out of the bytes of an event  *)
(* lies within them, and nothing but a judgment gets into the category that is scored. *)
EXTENDS Processor, FiniteSetTheorems, TLAPS

-------------------------------------------------------------------------------
(* AgentIdentity.                                                              *)

\* A reconcile runs in its phase of the flush; once the agent is pulled, no
\* wallet but its owner's can hold it.
ReconcileInv ==
    /\ rec \in [agent : Agents \cup {NoAgent}, at : {"none", "pull", "add", "announce"}, wasNew : BOOLEAN]
    /\ owned \in [Addrs -> SUBSET Agents]
    /\ rec # NoRec => pc = "owner" /\ rec.agent \in Agents
    /\ rec.at = "add" => \A o \in Addrs : o # OwnerNow => rec.agent \notin owned[o]

OwnerInv == ReconcileInv /\ OneWallet

\* No lists and no reconcile yet.
LEMMA InitOwner == Init => OwnerInv
BY DEF Init, OwnerInv, ReconcileInv, NoRec, OneWallet

\* What touches neither the lists nor the reconcile, and the batch only when
\* none is running.
LEMMA OwnerQuiet ==
    ASSUME OwnerInv, UNCHANGED <<owned, rec>>, rec = NoRec \/ UNCHANGED <<pc, batch>>
    PROVE  OwnerInv'
BY DEF OwnerInv, ReconcileInv, OneWallet, NoRec, OwnerNow

\* Every step keeps OwnerInv.
LEMMA StepOwner ==
    ASSUME OwnerInv, [Next]_vars
    PROVE  OwnerInv'
<1> USE DEF stores, notes
<1>1. CASE Decode \/ UNCHANGED vars
  BY <1>1, OwnerQuiet DEF Decode, vars
<1>2. ASSUME pc # "owner", UNCHANGED <<owned, rec>> PROVE OwnerInv'
  BY <1>2, OwnerQuiet DEF OwnerInv, ReconcileInv
<1>3. CASE Start \/ List \/ ProcessEvent
  BY <1>2, <1>3 DEF Start, List, ProcessEvent
<1>4. CASE FlushHistory \/ FlushRows
  BY <1>2, <1>4 DEF FlushHistory, FlushRows
<1>5. CASE PublishServices
  BY <1>2, <1>5 DEF PublishServices
<1>6. CASE Save
  BY <1>2, <1>6 DEF Save
<1>7. ASSUME rec' = NoRec, UNCHANGED owned PROVE OwnerInv'
  BY <1>7 DEF OwnerInv, ReconcileInv, OneWallet, NoRec
<1>8. CASE FlushAgents
  <2>1. UNCHANGED owned /\ (UNCHANGED rec \/ rec' = NoRec) /\ pc = "agents"
    BY <1>8 DEF FlushAgents, Forget
  <2>2. QED BY <1>2, <1>7, <2>1
<1>9. CASE Abort
  BY <1>7, <1>9 DEF Abort, Forget
<1>10. ASSUME NEW a \in Agents, ReconcileUpsert(a) PROVE OwnerInv'
  <2>1. UNCHANGED <<owned, pc>> /\ pc = "owner" /\ rec = NoRec
    BY <1>10 DEF ReconcileUpsert
  <2>2. rec' = NoRec \/ rec' = [agent |-> a, at |-> "pull", wasNew |-> batch.docs[a].owner \notin known]
    BY <1>10 DEF ReconcileUpsert
  <2>3. CASE rec' = NoRec
    BY <1>7, <2>1, <2>3
  <2>4. CASE rec' = [agent |-> a, at |-> "pull", wasNew |-> batch.docs[a].owner \notin known]
    <3>1. rec' \in [agent : Agents \cup {NoAgent}, at : {"none", "pull", "add", "announce"}, wasNew : BOOLEAN]
      BY <2>4
    <3>2. rec'.at # "add" /\ rec'.agent \in Agents
      BY <2>4
    <3>3. QED BY <2>1, <3>1, <3>2 DEF OwnerInv, ReconcileInv, OneWallet
  <2>5. QED BY <2>2, <2>3, <2>4
<1>11. CASE ReconcilePull
  <2>1. /\ rec.at = "pull" /\ UNCHANGED <<pc, batch>>
        /\ \/ /\ owned' = [o \in Addrs |-> IF o = OwnerNow THEN owned[o] ELSE owned[o] \ {rec.agent}]
              /\ rec' = [rec EXCEPT !.at = "add"]
           \/ rec' = NoRec /\ UNCHANGED owned
    BY <1>11 DEF ReconcilePull, Failed
  <2>2. CASE rec' = NoRec /\ UNCHANGED owned
    BY <1>7, <2>2
  <2>3. CASE /\ owned' = [o \in Addrs |-> IF o = OwnerNow THEN owned[o] ELSE owned[o] \ {rec.agent}]
             /\ rec' = [rec EXCEPT !.at = "add"]
    <3>1. rec # NoRec /\ rec'.agent = rec.agent /\ OwnerNow' = OwnerNow
      BY <2>1, <2>3 DEF OwnerInv, ReconcileInv, NoRec, OwnerNow
    <3>2. ReconcileInv'
      BY <2>1, <2>3, <3>1 DEF OwnerInv, ReconcileInv
    <3>3. \A o \in Addrs : owned'[o] \subseteq owned[o]
      BY <2>3
    <3>4. OneWallet'
      BY <3>3 DEF OwnerInv, OneWallet
    <3>5. QED BY <3>2, <3>4 DEF OwnerInv
  <2>4. QED BY <2>1, <2>2, <2>3
<1>12. CASE ReconcileAdd
  <2>1. /\ rec.at = "add" /\ UNCHANGED <<pc, batch>>
        /\ \/ /\ owned' = [owned EXCEPT ![OwnerNow] = @ \cup {rec.agent}]
              /\ rec' = IF rec.wasNew THEN [rec EXCEPT !.at = "announce"] ELSE NoRec
           \/ rec' = NoRec /\ UNCHANGED owned
    BY <1>12 DEF ReconcileAdd, Failed
  <2>2. CASE rec' = NoRec /\ UNCHANGED owned
    BY <1>7, <2>2
  <2>3. CASE /\ owned' = [owned EXCEPT ![OwnerNow] = @ \cup {rec.agent}]
             /\ rec' = IF rec.wasNew THEN [rec EXCEPT !.at = "announce"] ELSE NoRec
    <3>1. rec.agent \in Agents /\ pc = "owner" /\ \A o \in Addrs : o # OwnerNow => rec.agent \notin owned[o]
      BY <2>1 DEF OwnerInv, ReconcileInv, NoRec
    <3>2. ReconcileInv'
      <4>1. rec' = NoRec \/ rec' = [rec EXCEPT !.at = "announce"]
        BY <2>3
      <4>2. rec' \in [agent : Agents \cup {NoAgent}, at : {"none", "pull", "add", "announce"}, wasNew : BOOLEAN]
        <5>1. NoRec \in [agent : Agents \cup {NoAgent}, at : {"none", "pull", "add", "announce"}, wasNew : BOOLEAN]
          BY DEF NoRec
        <5>2. [rec EXCEPT !.at = "announce"]
                \in [agent : Agents \cup {NoAgent}, at : {"none", "pull", "add", "announce"}, wasNew : BOOLEAN]
          BY DEF OwnerInv, ReconcileInv
        <5>3. QED BY <4>1, <5>1, <5>2
      <4>3. rec'.at # "add" /\ (rec' # NoRec => rec'.agent = rec.agent)
        BY <4>1 DEF OwnerInv, ReconcileInv, NoRec
      <4>4. owned' \in [Addrs -> SUBSET Agents]
        BY <2>3, <3>1 DEF OwnerInv, ReconcileInv
      <4>5. QED BY <2>1, <3>1, <4>2, <4>3, <4>4 DEF ReconcileInv
    <3>3. OneWallet'
      BY <2>3, <3>1 DEF OwnerInv, ReconcileInv, OneWallet
    <3>4. QED BY <3>2, <3>3 DEF OwnerInv
  <2>4. QED BY <2>1, <2>2, <2>3
<1>13. CASE Announce
  BY <1>7, <1>13 DEF Announce
<1>14. CASE Reconciled
  BY <1>14, OwnerQuiet DEF Reconciled
<1>15. QED BY <1>1, <1>3, <1>4, <1>5, <1>6, <1>8, <1>9, <1>10, <1>11, <1>12, <1>13, <1>14 DEF Next, PassStep

\* An agent is in the list of one wallet at most, between the writes of a
\* reconcile, after one of them failed and after a crash (ReconcileOwnership).
THEOREM OneWalletHolds == Spec => []OneWallet
<1>1. OwnerInv => OneWallet
  BY DEF OwnerInv
<1>2. QED BY <1>1, InitOwner, StepOwner, PTL DEF Spec

-------------------------------------------------------------------------------
(* AgentIdentity: what the stored documents say.                               *)

Flushing == {"history", "rows", "owner", "services", "save"}
Docs == [Agents -> Doc \cup {NoDoc}]
RowMarks == [Pos -> {"none", "self", "other"}]
Batches == [next : Nat, end : Nat, docs : Docs, dirty : SUBSET Agents, rows : RowMarks]

\* A batch lies behind the position of its pass; what it has not touched is as
\* it was prefetched.
BatchInv ==
    /\ decoded \in 0..Len(Log) /\ checkpoint \in 0..decoded /\ after \in 0..decoded
    /\ faults \in Nat /\ torn \in BOOLEAN
    /\ pc \in {"idle", "list", "process", "agents"} \cup Flushing
    /\ agents \in Docs /\ rows \in RowMarks
    /\ batch \in Batches /\ batch.next <= decoded /\ batch.end <= decoded
    /\ pc \in {"process", "agents"} \cup Flushing => after < batch.end
    /\ pc = "process" => after <= batch.next /\ batch.next < batch.end
    /\ pc = "agents" => batch.next = batch.end
    /\ pc \in {"process", "agents"} =>
         \A a \in Agents : /\ a \in batch.dirty => batch.docs[a] \in Doc
                           /\ a \notin batch.dirty => batch.docs[a] = agents[a]

\* Every agent has the owner of some prefix of the events from n on.
NotBehind(docs, n) == \A a \in Agents : \E p \in n..decoded : DocOf(docs, a).owner = OwnerAt(a, p)

\* While a pass runs from its own position, which a replay puts before the
\* checkpoint, the stored documents may fall behind the checkpoint but not
\* behind the pass.
OwnersInv ==
    ~torn =>
        /\ pc = "idle" => NotBehind(agents, checkpoint)
        /\ pc \in {"list", "process", "agents"} => NotBehind(agents, after)
        /\ pc \in {"process", "agents"} => NotBehind(batch.docs, batch.next)
        /\ pc \in Flushing => NotBehind(agents, batch.end)

\* The documents are those of the first n events; a wallet that was cleared may
\* still be stored.
UpTo(docs, n) == \A a \in Agents : /\ DocOf(docs, a).owner = OwnerAt(a, n)
                                   /\ WalletAt(a, n) \in {NoAddr, DocOf(docs, a).wallet}
RowsRight(rs) == \A i \in Pos : rs[i] = "other" =>
                    Log[i].addr \notin {OwnerAt(Log[i].agent, i), WalletAt(Log[i].agent, i)}

\* Without a failure no event is processed twice, and every batch starts from
\* documents of exactly the events before it.
RowsInv ==
    faults = 0 =>
        /\ after = checkpoint
        /\ pc \in {"idle", "list", "process", "agents"} => UpTo(agents, after)
        /\ pc \in {"process", "agents"} => UpTo(batch.docs, batch.next)
        /\ pc \in Flushing => UpTo(agents, batch.end)
        /\ RowsRight(rows) /\ RowsRight(batch.rows)

\* Feedback is given by somebody: a client of the contract has an address.
FromSomeone == \A i \in Pos : Log[i].kind = "feedback" => Log[i].addr \in Addrs

\* An event says who owns an agent, or leaves it to the events before.
IsOwnerEvent(e) == e.kind \in {"registered", "transfer"} /\ ~Dropped(e)

\* The events are numbered from 1 and well formed.
LEMMA EventFacts ==
    /\ Pos = 1..Len(Log) /\ Len(Log) \in Nat
    /\ \A i \in Pos : Log[i] \in [kind : EventKinds, agent : Agents, addr : Addrs \cup {NoAddr}]
<1> DEFINE E == [kind : EventKinds, agent : Agents, addr : Addrs \cup {NoAddr}]
<1>1. Log \in Seq(E)
  BY ParamsAssumption
<1> HIDE DEF E
<1>2. Len(Log) \in Nat /\ \A i \in 1..Len(Log) : Log[i] \in E
  BY <1>1
<1> QED BY <1>2 DEF Pos, E

\* The owner after one more event: its own, or the one before.
LEMMA OwnerNext ==
    ASSUME NEW a, NEW n \in Nat
    PROVE  OwnerAt(a, n + 1) = IF Log[n + 1].agent = a /\ IsOwnerEvent(Log[n + 1])
                               THEN Log[n + 1].addr ELSE OwnerAt(a, n)
<1> DEFINE Says(i) == Log[i].agent = a /\ Log[i].kind \in {"registered", "transfer"} /\ ~Dropped(Log[i])
           S == {i \in 1..n : Says(i)}
           T == {i \in 1..(n + 1) : Says(i)}
<1>1. OwnerAt(a, n) = IF S = {} THEN NoAddr ELSE Log[CHOOSE i \in S : \A j \in S : j <= i].addr
  BY DEF OwnerAt
<1>2. OwnerAt(a, n + 1) = IF T = {} THEN NoAddr ELSE Log[CHOOSE i \in T : \A j \in T : j <= i].addr
  BY DEF OwnerAt
<1>3. Says(n + 1) <=> Log[n + 1].agent = a /\ IsOwnerEvent(Log[n + 1])
  BY DEF IsOwnerEvent
<1>4. ASSUME ~Says(n + 1) PROVE S = T
  <2> HIDE DEF Says
  <2> QED BY <1>4
<1>5. ASSUME Says(n + 1) PROVE T # {} /\ n + 1 = CHOOSE i \in T : \A j \in T : j <= i
  <2> HIDE DEF Says
  <2>1. n + 1 \in T /\ (\A j \in T : j <= n + 1) /\ \A i \in T : i \in Nat
    BY <1>5
  <2>2. \A i \in T : (\A j \in T : j <= i) => i = n + 1
    BY <2>1
  <2> QED BY <2>1, <2>2
<1> HIDE DEF S, T, Says
<1> QED BY <1>1, <1>2, <1>3, <1>4, <1>5

\* The registered wallet after one more event, likewise.
LEMMA WalletNext ==
    ASSUME NEW a, NEW n \in Nat
    PROVE  WalletAt(a, n + 1) = IF Log[n + 1].agent = a /\ Log[n + 1].kind = "wallet"
                                THEN Log[n + 1].addr ELSE WalletAt(a, n)
<1> DEFINE Says(i) == Log[i].agent = a /\ Log[i].kind = "wallet"
           S == {i \in 1..n : Says(i)}
           T == {i \in 1..(n + 1) : Says(i)}
<1>1. WalletAt(a, n) = IF S = {} THEN NoAddr ELSE Log[CHOOSE i \in S : \A j \in S : j <= i].addr
  BY DEF WalletAt
<1>2. WalletAt(a, n + 1) = IF T = {} THEN NoAddr ELSE Log[CHOOSE i \in T : \A j \in T : j <= i].addr
  BY DEF WalletAt
<1>4. ASSUME ~Says(n + 1) PROVE S = T
  <2> HIDE DEF Says
  <2> QED BY <1>4
<1>5. ASSUME Says(n + 1) PROVE T # {} /\ n + 1 = CHOOSE i \in T : \A j \in T : j <= i
  <2> HIDE DEF Says
  <2>1. n + 1 \in T /\ (\A j \in T : j <= n + 1) /\ \A i \in T : i \in Nat
    BY <1>5
  <2>2. \A i \in T : (\A j \in T : j <= i) => i = n + 1
    BY <2>1
  <2> QED BY <2>1, <2>2
<1>6. Says(n + 1) <=> Log[n + 1].agent = a /\ Log[n + 1].kind = "wallet"
  OBVIOUS
<1> HIDE DEF S, T, Says
<1> QED BY <1>1, <1>2, <1>4, <1>5, <1>6

\* Before the first event nobody owns an agent.
LEMMA NobodyAtStart == \A a : OwnerAt(a, 0) = NoAddr /\ WalletAt(a, 0) = NoAddr
<1>1. 1..0 = {}
  OBVIOUS
<1> QED BY <1>1 DEF OwnerAt, WalletAt

\* A document that is there is not mistaken for none.
LEMMA DocFacts ==
    /\ \A d \in Doc : d # NoDoc
    /\ Stub \in Doc /\ Stub.owner = NoAddr /\ Stub.wallet = NoAddr
    /\ \A docs \in Docs, a \in Agents : DocOf(docs, a) \in Doc
<1>1. Stub \in Doc /\ Stub.owner = NoAddr /\ Stub.wallet = NoAddr
  BY DEF Stub, Doc
<1>2. \A docs \in Docs, a \in Agents : DocOf(docs, a) \in Doc
  BY <1>1 DEF DocOf, Docs
<1> QED BY <1>1, <1>2, NoDocAssumption

\* What one event makes of the batch.
LEMMA ProcessFacts ==
    ASSUME NEW b \in Batches, NEW i \in Pos
    PROVE  LET c == Process(b, i)
               e == Log[i]
               d == DocOf(b.docs, e.agent) IN
           /\ c \in Batches /\ c.next = i /\ c.end = b.end
           /\ \A a \in Agents : a \in c.dirty =>  a \in b.dirty \/ (a = e.agent /\ c.docs[a] \in Doc)
           /\ \A a \in Agents : a \notin c.dirty =>  a \notin b.dirty /\ c.docs[a] = b.docs[a]
           /\ \A a \in Agents : a # e.agent \/ Dropped(e) => c.docs[a] = b.docs[a]
           /\ ~Dropped(e) => DocOf(c.docs, e.agent).owner = Owned(d, e) /\ DocOf(c.docs, e.agent).wallet = WalletOf(d, e)
           /\ \A a \in Agents : a \in b.dirty /\ b.docs[a] \in Doc => c.docs[a] \in Doc
           /\ \A j \in Pos : c.rows[j] = "other" =>
                 b.rows[j] = "other" \/ (j = i /\ e.kind = "feedback" /\ ~IsSelf(d, e.addr))
<1> DEFINE c == Process(b, i)
           e == Log[i]
           d == DocOf(b.docs, e.agent)
           n == [owner |-> Owned(d, e), wallet |-> WalletOf(d, e)]
           marked == IF e.kind = "feedback"
                     THEN [b.rows EXCEPT ![i] = IF IsSelf(d, e.addr) THEN "self" ELSE "other"] ELSE b.rows
<1>1. e \in [kind : EventKinds, agent : Agents, addr : Addrs \cup {NoAddr}] /\ i \in Nat
  BY EventFacts
<1>2. d \in Doc
  BY <1>1, DocFacts DEF Batches
<1>3. n \in Doc /\ n.owner = Owned(d, e) /\ n.wallet = WalletOf(d, e)
  <2>1. Owned(d, e) \in Addrs \cup {NoAddr} /\ WalletOf(d, e) \in Addrs \cup {NoAddr}
    BY <1>1, <1>2 DEF Owned, WalletOf, Doc
  <2> QED BY <2>1 DEF Doc
<1>4. CASE Dropped(e)
  <2>1. c = [b EXCEPT !.next = i]
    BY <1>4 DEF Process
  <2>2. /\ c.next = i /\ c.end = b.end /\ c.docs = b.docs /\ c.dirty = b.dirty /\ c.rows = b.rows
        /\ c \in Batches
    BY <1>1, <2>1 DEF Batches
  <2> HIDE DEF c
  <2> QED BY <1>4, <2>2 DEF c
<1>5. CASE ~Dropped(e)
  <2>1. marked \in RowMarks
    <3>1. (IF IsSelf(d, e.addr) THEN "self" ELSE "other") \in {"none", "self", "other"}
      OBVIOUS
    <3> QED BY <3>1 DEF Batches, RowMarks
  <2>2. \A j \in Pos : marked[j] = "other" =>
          b.rows[j] = "other" \/ (j = i /\ e.kind = "feedback" /\ ~IsSelf(d, e.addr))
    BY DEF Batches, RowMarks
  <2>3. c = [b EXCEPT !.next = i, !.docs = [b.docs EXCEPT ![e.agent] = n], !.dirty = b.dirty \cup {e.agent}, !.rows = marked]
    BY <1>5 DEF Process
  <2> HIDE DEF n, marked, d, e
  <2>4. [b.docs EXCEPT ![e.agent] = n] \in Docs /\ b.dirty \cup {e.agent} \in SUBSET Agents
    BY <1>1, <1>3 DEF Batches, Docs
  <2>5. /\ c.next = i /\ c.end = b.end /\ c.docs = [b.docs EXCEPT ![e.agent] = n]
        /\ c.dirty = b.dirty \cup {e.agent} /\ c.rows = marked
    BY <2>3 DEF Batches
  <2>6. c \in Batches
    BY <1>1, <2>1, <2>3, <2>4 DEF Batches
  <2> HIDE DEF c
  <2>7. c.docs[e.agent] = n /\ \A a \in Agents : a # e.agent => c.docs[a] = b.docs[a]
    BY <1>1, <2>5 DEF Batches, Docs
  <2>8. DocOf(c.docs, e.agent) = n
    <3>1. n # NoDoc
      BY <1>3, DocFacts
    <3> QED BY <2>7, <3>1 DEF DocOf
  <2>9. ASSUME NEW a \in Agents PROVE c.docs[a] \in Doc \/ c.docs[a] = b.docs[a]
    <3>1. CASE a = e.agent
      BY <1>3, <2>7, <3>1
    <3>2. CASE a # e.agent
      BY <2>7, <3>2
    <3> QED BY <3>1, <3>2
  <2>10. /\ \A a \in Agents : a \in c.dirty =>  a \in b.dirty \/ (a = e.agent /\ c.docs[a] \in Doc)
         /\ \A a \in Agents : a \notin c.dirty =>  a \notin b.dirty /\ c.docs[a] = b.docs[a]
    BY <1>3, <2>5, <2>7
  <2>11. \A a \in Agents : a \in b.dirty /\ b.docs[a] \in Doc => c.docs[a] \in Doc
    BY <2>9
  <2> QED BY <1>3, <1>5, <2>2, <2>5, <2>6, <2>7, <2>8, <2>10, <2>11 DEF c, d, e
<1> QED BY <1>4, <1>5

\* A position is within the log, and the next one still is while events are processed.
LEMMA NextEvent ==
    ASSUME BatchInv, pc = "process"
    PROVE  /\ batch.next \in Nat /\ batch.next + 1 \in Pos
           /\ batch.next + 1 <= batch.end /\ batch.next + 1 <= decoded
BY EventFacts DEF BatchInv, Batches

\* Whose prefix reaches that far has one that reaches less far.
LEMMA FurtherIsNotBehind ==
    ASSUME NEW docs, NEW n \in Nat, NEW m \in Nat, m <= n, decoded \in Nat, NotBehind(docs, n)
    PROVE  NotBehind(docs, m)
<1>1. n..decoded \subseteq m..decoded
  OBVIOUS
<1>2. ASSUME NEW a \in Agents PROVE \E p \in m..decoded : DocOf(docs, a).owner = OwnerAt(a, p)
  <2>1. PICK p \in n..decoded : DocOf(docs, a).owner = OwnerAt(a, p)
    BY DEF NotBehind
  <2> QED BY <1>1, <2>1
<1> QED BY <1>2, Zenon DEF NotBehind

\* processEvent gives the agent the owner of the prefix with this event, and
\* leaves the other agents one that holds for it too.
LEMMA EventKeepsOwners ==
    ASSUME BatchInv, pc = "process", NotBehind(batch.docs, batch.next)
    PROVE  NotBehind(Process(batch, batch.next + 1).docs, batch.next + 1)
<1> DEFINE n == batch.next
           c == Process(batch, n + 1)
           e == Log[n + 1]
<1>1. n \in Nat /\ n + 1 \in Pos /\ n + 1 <= decoded /\ decoded \in Nat /\ batch \in Batches
  BY NextEvent DEF BatchInv
<1>2. \A a \in Agents : (a # e.agent \/ ~IsOwnerEvent(e)) => DocOf(c.docs, a).owner = DocOf(batch.docs, a).owner
  <2> SUFFICES ASSUME NEW a \in Agents, a # e.agent \/ ~IsOwnerEvent(e)
               PROVE  DocOf(c.docs, a).owner = DocOf(batch.docs, a).owner
    OBVIOUS
  <2>1. CASE a # e.agent \/ Dropped(e)
    BY <1>1, <2>1, ProcessFacts DEF DocOf
  <2>2. CASE a = e.agent /\ ~Dropped(e)
    BY <1>1, <2>2, ProcessFacts DEF Owned, IsOwnerEvent
  <2> QED BY <2>1, <2>2
<1>3. e.agent \in Agents /\ IsOwnerEvent(e) => DocOf(c.docs, e.agent).owner = e.addr
  BY <1>1, ProcessFacts DEF Owned, IsOwnerEvent
<1> HIDE DEF c
<1>4. ASSUME NEW a \in Agents PROVE \E p \in (n + 1)..decoded : DocOf(c.docs, a).owner = OwnerAt(a, p)
  <2>1. CASE a = e.agent /\ IsOwnerEvent(e)
    <3>1. DocOf(c.docs, a).owner = OwnerAt(a, n + 1)
      BY <1>1, <1>3, <2>1, OwnerNext
    <3> QED BY <1>1, <3>1
  <2>2. CASE a # e.agent \/ ~IsOwnerEvent(e)
    <3>1. PICK p \in n..decoded : DocOf(batch.docs, a).owner = OwnerAt(a, p)
      BY DEF NotBehind
    <3>2. OwnerAt(a, n + 1) = OwnerAt(a, n)
      BY <1>1, <2>2, OwnerNext
    <3>3. CASE p = n
      BY <1>1, <1>2, <2>2, <3>1, <3>2, <3>3
    <3>4. CASE p # n
      <4>1. p \in (n + 1)..decoded
        BY <1>1, <3>4
      <4> QED BY <1>2, <2>2, <3>1, <4>1
    <3> QED BY <3>3, <3>4
  <2> QED BY <2>1, <2>2
<1> QED BY <1>4, Zenon DEF NotBehind, c

\* The same without a failure: the documents are those of the events so far.
LEMMA EventKeepsDocs ==
    ASSUME BatchInv, pc = "process", UpTo(batch.docs, batch.next)
    PROVE  UpTo(Process(batch, batch.next + 1).docs, batch.next + 1)
<1> DEFINE n == batch.next
           c == Process(batch, n + 1)
           e == Log[n + 1]
           d == DocOf(batch.docs, e.agent)
<1>1. n \in Nat /\ n + 1 \in Pos /\ batch \in Batches
  BY NextEvent DEF BatchInv
<1>2. \A a \in Agents : a # e.agent \/ Dropped(e) => DocOf(c.docs, a) = DocOf(batch.docs, a)
  BY <1>1, ProcessFacts DEF DocOf
<1>3. ~Dropped(e) => DocOf(c.docs, e.agent).owner = Owned(d, e) /\ DocOf(c.docs, e.agent).wallet = WalletOf(d, e)
  BY <1>1, ProcessFacts
<1> HIDE DEF c
<1>4. ASSUME NEW a \in Agents
      PROVE  /\ DocOf(c.docs, a).owner = OwnerAt(a, n + 1)
             /\ WalletAt(a, n + 1) \in {NoAddr, DocOf(c.docs, a).wallet}
  <2>1. /\ DocOf(batch.docs, a).owner = OwnerAt(a, n)
        /\ WalletAt(a, n) \in {NoAddr, DocOf(batch.docs, a).wallet}
    BY DEF UpTo
  <2>2. CASE a # e.agent
    BY <1>1, <1>2, <2>1, <2>2, OwnerNext, WalletNext
  <2>3. CASE a = e.agent /\ Dropped(e)
    BY <1>1, <1>2, <2>1, <2>3, OwnerNext, WalletNext DEF IsOwnerEvent, Dropped
  <2>4. CASE a = e.agent /\ ~Dropped(e)
    <3>1. DocOf(c.docs, a).owner = OwnerAt(a, n + 1)
      BY <1>1, <1>3, <2>1, <2>4, OwnerNext DEF IsOwnerEvent, Owned
    <3>2. WalletAt(a, n + 1) \in {NoAddr, DocOf(c.docs, a).wallet}
      BY <1>1, <1>3, <2>1, <2>4, WalletNext DEF WalletOf
    <3> QED BY <3>1, <3>2
  <2> QED BY <2>2, <2>3, <2>4
<1> QED BY <1>4, Zenon DEF UpTo, c

\* handleNewFeedback compares the client with what the events so far say.
LEMMA EventKeepsRows ==
    ASSUME BatchInv, pc = "process", UpTo(batch.docs, batch.next), RowsRight(batch.rows), FromSomeone
    PROVE  RowsRight(Process(batch, batch.next + 1).rows)
<1> DEFINE n == batch.next
           c == Process(batch, n + 1)
           e == Log[n + 1]
           d == DocOf(batch.docs, e.agent)
<1>1. n \in Nat /\ n + 1 \in Pos /\ batch \in Batches /\ e.agent \in Agents
  BY NextEvent, EventFacts DEF BatchInv
<1>2. \A j \in Pos : c.rows[j] = "other" =>
          batch.rows[j] = "other" \/ (j = n + 1 /\ e.kind = "feedback" /\ ~IsSelf(d, e.addr))
  BY <1>1, ProcessFacts
<1>3. d.owner = OwnerAt(e.agent, n) /\ WalletAt(e.agent, n) \in {NoAddr, d.wallet}
  BY <1>1 DEF UpTo
<1>4. ASSUME e.kind = "feedback", ~IsSelf(d, e.addr)
      PROVE  e.addr \notin {OwnerAt(e.agent, n + 1), WalletAt(e.agent, n + 1)}
  <2>1. OwnerAt(e.agent, n + 1) = OwnerAt(e.agent, n) /\ WalletAt(e.agent, n + 1) = WalletAt(e.agent, n)
    BY <1>1, <1>4, OwnerNext, WalletNext DEF IsOwnerEvent
  <2>2. e.addr # NoAddr
    BY <1>1, <1>4, ParamsAssumption DEF FromSomeone
  <2> QED BY <1>3, <1>4, <2>1, <2>2 DEF IsSelf
<1> HIDE DEF c
<1> QED BY <1>1, <1>2, <1>4 DEF RowsRight, c

\* BulkUpsert keeps the owner of what it writes, and a wallet that was cleared.
LEMMA UpsertedFacts ==
    ASSUME BatchInv, pc = "agents", NEW S \in SUBSET batch.dirty
    PROVE  /\ Upserted(S) \in Docs
           /\ \A a \in Agents : a \notin S => DocOf(Upserted(S), a) = DocOf(agents, a)
           /\ \A a \in S : /\ DocOf(Upserted(S), a).owner = DocOf(batch.docs, a).owner
                           /\ DocOf(batch.docs, a).wallet \in {NoAddr, DocOf(Upserted(S), a).wallet}
           /\ \A a \in Agents \ batch.dirty : DocOf(batch.docs, a) = DocOf(agents, a)
<1>1. S \subseteq Agents /\ agents \in Docs /\ \A a \in S : batch.docs[a] \in Doc
  BY DEF BatchInv, Batches
<1>2. ASSUME NEW a \in S
      PROVE  /\ Stored(agents[a], batch.docs[a]) \in Doc
             /\ Stored(agents[a], batch.docs[a]).owner = batch.docs[a].owner
             /\ batch.docs[a].wallet \in {NoAddr, Stored(agents[a], batch.docs[a]).wallet}
  <2>1. batch.docs[a] \in Doc /\ (agents[a] \in Doc \/ agents[a] = NoDoc)
    BY <1>1 DEF Docs
  <2>2. CASE batch.docs[a].wallet = NoAddr /\ agents[a] # NoDoc
    <3>1. Stored(agents[a], batch.docs[a]) = [batch.docs[a] EXCEPT !.wallet = agents[a].wallet]
      BY <2>2 DEF Stored
    <3>2. agents[a].wallet \in Addrs \cup {NoAddr}
      BY <2>1, <2>2 DEF Doc
    <3> QED BY <2>1, <2>2, <3>1, <3>2 DEF Doc
  <2>3. CASE ~(batch.docs[a].wallet = NoAddr /\ agents[a] # NoDoc)
    BY <2>1, <2>3 DEF Stored
  <2> QED BY <2>2, <2>3
<1>3. /\ Upserted(S) \in Docs
      /\ \A a \in Agents : Upserted(S)[a] = IF a \in S THEN Stored(agents[a], batch.docs[a]) ELSE agents[a]
  BY <1>1, <1>2 DEF Upserted, Docs
<1>4. \A a \in S : DocOf(batch.docs, a) = batch.docs[a] /\ DocOf(Upserted(S), a) = Stored(agents[a], batch.docs[a])
  <2>1. \A a \in S : batch.docs[a] # NoDoc /\ Stored(agents[a], batch.docs[a]) # NoDoc
    BY <1>1, <1>2, DocFacts
  <2>2. ASSUME NEW a \in S PROVE Upserted(S)[a] = Stored(agents[a], batch.docs[a])
    BY <1>1, <1>3
  <2> QED BY <2>1, <2>2, Zenon DEF DocOf
<1>5. \A a \in Agents : a \notin S => DocOf(Upserted(S), a) = DocOf(agents, a)
  BY <1>3 DEF DocOf
<1>6. \A a \in Agents \ batch.dirty : DocOf(batch.docs, a) = DocOf(agents, a)
  <2>1. ASSUME NEW a \in Agents \ batch.dirty PROVE batch.docs[a] = agents[a]
    BY DEF BatchInv
  <2> QED BY <2>1, Zenon DEF DocOf
<1> QED BY <1>2, <1>3, <1>4, <1>5, <1>6

\* What was flushed reaches as far as the batch; what a failed flush has written
\* is not behind the pass.
LEMMA FlushedOwners ==
    ASSUME BatchInv, pc = "agents", NotBehind(batch.docs, batch.next), NotBehind(agents, after),
           NEW S \in SUBSET batch.dirty
    PROVE  /\ NotBehind(Upserted(batch.dirty), batch.end)
           /\ NotBehind(Upserted(S), after)
<1>1. batch.next = batch.end /\ after < batch.end /\ batch.end \in Nat /\ after \in Nat /\ decoded \in Nat
  BY DEF BatchInv, Batches
<1>2. S \subseteq Agents /\ batch.dirty \subseteq Agents
  BY DEF BatchInv, Batches
<1>3. NotBehind(Upserted(batch.dirty), batch.end)
  <2>1. ASSUME NEW a \in Agents PROVE DocOf(Upserted(batch.dirty), a).owner = DocOf(batch.docs, a).owner
    BY UpsertedFacts
  <2>2. ASSUME NEW a \in Agents
        PROVE  \E p \in batch.end..decoded : DocOf(Upserted(batch.dirty), a).owner = OwnerAt(a, p)
    <3>1. PICK p \in batch.end..decoded : DocOf(batch.docs, a).owner = OwnerAt(a, p)
      BY <1>1 DEF NotBehind
    <3> QED BY <2>1, <3>1
  <2> QED BY <2>2, Zenon DEF NotBehind
<1>4. NotBehind(batch.docs, after)
  BY <1>1, FurtherIsNotBehind
<1>5. NotBehind(Upserted(S), after)
  <2>1. ASSUME NEW a \in Agents
        PROVE  \E p \in after..decoded : DocOf(Upserted(S), a).owner = OwnerAt(a, p)
    <3>1. CASE a \in S
      <4>1. PICK p \in after..decoded : DocOf(batch.docs, a).owner = OwnerAt(a, p)
        BY <1>4 DEF NotBehind
      <4>2. DocOf(Upserted(S), a).owner = DocOf(batch.docs, a).owner
        BY <3>1, UpsertedFacts
      <4> QED BY <4>1, <4>2
    <3>2. CASE a \notin S
      <4>1. PICK p \in after..decoded : DocOf(agents, a).owner = OwnerAt(a, p)
        BY DEF NotBehind
      <4>2. DocOf(Upserted(S), a) = DocOf(agents, a)
        BY <3>2, UpsertedFacts
      <4> QED BY <4>1, <4>2
    <3> QED BY <3>1, <3>2
  <2> QED BY <2>1, Zenon DEF NotBehind
<1> QED BY <1>3, <1>5

\* Once the whole batch is written the stored documents are those after its last
\* event.
LEMMA FlushedDocs ==
    ASSUME BatchInv, pc = "agents", UpTo(batch.docs, batch.next)
    PROVE  UpTo(Upserted(batch.dirty), batch.end)
<1>1. batch.next = batch.end /\ batch.dirty \subseteq Agents
  BY DEF BatchInv, Batches
<1>2. ASSUME NEW a \in Agents
      PROVE  /\ DocOf(Upserted(batch.dirty), a).owner = OwnerAt(a, batch.end)
             /\ WalletAt(a, batch.end) \in {NoAddr, DocOf(Upserted(batch.dirty), a).wallet}
  <2>1. /\ DocOf(batch.docs, a).owner = OwnerAt(a, batch.end)
        /\ WalletAt(a, batch.end) \in {NoAddr, DocOf(batch.docs, a).wallet}
    BY <1>1 DEF UpTo
  <2>2. CASE a \in batch.dirty
    <3>1. /\ DocOf(Upserted(batch.dirty), a).owner = DocOf(batch.docs, a).owner
          /\ DocOf(batch.docs, a).wallet \in {NoAddr, DocOf(Upserted(batch.dirty), a).wallet}
      BY <2>2, UpsertedFacts
    <3> QED BY <2>1, <3>1
  <2>3. CASE a \notin batch.dirty
    <3>1. DocOf(Upserted(batch.dirty), a) = DocOf(batch.docs, a)
      BY <2>3, UpsertedFacts
    <3> QED BY <2>1, <3>1
  <2> QED BY <2>2, <2>3
<1> QED BY <1>2, Zenon DEF UpTo

\* The steps of a flush behind the agents: they write what no argument here is
\* about, but for the feedback rows, and take agents off the list to reconcile.
FlushStep ==
    /\ pc \in Flushing /\ pc' \in Flushing
    /\ batch' = [batch EXCEPT !.dirty = batch'.dirty] /\ batch'.dirty \subseteq batch.dirty
    /\ UNCHANGED <<decoded, checkpoint, agents, after, torn>>
    /\ faults' = faults \/ faults' = faults + 1
    /\ rows' = rows \/ rows' = [i \in Pos |-> IF batch.rows[i] = "none" THEN rows[i] ELSE batch.rows[i]]

\* A pass that ends early, in the middle of the bulk write or anywhere else.
StopStep ==
    /\ pc # "idle" /\ pc' = "idle" /\ batch' = EmptyBatch
    /\ faults' = faults + 1 /\ torn' = (torn \/ after < checkpoint)
    /\ agents' = agents \/ (pc = "agents" /\ \E S \in SUBSET batch.dirty : agents' = Upserted(S))
    /\ UNCHANGED <<decoded, checkpoint, after, rows>>

FlushedAgents == /\ pc = "agents" /\ pc' = "history" /\ agents' = Upserted(batch.dirty)
                 /\ UNCHANGED <<decoded, checkpoint, after, batch, rows, faults, torn>>

\* The steps of the driver, sorted by what they do to the documents.
LEMMA StepKinds ==
    ASSUME OwnerInv, BatchInv, [Next]_vars
    PROVE  \/ UNCHANGED <<decoded, checkpoint, agents, after, torn, faults, rows, batch, pc>>
           \/ Decode \/ Start \/ List \/ ProcessEvent \/ FlushedAgents \/ Save
           \/ FlushStep \/ StopStep
<1> USE DEF stores, notes
<1>1. batch = [batch EXCEPT !.dirty = batch.dirty]
  BY DEF BatchInv, Batches
<1>2. ASSUME pc \in Flushing, pc' \in Flushing, UNCHANGED <<batch, decoded, checkpoint, agents, rows, after, torn>>,
             faults' = faults \/ faults' = faults + 1
      PROVE  FlushStep
  BY <1>1, <1>2 DEF FlushStep
<1>3. rec.at # "none" => pc = "owner"
  BY DEF OwnerInv, ReconcileInv, NoRec
<1>4. CASE UNCHANGED vars
  BY <1>4 DEF vars
<1>5. CASE FlushAgents
  BY <1>5 DEF FlushAgents, Forget, Behind, Fault, FlushedAgents, StopStep
<1>6. CASE FlushHistory
  <2>1. pc \in Flushing /\ pc' \in Flushing
    BY <1>6 DEF FlushHistory, Flushing
  <2> QED BY <1>2, <1>6, <2>1 DEF FlushHistory
<1>7. CASE FlushRows
  <2>1. pc \in Flushing /\ pc' \in Flushing
    BY <1>7 DEF FlushRows, Flushing
  <2> QED BY <1>1, <1>7, <2>1 DEF FlushRows, FlushStep
<1>8. ASSUME NEW a \in Agents, ReconcileUpsert(a) PROVE FlushStep
  <2>1. pc \in Flushing /\ pc' \in Flushing
    BY <1>8 DEF ReconcileUpsert, Flushing
  <2>2. batch' = [batch EXCEPT !.dirty = batch.dirty \ {a}]
    BY <1>8 DEF ReconcileUpsert
  <2>3. batch'.dirty = batch.dirty \ {a}
    BY <2>2 DEF BatchInv, Batches
  <2>4. faults' = faults \/ faults' = faults + 1
    BY <1>8 DEF ReconcileUpsert, Fault
  <2> QED BY <1>8, <2>1, <2>2, <2>3, <2>4 DEF ReconcileUpsert, FlushStep
<1>9. CASE ReconcilePull \/ ReconcileAdd \/ Announce
  <2>1. pc \in Flushing /\ pc' \in Flushing
    BY <1>3, <1>9 DEF ReconcilePull, ReconcileAdd, Announce, Flushing
  <2>2. faults' = faults \/ faults' = faults + 1
    BY <1>9 DEF ReconcilePull, ReconcileAdd, Announce, Failed, Fault
  <2>3. UNCHANGED <<batch, decoded, checkpoint, agents, rows, after, torn>>
    BY <1>9 DEF ReconcilePull, ReconcileAdd, Announce
  <2> QED BY <1>2, <2>1, <2>2, <2>3
<1>10. CASE Reconciled \/ PublishServices
  <2>1. pc \in Flushing /\ pc' \in Flushing
    BY <1>10 DEF Reconciled, PublishServices, Flushing
  <2>2. faults' = faults \/ faults' = faults + 1
    BY <1>10 DEF Reconciled, PublishServices, Fault
  <2>3. UNCHANGED <<batch, decoded, checkpoint, agents, rows, after, torn>>
    BY <1>10 DEF Reconciled, PublishServices
  <2> QED BY <1>2, <2>1, <2>2, <2>3
<1>11. CASE Abort
  BY <1>11 DEF Abort, Forget, Behind, Fault, StopStep
<1> QED BY <1>4, <1>5, <1>6, <1>7, <1>8, <1>9, <1>10, <1>11 DEF Next, PassStep

\* The batch before it is prefetched.
LEMMA EmptyBatchType == EmptyBatch \in Batches /\ EmptyBatch.next = 0 /\ EmptyBatch.end = 0 /\ EmptyBatch.rows = NoRows
                        /\ EmptyBatch.dirty = {} /\ NoRows \in RowMarks /\ \A i \in Pos : NoRows[i] = "none"
BY DEF EmptyBatch, Batches, Docs, RowMarks, NoRows

\* No batch is under way.
LEMMA InitBatch == Init => BatchInv
<1> SUFFICES ASSUME Init PROVE BatchInv
  OBVIOUS
<1>1. agents \in Docs /\ rows \in RowMarks /\ batch \in Batches
  BY EmptyBatchType DEF Init, Docs
<1>2. decoded \in 0..Len(Log) /\ checkpoint \in 0..decoded /\ after \in 0..decoded
  BY EventFacts DEF Init
<1>3. batch.next <= decoded /\ batch.end <= decoded
  BY EmptyBatchType DEF Init
<1>4. pc = "idle" /\ faults \in Nat /\ torn \in BOOLEAN
  BY DEF Init
<1> QED BY <1>1, <1>2, <1>3, <1>4 DEF BatchInv, Flushing

\* prefetch: the batch of a pass starts behind it, with the stored documents.
LEMMA Prefetched ==
    ASSUME BatchInv, List, after < decoded
    PROVE  /\ pc = "list" /\ pc' = "process" /\ batch' \in Batches
           /\ batch'.next = after /\ batch'.docs = agents /\ batch'.dirty = {} /\ batch'.rows = NoRows
           /\ after < batch'.end /\ batch'.end <= decoded
           /\ UNCHANGED <<decoded, checkpoint, agents, rows, after, faults, torn>>
<1> DEFINE end == IF decoded - after < BatchSize THEN decoded ELSE after + BatchSize
<1>1. end \in Nat /\ after < end /\ end <= decoded
  BY ParamsAssumption DEF BatchInv
<1>2. pc = "list" /\ pc' = "process" /\ batch' = [EmptyBatch EXCEPT !.next = after, !.end = end, !.docs = agents]
  BY DEF List, BatchInv
<1> HIDE DEF end
<1>3. UNCHANGED <<decoded, checkpoint, agents, rows, after, faults, torn>>
  BY DEF List, stores, notes
<1>4. /\ batch'.next = after /\ batch'.end = end /\ batch'.docs = agents /\ batch'.rows = NoRows
      /\ batch'.dirty = {} /\ batch' \in Batches
  <2>1. agents \in Docs /\ after \in Nat
    BY DEF BatchInv
  <2> QED BY <1>1, <1>2, <2>1, EmptyBatchType DEF Batches
<1> QED BY <1>1, <1>2, <1>3, <1>4

\* Every step keeps BatchInv.
LEMMA StepBatch ==
    ASSUME OwnerInv, BatchInv, [Next]_vars
    PROVE  BatchInv'
<1> USE DEF stores, notes
<1>0. /\ decoded \in Nat /\ Len(Log) \in Nat /\ decoded <= Len(Log) /\ checkpoint \in Nat /\ after \in Nat /\ faults \in Nat
      /\ checkpoint <= decoded /\ after <= decoded
      /\ batch \in Batches /\ batch.next \in Nat /\ batch.end \in Nat /\ batch.next <= decoded /\ batch.end <= decoded
  BY EventFacts DEF BatchInv, Batches
<1>1. CASE UNCHANGED <<decoded, checkpoint, agents, after, torn, faults, rows, batch, pc>>
  BY <1>1 DEF BatchInv
<1>2. CASE Decode
  <2>1. decoded' = decoded + 1 /\ decoded' \in 0..Len(Log)
    BY <1>0, <1>2 DEF Decode
  <2>2. checkpoint \in 0..decoded' /\ after \in 0..decoded' /\ batch.next <= decoded' /\ batch.end <= decoded'
    BY <1>0, <2>1
  <2> QED BY <1>2, <2>1, <2>2 DEF Decode, BatchInv
<1>3. CASE Start
  <2>1. pc = "idle" /\ pc' = "list" /\ after' \in 0..decoded /\ faults' \in Nat
    BY <1>0, <1>3 DEF Start, Fault
  <2> QED BY <1>3, <2>1 DEF Start, BatchInv, Flushing
<1>4. CASE List
  <2>1. CASE after < decoded
    BY <1>0, <2>1, <1>4, Prefetched DEF BatchInv, Flushing
  <2>2. CASE ~(after < decoded)
    BY <1>0, <2>2, <1>4 DEF List, BatchInv, Flushing
  <2> QED BY <2>1, <2>2
<1>5. CASE ProcessEvent
  <2>1. /\ pc = "process" /\ batch' = Process(batch, batch.next + 1)
        /\ pc' = IF batch.next + 1 = batch.end THEN "agents" ELSE "process"
        /\ UNCHANGED <<decoded, checkpoint, agents, after, torn, faults, rows>>
    BY <1>5 DEF ProcessEvent
  <2>2. batch.next + 1 \in Pos /\ batch.next + 1 <= batch.end /\ after <= batch.next /\ after < batch.end
    BY <2>1, NextEvent DEF BatchInv
  <2>3. /\ batch' \in Batches /\ batch'.next = batch.next + 1 /\ batch'.end = batch.end
    BY <1>0, <2>1, <2>2, ProcessFacts
  <2>4. ASSUME NEW a \in Agents
        PROVE  /\ a \in batch'.dirty => batch'.docs[a] \in Doc
               /\ a \notin batch'.dirty => batch'.docs[a] = agents[a]
    <3>1. /\ a \in batch.dirty => batch.docs[a] \in Doc
          /\ a \notin batch.dirty => batch.docs[a] = agents[a]
      BY <2>1 DEF BatchInv
    <3> QED BY <1>0, <2>1, <2>2, <3>1, ProcessFacts
  <2>5. pc' \in {"process", "agents"}
    BY <2>1
  <2>6. pc' = "process" => after <= batch'.next /\ batch'.next < batch'.end
    BY <1>0, <2>1, <2>2, <2>3
  <2>7. pc' = "agents" => batch'.next = batch'.end
    BY <2>1, <2>3
  <2>8. batch'.next <= decoded /\ batch'.end <= decoded /\ after < batch'.end
    BY <1>0, <2>2, <2>3
  <2> QED BY <2>1, <2>3, <2>4, <2>5, <2>6, <2>7, <2>8 DEF BatchInv, Flushing
<1>6. CASE FlushedAgents
  <2>1. batch.dirty \in SUBSET batch.dirty /\ pc = "agents"
    BY <1>6 DEF FlushedAgents
  <2>2. Upserted(batch.dirty) \in Docs
    BY <2>1, UpsertedFacts
  <2> QED BY <1>6, <2>1, <2>2 DEF FlushedAgents, BatchInv, Flushing
<1>7. CASE Save
  <2>1. /\ pc = "save" /\ pc' = "list" /\ after' = batch.end /\ batch' = EmptyBatch
        /\ checkpoint' = batch.end \/ checkpoint' = checkpoint
        /\ faults' = faults \/ faults' = faults + 1
        /\ UNCHANGED <<decoded, agents, rows, torn>>
    BY <1>7 DEF Save, Fault
  <2>2. checkpoint' \in 0..decoded /\ after' \in 0..decoded /\ faults' \in Nat
    BY <1>0, <2>1
  <2>3. batch' \in Batches /\ batch'.next <= decoded /\ batch'.end <= decoded
    BY <1>0, <2>1, EmptyBatchType
  <2> QED BY <2>1, <2>2, <2>3 DEF BatchInv, Flushing
<1>8. CASE FlushStep
  <2>1. batch' \in Batches /\ batch'.next = batch.next /\ batch'.end = batch.end
    BY <1>0, <1>8 DEF FlushStep, Batches
  <2>2. rows' \in RowMarks
    <3>1. rows \in RowMarks /\ batch.rows \in RowMarks
      BY <1>0 DEF BatchInv, Batches
    <3> QED BY <1>8, <3>1 DEF FlushStep, RowMarks
  <2>3. faults' \in Nat
    BY <1>0, <1>8 DEF FlushStep
  <2>4. /\ pc \in Flushing /\ pc' \in Flushing
        /\ UNCHANGED <<decoded, checkpoint, agents, after, torn>>
    BY <1>8 DEF FlushStep
  <2> QED BY <2>1, <2>2, <2>3, <2>4 DEF BatchInv, Flushing
<1>9. CASE StopStep
  <2>1. agents' \in Docs
    BY <1>9, UpsertedFacts DEF StopStep, BatchInv
  <2>2. batch' \in Batches /\ batch'.next <= decoded /\ batch'.end <= decoded
    BY <1>0, <1>9, EmptyBatchType DEF StopStep
  <2>3. torn' \in BOOLEAN /\ faults' \in Nat
    BY <1>0, <1>9 DEF StopStep
  <2>4. pc' = "idle" /\ UNCHANGED <<decoded, checkpoint, after, rows>>
    BY <1>9 DEF StopStep
  <2> QED BY <2>1, <2>2, <2>3, <2>4 DEF BatchInv, Flushing
<1> QED BY <1>1, <1>2, <1>3, <1>4, <1>5, <1>6, <1>7, <1>8, <1>9, StepKinds

\* No agent is stored and no event is passed.
LEMMA InitOwners == Init => OwnersInv
<1> SUFFICES ASSUME Init PROVE NotBehind(agents, checkpoint)
  BY DEF Init, OwnersInv, Flushing
<1>1. ASSUME NEW a \in Agents PROVE \E p \in checkpoint..decoded : DocOf(agents, a).owner = OwnerAt(a, p)
  <2>1. DocOf(agents, a).owner = OwnerAt(a, 0)
    BY NobodyAtStart, DocFacts DEF Init, DocOf
  <2>2. 0 \in checkpoint..decoded
    BY DEF Init
  <2> QED BY <2>1, <2>2
<1> QED BY <1>1, Zenon DEF NotBehind

\* What holds of all events listed so far holds of them when one more is listed.
LEMMA MoreDecoded ==
    ASSUME NEW docs, NEW n \in Nat, decoded \in Nat, decoded' \in Nat, decoded <= decoded', NotBehind(docs, n)
    PROVE  \A a \in Agents : \E p \in n..decoded' : DocOf(docs, a).owner = OwnerAt(a, p)
<1>1. n..decoded \subseteq n..decoded'
  OBVIOUS
<1> SUFFICES ASSUME NEW a \in Agents PROVE \E p \in n..decoded' : DocOf(docs, a).owner = OwnerAt(a, p)
  OBVIOUS
<1>2. PICK p \in n..decoded : DocOf(docs, a).owner = OwnerAt(a, p)
  BY DEF NotBehind
<1> QED BY <1>1, <1>2

\* Every step keeps OwnersInv.
LEMMA StepOwners ==
    ASSUME OwnerInv, BatchInv, OwnersInv, [Next]_vars
    PROVE  OwnersInv'
<1> USE DEF stores, notes
<1> SUFFICES ASSUME ~torn' PROVE
        /\ pc' = "idle" => NotBehind(agents, checkpoint)'
        /\ pc' \in {"list", "process", "agents"} => NotBehind(agents, after)'
        /\ pc' \in {"process", "agents"} => NotBehind(batch.docs, batch.next)'
        /\ pc' \in Flushing => NotBehind(agents, batch.end)'
  BY DEF OwnersInv
<1>0. /\ decoded \in Nat /\ checkpoint \in Nat /\ after \in Nat /\ checkpoint <= decoded /\ after <= decoded
      /\ batch \in Batches /\ batch.next \in Nat /\ batch.end \in Nat /\ torn \in BOOLEAN
  BY EventFacts DEF BatchInv, Batches
<1>1. CASE UNCHANGED <<decoded, checkpoint, agents, after, torn, faults, rows, batch, pc>>
  BY <1>1 DEF OwnersInv, NotBehind
<1>2. CASE Decode
  <2>1. decoded' = decoded + 1 /\ decoded' \in Nat /\ decoded <= decoded' /\ UNCHANGED <<checkpoint, agents, after, batch, pc, torn>>
    BY <1>0, <1>2 DEF Decode
  <2>2. NotBehind(agents, checkpoint) => NotBehind(agents, checkpoint)'
    BY <1>0, <2>1, MoreDecoded DEF NotBehind
  <2>3. NotBehind(agents, after) => NotBehind(agents, after)'
    BY <1>0, <2>1, MoreDecoded DEF NotBehind
  <2>4. NotBehind(batch.docs, batch.next) => NotBehind(batch.docs, batch.next)'
    BY <1>0, <2>1, MoreDecoded DEF NotBehind
  <2>5. NotBehind(agents, batch.end) => NotBehind(agents, batch.end)'
    BY <1>0, <2>1, MoreDecoded DEF NotBehind
  <2> QED BY <2>1, <2>2, <2>3, <2>4, <2>5 DEF OwnersInv
<1>3. CASE Start
  <2>1. /\ pc = "idle" /\ pc' = "list" /\ UNCHANGED <<decoded, agents, torn>>
        /\ after' \in Nat /\ after' <= checkpoint
    BY <1>0, <1>3 DEF Start
  <2>2. NotBehind(agents, checkpoint)
    BY <2>1 DEF OwnersInv
  <2>3. NotBehind(agents, after')
    BY <1>0, <2>1, <2>2, FurtherIsNotBehind
  <2> QED BY <2>1, <2>3 DEF NotBehind, Flushing
<1>4. CASE List
  <2>1. pc = "list" /\ UNCHANGED <<decoded, checkpoint, agents, after, torn>>
    BY <1>4 DEF List
  <2>2. NotBehind(agents, after)
    BY <2>1 DEF OwnersInv
  <2>3. CASE after < decoded
    BY <1>4, <2>1, <2>2, <2>3, Prefetched DEF NotBehind, Flushing
  <2>4. CASE ~(after < decoded)
    <3>1. pc' = "idle" /\ after = decoded
      BY <1>0, <1>4, <2>4 DEF List
    <3>2. NotBehind(agents, checkpoint)
      BY <1>0, <2>2, <3>1, FurtherIsNotBehind
    <3> QED BY <2>1, <3>1, <3>2 DEF NotBehind, Flushing
  <2> QED BY <2>3, <2>4
<1>5. CASE ProcessEvent
  <2>1. /\ pc = "process" /\ batch' = Process(batch, batch.next + 1)
        /\ pc' \in {"process", "agents"}
        /\ UNCHANGED <<decoded, checkpoint, agents, after, torn>>
    BY <1>5 DEF ProcessEvent
  <2>2. NotBehind(agents, after) /\ NotBehind(Process(batch, batch.next + 1).docs, batch.next + 1)
    BY <2>1, EventKeepsOwners DEF OwnersInv
  <2>3. batch'.next = batch.next + 1
    BY <1>0, <2>1, NextEvent, ProcessFacts
  <2> QED BY <2>1, <2>2, <2>3 DEF NotBehind, Flushing
<1>6. CASE FlushedAgents
  <2>1. /\ pc = "agents" /\ pc' = "history" /\ agents' = Upserted(batch.dirty)
        /\ UNCHANGED <<decoded, batch, torn>>
    BY <1>6 DEF FlushedAgents
  <2>2. NotBehind(agents, after) /\ NotBehind(batch.docs, batch.next)
    BY <2>1 DEF OwnersInv
  <2>3. NotBehind(Upserted(batch.dirty), batch.end)
    BY <2>1, <2>2, FlushedOwners
  <2> QED BY <2>1, <2>3 DEF NotBehind, Flushing
<1>7. CASE Save
  <2>1. /\ pc = "save" /\ pc' = "list" /\ after' = batch.end /\ UNCHANGED <<decoded, agents, torn>>
    BY <1>7 DEF Save
  <2>2. NotBehind(agents, batch.end)
    BY <2>1 DEF OwnersInv, Flushing
  <2> QED BY <2>1, <2>2 DEF NotBehind, Flushing
<1>8. CASE FlushStep
  <2>1. /\ pc \in Flushing /\ pc' \in Flushing /\ UNCHANGED <<decoded, agents, torn>> /\ batch'.end = batch.end
    BY <1>0, <1>8 DEF FlushStep, Batches
  <2>2. NotBehind(agents, batch.end)
    BY <2>1 DEF OwnersInv
  <2> QED BY <2>1, <2>2 DEF NotBehind, Flushing
<1>9. CASE StopStep
  <2>1. /\ pc # "idle" /\ pc' = "idle" /\ ~torn /\ checkpoint <= after /\ UNCHANGED <<decoded, checkpoint>>
    <3>1. torn' = (torn \/ after < checkpoint)
      BY <1>9 DEF StopStep
    <3>2. ~torn /\ ~(after < checkpoint)
      BY <3>1, Zenon
    <3> QED BY <1>0, <1>9, <3>2 DEF StopStep
  <2>2. ASSUME NotBehind(agents', after) PROVE NotBehind(agents', checkpoint)
    BY <1>0, <2>1, <2>2, FurtherIsNotBehind
  <2>3. NotBehind(agents', after)
    <3>1. CASE agents' = agents /\ pc \notin Flushing
      BY <2>1, <3>1 DEF OwnersInv, BatchInv
    <3>2. CASE agents' = agents /\ pc \in Flushing
      <4>1. NotBehind(agents, batch.end) /\ after <= batch.end
        BY <1>0, <2>1, <3>2 DEF OwnersInv, BatchInv
      <4>2. NotBehind(agents, after)
        BY <1>0, <4>1, FurtherIsNotBehind
      <4> QED BY <3>2, <4>2
    <3>3. CASE pc = "agents" /\ \E S \in SUBSET batch.dirty : agents' = Upserted(S)
      <4>1. NotBehind(agents, after) /\ NotBehind(batch.docs, batch.next)
        BY <2>1, <3>3 DEF OwnersInv
      <4> QED BY <3>3, <4>1, FlushedOwners
    <3> QED BY <1>9, <3>1, <3>2, <3>3 DEF StopStep
  <2>4. NotBehind(agents', checkpoint)
    BY <2>2, <2>3
  <2> QED BY <2>1, <2>4 DEF NotBehind, Flushing
<1> QED BY <1>1, <1>2, <1>3, <1>4, <1>5, <1>6, <1>7, <1>8, <1>9, StepKinds

\* No row is stored.
LEMMA InitRows == Init => RowsInv
<1> SUFFICES ASSUME Init PROVE UpTo(agents, after) /\ RowsRight(rows) /\ RowsRight(batch.rows) /\ after = checkpoint
  BY DEF Init, RowsInv, Flushing
<1>1. ASSUME NEW a \in Agents
      PROVE  DocOf(agents, a).owner = OwnerAt(a, after) /\ WalletAt(a, after) \in {NoAddr, DocOf(agents, a).wallet}
  BY NobodyAtStart, DocFacts DEF Init, DocOf
<1>2. UpTo(agents, after)
  BY <1>1, Zenon DEF UpTo
<1>3. RowsRight(NoRows)
  BY EmptyBatchType DEF RowsRight
<1> QED BY <1>2, <1>3, EmptyBatchType DEF Init

\* Every step keeps RowsInv.
LEMMA StepRows ==
    ASSUME OwnerInv, BatchInv, RowsInv, FromSomeone, [Next]_vars
    PROVE  RowsInv'
<1> USE DEF stores, notes
<1> SUFFICES ASSUME faults' = 0 PROVE
        /\ (after = checkpoint)'
        /\ pc' \in {"idle", "list", "process", "agents"} => UpTo(agents, after)'
        /\ pc' \in {"process", "agents"} => UpTo(batch.docs, batch.next)'
        /\ pc' \in Flushing => UpTo(agents, batch.end)'
        /\ RowsRight(rows)' /\ RowsRight(batch.rows)'
  BY DEF RowsInv
<1>0. /\ decoded \in Nat /\ checkpoint \in Nat /\ after \in Nat /\ checkpoint <= decoded /\ after <= decoded
      /\ batch \in Batches /\ batch.next \in Nat /\ batch.end \in Nat /\ faults \in Nat
      /\ pc \in {"idle", "list", "process", "agents"} \cup Flushing
  BY EventFacts DEF BatchInv, Batches
<1>1. CASE UNCHANGED <<decoded, checkpoint, agents, after, torn, faults, rows, batch, pc>>
  BY <1>1 DEF RowsInv, UpTo, RowsRight
<1>2. CASE Decode
  <2>1. UNCHANGED <<checkpoint, agents, after, batch, rows, pc, faults>>
    BY <1>2 DEF Decode
  <2> QED BY <2>1 DEF RowsInv, UpTo, RowsRight
<1>3. CASE Start
  <2>1. /\ pc = "idle" /\ pc' = "list" /\ UNCHANGED <<checkpoint, agents, batch, rows, faults>> /\ after' = checkpoint
    BY <1>0, <1>3 DEF Start, Fault
  <2>2. UpTo(agents, after) /\ after = checkpoint /\ RowsRight(rows) /\ RowsRight(batch.rows)
    BY <2>1 DEF RowsInv
  <2> QED BY <2>1, <2>2 DEF UpTo, RowsRight, Flushing
<1>4. CASE List
  <2>1. pc = "list" /\ UNCHANGED <<checkpoint, agents, after, rows, faults>>
    BY <1>4 DEF List
  <2>2. UpTo(agents, after) /\ after = checkpoint /\ RowsRight(rows) /\ RowsRight(batch.rows)
    BY <2>1 DEF RowsInv
  <2>3. RowsRight(NoRows)
    BY EmptyBatchType DEF RowsRight
  <2>4. CASE after < decoded
    <3>1. pc' = "process" /\ batch'.next = after /\ batch'.docs = agents /\ batch'.rows = NoRows
      BY <1>4, <2>4, Prefetched
    <3> QED BY <2>1, <2>2, <2>3, <3>1 DEF UpTo, RowsRight, Flushing, NoRows, Pos
  <2>5. CASE ~(after < decoded)
    <3>1. pc' = "idle" /\ batch' = batch
      BY <1>0, <1>4, <2>5 DEF List
    <3> QED BY <2>1, <2>2, <3>1 DEF UpTo, RowsRight, Flushing
  <2> QED BY <2>4, <2>5
<1>5. CASE ProcessEvent
  <2>1. /\ pc = "process" /\ batch' = Process(batch, batch.next + 1)
        /\ pc' \in {"process", "agents"}
        /\ UNCHANGED <<decoded, checkpoint, agents, after, rows, faults>>
    BY <1>5 DEF ProcessEvent
  <2>2. /\ UpTo(agents, after) /\ UpTo(batch.docs, batch.next) /\ RowsRight(rows) /\ RowsRight(batch.rows)
        /\ after = checkpoint
    BY <2>1 DEF RowsInv
  <2>3. /\ UpTo(Process(batch, batch.next + 1).docs, batch.next + 1)
        /\ RowsRight(Process(batch, batch.next + 1).rows)
    BY <2>1, <2>2, EventKeepsDocs, EventKeepsRows
  <2>4. batch'.next = batch.next + 1
    BY <1>0, <2>1, NextEvent, ProcessFacts
  <2> QED BY <2>1, <2>2, <2>3, <2>4 DEF UpTo, RowsRight, Flushing
<1>6. CASE FlushedAgents
  <2>1. /\ pc = "agents" /\ pc' = "history" /\ agents' = Upserted(batch.dirty)
        /\ UNCHANGED <<checkpoint, after, batch, rows, faults>>
    BY <1>6 DEF FlushedAgents
  <2>2. UpTo(batch.docs, batch.next) /\ after = checkpoint /\ RowsRight(rows) /\ RowsRight(batch.rows)
    BY <2>1 DEF RowsInv
  <2>3. UpTo(Upserted(batch.dirty), batch.end)
    BY <2>1, <2>2, FlushedDocs
  <2> QED BY <2>1, <2>2, <2>3 DEF UpTo, RowsRight, Flushing
<1>7. CASE Save
  <2>1. /\ pc = "save" /\ pc' = "list" /\ after' = batch.end /\ UNCHANGED <<agents, rows, faults>>
        /\ checkpoint' = batch.end /\ batch' = EmptyBatch
    BY <1>0, <1>7 DEF Save, Fault
  <2>2. UpTo(agents, batch.end) /\ RowsRight(rows)
    BY <2>1 DEF RowsInv, Flushing
  <2>3. RowsRight(NoRows) /\ EmptyBatch.rows = NoRows
    BY EmptyBatchType DEF RowsRight
  <2>4. batch'.rows = NoRows
    BY <2>1, <2>3
  <2> QED BY <2>1, <2>2, <2>3, <2>4 DEF UpTo, RowsRight, Flushing, NoRows, Pos
<1>8. CASE FlushStep
  <2>1. /\ pc \in Flushing /\ pc' \in Flushing /\ UNCHANGED <<checkpoint, after, agents>>
        /\ batch'.end = batch.end /\ batch'.rows = batch.rows /\ faults = 0
    BY <1>0, <1>8 DEF FlushStep, Batches
  <2>2. UpTo(agents, batch.end) /\ RowsRight(rows) /\ RowsRight(batch.rows) /\ after = checkpoint
    BY <2>1 DEF RowsInv
  <2>3. \A i \in Pos : rows'[i] \in {rows[i], batch.rows[i]}
    BY <1>8 DEF FlushStep
  <2>4. RowsRight(rows)'
    BY <2>2, <2>3 DEF RowsRight
  <2> QED BY <2>1, <2>2, <2>4 DEF UpTo, RowsRight, Flushing
<1>9. CASE StopStep
  BY <1>0, <1>9 DEF StopStep
<1> QED BY <1>1, <1>2, <1>3, <1>4, <1>5, <1>6, <1>7, <1>8, <1>9, StepKinds

\* The owner of a stored agent is never behind the checkpoint between passes,
\* whichever documents a failed bulk write has written and however often a batch
\* was flushed, unless a replay of the chain stopped early (Processor.flush,
\* loadCheckpoint).
THEOREM OwnerNotBehindHolds == Spec => []OwnerNotBehind
<1>1. Init => OwnerInv /\ BatchInv /\ OwnersInv
  BY InitOwner, InitBatch, InitOwners
<1>2. OwnerInv /\ BatchInv /\ OwnersInv /\ [Next]_vars => (OwnerInv /\ BatchInv /\ OwnersInv)'
  BY StepOwner, StepBatch, StepOwners
<1>3. BatchInv /\ OwnersInv => OwnerNotBehind
  BY Zenon DEF OwnersInv, OwnerNotBehind, NotBehind
<1> QED BY <1>1, <1>2, <1>3, PTL DEF Spec

\* Feedback of the owner or the registered wallet of that time is recorded as
\* self-feedback, wherever the batches are cut: each starts from documents of
\* exactly the events before it (handleNewFeedback).
THEOREM SelfCaughtHolds == ASSUME FromSomeone PROVE Spec => []SelfCaught
<1>1. Init => OwnerInv /\ BatchInv /\ RowsInv
  BY InitOwner, InitBatch, InitRows
<1>2. OwnerInv /\ BatchInv /\ RowsInv /\ [Next]_vars => (OwnerInv /\ BatchInv /\ RowsInv)'
  BY StepOwner, StepBatch, StepRows
<1>3. RowsInv => SelfCaught
  BY Zenon DEF RowsInv, SelfCaught, RowsRight
<1> QED BY <1>1, <1>2, <1>3, PTL DEF Spec

-------------------------------------------------------------------------------
(* TagScale.                                                                   *)

\* The batches of the chains: who flushes what, and which rows are stored.
Fields == {"pc", "fb", "scale", "seen", "new", "now", "covers"}
BatchShape ==
    /\ saved \subseteq Feedbacks
    /\ scaleRows = [f \in Feedbacks |-> scaleRows[f]]
    /\ \A f \in Feedbacks : scaleRows[f].isRevoked = {}
    /\ DOMAIN work = Chains
    /\ \A c \in Chains : DOMAIN work[c] = Fields
    /\ \A c \in Chains : work[c].pc # "idle" => /\ work[c].fb \in Feedbacks \ saved
                                                /\ ChainOf[work[c].fb] = c
    /\ \A c \in Chains : work[c].pc = "vote" => scaleRows[work[c].fb].quality

TallyShape ==
    /\ scaleFaults \in Nat
    /\ DOMAIN stats = {"exists", "votes", "detected", "version", "locked"}
    /\ stats.votes \in [Tiers -> Nat]

TallyInv == BatchShape /\ TallyShape /\ VotesFollowRows

\* f is behind the checkpoint, or in a batch that is past its vote.
Past(f) == f \in saved \/ \E c \in Chains : work[c].pc \in PastVote /\ work[c].fb = f

\* The voted rows of a tier are finitely many feedback.
LEMMA VotedFinite ==
    ASSUME NEW t
    PROVE  IsFiniteSet(VotedRows(t)) /\ Cardinality(VotedRows(t)) \in Nat
<1>1. VotedRows(t) \subseteq Feedbacks /\ IsFiniteSet(Feedbacks)
  BY ScaleAssumption DEF VotedRows
<1>2. IsFiniteSet(VotedRows(t))
  BY <1>1, FS_Subset
<1> QED BY <1>2, FS_CardinalityType

\* No row is stored and no chain is at work at first.
LEMMA InitTally == ScaleInit => TallyInv
<1> SUFFICES ASSUME ScaleInit PROVE TallyInv
  OBVIOUS
<1>1. BatchShape
  BY DEF ScaleInit, BatchShape, Fields, Idle, NoRow, FieldOf
<1>2. TallyShape /\ scaleFaults = 0 /\ \A t \in Tiers : stats.votes[t] = 0
  BY ScaleAssumption DEF ScaleInit, TallyShape, NoVotes
<1>3. ASSUME NEW t \in Tiers PROVE Cardinality(VotedRows(t)) = 0
  <2>1. VotedRows(t) = {}
    BY DEF ScaleInit, VotedRows, NoRow
  <2> QED BY <2>1, FS_EmptySet
<1>4. VotesFollowRows
  BY <1>2, <1>3 DEF VotesFollowRows
<1> QED BY <1>1, <1>2, <1>4 DEF TallyInv

\* A step that leaves the votes alone keeps them near the voted rows, if these
\* stay as they are, or if one feedback is voted or not any more by a failure.
LEMMA TallyKept ==
    ASSUME TallyInv, UNCHANGED stats.votes,
           NEW g,
           \/ scaleFaults' = scaleFaults /\ \A t \in Tiers : VotedRows(t)' = VotedRows(t)
           \/ scaleFaults' = scaleFaults + 1 /\ \A t \in Tiers : VotedRows(t)' \in
                 {VotedRows(t), VotedRows(t) \cup {g}, VotedRows(t) \ {g}}
    PROVE  VotesFollowRows'
<1> SUFFICES ASSUME NEW t \in Tiers
             PROVE  /\ stats'.votes[t] <= Cardinality(VotedRows(t)') + scaleFaults'
                    /\ Cardinality(VotedRows(t)') <= stats'.votes[t] + scaleFaults'
  BY DEF VotesFollowRows
<1> DEFINE n == Cardinality(VotedRows(t))
           k == Cardinality(VotedRows(t)')
<1>1. n \in Nat /\ IsFiniteSet(VotedRows(t))
  BY VotedFinite
<1>2. k \in {n, n + 1, n - 1} /\ (k # n => scaleFaults' = scaleFaults + 1)
  BY <1>1, FS_AddElement, FS_RemoveElement
<1>3. stats.votes[t] \in Nat /\ scaleFaults \in Nat
  BY DEF TallyInv, TallyShape
<1>4. stats.votes[t] <= n + scaleFaults /\ n <= stats.votes[t] + scaleFaults
  BY DEF TallyInv, VotesFollowRows
<1>5. scaleFaults' \in {scaleFaults, scaleFaults + 1} /\ stats'.votes[t] = stats.votes[t]
  OBVIOUS
<1> HIDE DEF n, k
<1>6. stats'.votes[t] <= k + scaleFaults' /\ k <= stats'.votes[t] + scaleFaults'
  BY <1>1, <1>2, <1>3, <1>4, <1>5
<1> QED BY <1>6 DEF k

\* A chain goes on with its batch, not past its vote or past it before and after.
LEMMA GoOn ==
    ASSUME BatchShape, NEW c \in Chains, NEW w,
           work' = [work EXCEPT ![c] = w], DOMAIN w = Fields, UNCHANGED <<saved, scaleRows>>,
           w.pc # "idle" => w.fb \in Feedbacks \ saved /\ ChainOf[w.fb] = c,
           w.pc # "vote",
           w.pc \in PastVote <=> work[c].pc \in PastVote,
           w.pc \in PastVote => w.fb = work[c].fb
    PROVE  BatchShape' /\ \A t \in Tiers : VotedRows(t)' = VotedRows(t)
<1>1. /\ DOMAIN work' = Chains /\ work'[c] = w
      /\ \A d \in Chains : d # c => work'[d] = work[d]
  BY DEF BatchShape
<1>2. BatchShape'
  BY <1>1 DEF BatchShape
<1>3. \A f \in Feedbacks : Past(f)' <=> Past(f)
  BY <1>1 DEF Past
<1>4. \A t \in Tiers : VotedRows(t)' = VotedRows(t)
  BY <1>3 DEF VotedRows, Past
<1> QED BY <1>2, <1>4

\* The next place of a batch under way; its feedback stays.
LEMMA NextPlace ==
    ASSUME BatchShape, NEW c \in Chains, work[c].pc # "idle", NEW w,
           w \in {[work[c] EXCEPT !.pc = "setLocked"], [work[c] EXCEPT !.pc = "correct"],
                  Flushed(work[c])}
    PROVE  /\ DOMAIN w = Fields /\ w.fb = work[c].fb /\ w.pc \notin {"idle", "vote"}
           /\ w.fb \in Feedbacks \ saved /\ ChainOf[w.fb] = c /\ w.pc \in PastVote
<1>1. DOMAIN work[c] = Fields /\ work[c].fb \in Feedbacks \ saved /\ ChainOf[work[c].fb] = c
  BY DEF BatchShape
<1>2. DOMAIN w = Fields /\ w.fb = work[c].fb
  BY <1>1 DEF Fields, Flushed, Idle
<1>3. w.pc \in {"setLocked", "correct", "done"}
  BY <1>1 DEF Fields, Flushed, Idle
<1>4. w.pc \notin {"idle", "vote"} /\ w.pc \in PastVote
  BY <1>3 DEF PastVote
<1> QED BY <1>1, <1>2, <1>4

\* No two chains are at work on one feedback.
LEMMA OwnFeedback ==
    ASSUME BatchShape, NEW c \in Chains, work[c].pc # "idle"
    PROVE  \A d \in Chains : work[d].pc # "idle" /\ work[d].fb = work[c].fb => d = c
BY DEF BatchShape

\* Changing the detected scale leaves the votes alone.
LEMMA ChangeFacts ==
    ASSUME NEW c, Change(c),
           DOMAIN stats = {"exists", "votes", "detected", "version", "locked"}
    PROVE  /\ DOMAIN stats' = {"exists", "votes", "detected", "version", "locked"}
           /\ stats'.votes = stats.votes
<1>1. DOMAIN stats' = {"exists", "votes", "detected", "version", "locked"}
  BY DEF Change
<1>2. stats'.votes = stats.votes
  BY DEF Change
<1> QED BY <1>1, <1>2

\* A step that may fail spends a fault, and the votes keep their type.
LEMMA SameVotes ==
    ASSUME TallyInv, BatchShape',
           \A t \in Tiers : VotedRows(t)' = VotedRows(t),
           scaleFaults' = scaleFaults \/ ScaleFault,
           stats' = stats \/ \E c \in Chains : Change(c)
    PROVE  TallyInv'
<1>1. scaleFaults' \in {scaleFaults, scaleFaults + 1} /\ scaleFaults' \in Nat
  BY DEF ScaleFault, TallyInv, TallyShape
<1>2. /\ DOMAIN stats' = {"exists", "votes", "detected", "version", "locked"}
      /\ stats'.votes = stats.votes
  <2>1. CASE stats' = stats
    BY <2>1 DEF TallyInv, TallyShape
  <2>2. CASE \E c \in Chains : Change(c)
    <3>1. PICK c \in Chains : Change(c)
      BY <2>2
    <3> QED BY <3>1, ChangeFacts DEF TallyInv, TallyShape
  <2> QED BY <2>1, <2>2
<1>3. TallyShape'
  BY <1>1, <1>2 DEF TallyInv, TallyShape
<1>4. VotesFollowRows'
  BY <1>1, <1>2, TallyKept
<1> QED BY <1>3, <1>4 DEF TallyInv

\* flush stores the row of a batch that is not past its vote.
LEMMA StoreStep ==
    ASSUME TallyInv, NEW c \in Chains, StoreRow(c)
    PROVE  TallyInv'
<1>g. PICK g : g = work[c].fb
  OBVIOUS
<1> DEFINE s == work[c].scale
           w == [Flushed(work[c]) EXCEPT !.pc = IF IsQuality(s) THEN "vote" ELSE "done"]
<1>0. BatchShape
  BY DEF TallyInv
<1>1. /\ work[c].pc = "row" /\ work' = [work EXCEPT ![c] = w]
      /\ scaleRows' = [scaleRows EXCEPT ![g] = RowOf(s)]
      /\ UNCHANGED <<stats, saved, scaleFaults>>
  BY <1>g DEF StoreRow, At
<1>2. g \in Feedbacks \ saved /\ ChainOf[g] = c
  BY <1>g, <1>0, <1>1 DEF BatchShape
<1>3. RowOf(s).quality = IsQuality(s) /\ RowOf(s).isRevoked = {}
  BY DEF RowOf, FieldOf
<1>4. DOMAIN w = Fields /\ w.fb = g /\ w.pc = IF IsQuality(s) THEN "vote" ELSE "done"
  BY <1>g DEF Flushed, Idle, Fields
<1> HIDE DEF w, s
<1>5. /\ DOMAIN work' = Chains /\ work'[c] = w
      /\ \A d \in Chains : d # c => work'[d] = work[d] /\ (work[d].pc # "idle" => work[d].fb # g)
  BY <1>g, <1>0, <1>1, OwnFeedback DEF BatchShape
<1>6. scaleRows' = [f \in Feedbacks |-> scaleRows'[f]] /\ scaleRows'[g] = RowOf(s)
      /\ \A f \in Feedbacks : f # g => scaleRows'[f] = scaleRows[f]
  BY <1>0, <1>1, <1>2 DEF BatchShape
<1>7. BatchShape'
  <2>1. \A f \in Feedbacks : scaleRows'[f].isRevoked = {}
    BY <1>0, <1>3, <1>6 DEF BatchShape
  <2>2. \A d \in Chains : /\ DOMAIN work'[d] = Fields
                          /\ work'[d].pc # "idle" => work'[d].fb \in Feedbacks \ saved /\ ChainOf[work'[d].fb] = d
    BY <1>0, <1>2, <1>4, <1>5 DEF BatchShape
  <2>3. \A d \in Chains : work'[d].pc = "vote" => scaleRows'[work'[d].fb].quality
    <3>1. ASSUME NEW d \in Chains, work'[d].pc = "vote", d # c PROVE scaleRows'[work'[d].fb].quality
      <4>1. work'[d] = work[d] /\ work[d].fb # g /\ work[d].fb \in Feedbacks /\ scaleRows[work[d].fb].quality
        BY <1>0, <1>5, <3>1 DEF BatchShape
      <4> QED BY <1>6, <4>1
    <3>2. work'[c].pc = "vote" => scaleRows'[work'[c].fb].quality
      BY <1>3, <1>4, <1>5, <1>6
    <3> QED BY <3>1, <3>2
  <2> QED BY <1>0, <1>1, <1>5, <1>6, <2>1, <2>2, <2>3 DEF BatchShape
<1>8. ASSUME NEW f \in Feedbacks
      PROVE  (scaleRows'[f].quality /\ Past(f)') <=> (scaleRows[f].quality /\ Past(f))
  <2>1. CASE f # g
    <3>1. \A d \in Chains : (work'[d].pc \in PastVote /\ work'[d].fb = f)
                              <=> (work[d].pc \in PastVote /\ work[d].fb = f)
      BY <1>1, <1>4, <1>5, <2>1 DEF PastVote
    <3> QED BY <1>1, <1>6, <2>1, <3>1 DEF Past
  <2>2. CASE f = g
    <3>1. ~Past(g)
      BY <1>1, <1>2, <1>5 DEF Past, PastVote
    <3>2. ASSUME scaleRows'[g].quality, Past(g)' PROVE FALSE
      <4>1. w.pc \notin PastVote
        BY <1>3, <1>4, <1>6, <3>2 DEF PastVote
      <4>2. g \notin saved'
        BY <1>1, <1>2
      <4>3. PICK d \in Chains : work'[d].pc \in PastVote /\ work'[d].fb = g
        BY <3>2, <4>2 DEF Past
      <4>4. d # c
        BY <1>5, <4>1, <4>3
      <4>5. work[d].pc # "idle" /\ work[d].fb = g
        BY <1>5, <4>3, <4>4 DEF PastVote
      <4> QED BY <1>5, <4>4, <4>5
    <3> QED BY <2>2, <3>1, <3>2, Zenon
  <2> QED BY <2>1, <2>2
<1>9. \A t \in Tiers : VotedRows(t)' = VotedRows(t)
  BY <1>8 DEF VotedRows, Past
<1> QED BY <1>1, <1>7, <1>9, SameVotes

\* A chain leaves the place before its vote: its feedback is voted.
LEMMA NowVoted ==
    ASSUME BatchShape, NEW c \in Chains, work[c].pc = "vote", NEW w,
           work' = [work EXCEPT ![c] = w], DOMAIN w = Fields, UNCHANGED <<saved, scaleRows>>,
           w.fb = work[c].fb, w.pc \in {"detect", "done"}
    PROVE  /\ BatchShape' /\ work[c].fb \in Feedbacks
           /\ \A t \in Tiers : VotedRows(t)' = IF t = TierOf[work[c].fb] THEN VotedRows(t) \cup {work[c].fb}
                                                                          ELSE VotedRows(t)
           /\ \A t \in Tiers : work[c].fb \notin VotedRows(t)
<1> DEFINE g == work[c].fb
<1>1. g \in Feedbacks \ saved /\ ChainOf[g] = c /\ scaleRows[g].quality
  BY DEF BatchShape
<1>2. /\ DOMAIN work' = Chains /\ work'[c] = w
      /\ \A d \in Chains : d # c => work'[d] = work[d] /\ (work[d].pc # "idle" => work[d].fb # g)
  BY OwnFeedback DEF BatchShape
<1>3. BatchShape'
  BY <1>1, <1>2 DEF BatchShape
<1>4. \A f \in Feedbacks : Past(f)' <=> (Past(f) \/ f = g)
  BY <1>1, <1>2 DEF Past, PastVote
<1>5. ~Past(g)
  BY <1>1, <1>2 DEF Past, PastVote
<1>6. ASSUME NEW t \in Tiers
      PROVE  VotedRows(t)' = IF t = TierOf[g] THEN VotedRows(t) \cup {g} ELSE VotedRows(t)
  BY <1>1, <1>4, <1>5 DEF VotedRows, Past
<1>7. \A t \in Tiers : g \notin VotedRows(t)
  BY <1>5 DEF VotedRows, Past
<1> QED BY <1>1, <1>3, <1>6, <1>7

\* BulkIncrementTiers: a vote for the tier of the row, or a failure.
LEMMA VoteStep ==
    ASSUME TallyInv, NEW c \in Chains, Vote(c)
    PROVE  TallyInv'
<1> DEFINE g == work[c].fb
<1>0. BatchShape /\ TallyShape /\ work[c].pc = "vote" /\ UNCHANGED <<saved, scaleRows>>
  BY DEF TallyInv, Vote, At
<1>1. DOMAIN work[c] = Fields
  BY <1>0 DEF BatchShape
<1>2. CASE /\ work' = [work EXCEPT ![c].pc = "detect"] /\ scaleFaults' = scaleFaults
           /\ stats' = [stats EXCEPT !.votes[TierOf[g]] = @ + 1, !.exists = TRUE]
  <2> DEFINE w == [work[c] EXCEPT !.pc = "detect"]
  <2>1. work' = [work EXCEPT ![c] = w] /\ DOMAIN w = Fields /\ w.fb = g /\ w.pc = "detect"
    BY <1>1, <1>2 DEF Fields
  <2> HIDE DEF w
  <2>2. /\ BatchShape' /\ g \in Feedbacks
        /\ \A t \in Tiers : VotedRows(t)' = IF t = TierOf[g] THEN VotedRows(t) \cup {g} ELSE VotedRows(t)
        /\ \A t \in Tiers : g \notin VotedRows(t)
    BY <1>0, <2>1, NowVoted
  <2>3. TierOf[g] \in Tiers
    BY <2>2, ScaleAssumption
  <2>4. stats'.votes = [stats.votes EXCEPT ![TierOf[g]] = @ + 1]
        /\ DOMAIN stats' = {"exists", "votes", "detected", "version", "locked"}
    BY <1>0, <1>2 DEF TallyShape
  <2>5. TallyShape'
    BY <1>0, <1>2, <2>3, <2>4 DEF TallyShape
  <2>6. ASSUME NEW t \in Tiers
        PROVE  /\ stats'.votes[t] <= Cardinality(VotedRows(t)') + scaleFaults'
               /\ Cardinality(VotedRows(t)') <= stats'.votes[t] + scaleFaults'
    <3> DEFINE n == Cardinality(VotedRows(t))
               k == Cardinality(VotedRows(t)')
    <3>1. n \in Nat /\ IsFiniteSet(VotedRows(t))
      BY VotedFinite
    <3>2. k = IF t = TierOf[g] THEN n + 1 ELSE n
      BY <2>2, <3>1, FS_AddElement
    <3>3. stats'.votes[t] = IF t = TierOf[g] THEN stats.votes[t] + 1 ELSE stats.votes[t]
      BY <1>0, <2>3, <2>4 DEF TallyShape
    <3>4. stats.votes[t] <= n + scaleFaults /\ n <= stats.votes[t] + scaleFaults
      BY DEF TallyInv, VotesFollowRows
    <3>5. stats.votes[t] \in Nat /\ scaleFaults \in Nat /\ scaleFaults' = scaleFaults
      BY <1>0, <1>2 DEF TallyShape
    <3> HIDE DEF n, k
    <3>6. stats'.votes[t] <= k + scaleFaults' /\ k <= stats'.votes[t] + scaleFaults'
      BY <3>1, <3>2, <3>3, <3>4, <3>5
    <3> QED BY <3>6 DEF k
  <2> QED BY <2>2, <2>5, <2>6 DEF TallyInv, VotesFollowRows
<1>3. CASE ScaleFault /\ work' = [work EXCEPT ![c] = Flushed(@)] /\ UNCHANGED stats
  <2> DEFINE w == Flushed(work[c])
  <2>1. work' = [work EXCEPT ![c] = w] /\ DOMAIN w = Fields /\ w.fb = g /\ w.pc = "done"
    BY <1>3 DEF Fields, Flushed, Idle
  <2> HIDE DEF w
  <2>2. /\ BatchShape'
        /\ \A t \in Tiers : VotedRows(t)' = IF t = TierOf[g] THEN VotedRows(t) \cup {g} ELSE VotedRows(t)
    BY <1>0, <2>1, NowVoted
  <2>3. scaleFaults' = scaleFaults + 1 /\ TallyShape'
    BY <1>0, <1>3 DEF ScaleFault, TallyShape
  <2>4. VotesFollowRows'
    BY <1>3, <2>2, <2>3, TallyKept
  <2> QED BY <2>2, <2>3, <2>4 DEF TallyInv
<1> QED BY <1>2, <1>3 DEF Vote

\* A chain ends its batch, behind the checkpoint or by a failure.
LEMMA EndStep ==
    ASSUME TallyInv, NEW c \in Chains, SaveBatch(c) \/ AbortBatch(c)
    PROVE  TallyInv'
<1> DEFINE g == work[c].fb
<1>0. BatchShape /\ TallyShape /\ UNCHANGED <<scaleRows, stats>> /\ work' = [work EXCEPT ![c] = Idle]
  BY DEF TallyInv, SaveBatch, AbortBatch
<1>1. /\ DOMAIN work' = Chains /\ work'[c].pc = "idle" /\ DOMAIN work'[c] = Fields
      /\ work[c].pc # "idle" /\ g \in Feedbacks
      /\ \A d \in Chains : d # c => work'[d] = work[d] /\ (work[d].pc # "idle" => work[d].fb # g)
  <2>1. work[c].pc # "idle"
    BY DEF SaveBatch, AbortBatch, At
  <2>2. work'[c] = Idle /\ DOMAIN Idle = Fields /\ Idle.pc = "idle"
    BY <1>0 DEF BatchShape, Idle, Fields
  <2> QED BY <1>0, <2>1, <2>2, OwnFeedback DEF BatchShape
<1>2. saved' \in {saved, saved \cup {g}}
  BY DEF SaveBatch, AbortBatch
<1>3. BatchShape'
  BY <1>0, <1>1, <1>2 DEF BatchShape
<1>4. CASE SaveBatch(c)
  <2>1. work[c].pc = "done" /\ saved' = saved \cup {g} /\ scaleFaults' = scaleFaults
    BY <1>4 DEF SaveBatch, At
  <2>2. \A f \in Feedbacks : Past(f)' <=> Past(f)
    BY <1>1, <2>1 DEF Past, PastVote
  <2>3. \A t \in Tiers : VotedRows(t)' = VotedRows(t)
    BY <1>0, <2>2 DEF VotedRows, Past
  <2> QED BY <1>0, <1>3, <2>1, <2>3, SameVotes
<1>5. CASE AbortBatch(c)
  <2>1. saved' = saved /\ scaleFaults' = scaleFaults + 1 /\ TallyShape'
    BY <1>0, <1>5 DEF AbortBatch, ScaleFault, TallyShape
  <2>2. g \notin saved
    BY <1>0, <1>1 DEF BatchShape
  <2>3. \A f \in Feedbacks : Past(f)' <=> (Past(f) /\ f # g)
    BY <1>1, <2>1, <2>2 DEF Past, PastVote
  <2>4. \A t \in Tiers : VotedRows(t)' = VotedRows(t) \ {g}
    BY <1>0, <2>3 DEF VotedRows, Past
  <2>5. VotesFollowRows'
    BY <1>0, <2>1, <2>4, TallyKept
  <2> QED BY <1>3, <2>1, <2>5 DEF TallyInv
<1> QED BY <1>4, <1>5

\* The correction's query finds no row, since no false flag is stored.
LEMMA RescaleChangesNothing ==
    ASSUME BatchShape, Rescale
    PROVE  scaleRows' = scaleRows
<1>1. PICK corr : corr = corrs[claimed]
  OBVIOUS
<1>2. FindRows(corr) \cap Feedbacks = {}
  BY DEF BatchShape, FindRows
<1>3. scaleRows' = Rescaled(FindRows(corr), corr.scale)
  BY <1>1 DEF Rescale
<1>4. \A f \in Feedbacks : scaleRows'[f] = scaleRows[f]
  BY <1>2, <1>3 DEF Rescaled
<1>5. scaleRows = [f \in Feedbacks |-> scaleRows[f]]
  BY DEF BatchShape
<1>6. scaleRows' = [f \in Feedbacks |-> scaleRows'[f]]
  BY <1>3 DEF Rescaled
<1> QED BY <1>4, <1>5, <1>6

\* Every step of a chain and of the rescale worker keeps TallyInv.
LEMMA StepTally == TallyInv /\ [ScaleNext]_scaleVars => TallyInv'
<1> SUFFICES ASSUME TallyInv, [ScaleNext]_scaleVars PROVE TallyInv'
  OBVIOUS
<1>0. BatchShape /\ TallyShape
  BY DEF TallyInv
<1>1. ASSUME NEW c \in Chains, ChainStep(c) \/ AbortBatch(c) PROVE TallyInv'
  <2>1. CASE Lookup(c)
    <3>1. PICK f \in Feedbacks \ saved :
             /\ ChainOf[f] = c
             /\ \E w \in {[Idle EXCEPT !.pc = "row", !.fb = f, !.scale = ScaleFor(f, cache)],
                          [Idle EXCEPT !.pc = "cache", !.fb = f, !.scale = stats.detected],
                          [Idle EXCEPT !.pc = "row", !.fb = f, !.scale = TierOf[f]]} :
                    work' = [work EXCEPT ![c] = w]
      BY <2>1 DEF Lookup
    <3>2. PICK w : /\ w \in {[Idle EXCEPT !.pc = "row", !.fb = f, !.scale = ScaleFor(f, cache)],
                             [Idle EXCEPT !.pc = "cache", !.fb = f, !.scale = stats.detected],
                             [Idle EXCEPT !.pc = "row", !.fb = f, !.scale = TierOf[f]]}
                   /\ work' = [work EXCEPT ![c] = w]
      BY <3>1
    <3>3. DOMAIN w = Fields /\ w.fb = f /\ w.pc \in {"row", "cache"}
      BY <3>2 DEF Idle, Fields
    <3>4. work' = [work EXCEPT ![c] = w]
      BY <3>2
    <3>5. /\ work[c].pc = "idle" /\ UNCHANGED <<saved, scaleRows, stats>>
          /\ scaleFaults' = scaleFaults \/ ScaleFault
      BY <2>1, Zenon DEF Lookup, At
    <3>6. BatchShape' /\ \A t \in Tiers : VotedRows(t)' = VotedRows(t)
      BY <1>0, <3>1, <3>3, <3>4, <3>5, GoOn DEF PastVote
    <3> QED BY <3>5, <3>6, SameVotes
  <2>2. CASE CacheScale(c)
    <3> DEFINE w == [work[c] EXCEPT !.pc = "row", !.scale = ScaleFor(work[c].fb, work[c].scale)]
    <3>1. /\ work[c].pc = "cache" /\ work' = [work EXCEPT ![c] = w]
          /\ UNCHANGED <<saved, scaleRows, stats, scaleFaults>>
      BY <2>2 DEF CacheScale, At
    <3>2. /\ work[c].fb \in Feedbacks \ saved /\ ChainOf[work[c].fb] = c
          /\ DOMAIN w = Fields /\ w.fb = work[c].fb /\ w.pc = "row"
      BY <1>0, <3>1 DEF BatchShape, Fields
    <3> HIDE DEF w
    <3>3. BatchShape' /\ \A t \in Tiers : VotedRows(t)' = VotedRows(t)
      BY <1>0, <3>1, <3>2, GoOn DEF PastVote
    <3> QED BY <3>1, <3>3, SameVotes
  <2>3. CASE StoreRow(c)
    BY <2>3, StoreStep
  <2>4. CASE Vote(c)
    BY <2>4, VoteStep
  <2>5. CASE Detect(c) \/ SetUnlocked(c) \/ SetLocked(c) \/ UpsertCorrection(c)
    <3>1. /\ work[c].pc \in {"detect", "set", "setLocked", "correct"}
          /\ UNCHANGED <<saved, scaleRows>>
      BY <2>5, Zenon DEF Detect, SetUnlocked, SetLocked, UpsertCorrection, At
    <3>2. scaleFaults' = scaleFaults \/ ScaleFault
      BY <2>5, Zenon DEF Detect, SetUnlocked, SetLocked, UpsertCorrection
    <3>3. stats' = stats \/ Change(c)
      BY <2>5, Zenon DEF Detect, SetUnlocked, SetLocked, UpsertCorrection
    <3>4. PICK w : /\ work' = [work EXCEPT ![c] = w] /\ DOMAIN w = Fields
                   /\ w.fb = work[c].fb /\ w.pc \in PastVote \ {"idle", "vote"}
      <4>1. CASE Detect(c) /\ work' # [work EXCEPT ![c] = Flushed(@)]
        <5>1. PICK new : new = ArgmaxTier(stats.votes)
          OBVIOUS
        <5>2. PICK v : v = [work[c] EXCEPT !.pc = "set", !.seen = stats.version, !.new = new,
                                           !.now = clock + 1, !.covers = read]
          OBVIOUS
        <5>3. DOMAIN v = Fields /\ v.fb = work[c].fb /\ v.pc = "set"
          BY <1>0, <5>2 DEF BatchShape, Fields
        <5>4. work' = [work EXCEPT ![c] = v]
          BY <4>1, <5>1, <5>2 DEF Detect
        <5>5. v.pc \in PastVote \ {"idle", "vote"}
          BY <5>3 DEF PastVote
        <5> QED BY <5>3, <5>4, <5>5
      <4>2. CASE ~(Detect(c) /\ work' # [work EXCEPT ![c] = Flushed(@)])
        <5>1. \E v \in {[work[c] EXCEPT !.pc = "setLocked"], [work[c] EXCEPT !.pc = "correct"],
                          Flushed(work[c])} : work' = [work EXCEPT ![c] = v]
          BY <2>5, <4>2 DEF SetUnlocked, SetLocked, UpsertCorrection
        <5>6. PICK v : /\ v \in {[work[c] EXCEPT !.pc = "setLocked"], [work[c] EXCEPT !.pc = "correct"],
                                 Flushed(work[c])}
                       /\ work' = [work EXCEPT ![c] = v]
          BY <5>1
        <5>2. work[c].pc # "idle"
          BY <3>1
        <5>3. DOMAIN v = Fields /\ v.fb = work[c].fb /\ v.pc \in PastVote \ {"idle", "vote"}
          BY <1>0, <5>2, <5>6, NextPlace
        <5> QED BY <5>3, <5>6
      <4> QED BY <4>1, <4>2
    <3>5. work[c].pc \in PastVote /\ work[c].fb \in Feedbacks \ saved /\ ChainOf[work[c].fb] = c
      BY <1>0, <3>1 DEF BatchShape, PastVote
    <3>6. BatchShape' /\ \A t \in Tiers : VotedRows(t)' = VotedRows(t)
      BY <1>0, <3>1, <3>4, <3>5, GoOn
    <3> QED BY <3>2, <3>3, <3>6, SameVotes
  <2>6. CASE SaveBatch(c) \/ AbortBatch(c)
    BY <2>6, EndStep
  <2> QED BY <1>1, <2>1, <2>2, <2>3, <2>4, <2>5, <2>6 DEF ChainStep
<1>2. CASE Expire \/ RescaleStep \/ RescaleFails \/ UNCHANGED scaleVars
  <2>1. UNCHANGED <<saved, work, stats>> /\ (scaleFaults' = scaleFaults \/ ScaleFault)
    BY <1>2, Zenon DEF Expire, RescaleStep, Claim, Rescale, RescaleFails, scaleVars
  <2>2. scaleRows' = scaleRows
    BY <1>0, <1>2, RescaleChangesNothing DEF Expire, RescaleStep, Claim, RescaleFails, scaleVars
  <2>3. BatchShape' /\ \A t \in Tiers : VotedRows(t)' = VotedRows(t)
    BY <1>0, <2>1, <2>2 DEF BatchShape, VotedRows
  <2> QED BY <2>1, <2>3, SameVotes
<1> QED BY <1>1, <1>2 DEF ScaleNext

\* The votes of a tier stand for its stored rows, but for one more or less with
\* each failure: for any number of chains that vote and detect at once, and
\* wherever their batches fail and are flushed again (flushTierStats).
THEOREM VotesFollowRowsHolds == ScaleSpec => []VotesFollowRows
<1>1. TallyInv => VotesFollowRows
  BY DEF TallyInv
<1> QED BY <1>1, InitTally, StepTally, PTL DEF ScaleSpec

-------------------------------------------------------------------------------
(* Decoder.                                                                    *)

\* What is stored for a key, and at the agent, was cut out within its bytes.
DecoderInv ==
    /\ metadata = [k \in Keys |-> metadata[k]]
    /\ promoted = [wallet |-> promoted.wallet, tags |-> promoted.tags]
    /\ SlicesInBounds

\* A slice that is found lies within a value of len bytes.
Within(s, len) == s.found => 0 <= s.from /\ s.from <= s.to /\ s.to <= len

\* A value has a length, and nothing as well as the whole of it lies within.
LEMMA ValueFacts ==
    ASSUME NEW b \in Values
    PROVE  /\ b.len \in Nat /\ WordLen \in Nat /\ AddressLen \in Nat /\ AddressLen <= WordLen /\ MaxInt \in Nat
           /\ Within(Nothing, b.len) /\ Within(Slice(0, b.len), b.len)
<1>1. b.len \in Nat /\ WordLen \in Nat /\ AddressLen \in Nat /\ AddressLen <= WordLen /\ MaxInt \in Nat
  BY DecoderAssumption
<1>2. Within(Nothing, b.len)
  BY DEF Within, Nothing
<1>3. Within(Slice(0, b.len), b.len)
  BY <1>1 DEF Within, Slice
<1>4. QED BY <1>1, <1>2, <1>3

\* decodeABIString: the checks on the offset, the length and their sum, which may
\* have wrapped, leave a stretch of the bytes.
LEMMA AbiStringWithin ==
    ASSUME NEW b \in Values
    PROVE  Within(DecodeABIString(b), b.len)
<1> DEFINE offset == b.word[0]
           length == b.word[offset]
           end == IntSum(offset + WordLen, length)
<1>1. CASE DecodeABIString(b) = Nothing
  BY <1>1, ValueFacts
<1>2. CASE DecodeABIString(b) # Nothing
  <2>1. /\ ~(b.len < WordLen) /\ ~(offset > b.len - WordLen)
        /\ ~OutOfBytes(offset + WordLen, end, b.len)
        /\ DecodeABIString(b) = Slice(offset + WordLen, end)
    BY <1>2 DEF DecodeABIString
  <2>2. 0..(b.len - WordLen) \subseteq DOMAIN b.word /\ \A i \in DOMAIN b.word : b.word[i] \in Nat
    BY DecoderAssumption
  <2>3. offset \in Nat
    <3>1. 0 \in 0..(b.len - WordLen)
      BY <2>1, ValueFacts
    <3>2. QED BY <2>2, <3>1
  <2>4. length \in Nat
    <3>1. offset \in 0..(b.len - WordLen)
      BY <2>1, <2>3, ValueFacts
    <3>2. QED BY <2>2, <3>1
  <2>5. end \in Int
    BY <2>3, <2>4, ValueFacts DEF IntSum
  <2> HIDE DEF end, length, offset
  <2>6. end <= b.len /\ offset + WordLen <= end /\ 0 <= offset + WordLen
    BY <2>1, <2>3, <2>5, ValueFacts DEF OutOfBytes
  <2>7. QED BY <2>1, <2>6 DEF Within, Slice
<1>3. QED BY <1>1, <1>2

\* DecodeMetadataValue: so do the address, the number and the text.
LEMMA DecodedWithin ==
    ASSUME NEW k \in Keys, NEW b \in Values
    PROVE  Within(DecodeMetadataValue(k.kind, b).slice, b.len)
<1> DEFINE d == DecodeMetadataValue(k.kind, b)
<1>1. ASSUME AddressLike(b) PROVE Within(AddressOf(b).slice, b.len)
  <2>1. b.len = AddressLen \/ b.len = WordLen
    BY <1>1 DEF AddressLike
  <2>2. 0 <= b.len - AddressLen /\ b.len - AddressLen <= b.len
    BY <2>1, ValueFacts
  <2>3. AddressOf(b).slice = Slice(b.len - AddressLen, b.len)
    BY DEF AddressOf, Decoded
  <2>4. QED BY <2>2, <2>3, ValueFacts DEF Within, Slice
<1>2. Within(TextOf(b).slice, b.len)
  <2>1. TextOf(b).slice \in {AbiText(b), AsciiText(b)}
    BY DEF TextOf, Decoded
  <2>2. AbiText(b) \in {DecodeABIString(b), Nothing}
    BY DEF AbiText
  <2>3. AsciiText(b) \in {Slice(0, b.len), Nothing}
    BY DEF AsciiText
  <2>4. QED BY <2>1, <2>2, <2>3, AbiStringWithin, ValueFacts
<1>3. \/ d = Decoded("empty", Nothing) \/ (AddressLike(b) /\ d = AddressOf(b))
      \/ d = Decoded("number", Slice(0, b.len)) \/ d = TextOf(b) \/ d = Decoded("raw", Nothing)
  BY DEF DecodeMetadataValue, Guess
<1>4. Decoded("empty", Nothing).slice = Nothing /\ Decoded("raw", Nothing).slice = Nothing
      /\ Decoded("number", Slice(0, b.len)).slice = Slice(0, b.len)
  BY DEF Decoded
<1> HIDE DEF d
<1>5. Within(d.slice, b.len)
  BY <1>1, <1>2, <1>3, <1>4, ValueFacts
<1>6. QED BY <1>5 DEF d

\* What SetMetadata keeps of a value was cut out within it.
LEMMA KeptInBounds ==
    ASSUME NEW k \in Keys, NEW b \in Values
    PROVE  InBounds(Kept(k, b))
<1> DEFINE d == DecodeMetadataValue(k.kind, b)
<1>1. Within(d.slice, b.len)
  BY DecodedWithin
<1>2. Kept(k, b) \in {NoValue, [set |-> TRUE, bytes |-> b, as |-> d]}
  BY DEF Kept
<1> HIDE DEF d
<1>3. QED BY <1>1, <1>2 DEF InBounds, Within, NoValue

\* A key without a value has no slice.
LEMMA NothingInBounds == InBounds(NoValue)
BY DEF InBounds, NoValue

\* Nothing is stored yet.
LEMMA InitDecoder == DecoderInit => DecoderInv
<1> SUFFICES ASSUME DecoderInit PROVE DecoderInv
  OBVIOUS
<1>1. metadata = [k \in Keys |-> metadata[k]] /\ \A k \in Keys : metadata[k] = NoValue
  BY DEF DecoderInit
<1>2. promoted.wallet = NoValue /\ promoted.tags = NoValue
      /\ promoted = [wallet |-> promoted.wallet, tags |-> promoted.tags]
  BY DEF DecoderInit
<1>3. QED BY <1>1, <1>2, NothingInBounds DEF DecoderInv, SlicesInBounds

\* Every event keeps DecoderInv.
LEMMA StepDecoder == DecoderInv /\ [DecoderNext]_decoderVars => DecoderInv'
<1> SUFFICES ASSUME DecoderInv, [DecoderNext]_decoderVars PROVE DecoderInv'
  OBVIOUS
<1>1. CASE UNCHANGED <<metadata, promoted>>
  BY <1>1 DEF DecoderInv, SlicesInBounds, InBounds
<1>2. ASSUME NEW k \in Keys, NEW b \in Values, SetMetadata(k, b) PROVE DecoderInv'
  <2> DEFINE v == Kept(k, b)
  <2>1. InBounds(v) /\ InBounds(NoValue)
    BY KeptInBounds, NothingInBounds
  <2>2. metadata' = [metadata EXCEPT ![k] = v] /\ promoted' = Promote(k, v)
    BY <1>2 DEF SetMetadata
  <2> HIDE DEF v
  <2>3. metadata' = [j \in Keys |-> metadata'[j]] /\ \A j \in Keys : metadata'[j] \in {v, metadata[j]}
    BY <2>2 DEF DecoderInv
  <2>4. \/ promoted' = promoted \/ promoted' = [promoted EXCEPT !.wallet = v]
        \/ \E w \in {v, NoValue} : promoted' = [promoted EXCEPT !.tags = w]
    BY <2>2 DEF Promote
  <2>5. /\ promoted' = [wallet |-> promoted'.wallet, tags |-> promoted'.tags]
        /\ promoted'.wallet \in {v, promoted.wallet} /\ promoted'.tags \in {v, NoValue, promoted.tags}
    BY <2>4 DEF DecoderInv
  <2>6. \A j \in Keys : InBounds(metadata[j])
    BY DEF DecoderInv, SlicesInBounds
  <2>7. InBounds(promoted.wallet) /\ InBounds(promoted.tags)
    BY DEF DecoderInv, SlicesInBounds
  <2>8. \A j \in Keys : InBounds(metadata'[j])
    BY <2>1, <2>3, <2>6
  <2>9. InBounds(promoted'.wallet) /\ InBounds(promoted'.tags)
    BY <2>1, <2>5, <2>7
  <2>10. QED BY <2>3, <2>5, <2>8, <2>9 DEF DecoderInv, SlicesInBounds, InBounds
<1>3. QED BY <1>1, <1>2 DEF DecoderNext, Ingest, decoderVars

\* Whatever offset and length the bytes of a MetadataSet event spell, and although
\* their sum wraps, what is cut out of them lies within them (decodeABIString).
THEOREM SlicesInBoundsHolds == DecoderSpec => []SlicesInBounds
<1>1. DecoderInv => SlicesInBounds
  BY DEF DecoderInv
<1>2. QED BY <1>1, InitDecoder, StepDecoder, PTL DEF DecoderSpec

-------------------------------------------------------------------------------
(* Triage.                                                                     *)

\* No rule decides on the tags, whatever the scale: they are empty, an emoji or
\* unknown.
OpenTags(t1, t2) ==
    /\ ~IsJunk(t1, t2)
    /\ \/ Empty(t1) /\ Empty(t2)
       \/ Is(t1, "emoji") /\ Empty(t2)
       \/ ~IsMetric(t1, t2) /\ ~IsJudgment(t1, t2)

\* Only feedback that the rules leave open is ever with feedback-others, under any
\* scale its rows have had; the flag of a pass that found the owner stays.
TriageInv ==
    /\ asked \in Nat
    /\ desk = [d \in Desks |-> desk[d]]
    /\ entry = [times |-> entry.times, category |-> entry.category, feature |-> entry.feature,
                scale |-> entry.scale, self |-> entry.self, fallback |-> entry.fallback]
    /\ asked > 0 \/ (\E d \in Desks : desk[d] # "idle") =>
          OpenTags(item.tags[1], item.tags[2])
    /\ entry.self \in BOOLEAN /\ ownerFound \in BOOLEAN /\ (ownerFound => entry.self)
    /\ OnlyJudgmentsScore

\* The rules answer "others" on open tags and nowhere else.
LEMMA OthersAreOpen ==
    ASSUME NEW t1, NEW t2, NEW scale
    PROVE  Classify(t1, t2, scale).category = "others" <=> OpenTags(t1, t2)
BY DEF Classify, OpenTags, Rule, Undecided

\* What the rules call quality is neither junk nor a metric and has a bounded scale.
LEMMA JudgedByRule ==
    ASSUME NEW t1, NEW t2, NEW scale, Classify(t1, t2, scale).category = "quality"
    PROVE  ~IsJunk(t1, t2) /\ ~IsMetric(t1, t2) /\ scale # "unbounded"
BY DEF Classify, Rule, Undecided

\* The hybrid classifier on open tags: the word quality is the AI service's.
LEMMA JudgedByHybrid ==
    ASSUME NEW t1, NEW t2, NEW scale, NEW answer, OpenTags(t1, t2),
           Hybrid(t1, t2, scale, answer).category = "quality"
    PROVE  AsksAi(t1, t2, scale) /\ ~IsMetric(t1, t2)
<1>1. AsksAi(t1, t2, scale)
  BY OthersAreOpen DEF Hybrid
<1>2. Overridden(t1, t2, answer).category = "quality"
  BY <1>1 DEF Hybrid
<1>3. QED BY <1>1, <1>2 DEF Overridden

\* What is neither junk nor a metric.
LEMMA SoundTags ==
    ASSUME ~IsJunk(item.tags[1], item.tags[2]), ~IsMetric(item.tags[1], item.tags[2])
    PROVE  /\ ~Named("spam") /\ ~Named("metric") /\ ~Is(item.tags[1], "uuid")
           /\ ~(Named("digits") /\ \A i \in 1..2 : Is(item.tags[i], "digits"))
BY DEF IsJunk, IsSpam, IsUuid, IsAllDigits, IsMetric, Named

\* The row is not written yet.
LEMMA InitTriage == TriageInit => TriageInv
<1> SUFFICES ASSUME TriageInit PROVE TriageInv
  OBVIOUS
<1>1. asked = 0 /\ desk = [d \in Desks |-> "idle"] /\ entry = Unwritten /\ ownerFound = FALSE
  BY DEF TriageInit
<1>2. /\ entry = [times |-> entry.times, category |-> entry.category, feature |-> entry.feature,
                  scale |-> entry.scale, self |-> entry.self, fallback |-> entry.fallback]
      /\ entry.category # "quality"
  <2>1. /\ Unwritten.times = 0 /\ Unwritten.category = "" /\ Unwritten.feature = ""
        /\ Unwritten.scale = "" /\ Unwritten.self = FALSE /\ Unwritten.fallback = FALSE
    BY Zenon DEF Unwritten
  <2>2. Unwritten = [times |-> Unwritten.times, category |-> Unwritten.category, feature |-> Unwritten.feature,
                     scale |-> Unwritten.scale, self |-> Unwritten.self, fallback |-> Unwritten.fallback]
    BY <2>1, Zenon DEF Unwritten
  <2>3. entry = [times |-> entry.times, category |-> entry.category, feature |-> entry.feature,
                 scale |-> entry.scale, self |-> entry.self, fallback |-> entry.fallback]
    BY <1>1, <2>2, Zenon
  <2>4. entry.category = ""
    BY <1>1, <2>1, Zenon
  <2>5. QED BY <2>3, <2>4, Zenon
<1>5. entry.self = FALSE
  BY <1>1, Zenon DEF Unwritten
<1>6. entry.self \in BOOLEAN /\ ownerFound \in BOOLEAN /\ (ownerFound => entry.self)
  BY <1>1, <1>5, Zenon
<1>3. desk = [d \in Desks |-> desk[d]] /\ \A d \in Desks : desk[d] = "idle"
  BY <1>1
<1>4. QED BY <1>1, <1>2, <1>3, <1>6 DEF TriageInv, OnlyJudgmentsScore, Scores

\* The answer of feedback-others leaves the flag alone.
LEMMA AnsweredShape ==
    ASSUME NEW n, NEW c, NEW f, NEW sc, NEW se, NEW fb, NEW row, NEW res,
           row = [times |-> n, category |-> c, feature |-> f, scale |-> sc, self |-> se, fallback |-> fb]
    PROVE  \E x : Answered(row, res) =
              [times |-> n, category |-> res.category, feature |-> x, scale |-> sc, self |-> se, fallback |-> TRUE]
<1> DEFINE x == IF res.feature = "" THEN row.feature ELSE res.feature
           d == res.category
<1>1. Answered(row, res) = [row EXCEPT !.category = d, !.fallback = TRUE, !.feature = x]
  BY Zenon DEF Answered
<1> HIDE DEF x, d
<1>2. PICK r1 : r1 = [row EXCEPT !.category = d]
  BY Zenon
<1>3. r1 = [times |-> n, category |-> d, feature |-> f, scale |-> sc, self |-> se, fallback |-> fb]
  BY <1>2
<1>4. PICK g : g = TRUE
  BY Zenon
<1>5. PICK r2 : r2 = [r1 EXCEPT !.fallback = g]
  BY Zenon
<1>6. r2 = [times |-> n, category |-> d, feature |-> f, scale |-> sc, self |-> se, fallback |-> g]
  BY <1>3, <1>5
<1>7. [r2 EXCEPT !.feature = x] =
         [times |-> n, category |-> d, feature |-> x, scale |-> sc, self |-> se, fallback |-> g]
  BY <1>6
<1>8. [row EXCEPT !.category = d, !.fallback = TRUE, !.feature = x] =
         [[[row EXCEPT !.category = d] EXCEPT !.fallback = TRUE] EXCEPT !.feature = x]
  BY Zenon
<1>9. QED BY <1>1, <1>2, <1>5, <1>7, <1>8, <1>4, Zenon DEF d

\* A step that leaves the row alone.
LEMMA SameRow ==
    ASSUME OnlyJudgmentsScore, item' = item, entry' = entry, ownerFound' = ownerFound
    PROVE  OnlyJudgmentsScore'
<1>1. Scores' => ~ownerFound'
  BY Zenon DEF OnlyJudgmentsScore, Scores
<1>2. OwnTier' = OwnTier
  BY Zenon DEF OwnTier
<1>3. Named("spam")' = Named("spam") /\ Named("metric")' = Named("metric") /\ Named("digits")' = Named("digits")
  BY Zenon DEF Named
<1>4. QED BY <1>1, <1>2, <1>3, Zenon DEF OnlyJudgmentsScore

\* Every writer of the row keeps TriageInv.
LEMMA StepTriage == TriageInv /\ [TriageNext]_triageVars => TriageInv'
<1> SUFFICES ASSUME TriageInv, [TriageNext]_triageVars PROVE TriageInv'
  OBVIOUS
<1> DEFINE t1 == item.tags[1]
           t2 == item.tags[2]
           open == OpenTags(t1, t2)
<1>0. asked \in Nat /\ (asked > 0 => open) /\ \A d \in Desks : desk[d] # "idle" => open
  BY DEF TriageInv
<1>1. CASE UNCHANGED triageVars
  <2>1. item' = item /\ entry' = entry /\ asked' = asked /\ desk' = desk /\ ownerFound' = ownerFound
    BY <1>1 DEF triageVars
  <2>2. OnlyJudgmentsScore'
    BY <2>1, SameRow, Zenon DEF TriageInv
  <2>3. entry'.self \in BOOLEAN /\ ownerFound' \in BOOLEAN /\ (ownerFound' => entry'.self)
    BY <2>1, Zenon DEF TriageInv
  <2>4. QED BY <2>1, <2>2, <2>3 DEF TriageInv
<1>2. ASSUME NEW scale \in Detected, NEW self \in BOOLEAN, StoreItem(scale, self) PROVE TriageInv'
  <2> DEFINE rule == RowRule(RowScale(scale), self)
  <2>1. /\ entry'.category = rule.category /\ entry'.scale = RowScale(scale)
        /\ entry' = [times |-> entry'.times, category |-> entry'.category, feature |-> entry'.feature,
                     scale |-> entry'.scale, self |-> entry'.self, fallback |-> entry'.fallback]
        /\ entry'.self = (entry.self \/ self) /\ ownerFound' = (ownerFound \/ self)
        /\ UNCHANGED <<item, desk>>
        /\ (rule.category = "others" /\ asked' = asked + 1) \/ asked' = asked
    BY <1>2 DEF StoreItem, SelfKept
  <2>2. rule.category = "others" => open
    BY OthersAreOpen DEF RowRule, SelfFeedbackResult, Rule
  <2>3. rule.category = "quality" =>
          ~IsJunk(t1, t2) /\ ~IsMetric(t1, t2) /\ RowScale(scale) # "unbounded"
    BY JudgedByRule DEF RowRule, SelfFeedbackResult, Rule
  <2> HIDE DEF rule
  <2>8. entry'.self \in BOOLEAN /\ ownerFound' \in BOOLEAN /\ (ownerFound' => entry'.self)
    <3>1. entry.self \in BOOLEAN /\ ownerFound \in BOOLEAN /\ (ownerFound => entry.self)
      BY DEF TriageInv
    <3>2. entry'.self = (entry.self \/ self) /\ ownerFound' = (ownerFound \/ self)
      BY <2>1
    <3>3. QED BY <3>1, <3>2, Zenon
  <2>4. OnlyJudgmentsScore'
    BY <2>1, <2>3, <2>8, SoundTags DEF OnlyJudgmentsScore, Scores, Named
  <2>5. asked' \in Nat /\ desk' = [d \in Desks |-> desk'[d]]
    BY <1>0, <2>1 DEF TriageInv
  <2>6. asked' > 0 \/ (\E d \in Desks : desk'[d] # "idle") => open
    BY <1>0, <2>1, <2>2
  <2>7. QED BY <2>1, <2>4, <2>5, <2>6, <2>8 DEF TriageInv
<1>3. ASSUME NEW d \in Desks, desk[d] # "idle" \/ asked > 0,
             asked' \in {asked, asked - 1, asked + 1}, asked' \in Nat,
             UNCHANGED <<item, entry, ownerFound>>, NEW to \in {"idle", "publish", "ask"}, desk' = [desk EXCEPT ![d] = to]
      PROVE  TriageInv'
  <2>1. open
    BY <1>0, <1>3
  <2>2. OnlyJudgmentsScore'
    BY <1>3, SameRow, Zenon DEF TriageInv
  <2>3. desk' = [e \in Desks |-> desk'[e]]
    BY <1>3 DEF TriageInv
  <2>4. QED BY <1>3, <2>1, <2>2, <2>3 DEF TriageInv
<1>4. ASSUME NEW d \in Desks, FetchItem(d) PROVE TriageInv'
  <2>1. asked > 0 /\ asked' = asked - 1 /\ asked' \in Nat /\ UNCHANGED <<item, entry, ownerFound>>
    BY <1>0, <1>4 DEF FetchItem
  <2>2. \E to \in {"idle", "publish", "ask"} : desk' = [desk EXCEPT ![d] = to]
    BY <1>4 DEF FetchItem
  <2>3. QED BY <1>3, <2>1, <2>2
<1>5. ASSUME NEW d \in Desks, PublishItem(d) PROVE TriageInv'
  <2>1. /\ desk[d] # "idle" /\ desk' = [desk EXCEPT ![d] = "idle"] /\ UNCHANGED <<item, entry, ownerFound>>
        /\ asked' \in {asked, asked + 1}
    BY <1>5 DEF PublishItem
  <2>2. asked' \in {asked, asked - 1, asked + 1} /\ asked' \in Nat
    BY <1>0, <2>1
  <2>3. \E to \in {"idle", "publish", "ask"} : desk' = [desk EXCEPT ![d] = to]
    BY <2>1
  <2>4. QED BY <1>3, <2>1, <2>2, <2>3
<1>6. ASSUME NEW d \in Desks, AskItem(d) PROVE TriageInv'
  <2>1. PICK answer \in AiAnswers :
          LET res == Hybrid(t1, t2, OwnTier, answer) IN
          IF res.source = "fallback"
          THEN asked' = asked + 1 /\ desk' = [desk EXCEPT ![d] = "idle"] /\ UNCHANGED entry
          ELSE entry' = Answered(entry, res) /\ desk' = [desk EXCEPT ![d] = "publish"] /\ UNCHANGED asked
    BY <1>6 DEF AskItem
  <2> DEFINE res == Hybrid(t1, t2, OwnTier, answer)
  <2>2. desk[d] # "idle" /\ UNCHANGED <<item, ownerFound>> /\ open
    BY <1>0, <1>6 DEF AskItem
  <2>3. res.category = "quality" => AsksAi(t1, t2, OwnTier) /\ ~IsMetric(t1, t2)
    BY <2>2, JudgedByHybrid
  <2>4. CASE asked' = asked + 1 /\ desk' = [desk EXCEPT ![d] = "idle"] /\ UNCHANGED entry
    <3>1. asked' \in {asked, asked - 1, asked + 1} /\ asked' \in Nat
      BY <1>0, <2>4
    <3>2. \E to \in {"idle", "publish", "ask"} : desk' = [desk EXCEPT ![d] = to]
      BY <2>4
    <3>3. QED BY <1>3, <2>2, <2>4, <3>1, <3>2
  <2>5. CASE entry' = Answered(entry, res) /\ desk' = [desk EXCEPT ![d] = "publish"] /\ UNCHANGED asked
    <3> HIDE DEF res
    <3>1. /\ entry' = [times |-> entry'.times, category |-> entry'.category, feature |-> entry'.feature,
                       scale |-> entry'.scale, self |-> entry'.self, fallback |-> entry'.fallback]
          /\ entry'.category = res.category /\ entry'.fallback = TRUE /\ entry'.self = entry.self
      <4>1. entry = [times |-> entry.times, category |-> entry.category, feature |-> entry.feature,
                     scale |-> entry.scale, self |-> entry.self, fallback |-> entry.fallback]
        BY DEF TriageInv
      <4>5. \E x : Answered(entry, res) =
                     [times |-> entry.times, category |-> res.category, feature |-> x,
                      scale |-> entry.scale, self |-> entry.self, fallback |-> TRUE]
        BY <4>1, AnsweredShape, SMTT(30)
      <4>2. PICK x : entry' = [times |-> entry.times, category |-> res.category, feature |-> x,
                               scale |-> entry.scale, self |-> entry.self, fallback |-> TRUE]
        BY <2>5, <4>5, Zenon
      <4>3. /\ entry'.times = entry.times /\ entry'.category = res.category /\ entry'.feature = x
            /\ entry'.scale = entry.scale /\ entry'.self = entry.self /\ entry'.fallback = TRUE
        BY <4>2, Zenon
      <4>4. QED BY <4>2, <4>3, Zenon
    <3>2. ~IsJunk(t1, t2)
      BY <2>2 DEF OpenTags
    <3>6. entry'.self = entry.self /\ ownerFound' = ownerFound /\ (ownerFound => entry.self)
      BY <2>2, <3>1, Zenon DEF TriageInv
    <3>7. Scores' => ~ownerFound'
      BY <3>6, Zenon DEF Scores
    <3>8. entry'.category = "quality" =>
             /\ AsksAi(t1, t2, OwnTier) /\ entry'.fallback /\ ~Named("spam") /\ ~Named("metric")
             /\ ~Is(t1, "uuid") /\ ~(Named("digits") /\ \A i \in 1..2 : Is(item.tags[i], "digits"))
      BY <2>3, <3>1, <3>2, SoundTags, Zenon
    <3>9. item' = item /\ OwnTier' = OwnTier
      BY <2>2, Zenon DEF OwnTier
    <3>10. Named("spam")' = Named("spam") /\ Named("metric")' = Named("metric") /\ Named("digits")' = Named("digits")
      BY <3>9, Zenon DEF Named
    <3>3. OnlyJudgmentsScore'
      BY <3>7, <3>8, <3>9, <3>10, Zenon DEF OnlyJudgmentsScore
    <3>4. desk' = [e \in Desks |-> desk'[e]]
      BY <2>5 DEF TriageInv
    <3>5. QED BY <1>0, <2>2, <2>5, <3>1, <3>3, <3>4 DEF TriageInv
  <2>6. QED BY <2>1, <2>4, <2>5
<1>7. QED BY <1>1, <1>2, <1>4, <1>5, <1>6 DEF TriageNext

\* A row that is scored as a judgment is one, however the scale its tags have
\* changes between the processor, the message and the answer of the AI service.
THEOREM OnlyJudgmentsScoreHolds == TriageSpec => []OnlyJudgmentsScore
<1>1. TriageInv => OnlyJudgmentsScore
  BY DEF TriageInv
<1>2. QED BY <1>1, InitTriage, StepTriage, PTL DEF TriageSpec

-------------------------------------------------------------------------------
(* The composition.                                                            *)

\* A behaviour of the composed processor is one of each of its parts.
LEMMA PartsAsSpecified == ProcSpec => Spec /\ ScaleSpec /\ TriageSpec /\ DecoderSpec
<1>1. ProcInit => Init /\ ScaleInit /\ TriageInit /\ DecoderInit
  BY DEF ProcInit
<1>2. [ProcNext]_procVars =>
          [Next]_vars /\ [ScaleNext]_scaleVars /\ [TriageNext]_triageVars /\ [DecoderNext]_decoderVars
  BY DEF ProcNext, IdentityPart, ScalePart, TriagePart, DecoderPart, procVars
<1>3. QED BY <1>1, <1>2, PTL DEF ProcSpec, Spec, ScaleSpec, TriageSpec, DecoderSpec

\* What is proved of the parts holds of the processor.
COROLLARY ProcessorSafe ==
    ProcSpec => [](OneWallet /\ OwnerNotBehind /\ VotesFollowRows /\ OnlyJudgmentsScore /\ SlicesInBounds)
BY PartsAsSpecified, OneWalletHolds, OwnerNotBehindHolds, VotesFollowRowsHolds,
   OnlyJudgmentsScoreHolds, SlicesInBoundsHolds, PTL

===============================================================================
