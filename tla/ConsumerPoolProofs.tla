--------------------------- MODULE ConsumerPoolProofs --------------------------
(* Proofs about ConsumerPool for any number of queues, messages, workers and   *)
(* faults, any capacity of the jobs channel and either style.                  *)
EXTENDS ConsumerPool, TLAPS

-------------------------------------------------------------------------------
(* Who has a delivery in hand.                                                 *)

Hands == {"push", "handle", "settle"}
\* A reader that sends, handles or settles has a delivery, and so has a worker.
HandInv == /\ \A k \in Keys : reader[k] \in Hands => held[k] \in Delivery
           /\ \A w \in Workers : Busy(w) => task[w] \in Delivery

\* What settling a delivery does to the broker.
LEMMA SettleFacts ==
    ASSUME TypeOK, NEW d \in Delivery, NEW ok \in BOOLEAN, Settle(d, ok)
    PROVE  /\ ready' \in [Keys -> SUBSET Messages] /\ unacked' \in [Keys -> SUBSET Messages]
           /\ acked' \in SUBSET Messages
           /\ acked' = acked \/ (ok /\ acked' = acked \cup {d.msg})
<1>1. d.msg \in Messages /\ KeyOf[d.msg] \in Keys
  BY ParamsAssumption DEF Delivery
<1>2. CASE Live(d)
  <2>1. unacked' = [unacked EXCEPT ![KeyOf[d.msg]] = @ \ {d.msg}]
    BY <1>2 DEF Settle
  <2>2. CASE ok
    <3>1. acked' = acked \cup {d.msg} /\ ready' = ready
      BY <1>2, <2>2 DEF Settle
    <3>2. QED BY <1>1, <2>1, <2>2, <3>1 DEF TypeOK
  <2>3. CASE ~ok
    <3>1. ready' = [ready EXCEPT ![KeyOf[d.msg]] = @ \cup {d.msg}] /\ acked' = acked
      BY <1>2, <2>3 DEF Settle
    <3>2. QED BY <1>1, <2>1, <3>1 DEF TypeOK
  <2>4. QED BY <2>2, <2>3
<1>3. CASE ~Live(d)
  BY <1>3 DEF Settle, TypeOK, broker
<1>4. QED BY <1>2, <1>3

\* What a reader's channel leaves when it is closed.
LEMMA RequeueFacts ==
    ASSUME TypeOK, NEW k \in Keys, Requeue(k)
    PROVE  ready' \in [Keys -> SUBSET Messages] /\ unacked' \in [Keys -> SUBSET Messages] /\ acked' = acked
BY DEF Requeue, TypeOK

\* What a handler leaves, of reader or worker x.
LEMMA HandledFacts ==
    ASSUME TypeOK, NEW x \in Keys \cup Workers, NEW m \in Messages, Handled(x, m)
    PROVE  /\ stored' \in SUBSET Messages /\ stored \subseteq stored' /\ faults' \in Nat
           /\ verdict' \in [Keys \cup Workers -> BOOLEAN]
           /\ verdict'[x] => m \in stored'
           /\ \A y \in Keys \cup Workers : y # x => verdict'[y] = verdict[y]
           /\ stored' = stored \/ stored' = stored \cup {m}
<1>1. CASE stored' = stored \cup {m} /\ verdict' = [verdict EXCEPT ![x] = TRUE] /\ UNCHANGED faults
  BY <1>1 DEF TypeOK
<1>2. CASE Fault /\ verdict' = [verdict EXCEPT ![x] = FALSE] /\ UNCHANGED stored
  <2>1. faults' \in Nat
    BY <1>2 DEF Fault, TypeOK
  <2>2. QED BY <1>2, <2>1 DEF TypeOK
<1>3. QED BY <1>1, <1>2 DEF Handled

\* A process that starts or is gone is well typed.
LEMMA IdleFacts ==
    ASSUME NEW sty \in {"pool", "loop"}, NEW up \in BOOLEAN, Idle(sty, up)
    PROVE  /\ style' \in {"pool", "loop"} /\ alive' \in BOOLEAN /\ connUp' \in BOOLEAN /\ ctxDone' \in BOOLEAN
           /\ chan' \in [Keys -> {"none", "open", "cancelled", "lost"}]
           /\ buffered' \in [Keys -> SUBSET Delivery]
           /\ held' \in [Keys -> Delivery \cup {None}]
           /\ jobs' \in Seq(Delivery) /\ Len(jobs') <= BufSize /\ jobsOpen' \in BOOLEAN
           /\ worker' \in [Workers -> WorkerPc] /\ task' \in [Workers -> Delivery \cup {None}]
           /\ verdict' \in [Keys \cup Workers -> BOOLEAN]
           /\ \A w \in Workers : worker'[w] \notin {"handle", "settle"}
<1>1. jobs' \in Seq(Delivery) /\ Len(jobs') <= BufSize
  BY ParamsAssumption DEF Idle
<1>2. QED BY <1>1 DEF Idle, WorkerPc

\* The initial state is well typed.
LEMMA InitTyped == Init => TypeOK /\ HandInv
<1> SUFFICES ASSUME Init PROVE TypeOK /\ HandInv
  OBVIOUS
<1>1. jobs \in Seq(Delivery) /\ Len(jobs) <= BufSize
  BY ParamsAssumption DEF Init
<1>2. TypeOK
  BY <1>1 DEF Init, TypeOK, Of, ReaderPc, WorkerPc
<1>3. HandInv
  BY DEF Init, HandInv, Hands, Busy
<1>4. QED BY <1>2, <1>3

\* The readers' steps keep the types.
LEMMA ReaderTyped ==
    ASSUME TypeOK, HandInv, NEW k \in Keys, ReaderStep(k) \/ DrainDeadline(k)
    PROVE  TypeOK' /\ HandInv'
<1> USE DEF proc, broker, amqp, pool
<1>1. CASE EnsureReader(k)
  BY <1>1 DEF EnsureReader, TypeOK, HandInv, Hands, Busy, ReaderPc
<1>2. CASE OpenChannel(k)
  <2>1. /\ session' \in [Keys -> Nat] /\ chan' \in [Keys -> {"none", "open", "cancelled", "lost"}]
    <3>1. \/ session' = session /\ chan' = chan
          \/ session' = [session EXCEPT ![k] = @ + 1] /\ chan' = [chan EXCEPT ![k] = "open"]
      BY <1>2 DEF OpenChannel
    <3>2. session \in [Keys -> Nat] /\ chan \in [Keys -> {"none", "open", "cancelled", "lost"}]
      BY DEF TypeOK
    <3>3. CASE session' = session /\ chan' = chan
      BY <3>2, <3>3
    <3>4. CASE session' = [session EXCEPT ![k] = @ + 1] /\ chan' = [chan EXCEPT ![k] = "open"]
      BY <3>2, <3>4
    <3>5. QED BY <3>1, <3>3, <3>4
  <2>6. jobsOpen' \in BOOLEAN
    BY <1>2 DEF OpenChannel, TypeOK
  <2>2. /\ reader' \in [Keys -> ReaderPc]
        /\ \A j \in Keys : reader'[j] \in Hands => reader[j] \in Hands
    BY <1>2 DEF OpenChannel, TypeOK, ReaderPc, Hands
  <2>3. UNCHANGED <<proc, broker, buffered, held, jobs, worker, task, verdict, stored, faults>>
    BY <1>2 DEF OpenChannel
  <2>4. TypeOK'
    BY <2>1, <2>2, <2>3, <2>6 DEF TypeOK
  <2>5. QED BY <2>2, <2>3, <2>4 DEF HandInv, Busy
<1>3. CASE Backoff(k)
  BY <1>3 DEF Backoff, TypeOK, HandInv, Hands, Busy, ReaderPc
<1>4. CASE TakeDelivery(k)
  <2>1. PICK d \in buffered[k] :
          /\ buffered' = [buffered EXCEPT ![k] = @ \ {d}]
          /\ IF d.msg \in Malformed
             THEN Settle(d, TRUE) /\ UNCHANGED <<reader, held>>
             ELSE /\ held' = [held EXCEPT ![k] = d]
                  /\ reader' = [reader EXCEPT
                       ![k] = IF @ = "drain" /\ style = "pool" THEN "handle" ELSE "push"]
                  /\ UNCHANGED broker
    BY <1>4 DEF TakeDelivery
  <2>2. d \in Delivery
    BY <2>1 DEF TypeOK
  <2>3. CASE d.msg \in Malformed
    <3>1. Settle(d, TRUE) /\ UNCHANGED <<reader, held>>
      BY <2>1, <2>3
    <3>2. ready' \in [Keys -> SUBSET Messages] /\ unacked' \in [Keys -> SUBSET Messages] /\ acked' \in SUBSET Messages
      BY <2>2, <3>1, SettleFacts
    <3>3. QED BY <1>4, <2>1, <3>1, <3>2 DEF TakeDelivery, TypeOK, HandInv, Hands, Busy
  <2>4. CASE d.msg \notin Malformed
    <3>1. held' = [held EXCEPT ![k] = d] /\ UNCHANGED broker
      BY <2>1, <2>4
    <3>2. /\ reader' \in [Keys -> ReaderPc]
          /\ \A j \in Keys \ {k} : reader'[j] = reader[j]
      BY <2>1, <2>4 DEF TypeOK, ReaderPc
    <3>3. UNCHANGED <<proc, session, chan, pool, verdict, stored, faults>>
      BY <1>4 DEF TakeDelivery
    <3>4. TypeOK'
      BY <2>1, <2>2, <3>1, <3>2, <3>3 DEF TypeOK
    <3>5. HandInv'
      BY <2>2, <3>1, <3>2, <3>3 DEF TypeOK, HandInv, Busy
    <3>6. QED BY <3>4, <3>5
  <2>5. QED BY <2>3, <2>4
<1>5. CASE PushJob(k)
  <2>1. jobs' \in Seq(Delivery) /\ Len(jobs') <= BufSize
    BY <1>5, ParamsAssumption DEF PushJob, TypeOK, HandInv, Hands
  <2>2. QED BY <1>5, <2>1 DEF PushJob, TypeOK, HandInv, Hands, Busy, ReaderPc
<1>6. CASE PushCancelled(k)
  <2>1. held[k] \in Delivery
    BY <1>6 DEF PushCancelled, HandInv, Hands
  <2>2. ready' \in [Keys -> SUBSET Messages] /\ unacked' \in [Keys -> SUBSET Messages] /\ acked' \in SUBSET Messages
    <3>1. Settle(held[k], FALSE)
      BY <1>6 DEF PushCancelled
    <3>2. QED BY <2>1, <3>1, SettleFacts
  <2>3. QED BY <1>6, <2>2 DEF PushCancelled, Cancelled, TypeOK, HandInv, Hands, Busy, ReaderPc
<1>7. CASE CancelConsume(k)
  BY <1>7 DEF CancelConsume, Cancelled, TypeOK, HandInv, Hands, Busy, ReaderPc
<1>8. CASE DeliveriesClosed(k)
  BY <1>8 DEF DeliveriesClosed, LeaveLoop, TypeOK, HandInv, Hands, Busy, ReaderPc
<1>9. CASE DrainHandle(k)
  <2>1. /\ stored' \in SUBSET Messages /\ verdict' \in [Keys \cup Workers -> BOOLEAN]
        /\ faults' \in Nat
    <3>1. Handled(k, held[k].msg)
      BY <1>9 DEF DrainHandle
    <3>2. held[k].msg \in Messages
      BY <1>9 DEF DrainHandle, HandInv, Hands, Busy, Delivery
    <3>3. QED BY <3>1, <3>2, HandledFacts
  <2>2. QED BY <1>9, <2>1 DEF DrainHandle, TypeOK, HandInv, Hands, Busy, ReaderPc
<1>10. CASE DrainSettle(k)
  <2>1. held[k] \in Delivery /\ verdict[k] \in BOOLEAN
    BY <1>10 DEF DrainSettle, HandInv, Hands, TypeOK
  <2>2. ready' \in [Keys -> SUBSET Messages] /\ unacked' \in [Keys -> SUBSET Messages] /\ acked' \in SUBSET Messages
    <3>1. Settle(held[k], verdict[k])
      BY <1>10 DEF DrainSettle
    <3>2. QED BY <2>1, <3>1, SettleFacts
  <2>3. QED BY <1>10, <2>2 DEF DrainSettle, TypeOK, HandInv, Hands, Busy, ReaderPc
<1>11. CASE ReaderWait(k)
  BY <1>11, RequeueFacts DEF ReaderWait, TypeOK, HandInv, Hands, Busy, ReaderPc
<1>12. CASE DrainDeadline(k)
  <2>1. faults' \in Nat
    BY <1>12 DEF DrainDeadline, Fault, TypeOK
  <2>2. QED BY <1>12, <2>1 DEF DrainDeadline, LeaveLoop, TypeOK, HandInv, Hands, Busy, ReaderPc
<1>13. QED
  BY <1>1, <1>2, <1>3, <1>4, <1>5, <1>6, <1>7, <1>8, <1>9, <1>10, <1>11, <1>12 DEF ReaderStep

\* The workers' steps keep the types.
LEMMA WorkerTyped ==
    ASSUME TypeOK, HandInv, NEW w \in Workers, WorkerStep(w)
    PROVE  TypeOK' /\ HandInv'
<1> USE DEF proc, broker, amqp, pool
<1>1. CASE WorkerTake(w)
  <2>1. Head(jobs) \in Delivery /\ jobs' \in Seq(Delivery) /\ Len(jobs') <= BufSize
    BY <1>1, ParamsAssumption DEF WorkerTake, TypeOK
  <2>2. QED BY <1>1, <2>1 DEF WorkerTake, TypeOK, HandInv, Hands, Busy, WorkerPc
<1>2. CASE WorkerExit(w)
  BY <1>2 DEF WorkerExit, TypeOK, HandInv, Hands, Busy, WorkerPc
<1>3. CASE WorkerHandle(w)
  <2>1. /\ stored' \in SUBSET Messages /\ verdict' \in [Keys \cup Workers -> BOOLEAN]
        /\ faults' \in Nat
    <3>1. Handled(w, task[w].msg)
      BY <1>3 DEF WorkerHandle
    <3>2. task[w].msg \in Messages
      BY <1>3 DEF WorkerHandle, HandInv, Hands, Busy, Delivery
    <3>3. QED BY <3>1, <3>2, HandledFacts
  <2>2. QED BY <1>3, <2>1 DEF WorkerHandle, TypeOK, HandInv, Hands, Busy, WorkerPc
<1>4. CASE WorkerSettle(w)
  <2>1. task[w] \in Delivery /\ verdict[w] \in BOOLEAN
    BY <1>4 DEF WorkerSettle, HandInv, Busy, TypeOK
  <2>2. ready' \in [Keys -> SUBSET Messages] /\ unacked' \in [Keys -> SUBSET Messages] /\ acked' \in SUBSET Messages
    <3>1. Settle(task[w], verdict[w])
      BY <1>4 DEF WorkerSettle
    <3>2. QED BY <2>1, <3>1, SettleFacts
  <2>3. QED BY <1>4, <2>2 DEF WorkerSettle, TypeOK, HandInv, Hands, Busy, WorkerPc
<1>5. QED
  BY <1>1, <1>2, <1>3, <1>4 DEF WorkerStep

\* A process that is gone, or started, keeps the types.
LEMMA ProcessTyped ==
    ASSUME TypeOK, HandInv, Stop \/ Exit \/ Crash \/ Restart \/ CloseJobs
    PROVE  TypeOK' /\ HandInv'
<1> USE DEF proc, broker, amqp, pool
<1>1. ASSUME Gone, faults' \in Nat PROVE TypeOK' /\ HandInv'
  <2>1. Idle(style, FALSE) /\ style \in {"pool", "loop"}
    BY <1>1 DEF Gone, TypeOK
  <2>2. /\ ready' \in [Keys -> SUBSET Messages] /\ unacked' \in [Keys -> SUBSET Messages]
        /\ reader' = [k \in Keys |-> "none"] /\ UNCHANGED <<acked, session, stored>>
    BY <1>1 DEF Gone, TypeOK
  <2>3. TypeOK'
    BY <1>1, <2>1, <2>2, IdleFacts DEF TypeOK, ReaderPc
  <2>4. HandInv'
    BY <2>1, <2>2, IdleFacts DEF HandInv, Hands, Busy
  <2>5. QED BY <2>3, <2>4
<1>2. CASE Restart
  <2>1. PICK sty \in {"pool", "loop"} : Idle(sty, TRUE)
    BY <1>2 DEF Restart
  <2>2. reader' \in [Keys -> {"none", "open"}] /\ UNCHANGED <<ready, unacked, acked, session, stored>>
    BY <1>2 DEF Restart
  <2>3. faults' \in Nat
    BY <1>2 DEF Restart, Fault, TypeOK
  <2>4. TypeOK'
    BY <2>1, <2>2, <2>3, IdleFacts DEF TypeOK, ReaderPc
  <2>5. HandInv'
    BY <2>1, <2>2, IdleFacts DEF HandInv, Hands, Busy
  <2>6. QED BY <2>4, <2>5
<1>3. CASE Stop
  BY <1>3 DEF Stop, TypeOK, HandInv, Hands, Busy
<1>4. CASE CloseJobs
  BY <1>4 DEF CloseJobs, TypeOK, HandInv, Hands, Busy
<1>5. CASE Exit
  BY <1>1, <1>5 DEF Exit, TypeOK
<1>6. CASE Crash
  <2>1. faults' \in Nat
    BY <1>6 DEF Crash, Fault, TypeOK
  <2>2. QED BY <1>1, <1>6, <2>1 DEF Crash
<1>7. QED BY <1>2, <1>3, <1>4, <1>5, <1>6

\* The broker's steps keep the types.
LEMMA BrokerTyped ==
    ASSUME TypeOK, HandInv, ConnectionLost \/ \E k \in Keys : Deliver(k) \/ ChannelLost(k)
    PROVE  TypeOK' /\ HandInv'
<1> USE DEF proc, broker, amqp, pool
<1>1. ASSUME NEW k \in Keys, Deliver(k) PROVE TypeOK' /\ HandInv'
  <2>1. PICK m \in ready[k] :
          /\ ready' = [ready EXCEPT ![k] = @ \ {m}]
          /\ unacked' = [unacked EXCEPT ![k] = @ \cup {m}]
          /\ buffered' = [buffered EXCEPT ![k] = @ \cup {[msg |-> m, session |-> session[k]]}]
    BY <1>1 DEF Deliver
  <2>2. m \in Messages /\ [msg |-> m, session |-> session[k]] \in Delivery
    BY <2>1 DEF TypeOK, Delivery
  <2>3. QED BY <1>1, <2>1, <2>2 DEF Deliver, TypeOK, HandInv, Hands, Busy
<1>2. ASSUME NEW k \in Keys, ChannelLost(k) PROVE TypeOK' /\ HandInv'
  <2>1. faults' \in Nat
    BY <1>2 DEF ChannelLost, Fault, TypeOK
  <2>2. buffered' \in [Keys -> SUBSET Delivery]
    BY <1>2 DEF ChannelLost, TypeOK
  <2>3. QED BY <1>2, <2>1, <2>2, RequeueFacts DEF ChannelLost, TypeOK, HandInv, Hands, Busy
<1>3. CASE ConnectionLost
  <2>1. faults' \in Nat
    BY <1>3 DEF ConnectionLost, Fault, TypeOK
  <2>2. buffered' \in [Keys -> SUBSET Delivery]
    <3>1. PICK left \in [Keys -> SUBSET UNION {buffered[k] : k \in Keys}] :
            /\ \A k \in Keys : left[k] \subseteq buffered[k]
            /\ buffered' = left
      BY <1>3 DEF ConnectionLost
    <3>2. QED BY <3>1 DEF TypeOK
  <2>3. ready' \in [Keys -> SUBSET Messages] /\ unacked' \in [Keys -> SUBSET Messages]
    BY <1>3 DEF ConnectionLost, TypeOK
  <2>4. QED BY <1>3, <2>1, <2>2, <2>3 DEF ConnectionLost, TypeOK, HandInv, Hands, Busy
<1>4. QED BY <1>1, <1>2, <1>3

\* Every step keeps the types.
LEMMA TypedStep ==
    ASSUME TypeOK, HandInv, [Next]_vars
    PROVE  TypeOK' /\ HandInv'
<1>1. CASE Next
  BY <1>1, ReaderTyped, WorkerTyped, ProcessTyped, BrokerTyped DEF Next
<1>2. CASE UNCHANGED vars
  BY <1>2 DEF vars, proc, broker, amqp, pool, TypeOK, HandInv, Hands, Busy
<1>3. QED BY <1>1, <1>2

\* Every reachable state of a consumer process is well typed, and whoever is to
\* handle or settle a delivery has one in hand.
THEOREM TypeCorrect == Spec => [](TypeOK /\ HandInv)
<1>1. Init => TypeOK /\ HandInv
  BY InitTyped
<1>2. TypeOK /\ HandInv /\ [Next]_vars => (TypeOK /\ HandInv)'
  BY TypedStep
<1>3. QED BY <1>1, <1>2, PTL DEF Spec

-------------------------------------------------------------------------------
(* The jobs channel and its senders.                                           *)

\* A loop has one reader, which closes the channel as it ends.  A pool closes it
\* after the stop when no reader is counted; one registered meanwhile is counted
\* later, but looks at the context before it takes anything.
OneLoop == style = "loop" /\ alive =>
              \A j, k \in Keys : reader[j] # "none" /\ reader[k] # "none" => j = k
Silent == IF style = "pool"
          THEN ctxDone /\ \A k \in Keys : reader[k] \in {"none", "starting", "open", "exited"}
          ELSE \A k \in Keys : reader[k] \in {"none", "exited"}
CloseInv == OneLoop /\ (alive /\ ~jobsOpen => Silent)

\* A reader's step moves no other reader.
LEMMA OneReaderMoves ==
    ASSUME TypeOK, NEW k \in Keys, ReaderStep(k) \/ DrainDeadline(k)
    PROVE  /\ \A j \in Keys \ {k} : reader'[j] = reader[j]
           /\ UNCHANGED proc /\ alive
<1> USE DEF TypeOK
<1>1. CASE EnsureReader(k) \/ OpenChannel(k) \/ Backoff(k) \/ PushJob(k)
  <2>1. reader \in [Keys -> ReaderPc]
    OBVIOUS
  <2>2. \E pc \in ReaderPc : reader' = [reader EXCEPT ![k] = pc]
    BY <1>1 DEF EnsureReader, OpenChannel, Backoff, PushJob, ReaderPc
  <2>3. UNCHANGED proc /\ alive
    BY <1>1 DEF EnsureReader, OpenChannel, Backoff, PushJob
  <2>4. QED BY <2>1, <2>2, <2>3
<1>2. CASE TakeDelivery(k)
  BY <1>2 DEF TakeDelivery
<1>3. CASE PushCancelled(k) \/ CancelConsume(k) \/ DrainHandle(k) \/ DrainSettle(k) \/ ReaderWait(k)
  BY <1>3 DEF PushCancelled, CancelConsume, DrainHandle, DrainSettle, ReaderWait
<1>4. CASE DeliveriesClosed(k) \/ DrainDeadline(k)
  BY <1>4 DEF DeliveriesClosed, DrainDeadline, LeaveLoop
<1>5. QED BY <1>1, <1>2, <1>3, <1>4 DEF ReaderStep

\* A reader that runs while the channel is closed is on its way out.
LEMMA ClosedReader ==
    ASSUME TypeOK, CloseInv, NEW k \in Keys, ReaderStep(k) \/ DrainDeadline(k)
    PROVE  CloseInv'
<1>1. /\ \A j \in Keys \ {k} : reader'[j] = reader[j]
      /\ UNCHANGED proc /\ alive
  BY OneReaderMoves
<1>2. style \in {"pool", "loop"} /\ reader \in [Keys -> ReaderPc]
  BY DEF TypeOK
<1>3. CASE EnsureReader(k)
  BY <1>1, <1>2, <1>3 DEF EnsureReader, CloseInv, OneLoop, Silent, proc, pool
<1>4. CASE OpenChannel(k)
  <2>1. OneLoop'
    BY <1>1, <1>2, <1>4 DEF OpenChannel, CloseInv, OneLoop, proc
  <2>2. ASSUME ~jobsOpen' PROVE Silent'
    <3>1. CASE jobsOpen
      <4>1. style = "loop" /\ reader' = [reader EXCEPT ![k] = "exited"]
        BY <1>2, <1>4, <2>2, <3>1 DEF OpenChannel
      <4>2. \A j \in Keys \ {k} : reader[j] = "none"
        BY <1>1, <1>4, <4>1 DEF OpenChannel, CloseInv, OneLoop
      <4>3. QED BY <1>1, <1>2, <4>1, <4>2 DEF Silent, proc
    <3>2. CASE ~jobsOpen
      <4>1. Silent
        BY <1>1, <3>2 DEF CloseInv
      <4>2. style = "pool" /\ ctxDone
        BY <1>2, <1>4, <4>1 DEF OpenChannel, Silent
      <4>3. reader' = [reader EXCEPT ![k] = "exited"]
        BY <1>4, <4>2 DEF OpenChannel
      <4>4. QED BY <1>1, <1>2, <4>1, <4>2, <4>3 DEF Silent, proc
    <3>3. QED BY <3>1, <3>2
  <2>3. QED BY <2>1, <2>2 DEF CloseInv
<1>5. ASSUME DeliveriesClosed(k) \/ DrainDeadline(k) PROVE CloseInv'
  <2>1. reader[k] \in {"consume", "drain"} /\ LeaveLoop(k)
    BY <1>5 DEF DeliveriesClosed, DrainDeadline
  <2>2. jobsOpen
    BY <1>1, <1>2, <2>1 DEF CloseInv, Silent
  <2>3. OneLoop'
    BY <1>1, <1>2, <2>1 DEF CloseInv, OneLoop, proc
  <2>4. ASSUME ~jobsOpen' PROVE Silent'
    <3>1. style = "loop" /\ reader' = [reader EXCEPT ![k] = "exited"]
      BY <1>2, <2>1, <2>2, <2>4 DEF LeaveLoop
    <3>2. \A j \in Keys \ {k} : reader[j] = "none"
      BY <1>1, <2>1, <3>1 DEF CloseInv, OneLoop
    <3>3. QED BY <1>1, <1>2, <3>1, <3>2 DEF Silent, proc
  <2>5. QED BY <2>3, <2>4 DEF CloseInv
<1>6. ASSUME reader[k] \notin {"none", "starting", "open", "exited"}, UNCHANGED jobsOpen
      PROVE  CloseInv'
  <2>1. jobsOpen
    BY <1>1, <1>2, <1>6 DEF CloseInv, Silent
  <2>2. OneLoop'
    BY <1>1, <1>2, <1>6 DEF CloseInv, OneLoop, proc
  <2>3. QED BY <1>6, <2>1, <2>2 DEF CloseInv
<1>7. CASE Backoff(k) \/ TakeDelivery(k) \/ PushJob(k) \/ PushCancelled(k) \/ CancelConsume(k)
  BY <1>6, <1>7 DEF Backoff, TakeDelivery, PushJob, PushCancelled, CancelConsume, pool
<1>8. CASE DrainHandle(k) \/ DrainSettle(k) \/ ReaderWait(k)
  BY <1>6, <1>8 DEF DrainHandle, DrainSettle, ReaderWait, pool
<1>9. QED BY <1>3, <1>4, <1>5, <1>7, <1>8 DEF ReaderStep

\* The channel is closed with no sender left, whatever the others do.
LEMMA CloseStep == TypeOK /\ CloseInv /\ [Next]_vars => CloseInv'
<1> SUFFICES ASSUME TypeOK, CloseInv, [Next]_vars PROVE CloseInv'
  OBVIOUS
<1> USE DEF CloseInv, OneLoop, Silent, proc, pool
<1>1. ASSUME NEW k \in Keys, ReaderStep(k) \/ DrainDeadline(k) PROVE CloseInv'
  BY <1>1, ClosedReader
<1>2. ASSUME NEW k \in Keys, Deliver(k) \/ ChannelLost(k) PROVE CloseInv'
  BY <1>2 DEF Deliver, ChannelLost
<1>3. ASSUME NEW w \in Workers, WorkerStep(w) PROVE CloseInv'
  BY <1>3 DEF WorkerStep, WorkerTake, WorkerExit, WorkerHandle, WorkerSettle
<1>4. CASE CloseJobs
  BY <1>4 DEF CloseJobs, Running, TypeOK, ReaderPc
<1>5. CASE ConnectionLost
  BY <1>5 DEF ConnectionLost
<1>6. CASE Stop
  BY <1>6 DEF Stop
<1>7. CASE Exit \/ Crash
  BY <1>7 DEF Exit, Crash, Gone, Idle
<1>8. CASE Restart
  BY <1>8 DEF Restart, Idle
<1>9. CASE UNCHANGED vars
  BY <1>9 DEF vars
<1>10. QED BY <1>1, <1>2, <1>3, <1>4, <1>5, <1>6, <1>7, <1>8, <1>9 DEF Next

\* No reader ever sends on a closed jobs channel, however a stop, readers
\* registered late, lost channels and restarts follow each other.
THEOREM NoSendAfterCloseHolds == Spec => []NoSendAfterClose
<1>1. Init => CloseInv
  BY DEF Init, CloseInv, OneLoop
<1>2. CloseInv => NoSendAfterClose
  BY DEF CloseInv, Silent, NoSendAfterClose
<1>3. QED BY <1>1, <1>2, CloseStep, TypeCorrect, PTL DEF Spec

-------------------------------------------------------------------------------
(* The consumer implements WorkQueue.                                          *)

\* Whoever has a delivery in hand has one that decodes, and a verdict to
\* acknowledge it stands for a write that was made.
ReaderInv(k) == /\ reader[k] \in Hands => held[k].msg \notin Malformed
                /\ reader[k] = "settle" /\ verdict[k] => held[k].msg \in stored
WorkerInv(w) == /\ Busy(w) => task[w].msg \notin Malformed
                /\ worker[w] = "settle" /\ verdict[w] => task[w].msg \in stored
EffectInv == /\ acked \subseteq stored \cup Malformed
             /\ \A k \in Keys : ReaderInv(k)
             /\ \A i \in DOMAIN jobs : jobs[i].msg \notin Malformed
             /\ \A w \in Workers : WorkerInv(w)

\* Steps that settle nothing and handle nothing, seen by the queue, are none.
LEMMA NoEffect ==
    ASSUME UNCHANGED <<acked, stored>>
    PROVE  [Queue!Next]_<<Messages \ acked, stored>>
OBVIOUS

\* A delivery that leaves with its effect made is taken from the queue.
LEMMA SettledEffect ==
    ASSUME TypeOK, EffectInv, NEW d \in Delivery, NEW ok \in BOOLEAN, Settle(d, ok), UNCHANGED stored,
           ok => d.msg \in stored \cup Malformed
    PROVE  /\ acked' \subseteq stored' \cup Malformed
           /\ [Queue!Next]_<<Messages \ acked, stored>>
<1>1. acked' = acked \/ (ok /\ acked' = acked \cup {d.msg})
  BY SettleFacts
<1>2. d.msg \in Messages
  BY DEF Delivery
<1>3. CASE acked' = acked
  BY <1>3, NoEffect DEF EffectInv
<1>4. CASE ok /\ acked' = acked \cup {d.msg}
  <2>1. acked' \subseteq stored' \cup Malformed
    BY <1>4 DEF EffectInv
  <2>2. CASE d.msg \in acked
    BY <1>4, <2>1, <2>2, NoEffect
  <2>3. CASE d.msg \notin acked
    <3>1. Queue!Remove(d.msg)
      BY <1>2, <1>4, <2>3 DEF Queue!Remove
    <3>2. QED BY <1>2, <2>1, <3>1 DEF Queue!Next
  <2>4. QED BY <2>1, <2>2, <2>3
<1>5. QED BY <1>1, <1>3, <1>4

\* A handler stores what is still in the queue, or what it has stored before.
LEMMA HandledEffect ==
    ASSUME TypeOK, EffectInv, NEW x \in Keys \cup Workers, NEW m \in Messages \ Malformed,
           Handled(x, m), UNCHANGED acked
    PROVE  [Queue!Next]_<<Messages \ acked, stored>>
<1>1. stored' = stored \/ stored' = stored \cup {m}
  BY HandledFacts
<1>2. CASE stored' = stored
  BY <1>2, NoEffect
<1>3. CASE stored' = stored \cup {m} /\ m \in acked
  <2>1. m \in stored
    BY <1>3 DEF EffectInv
  <2>2. QED BY <1>3, <2>1, NoEffect
<1>4. CASE stored' = stored \cup {m} /\ m \notin acked
  <2>1. Queue!Store(m)
    BY <1>4 DEF Queue!Store
  <2>2. QED BY <2>1 DEF Queue!Next
<1>5. QED BY <1>1, <1>2, <1>3, <1>4

\* The readers keep EffectInv and step the queue or leave it.
LEMMA ReaderEffect ==
    ASSUME TypeOK, HandInv, EffectInv, NEW k \in Keys, ReaderStep(k) \/ DrainDeadline(k)
    PROVE  EffectInv' /\ [Queue!Next]_<<Messages \ acked, stored>>
<1> USE DEF proc, broker, amqp, pool
<1>1. /\ \A j \in Keys \ {k} : reader'[j] = reader[j]
      /\ UNCHANGED proc /\ alive
  BY OneReaderMoves
<1>2. ASSUME \/ EnsureReader(k) \/ OpenChannel(k) \/ Backoff(k) \/ CancelConsume(k) \/ DeliveriesClosed(k)
             \/ DrainDeadline(k) \/ ReaderWait(k)
      PROVE  EffectInv' /\ [Queue!Next]_<<Messages \ acked, stored>>
  <2>1. UNCHANGED <<acked, stored, held, jobs, worker, task, verdict>>
    BY <1>2, RequeueFacts DEF EnsureReader, OpenChannel, Backoff, CancelConsume, DeliveriesClosed,
         DrainDeadline, ReaderWait
  <2>2. reader'[k] \notin Hands
    BY <1>2 DEF EnsureReader, OpenChannel, Backoff, CancelConsume, DeliveriesClosed,
         DrainDeadline, LeaveLoop, ReaderWait, Hands, TypeOK
  <2>3. EffectInv'
    BY <1>1, <2>1, <2>2 DEF EffectInv, ReaderInv, WorkerInv, Busy, Hands
  <2>4. QED BY <2>1, <2>3, NoEffect
<1>3. CASE TakeDelivery(k)
  <2>1. PICK d \in buffered[k] :
          IF d.msg \in Malformed
          THEN Settle(d, TRUE) /\ UNCHANGED <<reader, held>>
          ELSE /\ held' = [held EXCEPT ![k] = d]
               /\ reader' = [reader EXCEPT
                    ![k] = IF @ = "drain" /\ style = "pool" THEN "handle" ELSE "push"]
               /\ UNCHANGED broker
    BY <1>3 DEF TakeDelivery
  <2>2. d \in Delivery
    BY <2>1 DEF TypeOK
  <2>3. UNCHANGED <<stored, jobs, worker, task, verdict>>
    BY <1>3 DEF TakeDelivery
  <2>4. CASE d.msg \in Malformed
    <3>1. Settle(d, TRUE) /\ UNCHANGED <<reader, held>>
      BY <2>1, <2>4
    <3>2. /\ acked' \subseteq stored' \cup Malformed
          /\ [Queue!Next]_<<Messages \ acked, stored>>
      BY <2>2, <2>3, <2>4, <3>1, SettledEffect
    <3>3. EffectInv'
      BY <2>3, <3>1, <3>2 DEF EffectInv, ReaderInv, WorkerInv, Busy
    <3>4. QED BY <3>2, <3>3
  <2>5. CASE d.msg \notin Malformed
    <3>1. /\ held' = [held EXCEPT ![k] = d] /\ UNCHANGED acked
          /\ reader'[k] # "settle"
      BY <2>1, <2>5 DEF TypeOK
    <3>2. \A j \in Keys : ReaderInv(j)'
      BY <1>1, <2>3, <2>5, <3>1 DEF EffectInv, ReaderInv, TypeOK
    <3>3. EffectInv'
      BY <2>3, <3>1, <3>2 DEF EffectInv, WorkerInv, Busy
    <3>4. QED BY <2>3, <3>1, <3>3, NoEffect
  <2>6. QED BY <2>4, <2>5
<1>4. CASE PushJob(k)
  <2>1. /\ UNCHANGED <<acked, stored, worker, task, verdict>>
        /\ jobs' = Append(jobs, held[k]) /\ held' = [held EXCEPT ![k] = None]
        /\ reader'[k] \notin Hands
    BY <1>4 DEF PushJob, TypeOK, Hands
  <2>2. held[k].msg \notin Malformed /\ held[k] \in Delivery
    BY <1>4 DEF PushJob, EffectInv, ReaderInv, HandInv, Hands
  <2>3. \A i \in DOMAIN jobs' : jobs'[i].msg \notin Malformed
    BY <2>1, <2>2 DEF EffectInv, TypeOK
  <2>4. EffectInv'
    BY <1>1, <2>1, <2>3 DEF EffectInv, ReaderInv, WorkerInv, Busy, Hands, TypeOK
  <2>5. QED BY <2>1, <2>4, NoEffect
<1>5. CASE PushCancelled(k)
  <2>1. /\ UNCHANGED <<stored, jobs, worker, task, verdict>> /\ Settle(held[k], FALSE)
        /\ held' = [held EXCEPT ![k] = None] /\ reader'[k] \notin Hands /\ held[k] \in Delivery
    BY <1>5 DEF PushCancelled, TypeOK, HandInv, Hands
  <2>2. /\ acked' \subseteq stored' \cup Malformed
        /\ [Queue!Next]_<<Messages \ acked, stored>>
    BY <2>1, SettledEffect
  <2>3. EffectInv'
    BY <1>1, <2>1, <2>2 DEF EffectInv, ReaderInv, WorkerInv, Busy, Hands, TypeOK
  <2>4. QED BY <2>2, <2>3
<1>6. CASE DrainHandle(k)
  <2>1. /\ UNCHANGED <<acked, held, jobs, worker, task>> /\ Handled(k, held[k].msg)
        /\ held[k].msg \in Messages \ Malformed
    BY <1>6 DEF DrainHandle, EffectInv, ReaderInv, HandInv, Hands, Delivery
  <2>2. /\ stored \subseteq stored' /\ (verdict'[k] => held[k].msg \in stored')
        /\ \A y \in Keys \cup Workers : y # k => verdict'[y] = verdict[y]
    BY <2>1, HandledFacts
  <2>3. [Queue!Next]_<<Messages \ acked, stored>>
    BY <2>1, HandledEffect
  <2>4. \A w \in Workers : WorkerInv(w)'
    BY <2>1, <2>2, ParamsAssumption DEF EffectInv, WorkerInv, Busy
  <2>5. \A j \in Keys : ReaderInv(j)'
    BY <1>1, <2>1, <2>2 DEF EffectInv, ReaderInv
  <2>6. QED BY <2>1, <2>2, <2>3, <2>4, <2>5 DEF EffectInv
<1>7. CASE DrainSettle(k)
  <2>1. /\ UNCHANGED <<stored, jobs, worker, task, verdict>> /\ Settle(held[k], verdict[k])
        /\ held' = [held EXCEPT ![k] = None] /\ reader'[k] \notin Hands /\ held[k] \in Delivery
        /\ verdict[k] \in BOOLEAN /\ (verdict[k] => held[k].msg \in stored \cup Malformed)
    BY <1>7 DEF DrainSettle, TypeOK, HandInv, Hands, EffectInv, ReaderInv
  <2>2. /\ acked' \subseteq stored' \cup Malformed
        /\ [Queue!Next]_<<Messages \ acked, stored>>
    BY <2>1, SettledEffect
  <2>3. EffectInv'
    BY <1>1, <2>1, <2>2 DEF EffectInv, ReaderInv, WorkerInv, Busy, Hands, TypeOK
  <2>4. QED BY <2>2, <2>3
<1>8. QED BY <1>2, <1>3, <1>4, <1>5, <1>6, <1>7 DEF ReaderStep

\* The workers do the same.
LEMMA WorkerEffect ==
    ASSUME TypeOK, HandInv, EffectInv, NEW w \in Workers, WorkerStep(w)
    PROVE  EffectInv' /\ [Queue!Next]_<<Messages \ acked, stored>>
<1> USE DEF proc, broker, amqp, pool
<1>1. CASE WorkerTake(w)
  <2>1. /\ UNCHANGED <<acked, stored, reader, held, verdict>> /\ jobs # <<>>
        /\ task' = [task EXCEPT ![w] = Head(jobs)] /\ jobs' = Tail(jobs)
        /\ worker' = [worker EXCEPT ![w] = "handle"]
    BY <1>1 DEF WorkerTake
  <2>2. /\ Head(jobs).msg \notin Malformed
        /\ \A i \in DOMAIN jobs' : jobs'[i].msg \notin Malformed
    BY <2>1 DEF EffectInv, TypeOK
  <2>3. \A v \in Workers : WorkerInv(v)'
    BY <2>1, <2>2 DEF EffectInv, WorkerInv, Busy, TypeOK
  <2>4. EffectInv'
    BY <2>1, <2>2, <2>3 DEF EffectInv, ReaderInv
  <2>5. QED BY <2>1, <2>4, NoEffect
<1>2. CASE WorkerExit(w)
  <2>1. UNCHANGED <<acked, stored, reader, held, verdict, jobs, task>> /\ worker' = [worker EXCEPT ![w] = "gone"]
    BY <1>2 DEF WorkerExit
  <2>2. EffectInv'
    BY <2>1 DEF EffectInv, ReaderInv, WorkerInv, Busy, TypeOK
  <2>3. QED BY <2>1, <2>2, NoEffect
<1>3. CASE WorkerHandle(w)
  <2>1. /\ UNCHANGED <<acked, reader, held, jobs, task>> /\ Handled(w, task[w].msg)
        /\ task[w].msg \in Messages \ Malformed /\ worker' = [worker EXCEPT ![w] = "settle"]
    BY <1>3 DEF WorkerHandle, EffectInv, WorkerInv, HandInv, Busy, Delivery
  <2>2. /\ stored \subseteq stored' /\ (verdict'[w] => task[w].msg \in stored')
        /\ \A y \in Keys \cup Workers : y # w => verdict'[y] = verdict[y]
    BY <2>1, HandledFacts
  <2>3. [Queue!Next]_<<Messages \ acked, stored>>
    BY <2>1, HandledEffect
  <2>4. \A k \in Keys : ReaderInv(k)'
    BY <2>1, <2>2, ParamsAssumption DEF EffectInv, ReaderInv
  <2>5. \A v \in Workers : WorkerInv(v)'
    BY <2>1, <2>2 DEF EffectInv, WorkerInv, Busy, TypeOK
  <2>6. QED BY <2>1, <2>2, <2>3, <2>4, <2>5 DEF EffectInv
<1>4. CASE WorkerSettle(w)
  <2>1. /\ UNCHANGED <<stored, reader, held, jobs, verdict>> /\ Settle(task[w], verdict[w])
        /\ task' = [task EXCEPT ![w] = None] /\ worker' = [worker EXCEPT ![w] = "idle"]
        /\ task[w] \in Delivery
        /\ verdict[w] \in BOOLEAN /\ (verdict[w] => task[w].msg \in stored \cup Malformed)
    BY <1>4 DEF WorkerSettle, TypeOK, HandInv, Busy, EffectInv, WorkerInv
  <2>2. /\ acked' \subseteq stored' \cup Malformed
        /\ [Queue!Next]_<<Messages \ acked, stored>>
    BY <2>1, SettledEffect
  <2>3. EffectInv'
    BY <2>1, <2>2 DEF EffectInv, ReaderInv, WorkerInv, Busy, TypeOK
  <2>4. QED BY <2>2, <2>3
<1>5. QED BY <1>1, <1>2, <1>3, <1>4 DEF WorkerStep

\* Every step keeps EffectInv and is a step of the queue or none.
LEMMA EffectStep ==
    ASSUME TypeOK, HandInv, EffectInv, [Next]_vars
    PROVE  EffectInv' /\ [Queue!Next]_<<Messages \ acked, stored>>
<1> USE DEF proc, broker, amqp, pool
<1>1. ASSUME NEW k \in Keys, ReaderStep(k) \/ DrainDeadline(k)
      PROVE  EffectInv' /\ [Queue!Next]_<<Messages \ acked, stored>>
  BY <1>1, ReaderEffect
<1>2. ASSUME NEW w \in Workers, WorkerStep(w)
      PROVE  EffectInv' /\ [Queue!Next]_<<Messages \ acked, stored>>
  BY <1>2, WorkerEffect
<1>3. ASSUME UNCHANGED <<acked, stored, reader, held, jobs, worker, task, verdict>>
      PROVE  EffectInv' /\ [Queue!Next]_<<Messages \ acked, stored>>
  <2>1. EffectInv'
    BY <1>3 DEF EffectInv, ReaderInv, WorkerInv, Busy
  <2>2. QED BY <1>3, <2>1, NoEffect
<1>4. ASSUME NEW k \in Keys, Deliver(k) \/ ChannelLost(k)
      PROVE  EffectInv' /\ [Queue!Next]_<<Messages \ acked, stored>>
  BY <1>3, <1>4, RequeueFacts DEF Deliver, ChannelLost
<1>5. CASE ConnectionLost \/ Stop \/ CloseJobs \/ UNCHANGED vars
  BY <1>3, <1>5 DEF ConnectionLost, Stop, CloseJobs, vars
<1>6. ASSUME UNCHANGED <<acked, stored>>, jobs' = <<>>, NEW up \in BOOLEAN,
             reader' \in [Keys -> {"none", "open"}],
             worker' = [w \in Workers |-> IF up THEN "idle" ELSE "gone"]
      PROVE  EffectInv' /\ [Queue!Next]_<<Messages \ acked, stored>>
  <2>1. EffectInv'
    BY <1>6 DEF EffectInv, ReaderInv, WorkerInv, Busy, Hands
  <2>2. QED BY <1>6, <2>1, NoEffect
<1>7. CASE Exit \/ Crash
  BY <1>6, <1>7 DEF Exit, Crash, Gone, Idle
<1>8. CASE Restart
  <2>1. UNCHANGED <<acked, stored>> /\ jobs' = <<>> /\ worker' = [w \in Workers |-> IF TRUE THEN "idle" ELSE "gone"]
    BY <1>8 DEF Restart, Idle
  <2>2. reader' \in [Keys -> {"none", "open"}]
    <3>1. CASE reader' = [k \in Keys |-> "none"]
      BY <3>1
    <3>2. CASE \E one \in Keys : reader' = [k \in Keys |-> IF k = one THEN "open" ELSE "none"]
      BY <3>2
    <3>3. QED BY <1>8, <3>1, <3>2 DEF Restart
  <2>3. QED BY <1>6, <2>1, <2>2
<1>9. QED BY <1>1, <1>2, <1>4, <1>5, <1>7, <1>8 DEF Next

\* A consumer process in either style, with whatever restarts, lost channels and
\* failed writes, is an at-least-once queue in front of its handler.
THEOREM ConsumerPoolImplementsWorkQueue == Spec => QueueSpec
<1>1. Init => EffectInv /\ Queue!Init
  <2>1. Init => EffectInv
    BY DEF Init, EffectInv, ReaderInv, WorkerInv, Hands, Busy
  <2>2. Init => Queue!Init
    BY DEF Init, Queue!Init
  <2>3. QED BY <2>1, <2>2
<1>2. TypeOK /\ HandInv /\ EffectInv /\ [Next]_vars => EffectInv' /\ [Queue!Next]_<<Messages \ acked, stored>>
  BY EffectStep
<1>3. QED BY <1>1, <1>2, TypeCorrect, PTL DEF Spec, QueueSpec, Queue!Spec

===============================================================================
