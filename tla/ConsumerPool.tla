----------------------------- MODULE ConsumerPool ------------------------------
(* One process that consumes RabbitMQ queues, in the two styles the code has:  *)
(*   "pool"  rabbitmq.ConsumerPool: a reader goroutine per queue, one channel  *)
(*           of jobs, shared workers (event-decoder, uri-bootstrap, trustrank) *)
(*   "loop"  rabbitmq.GracefulConsumeLoop over one queue with the workers of   *)
(*           app.Run (feedback-others, feedback-grader)                        *)
(* together with the broker's side of its channels.  The handler's effect is   *)
(* the event decoder's: an idempotent upsert.                                  *)
EXTENDS Naturals, Sequences, FiniteSets

CONSTANTS Keys,         \* reader keys, one queue each
          Messages,
          KeyOf,        \* the queue a message was published to
          Malformed,    \* messages whose body does not decode
          Workers,
          BufSize,      \* capacity of the jobs channel (workers * 16 in the code)
          Prefetch,     \* AMQP QoS of a reader's channel
          None,         \* no delivery
          MaxFaults     \* bound: lost channels and connections, failed writes,
                        \* drain deadlines, crashes, restarts

ASSUME ParamsAssumption ==
    /\ KeyOf \in [Messages -> Keys]
    /\ Malformed \subseteq Messages /\ Keys \cap Workers = {}
    /\ BufSize \in Nat /\ Prefetch \in Nat \ {0} /\ MaxFaults \in Nat
    /\ None \notin [msg : Messages, session : Nat]

VARIABLES style,        \* "pool" or "loop"
          alive,        \* the process runs
          ctxDone,      \* its context is cancelled (SIGTERM)
          connUp,       \* the one AMQP connection it dialled at start
          ready,        \* broker: messages waiting in each queue
          unacked,      \* broker: delivered on the queue's channel, not settled
          acked,        \* broker: messages removed from their queue
          session,      \* number of channels opened for a key
          chan,         \* "none", "open", "cancelled" (basic.cancel) or "lost"
          buffered,     \* deliveries in the client's Go channel
          reader,       \* control of a reader goroutine
          held,         \* the delivery a reader has in hand
          jobs,         \* the jobs channel
          jobsOpen,     \* it is not closed
          worker,       \* control of a worker goroutine
          task,         \* the job it runs
          verdict,      \* ack (TRUE) or requeue, for a task or a held delivery
          stored,       \* messages whose effect is in the store
          faults

broker == <<ready, unacked, acked>>
proc == <<style, alive, ctxDone, connUp>>
amqp == <<session, chan, buffered>>
pool == <<jobs, jobsOpen, worker, task>>
vars == <<proc, broker, amqp, reader, held, pool, verdict, stored, faults>>

Delivery == [msg : Messages, session : Nat]
ReaderPc == {"none", "starting", "open", "consume", "push", "drain", "handle",
             "settle", "wait", "backoff", "exited"}
WorkerPc == {"idle", "handle", "settle", "gone"}

-------------------------------------------------------------------------------
(* Helpers.                                                                    *)

Of(k) == {m \in Messages : KeyOf[m] = k}
\* Goroutines counted by readersWG.
Running(k) == reader[k] \notin {"none", "starting", "exited"}
Live(d) == /\ chan[KeyOf[d.msg]] \in {"open", "cancelled"}
           /\ session[KeyOf[d.msg]] = d.session
Busy(w) == worker[w] \in {"handle", "settle"}
\* The reader's inflight WaitGroup is not zero.
Inflight(k) == \/ \E i \in DOMAIN jobs : KeyOf[jobs[i].msg] = k
               \/ \E w \in Workers : Busy(w) /\ KeyOf[task[w].msg] = k

\* d.Ack / d.Nack(requeue): an error on a channel that is gone is only logged.
Settle(d, ok) ==
    IF Live(d)
    THEN LET k == KeyOf[d.msg] IN
         /\ unacked' = [unacked EXCEPT ![k] = @ \ {d.msg}]
         /\ IF ok THEN acked' = acked \cup {d.msg} /\ UNCHANGED ready
                  ELSE ready' = [ready EXCEPT ![k] = @ \cup {d.msg}] /\ UNCHANGED acked
    ELSE UNCHANGED broker

\* The broker takes back what the channel of k had not settled.
Requeue(k) == /\ ready' = [ready EXCEPT ![k] = @ \cup unacked[k]]
              /\ unacked' = [unacked EXCEPT ![k] = {}]
              /\ UNCHANGED acked
Fault == faults < MaxFaults /\ faults' = faults + 1
\* basic.cancel on a channel that is still there.
Cancelled(c) == IF c = "open" THEN "cancelled" ELSE c
\* Shape of a process that has just started, and of one that is gone.
Idle(sty, up) ==
    /\ style' = sty /\ alive' = up /\ connUp' = up /\ ctxDone' = FALSE
    /\ chan' = [k \in Keys |-> "none"]
    /\ buffered' = [k \in Keys |-> {}]
    /\ held' = [k \in Keys |-> None]
    /\ jobs' = <<>> /\ jobsOpen' = up
    /\ worker' = [w \in Workers |-> IF up THEN "idle" ELSE "gone"]
    /\ task' = [w \in Workers |-> None]
    /\ verdict' = [x \in Keys \cup Workers |-> FALSE]

-------------------------------------------------------------------------------
(* The broker and the AMQP client.                                             *)

Deliver(k) == /\ alive /\ chan[k] = "open"
              /\ Cardinality(unacked[k]) < Prefetch
              /\ \E m \in ready[k] :
                   /\ ready' = [ready EXCEPT ![k] = @ \ {m}]
                   /\ unacked' = [unacked EXCEPT ![k] = @ \cup {m}]
                   /\ buffered' = [buffered EXCEPT
                                     ![k] = @ \cup {[msg |-> m, session |-> session[k]]}]
              /\ UNCHANGED <<proc, acked, session, chan, reader, held, pool, verdict,
                             stored, faults>>

\* The channel dies (or the connection with all of them): the client may still
\* hand out some of what it had buffered, then closes the deliveries channel.
ChannelLost(k) == /\ alive /\ chan[k] \in {"open", "cancelled"}
                  /\ Fault
                  /\ chan' = [chan EXCEPT ![k] = "lost"]
                  /\ \E left \in SUBSET buffered[k] : buffered' = [buffered EXCEPT ![k] = left]
                  /\ Requeue(k)
                  /\ UNCHANGED <<proc, session, reader, held, pool, verdict, stored>>
ConnectionLost ==
    /\ alive /\ connUp
    /\ Fault
    /\ connUp' = FALSE
    /\ chan' = [k \in Keys |-> IF chan[k] = "none" THEN "none" ELSE "lost"]
    /\ \E left \in [Keys -> SUBSET UNION {buffered[k] : k \in Keys}] :
         /\ \A k \in Keys : left[k] \subseteq buffered[k]
         /\ buffered' = left
    /\ ready' = [k \in Keys |-> ready[k] \cup unacked[k]]
    /\ unacked' = [k \in Keys |-> {}]
    /\ UNCHANGED <<style, alive, ctxDone, acked, session, reader, held, pool, verdict, stored>>

-------------------------------------------------------------------------------
(* Reader goroutines.                                                          *)

\* EnsureReader looks at ctx, then registers the key and adds to readersWG.
EnsureReader(k) == /\ alive /\ style = "pool"
                   /\ \/ reader[k] = "none" /\ ~ctxDone /\ reader' = [reader EXCEPT ![k] = "starting"]
                      \/ reader[k] = "starting" /\ reader' = [reader EXCEPT ![k] = "open"]
                   /\ UNCHANGED <<proc, broker, amqp, held, pool, verdict, stored, faults>>

\* The reader ends: a loop closes its jobs channel as it does, a pool reader
\* first waits for its jobs.
LeaveLoop(k) == /\ reader' = [reader EXCEPT ![k] = IF style = "pool" THEN "wait" ELSE "exited"]
                /\ jobsOpen' = (jobsOpen /\ style = "pool")

\* Mutant of OpenChannel: the retry loop does not look at ctx first.
MutOpenUnchecked(k) ==
    /\ alive /\ reader[k] = "open"
    /\ IF ~connUp
       THEN /\ reader' = [reader EXCEPT ![k] = IF style = "pool" THEN "backoff" ELSE "exited"]
            /\ jobsOpen' = (jobsOpen /\ style = "pool")
            /\ UNCHANGED <<session, chan>>
       ELSE /\ reader' = [reader EXCEPT ![k] = "consume"]
            /\ session' = [session EXCEPT ![k] = @ + 1]
            /\ chan' = [chan EXCEPT ![k] = "open"]
            /\ UNCHANGED jobsOpen
    /\ UNCHANGED <<proc, broker, buffered, held, jobs, worker, task, verdict, stored, faults>>

\* Top of the retry loop and of runReader: conn.Channel() on the connection the
\* process was given; nothing dials it again.
OpenChannel(k) ==
    /\ alive /\ reader[k] = "open"
    /\ \/ /\ ctxDone /\ style = "pool"
          /\ reader' = [reader EXCEPT ![k] = "exited"]
          /\ UNCHANGED <<session, chan, jobsOpen>>
       \/ /\ ~(ctxDone /\ style = "pool") /\ connUp
          /\ reader' = [reader EXCEPT ![k] = "consume"]
          /\ session' = [session EXCEPT ![k] = @ + 1]
          /\ chan' = [chan EXCEPT ![k] = "open"]
          /\ UNCHANGED jobsOpen
       \/ /\ ~(ctxDone /\ style = "pool") /\ ~connUp
          /\ reader' = [reader EXCEPT ![k] = IF style = "pool" THEN "backoff" ELSE "exited"]
          /\ jobsOpen' = (jobsOpen /\ style = "pool")
          /\ UNCHANGED <<session, chan>>
    /\ UNCHANGED <<proc, broker, buffered, held, jobs, worker, task, verdict, stored, faults>>

Backoff(k) == /\ alive /\ reader[k] = "backoff"
              /\ reader' = [reader EXCEPT ![k] = IF ctxDone THEN "exited" ELSE "open"]
              /\ UNCHANGED <<proc, broker, amqp, held, pool, verdict, stored, faults>>

\* A delivery is taken from the client: discarded when malformed, put in hand
\* otherwise.  Draining, a pool reader handles it itself.
TakeDelivery(k) ==
    /\ alive /\ reader[k] \in {"consume", "drain"}
    /\ \E d \in buffered[k] :
         /\ buffered' = [buffered EXCEPT ![k] = @ \ {d}]
         /\ IF d.msg \in Malformed
            THEN Settle(d, TRUE) /\ UNCHANGED <<reader, held>>
            ELSE /\ held' = [held EXCEPT ![k] = d]
                 /\ reader' = [reader EXCEPT
                       ![k] = IF @ = "drain" /\ style = "pool" THEN "handle" ELSE "push"]
                 /\ UNCHANGED broker
    /\ UNCHANGED <<proc, session, chan, pool, verdict, stored, faults>>

\* jobs <- j.  A loop that is draining goes on draining.
PushJob(k) == /\ alive /\ reader[k] = "push" /\ Len(jobs) < BufSize
              /\ jobs' = Append(jobs, held[k])
              /\ held' = [held EXCEPT ![k] = None]
              /\ reader' = [reader EXCEPT ![k] = IF chan[k] = "cancelled" THEN "drain" ELSE "consume"]
              /\ UNCHANGED <<proc, broker, amqp, jobsOpen, worker, task, verdict, stored, faults>>

\* ctx.Done() wins the select of the push: requeue, cancel, drain.
PushCancelled(k) == /\ alive /\ style = "pool" /\ reader[k] = "push" /\ ctxDone
                    /\ Settle(held[k], FALSE)
                    /\ held' = [held EXCEPT ![k] = None]
                    /\ chan' = [chan EXCEPT ![k] = Cancelled(@)]
                    /\ reader' = [reader EXCEPT ![k] = "drain"]
                    /\ UNCHANGED <<proc, session, buffered, pool, verdict, stored, faults>>

CancelConsume(k) == /\ alive /\ reader[k] = "consume" /\ ctxDone
                    /\ chan' = [chan EXCEPT ![k] = Cancelled(@)]
                    /\ reader' = [reader EXCEPT ![k] = "drain"]
                    /\ UNCHANGED <<proc, broker, session, buffered, held, pool, verdict, stored, faults>>

\* The deliveries channel is closed: after basic.cancel, or with its AMQP channel.
DeliveriesClosed(k) == /\ alive /\ buffered[k] = {}
                       /\ \/ reader[k] = "consume" /\ chan[k] = "lost"
                          \/ reader[k] = "drain"
                       /\ LeaveLoop(k)
                       /\ UNCHANGED <<proc, broker, amqp, held, jobs, worker, task, verdict,
                                      stored, faults>>
DrainDeadline(k) == /\ alive /\ reader[k] = "drain" /\ buffered[k] # {}
                    /\ Fault
                    /\ LeaveLoop(k)
                    /\ UNCHANGED <<proc, broker, amqp, held, jobs, worker, task, verdict, stored>>

\* The handler's write: an upsert that succeeds, or fails and is retried.
Handled(x, m) == \/ /\ stored' = stored \cup {m}
                    /\ verdict' = [verdict EXCEPT ![x] = TRUE]
                    /\ UNCHANGED faults
                 \/ /\ Fault
                    /\ verdict' = [verdict EXCEPT ![x] = FALSE]
                    /\ UNCHANGED stored

DrainHandle(k) == /\ alive /\ reader[k] = "handle"
                  /\ Handled(k, held[k].msg)
                  /\ reader' = [reader EXCEPT ![k] = "settle"]
                  /\ UNCHANGED <<proc, broker, amqp, held, pool>>
DrainSettle(k) == /\ alive /\ reader[k] = "settle"
                  /\ Settle(held[k], verdict[k])
                  /\ held' = [held EXCEPT ![k] = None]
                  /\ reader' = [reader EXCEPT ![k] = "drain"]
                  /\ UNCHANGED <<proc, amqp, pool, verdict, stored, faults>>

\* inflight.Wait(), then ch.Close(): what was never handled goes back.
ReaderWait(k) == /\ alive /\ reader[k] = "wait" /\ ~Inflight(k)
                 /\ Requeue(k)
                 /\ chan' = [chan EXCEPT ![k] = "none"]
                 /\ buffered' = [buffered EXCEPT ![k] = {}]
                 /\ reader' = [reader EXCEPT ![k] = IF ctxDone THEN "exited" ELSE "backoff"]
                 /\ UNCHANGED <<proc, session, held, pool, verdict, stored, faults>>

-------------------------------------------------------------------------------
(* The jobs channel and the workers.                                           *)

\* <-ctx.Done(); readersWG.Wait(); close(jobs)
CloseJobs == /\ alive /\ style = "pool" /\ ctxDone /\ jobsOpen
             /\ \A k \in Keys : ~Running(k)
             /\ jobsOpen' = FALSE
             /\ UNCHANGED <<proc, broker, amqp, reader, held, jobs, worker, task, verdict,
                            stored, faults>>

WorkerTake(w) == /\ alive /\ worker[w] = "idle" /\ jobs # <<>>
                 /\ task' = [task EXCEPT ![w] = Head(jobs)]
                 /\ jobs' = Tail(jobs)
                 /\ worker' = [worker EXCEPT ![w] = "handle"]
                 /\ UNCHANGED <<proc, broker, amqp, reader, held, jobsOpen, verdict, stored, faults>>

\* Mutant of WorkerExit: a worker stops as soon as ctx is cancelled.
MutExitOnCancel(w) == /\ alive /\ worker[w] = "idle" /\ (ctxDone \/ (jobs = <<>> /\ ~jobsOpen))
                      /\ worker' = [worker EXCEPT ![w] = "gone"]
                      /\ UNCHANGED <<proc, broker, amqp, reader, held, jobs, jobsOpen, task,
                                     verdict, stored, faults>>

\* range over jobs ends when the channel is closed and empty.
WorkerExit(w) == /\ alive /\ worker[w] = "idle" /\ jobs = <<>> /\ ~jobsOpen
                 /\ worker' = [worker EXCEPT ![w] = "gone"]
                 /\ UNCHANGED <<proc, broker, amqp, reader, held, jobs, jobsOpen, task,
                                verdict, stored, faults>>

WorkerHandle(w) == /\ alive /\ worker[w] = "handle"
                   /\ Handled(w, task[w].msg)
                   /\ worker' = [worker EXCEPT ![w] = "settle"]
                   /\ UNCHANGED <<proc, broker, amqp, reader, held, jobs, jobsOpen, task>>

\* Mutant of WorkerSettle: the result of the handler is not looked at.
MutAlwaysAck(w) == /\ alive /\ worker[w] = "settle"
                   /\ Settle(task[w], TRUE)
                   /\ task' = [task EXCEPT ![w] = None]
                   /\ worker' = [worker EXCEPT ![w] = "idle"]
                   /\ UNCHANGED <<proc, amqp, reader, held, jobs, jobsOpen, verdict, stored, faults>>

WorkerSettle(w) == /\ alive /\ worker[w] = "settle"
                   /\ Settle(task[w], verdict[w])
                   /\ task' = [task EXCEPT ![w] = None]
                   /\ worker' = [worker EXCEPT ![w] = "idle"]
                   /\ UNCHANGED <<proc, amqp, reader, held, jobs, jobsOpen, verdict, stored, faults>>

-------------------------------------------------------------------------------
(* The process.                                                                *)

Stop == /\ alive /\ ~ctxDone
        /\ ctxDone' = TRUE
        /\ UNCHANGED <<style, alive, connUp, broker, amqp, reader, held, pool, verdict, stored, faults>>

Gone == /\ Idle(style, FALSE)
        /\ ready' = [k \in Keys |-> ready[k] \cup unacked[k]]
        /\ unacked' = [k \in Keys |-> {}]
        /\ reader' = [k \in Keys |-> "none"]
        /\ UNCHANGED <<acked, session, stored>>

\* main returns.  App.Run of a pool user returns with ctx and waits for nobody;
\* that of a loop returns after wg.Wait().
Exit == /\ alive
        /\ \/ style = "pool" /\ ctxDone
           \/ /\ style = "loop" /\ \A w \in Workers : worker[w] = "gone"
        /\ Gone
        /\ UNCHANGED faults
Crash == alive /\ Fault /\ Gone

\* A process of either style is started on the same queues.
Restart == /\ ~alive /\ Fault
           /\ \/ Idle("pool", TRUE) /\ reader' = [k \in Keys |-> "none"]
              \/ \E one \in Keys :
                   /\ Idle("loop", TRUE)
                   /\ reader' = [k \in Keys |-> IF k = one THEN "open" ELSE "none"]
           /\ UNCHANGED <<broker, session, stored>>

Init ==
    /\ \/ style = "pool" /\ reader = [k \in Keys |-> "none"]
       \/ \E one \in Keys :
            style = "loop" /\ reader = [k \in Keys |-> IF k = one THEN "open" ELSE "none"]
    /\ alive = TRUE /\ ctxDone = FALSE /\ connUp = TRUE
    /\ ready = [k \in Keys |-> Of(k)]
    /\ unacked = [k \in Keys |-> {}] /\ acked = {}
    /\ session = [k \in Keys |-> 0] /\ chan = [k \in Keys |-> "none"]
    /\ buffered = [k \in Keys |-> {}] /\ held = [k \in Keys |-> None]
    /\ jobs = <<>> /\ jobsOpen = TRUE
    /\ worker = [w \in Workers |-> "idle"] /\ task = [w \in Workers |-> None]
    /\ verdict = [x \in Keys \cup Workers |-> FALSE]
    /\ stored = {} /\ faults = 0

ReaderStep(k) == \/ EnsureReader(k) \/ OpenChannel(k) \/ Backoff(k) \/ TakeDelivery(k)
                 \/ PushJob(k) \/ PushCancelled(k) \/ CancelConsume(k) \/ DeliveriesClosed(k)
                 \/ DrainHandle(k) \/ DrainSettle(k) \/ ReaderWait(k)
WorkerStep(w) == WorkerTake(w) \/ WorkerExit(w) \/ WorkerHandle(w) \/ WorkerSettle(w)

Next == \/ \E k \in Keys : ReaderStep(k) \/ Deliver(k) \/ ChannelLost(k) \/ DrainDeadline(k)
        \/ \E w \in Workers : WorkerStep(w)
        \/ CloseJobs \/ ConnectionLost \/ Stop \/ Exit \/ Crash \/ Restart

Spec == Init /\ [][Next]_vars

\* Goroutines are scheduled, handlers have timeouts, the broker delivers.
\* Nothing is assumed of stops, of main returning, or of faults.
Fairness == /\ \A k \in Keys : WF_vars(ReaderStep(k)) /\ WF_vars(Deliver(k))
            /\ \A w \in Workers : WF_vars(WorkerStep(w))
            /\ WF_vars(CloseJobs)
FairSpec == Spec /\ Fairness

-------------------------------------------------------------------------------
(* Properties.                                                                 *)

\* Type invariant; the jobs channel holds no more than its capacity.
TypeOK ==
    /\ style \in {"pool", "loop"} /\ alive \in BOOLEAN /\ ctxDone \in BOOLEAN /\ connUp \in BOOLEAN
    /\ ready \in [Keys -> SUBSET Messages] /\ unacked \in [Keys -> SUBSET Messages]
    /\ acked \in SUBSET Messages /\ stored \in SUBSET Messages
    /\ session \in [Keys -> Nat]
    /\ chan \in [Keys -> {"none", "open", "cancelled", "lost"}]
    /\ buffered \in [Keys -> SUBSET Delivery]
    /\ reader \in [Keys -> ReaderPc] /\ held \in [Keys -> Delivery \cup {None}]
    /\ jobs \in Seq(Delivery) /\ Len(jobs) <= BufSize /\ jobsOpen \in BOOLEAN
    /\ worker \in [Workers -> WorkerPc] /\ task \in [Workers -> Delivery \cup {None}]
    /\ verdict \in [Keys \cup Workers -> BOOLEAN]
    /\ faults \in Nat

\* The jobs channel is closed only when no reader can send on it any more, a
\* reader registered while the pool was shutting down included (a send on a
\* closed channel panics).
NoSendAfterClose == (alive /\ ~jobsOpen) => \A k \in Keys : reader[k] # "push"

\* The consumer is an at-least-once queue in front of an idempotent handler.
Queue == INSTANCE WorkQueue WITH Messages <- Messages, Malformed <- Malformed,
                                 pending <- Messages \ acked, stored <- stored
QueueSpec == Queue!Spec

\* After the context is cancelled every goroutine of the pool ends, whatever it
\* was blocked on (inflight.Wait, a full jobs channel, the drain): readers and
\* workers do not wait for each other in a circle.
ShutdownCompletes ==
    ctxDone ~> (~alive \/ (/\ \A k \in Keys : ~Running(k)
                           /\ \A w \in Workers : worker[w] = "gone"))

===============================================================================
