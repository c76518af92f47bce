----------------------------- MODULE CircuitBreaker -----------------------------
(* Crawler.RunOnce for one chain: one goroutine per configured contract, a     *)
(* mutex per contract, a semaphore bounding the crawls, and the circuit        *)
(* breaker the chain's jobs share. What crawlEvents does is in module Crawler; *)
(* here it succeeds or fails.                                                  *)
EXTENDS Integers, FiniteSets

CONSTANTS
    Jobs,               \* the (chain, contract) entries of one cycle
    ContractOf,         \* contract address of each job: entries may repeat one
    MaxConcurrency,     \* weight of the semaphore
    FailureThreshold,   \* BreakerConfig.FailureThreshold
    FailureCap          \* bound: the counter is not followed above this value

ASSUME RunAssumption ==
    /\ IsFiniteSet(Jobs)
    /\ MaxConcurrency \in Nat \ {0}
    /\ FailureThreshold \in Nat \ {0}
    /\ FailureCap \in Nat /\ FailureCap > FailureThreshold

VARIABLES
    state, failures,    \* chainBreaker.state and failures
    cooled,             \* CooldownDuration has passed since tripTime
    place,              \* per job: its place in the goroutine
    healthy,            \* the chain's RPC endpoints answer
    stopping            \* the context is cancelled

runVars == <<state, failures, cooled, place, healthy, stopping>>
breaker == <<state, failures, cooled>>

IncFailures == IF failures < FailureCap THEN failures + 1 ELSE failures

Crawling == {j \in Jobs : place[j] = "crawl"}

\* Mutant of HoldsLock: a job that ends does not unlock.
HoldsLockAfterEnd(j) == place[j] \in {"locked", "permit", "crawl", "done"}

HoldsLock(j) == place[j] \in {"locked", "permit", "crawl"}
Permits == {j \in Jobs : place[j] \in {"permit", "crawl"}}

RunInit ==
    /\ state = "closed" /\ failures = 0 /\ cooled = FALSE
    /\ place = [j \in Jobs |-> "start"]
    /\ healthy \in BOOLEAN
    /\ stopping = FALSE

\* Mutant of Lock: the per-contract mutex is not taken.
LockFree(j) ==
    /\ place[j] = "start"
    /\ place' = [place EXCEPT ![j] = "locked"]
    /\ UNCHANGED <<breaker, healthy, stopping>>

\* lockJob(chainID, contract).
Lock(j) ==
    /\ place[j] = "start"
    /\ \A k \in Jobs : ContractOf[k] = ContractOf[j] => ~HoldsLock(k)
    /\ place' = [place EXCEPT ![j] = "locked"]
    /\ UNCHANGED <<breaker, healthy, stopping>>

\* sem.Acquire.
Acquire(j) ==
    /\ place[j] = "locked" /\ ~stopping
    /\ Cardinality(Permits) < MaxConcurrency
    /\ place' = [place EXCEPT ![j] = "permit"]
    /\ UNCHANGED <<breaker, healthy, stopping>>

\* sem.Acquire on a cancelled context: the job gives up its lock.
AcquireCancelled(j) ==
    /\ place[j] = "locked" /\ stopping
    /\ place' = [place EXCEPT ![j] = "done"]
    /\ UNCHANGED <<breaker, healthy, stopping>>

\* Allow with the circuit closed or half-open, or with the cooldown over.
Admit(j) ==
    /\ place[j] = "permit"
    /\ state = "open" => cooled
    /\ state' = IF state = "open" THEN "halfOpen" ELSE state
    /\ place' = [place EXCEPT ![j] = "crawl"]
    /\ UNCHANGED <<failures, cooled, healthy, stopping>>

\* Allow while the circuit is open: the job ends without an error.
Skip(j) ==
    /\ place[j] = "permit" /\ state = "open" /\ ~cooled
    /\ place' = [place EXCEPT ![j] = "done"]
    /\ UNCHANGED <<breaker, healthy, stopping>>

\* Mutant of Succeed: only the counter is reset.
SucceedKeepsState(j) ==
    /\ place[j] = "crawl"
    /\ failures' = 0
    /\ place' = [place EXCEPT ![j] = "done"]
    /\ UNCHANGED <<state, cooled, healthy, stopping>>

\* crawlEvents returned nil: RecordSuccess.
Succeed(j) ==
    /\ place[j] = "crawl"
    /\ state' = "closed" /\ failures' = 0
    /\ place' = [place EXCEPT ![j] = "done"]
    /\ UNCHANGED <<cooled, healthy, stopping>>

\* crawlEvents returned an error: RecordFailure.
Fail(j) ==
    /\ place[j] = "crawl" /\ (~healthy \/ stopping)
    /\ failures' = IncFailures
    /\ IF failures' >= FailureThreshold \/ state = "halfOpen"
       THEN state' = "open" /\ cooled' = FALSE
       ELSE UNCHANGED <<state, cooled>>
    /\ place' = [place EXCEPT ![j] = "done"]
    /\ UNCHANGED <<healthy, stopping>>

-------------------------------------------------------------------------------

\* The cooldown elapses.
Cool ==
    /\ state = "open" /\ ~cooled
    /\ cooled' = TRUE
    /\ UNCHANGED <<state, failures, place, healthy, stopping>>

\* wg.Wait returns and Run starts the next cycle after its pause.
NextCycle ==
    /\ \A j \in Jobs : place[j] = "done"
    /\ ~stopping
    /\ place' = [j \in Jobs |-> "start"]
    /\ UNCHANGED <<breaker, healthy, stopping>>

\* The environment: endpoints fail and recover, the process is told to stop.
ChangeHealth == healthy' = ~healthy /\ UNCHANGED <<breaker, place, stopping>>
Stop == ~stopping /\ stopping' = TRUE /\ UNCHANGED <<breaker, place, healthy>>
Stopped == stopping /\ (\A j \in Jobs : place[j] = "done") /\ UNCHANGED runVars

JobStep(j) ==
    \/ Lock(j) \/ Acquire(j) \/ AcquireCancelled(j) \/ Admit(j) \/ Skip(j)
    \/ Succeed(j) \/ Fail(j)

RunNext ==
    \/ \E j \in Jobs : JobStep(j)
    \/ Cool \/ NextCycle \/ ChangeHealth \/ Stop \/ Stopped

RunSpec == RunInit /\ [][RunNext]_runVars

\* A goroutine that can run does (every RPC call has a timeout); sync.Mutex and
\* semaphore.Weighted hand over in FIFO order, so a waiter is not passed by for
\* ever; the clock advances; Run polls again after every cycle.
RunFairness ==
    /\ \A j \in Jobs : SF_runVars(Lock(j)) /\ SF_runVars(Acquire(j)) /\ WF_runVars(JobStep(j))
    /\ WF_runVars(Cool) /\ WF_runVars(NextCycle)

RunFairSpec == RunSpec /\ RunFairness

-------------------------------------------------------------------------------
(* Properties.                                                                 *)

\* Every variable keeps its type.
RunTypeOK ==
    /\ state \in {"closed", "open", "halfOpen"}
    /\ failures \in 0 .. FailureCap
    /\ cooled \in BOOLEAN /\ healthy \in BOOLEAN /\ stopping \in BOOLEAN
    /\ place \in [Jobs -> {"start", "locked", "permit", "crawl", "done"}]

\* The breaker trips at the threshold and not later, whatever the interleaving
\* of the jobs' outcomes: a closed circuit has seen fewer failures than that
\* since the last success.
ClosedBelowThreshold == state = "closed" => failures < FailureThreshold

\* Entries that repeat a contract never crawl it at the same time (lockJob):
\* two crawls would race on one crawl cursor.
OneCrawlPerContract ==
    \A j, k \in Crawling : ContractOf[j] = ContractOf[k] => j = k

\* The semaphore is never oversubscribed, whichever way the jobs leave it.
ConcurrencyBounded == Cardinality(Permits) <= MaxConcurrency

\* A failed probe reopens the circuit for a full cooldown: a circuit with a
\* threshold of failures behind it and nothing in flight is open.
TrippedIsOpen ==
    failures >= FailureThreshold /\ Crawling = {} => state = "open"

\* Every job of every cycle ends: the locks and the semaphore never block it
\* for good.
JobsFinish == \A j \in Jobs : place[j] = "start" ~> place[j] = "done"

\* Endpoints that recover for good are crawled again: the circuit closes and
\* stays closed.
RecoveryCloses == <>[]healthy => <>stopping \/ <>[](state = "closed")

===============================================================================
