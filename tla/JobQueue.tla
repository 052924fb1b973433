------------------------------ MODULE JobQueue ------------------------------
(***************************************************************************)
(* The job queue in Redis, src/internal/core/job_queue.go: a list of ready *)
(* jobs, a sorted set of jobs that wait for a retry, and one key for each  *)
(* job that a worker has.  Every command to Redis is a step of its own,    *)
(* workers and the promoter interleave, a command may fail, and the        *)
(* process may die.                                                        *)
(*                                                                         *)
(* The backup list that RecoverJobs reads is written by nobody, so a       *)
(* restart recovers nothing.  Priorities are not read.  The processing     *)
(* keys are written and deleted and never read: they are left out.         *)
(***************************************************************************)
EXTENDS Integers, Sequences, FiniteSets

CONSTANTS
    Jobs,            \* jobs that callers enqueue
    QueueWorkers,    \* the worker goroutines
    MaxRetries,      \* bound on the retries of a job: 5 in the code
    QueueFailures,   \* bound: Redis commands that fail
    QueueCrashes     \* bound: restarts of the process

ASSUME QueueAssumption ==
    {MaxRetries, QueueFailures, QueueCrashes} \subseteq Nat

VARIABLES
    ready,      \* Redis list: <<job, retry count>>, pushed left and popped right
    delayed,    \* Redis sorted set: [job, retries, due]
    worker,     \* each worker's state
    promoter,   \* the jobs a goroutine has read from `delayed` and not yet moved
    enqueued,   \* history: jobs that Enqueue accepted
    acked,      \* history: jobs whose handler succeeded
    givenUp,    \* history: jobs beyond MaxRetries
    excused,    \* history: jobs a worker held at a crash or that Redis refused
    stopping,   \* stopCh is closed
    queueBudget \* commands that failed, and restarts

queueVars == <<ready, delayed, worker, promoter, enqueued, acked, givenUp, excused,
               stopping, queueBudget>>

Entry == [job : Jobs, retries : Nat]
AtRest == [pc |-> "loop"]
Promoters == QueueWorkers \cup {"promoter"}   \* each Dequeue promotes first
Hand(w) == IF worker[w].pc \in {"handle", "nack"} THEN {worker[w].entry.job} ELSE {}
InHands == UNION {Hand(w) : w \in QueueWorkers}

Fails ==
    /\ queueBudget.failures < QueueFailures
    /\ queueBudget' = [queueBudget EXCEPT !.failures = @ + 1]

QueueInit ==
    /\ ready = <<>> /\ delayed = {}
    /\ worker = [w \in QueueWorkers |-> AtRest]
    /\ promoter = [p \in Promoters |-> <<>>]
    /\ enqueued = {} /\ acked = {} /\ givenUp = {} /\ excused = {}
    /\ stopping = FALSE
    /\ queueBudget = [failures |-> 0, crashes |-> 0]

-----------------------------------------------------------------------------
Enqueue(j) ==
    /\ j \notin enqueued
    /\ enqueued' = enqueued \cup {j}
    /\ ready' = <<[job |-> j, retries |-> 0]>> \o ready
    /\ UNCHANGED <<delayed, worker, promoter, acked, givenUp, excused, stopping, queueBudget>>

TimeForRetry(x) ==
    /\ x.due = FALSE
    /\ delayed' = (delayed \ {x}) \cup {[x EXCEPT !.due = TRUE]}
    /\ UNCHANGED <<ready, worker, promoter, enqueued, acked, givenUp, excused, stopping,
                   queueBudget>>

\* ZRangeByScore: a worker before its pop, the promoter at each tick.
ReadDelayed(p) ==
    /\ promoter[p] = <<>>
    /\ ~stopping
    /\ p \in QueueWorkers => worker[p] = AtRest
    /\ \E s \in [1..Cardinality({x \in delayed : x.due}) -> {x \in delayed : x.due}] :
        /\ Len(s) > 0
        /\ \A i, k \in DOMAIN s : i # k => s[i] # s[k]
        /\ promoter' = [promoter EXCEPT ![p] = s]
    /\ UNCHANGED <<ready, delayed, worker, enqueued, acked, givenUp, excused, stopping,
                   queueBudget>>

\* Mutant: the job is taken out first, and lost if the push fails.
PromoteRemoveFirst(p) ==
    /\ promoter[p] # <<>>
    /\ LET x == Head(promoter[p])
       IN  /\ delayed' = delayed \ {x}
           /\ \/ /\ ready' = <<[job |-> x.job, retries |-> x.retries]>> \o ready
                 /\ UNCHANGED queueBudget
              \/ Fails /\ UNCHANGED ready
    /\ promoter' = [promoter EXCEPT ![p] = Tail(@)]
    /\ UNCHANGED <<worker, enqueued, acked, givenUp, excused, stopping>>

\* LPush, whose failure leaves the job where it is; then ZRem as a step of its own.
Promote(p) ==
    /\ promoter[p] # <<>> /\ Head(promoter[p]).due
    /\ LET x == Head(promoter[p])
       IN  \/ /\ ready' = <<[job |-> x.job, retries |-> x.retries]>> \o ready
              /\ promoter' = [promoter EXCEPT ![p] = <<[x EXCEPT !.due = FALSE]>> \o Tail(@)]
              /\ UNCHANGED queueBudget
           \/ /\ Fails
              /\ promoter' = [promoter EXCEPT ![p] = Tail(@)]
              /\ UNCHANGED ready
    /\ UNCHANGED <<delayed, worker, enqueued, acked, givenUp, excused, stopping>>

\* ZRem, whose answer nobody reads; due = FALSE marks a job that was pushed.
RemovePromoted(p) ==
    /\ promoter[p] # <<>> /\ ~Head(promoter[p]).due
    /\ \/ /\ delayed' = delayed \ {[Head(promoter[p]) EXCEPT !.due = TRUE]}
          /\ UNCHANGED queueBudget
       \/ Fails /\ UNCHANGED delayed
    /\ promoter' = [promoter EXCEPT ![p] = Tail(@)]
    /\ UNCHANGED <<ready, worker, enqueued, acked, givenUp, excused, stopping>>

Dequeue(w) ==
    /\ worker[w] = AtRest /\ promoter[w] = <<>>
    /\ ready # <<>> /\ ~stopping
    /\ worker' = [worker EXCEPT ![w] = [pc |-> "handle", entry |-> ready[Len(ready)]]]
    /\ ready' = SubSeq(ready, 1, Len(ready) - 1)
    /\ UNCHANGED <<delayed, promoter, enqueued, acked, givenUp, excused, stopping, queueBudget>>

\* The handler, and Ack.
HandleSucceeds(w) ==
    /\ worker[w].pc = "handle"
    /\ acked' = acked \cup Hand(w)
    /\ worker' = [worker EXCEPT ![w] = AtRest]
    /\ UNCHANGED <<ready, delayed, promoter, enqueued, givenUp, excused, stopping, queueBudget>>

HandleFails(w) ==
    /\ worker[w].pc = "handle"
    /\ worker' = [worker EXCEPT ![w].pc = "nack"]
    /\ UNCHANGED <<ready, delayed, promoter, enqueued, acked, givenUp, excused, stopping,
                   queueBudget>>

\* The job waits for its retry, or is given up; a ZAdd that fails loses it.
Nack(w) ==
    LET j == worker[w].entry.job
        n == worker[w].entry.retries + 1
    IN  /\ worker[w].pc = "nack"
        /\ \/ /\ n > MaxRetries
              /\ givenUp' = givenUp \cup {j}
              /\ UNCHANGED <<delayed, excused, queueBudget>>
           \/ /\ n <= MaxRetries
              /\ delayed' = delayed \cup {[job |-> j, retries |-> n, due |-> FALSE]}
              /\ UNCHANGED <<givenUp, excused, queueBudget>>
           \/ /\ n <= MaxRetries
              /\ Fails
              /\ excused' = excused \cup {j}
              /\ UNCHANGED <<delayed, givenUp>>
        /\ worker' = [worker EXCEPT ![w] = AtRest]
        /\ UNCHANGED <<ready, promoter, enqueued, acked, stopping>>

\* Stop: a worker ends after the job it has.
StopQueue ==
    /\ ~stopping
    /\ stopping' = TRUE
    /\ UNCHANGED <<ready, delayed, worker, promoter, enqueued, acked, givenUp, excused,
                   queueBudget>>

\* Redis keeps the list and the set; RecoverJobs finds its list empty.
QueueRestart ==
    /\ queueBudget.crashes < QueueCrashes
    /\ queueBudget' = [queueBudget EXCEPT !.crashes = @ + 1]
    /\ excused' = excused \cup InHands
    /\ worker' = [w \in QueueWorkers |-> AtRest]
    /\ promoter' = [p \in Promoters |-> <<>>]
    /\ stopping' = FALSE
    /\ UNCHANGED <<ready, delayed, enqueued, acked, givenUp>>

Work(w) == Dequeue(w) \/ HandleSucceeds(w) \/ HandleFails(w) \/ Nack(w)
PromoteDelayed(p) == ReadDelayed(p) \/ Promote(p) \/ RemovePromoted(p)

QueueNext ==
    \/ \E j \in Jobs : Enqueue(j)
    \/ \E x \in delayed : TimeForRetry(x)
    \/ \E p \in Promoters : PromoteDelayed(p)
    \/ \E w \in QueueWorkers : Work(w)
    \/ StopQueue \/ QueueRestart

QueueSpec == QueueInit /\ [][QueueNext]_queueVars

-----------------------------------------------------------------------------
DelayedEntry == [job : Jobs, retries : Nat, due : BOOLEAN]

QueueTypeOK ==
    /\ ready \in Seq(Entry)
    /\ delayed \in SUBSET DelayedEntry
    /\ worker \in [QueueWorkers -> {AtRest} \cup [pc : {"handle", "nack"}, entry : Entry]]
    /\ promoter \in [Promoters -> Seq(DelayedEntry)]
    /\ {enqueued, acked, givenUp, excused} \subseteq SUBSET Jobs
    /\ stopping \in BOOLEAN
    /\ queueBudget \in [failures : Nat, crashes : Nat]

Lying == {ready[i].job : i \in DOMAIN ready} \cup {x.job : x \in delayed}

(***************************************************************************)
(* "A durable Redis-backed queue that survives server restarts", as far as *)
(* the code keeps it: a job that was accepted is in Redis or with a worker *)
(* until it is acknowledged or given up, unless a worker held it when the  *)
(* process died or Redis refused to take it back.  The promotion of the    *)
(* same job by several goroutines at once never loses it.                  *)
(***************************************************************************)
JobsKept ==
    \A j \in enqueued :
        j \in Lying \cup InHands \cup acked \cup givenUp \cup excused
=============================================================================
