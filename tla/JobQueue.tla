------------------------------ MODULE JobQueue ------------------------------
(***************************************************************************)
(* packages/queue (the Postgres table service_jobs as a queue), the API    *)
(* handlers that enqueue, and the prover and relayer loops that work jobs  *)
(* off.  One action per await: each query is one atomic statement, and     *)
(* between two of them everyone else may run.                              *)
(***************************************************************************)
EXTENDS Integers, Sequences, FiniteSets

CONSTANTS Clients, Workers,
          Keys, NoKey,       \* idempotency keys; a call without one
          MaxAttempts,       \* max_attempts
          DbFaults,          \* whether a query may throw
          MaxCrashes,        \* how many worker processes may be killed
          MaxJobs            \* bound on rows

ASSUME QueueAssumption ==
    /\ NoKey \notin Keys
    /\ MaxAttempts \in Nat \ {0}
    /\ DbFaults \in BOOLEAN
    /\ MaxCrashes \in Nat
    /\ MaxJobs \in Nat

VARIABLES
    jobs,       \* service_jobs, in created_at order
    client,     \* the enqueue call of each client
    worker,     \* the loop of each worker
    crashes,    \* processes killed so far
    \* History variables: nothing reads them.
    performed,  \* how often the work of each job was carried out
    answers     \* the <<key, job>> pairs enqueue has returned

vars == <<jobs, client, worker, crashes, performed, answers>>

Jobs == 1..MaxJobs
None == 0

\* `in_progress` stands for every status a worker sets between claiming and
\* completing; `backoff` says that available_at has not come yet.
ServiceJob == [key : Keys \union {NoKey},
               status : {"queued", "claimed", "in_progress", "ready", "failed_retry", "failed"},
               attempts : 0..MaxAttempts, backoff : BOOLEAN]

ClientState == [pc : {"idle", "inserting", "logging", "returned", "threw"},
                key : Keys \union {NoKey}, job : Jobs \union {None}]

\* down: the process was killed.  dead: an exception left the loop, which the
\* server only logs.
WorkerState == [pc : {"idle", "running", "worked", "completed", "failing", "selected", "logging",
                      "down", "dead"},
                job : Jobs \union {None}, terminal : BOOLEAN]

TypeOK ==
    /\ jobs \in Seq(ServiceJob)
    /\ Len(jobs) <= MaxJobs
    /\ client \in [Clients -> ClientState]
    /\ worker \in [Workers -> WorkerState]
    /\ crashes \in 0..MaxCrashes
    /\ performed \in [Jobs -> Nat]
    /\ answers \subseteq (Keys \union {NoKey}) \X Jobs

Idle == [pc |-> "idle", job |-> None, terminal |-> FALSE]

Init ==
    /\ jobs = <<>>
    /\ client = [c \in Clients |-> [pc |-> "idle", key |-> NoKey, job |-> None]]
    /\ worker = [w \in Workers |-> Idle]
    /\ crashes = 0
    /\ performed = [j \in Jobs |-> 0]
    /\ answers = {}

-----------------------------------------------------------------------------
\* Clients: enqueue

Calling(c) == client[c].pc \in {"inserting", "logging"}

WithKey(k) == IF k = NoKey THEN {} ELSE {j \in DOMAIN jobs : jobs[j].key = k}

Return(c, k, j) ==
    /\ client' = [client EXCEPT ![c] = [pc |-> "returned", key |-> k, job |-> j]]
    /\ answers' = answers \union {<<k, j>>}

\* The select on idempotency_key: an existing job is returned.
enqueue(c, k) ==
    /\ ~Calling(c)
    /\ IF WithKey(k) # {}
       THEN \E j \in WithKey(k) : Return(c, k, j)
       ELSE /\ client' = [client EXCEPT ![c] = [pc |-> "inserting", key |-> k, job |-> None]]
            /\ UNCHANGED answers
    /\ UNCHANGED <<jobs, worker, crashes, performed>>

\* Mutant: idempotency_key is not declared unique.
NeverTaken(k) == FALSE

\* idempotency_key is UNIQUE (nulls are not compared).
KeyTaken(k) == WithKey(k) # {}

insert(c) ==
    LET k == client[c].key IN
    /\ client[c].pc = "inserting"
    /\ Len(jobs) < MaxJobs
    /\ ~KeyTaken(k)
    /\ jobs' = Append(jobs, [key |-> k, status |-> "queued", attempts |-> 0, backoff |-> FALSE])
    /\ client' = [client EXCEPT ![c].pc = "logging", ![c].job = Len(jobs) + 1]
    /\ UNCHANGED <<worker, crashes, performed, answers>>

\* The unique constraint rejects the insert and enqueue throws.
insert_conflict(c) ==
    /\ client[c].pc = "inserting"
    /\ KeyTaken(client[c].key)
    /\ client' = [client EXCEPT ![c].pc = "threw"]
    /\ UNCHANGED <<jobs, worker, crashes, performed, answers>>

\* The "queued" event, after which the job is returned.
log_enqueued(c) ==
    /\ client[c].pc = "logging"
    /\ Return(c, client[c].key, client[c].job)
    /\ UNCHANGED <<jobs, worker, crashes, performed>>

\* The insert or the event throws; a row already inserted stays.
enqueue_throws(c) ==
    /\ DbFaults
    /\ Calling(c)
    /\ client' = [client EXCEPT ![c].pc = "threw"]
    /\ UNCHANGED <<jobs, worker, crashes, performed, answers>>

-----------------------------------------------------------------------------
\* Workers: claimNext, processing, complete, fail

\* Mutant: jobs to be retried are never claimed.
QueuedOnly(j) == jobs[j].status = "queued" /\ ~jobs[j].backoff

\* Mutant: failed jobs are retried too.
FailedToo(j) == jobs[j].status \in {"queued", "failed_retry", "failed"} /\ ~jobs[j].backoff

Available(j) == jobs[j].status \in {"queued", "failed_retry"} /\ ~jobs[j].backoff

SetStatus(j, s) == jobs' = [jobs EXCEPT ![j].status = s]

At(w, pc) == worker' = [worker EXCEPT ![w].pc = pc]

\* One statement claims the oldest available job (for update skip locked).
claimNext(w) ==
    \E j \in DOMAIN jobs :
        /\ worker[w].pc = "idle"
        /\ Available(j)
        /\ \A i \in 1..(j - 1) : ~Available(i)
        /\ jobs' = [jobs EXCEPT ![j].status = "claimed", ![j].attempts = @ + 1]
        /\ worker' = [worker EXCEPT ![w].pc = "running", ![w].job = j]
        /\ UNCHANGED <<client, crashes, performed, answers>>

\* setStatus with one of the in-progress states, before or after the work.
setStatus(w) ==
    /\ worker[w].pc \in {"running", "worked"}
    /\ jobs[worker[w].job].status # "in_progress"
    /\ SetStatus(worker[w].job, "in_progress")
    /\ UNCHANGED <<client, worker, crashes, performed, answers>>

\* The prover proves, the relayer submits its transactions.
work(w) ==
    /\ worker[w].pc = "running"
    /\ At(w, "worked")
    /\ performed' = [performed EXCEPT ![worker[w].job] = @ + 1]
    /\ UNCHANGED <<jobs, client, crashes, answers>>

\* The work throws, before or after having taken effect.
work_throws(w) ==
    /\ worker[w].pc \in {"running", "worked"}
    /\ At(w, "failing")
    /\ UNCHANGED <<jobs, client, crashes, performed, answers>>

\* A job can return without doing anything outside (CCTP_OUTBOUND_MINT).
complete(w) ==
    /\ worker[w].pc \in {"running", "worked"}
    /\ SetStatus(worker[w].job, "ready")
    /\ At(w, "completed")
    /\ UNCHANGED <<client, crashes, performed, answers>>

log_completed(w) ==
    /\ worker[w].pc = "completed"
    /\ worker' = [worker EXCEPT ![w] = Idle]
    /\ UNCHANGED <<jobs, client, crashes, performed, answers>>

\* The event of complete throws inside the try block.
complete_throws(w) ==
    /\ DbFaults
    /\ worker[w].pc = "completed"
    /\ At(w, "failing")
    /\ UNCHANGED <<jobs, client, crashes, performed, answers>>

NoAttemptsLeft(j) == jobs[j].attempts >= MaxAttempts

\* fail: first the attempts are read ...
fail_select(w) ==
    /\ worker[w].pc = "failing"
    /\ worker' = [worker EXCEPT ![w].pc = "selected",
                                ![w].terminal = NoAttemptsLeft(worker[w].job)]
    /\ UNCHANGED <<jobs, client, crashes, performed, answers>>

\* ... then the job is settled as failed, or put back with a delay ...
fail_update(w) ==
    LET j == worker[w].job IN
    /\ worker[w].pc = "selected"
    /\ jobs' = IF worker[w].terminal
               THEN [jobs EXCEPT ![j].status = "failed"]
               ELSE [jobs EXCEPT ![j].status = "failed_retry", ![j].backoff = TRUE]
    /\ At(w, "logging")
    /\ UNCHANGED <<client, crashes, performed, answers>>

\* ... and the event ends the round.
log_failed(w) ==
    /\ worker[w].pc = "logging"
    /\ worker' = [worker EXCEPT ![w] = Idle]
    /\ UNCHANGED <<jobs, client, crashes, performed, answers>>

\* claimNext or fail throws: nothing catches it and the loop ends.
loop_dies(w) ==
    /\ DbFaults
    /\ worker[w].pc \in {"idle", "failing", "selected", "logging"}
    /\ worker' = [worker EXCEPT ![w] = [Idle EXCEPT !.pc = "dead"]]
    /\ UNCHANGED <<jobs, client, crashes, performed, answers>>

Crash(w) ==
    /\ crashes < MaxCrashes
    /\ worker[w].pc # "down"
    /\ crashes' = crashes + 1
    /\ worker' = [worker EXCEPT ![w] = [Idle EXCEPT !.pc = "down"]]
    /\ UNCHANGED <<jobs, client, performed, answers>>

Restart(w) ==
    /\ worker[w].pc = "down"
    /\ worker' = [worker EXCEPT ![w] = Idle]
    /\ UNCHANGED <<jobs, client, crashes, performed, answers>>

\* available_at comes.
BackoffElapses(j) ==
    /\ jobs[j].backoff
    /\ jobs' = [jobs EXCEPT ![j].backoff = FALSE]
    /\ UNCHANGED <<client, worker, crashes, performed, answers>>

-----------------------------------------------------------------------------
ClientStep(c) ==
    \/ \E k \in Keys \union {NoKey} : enqueue(c, k)
    \/ insert(c) \/ insert_conflict(c) \/ log_enqueued(c) \/ enqueue_throws(c)

\* What runProverLoop and runRelayerLoop do by themselves.
LoopStep(w) ==
    \/ claimNext(w) \/ setStatus(w) \/ work(w) \/ work_throws(w)
    \/ complete(w) \/ log_completed(w)
    \/ fail_select(w) \/ fail_update(w) \/ log_failed(w)

Fault(w) == complete_throws(w) \/ loop_dies(w) \/ Crash(w)

Next ==
    \/ \E c \in Clients : ClientStep(c)
    \/ \E w \in Workers : LoopStep(w) \/ Fault(w) \/ Restart(w)
    \/ \E j \in DOMAIN jobs : BackoffElapses(j)

Spec == Init /\ [][Next]_vars

-----------------------------------------------------------------------------
\* A worker holds its job from the claim until the row is given back: `ready`
\* is given back with the event, `failed` and `failed_retry` with the update.
Holding(w) == worker[w].pc \in {"running", "worked", "completed", "failing", "selected"}

Holders(j) == {w \in Workers : Holding(w) /\ worker[w].job = j}

Settled(j) == jobs[j].status \in {"ready", "failed"} /\ Holders(j) = {}

\* In progress, and no worker is working on it.
Orphaned(j) == jobs[j].status \in {"claimed", "in_progress"} /\ Holders(j) = {}

\* All enqueue calls that return for one idempotency key return the same job,
\* though the check and the insert are two queries.
IdempotentEnqueue ==
    \A a, b \in answers : a[1] = b[1] /\ a[1] # NoKey => a[2] = b[2]

\* What the queue promises of a job.
Phase(j) ==
    CASE j \notin DOMAIN jobs -> "none"
      [] j \in DOMAIN jobs /\ Holders(j) # {} -> "leased"
      [] j \in DOMAIN jobs /\ Settled(j) -> "settled"
      [] j \in DOMAIN jobs /\ Orphaned(j) -> "lost"
      [] OTHER -> "waiting"

Lease == INSTANCE JobLease WITH
    phase <- [j \in Jobs |-> Phase(j)],
    leases <- [j \in Jobs |-> IF j \in DOMAIN jobs THEN jobs[j].attempts ELSE 0]

\* The queue implements JobLease: claims, retries, completions, throwing queries
\* and killed processes only ever take, give back, settle or lose a lease.
ImplementsJobLease == Lease!Spec
=============================================================================
