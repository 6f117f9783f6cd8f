----------------------------- MODULE JobProofs ------------------------------
(***************************************************************************)
(* Proofs, for any number of clients, workers, keys, jobs and attempts,    *)
(* that enqueue is idempotent and that the queue implements JobLease: a    *)
(* job is leased to one worker at a time, at most MaxAttempts times, and   *)
(* once settled stays settled, whatever queries throw and processes die;   *)
(* and that a prover's worker stores with a job only the proof that was    *)
(* made from the job's own data.  The builders have jobs and workers of    *)
(* their own here: ProofJobs and Provers.                                  *)
(***************************************************************************)
EXTENDS JobQueue, TLAPS

-----------------------------------------------------------------------------
(* The queue. *)

\* The row of a job while a worker at `pc` holds it.
HeldStatus(pc) ==
    CASE pc \in {"running", "worked"} -> {"claimed", "in_progress"}
      [] pc = "completed" -> {"ready"}
      [] OTHER -> {"claimed", "in_progress", "ready"}

\* A worker holds a job alone, its row has the status the worker gave it, and
\* what fail read of its attempts is still true when fail updates it.
LeaseInv ==
    /\ \A w \in Workers : Holding(w) =>
          /\ worker[w].job \in DOMAIN jobs
          /\ jobs[worker[w].job].status \in HeldStatus(worker[w].pc)
          /\ worker[w].pc = "selected" =>
                 worker[w].terminal = NoAttemptsLeft(worker[w].job)
    /\ \A v, w \in Workers :
          Holding(v) /\ Holding(w) /\ worker[v].job = worker[w].job => v = w
    /\ \A j \in DOMAIN jobs :
          jobs[j].status \in {"queued", "failed_retry"} => jobs[j].attempts < MaxAttempts

\* A key names one row, which every call that returned for the key has.
KeyInv ==
    /\ \A i, j \in DOMAIN jobs : jobs[i].key = jobs[j].key /\ jobs[i].key # NoKey => i = j
    /\ \A c \in Clients : client[c].pc = "logging" =>
          client[c].job \in DOMAIN jobs /\ jobs[client[c].job].key = client[c].key
    /\ \A a \in answers : a[2] \in DOMAIN jobs /\ jobs[a[2]].key = a[1]

QInv == TypeOK /\ LeaseInv /\ KeyInv

-----------------------------------------------------------------------------
(* Types *)

\* Writing one row.
LEMMA UpdateRow ==
    ASSUME jobs \in Seq(ServiceJob), NEW j \in DOMAIN jobs, NEW x \in ServiceJob,
           jobs' = [jobs EXCEPT ![j] = x]
    PROVE  /\ jobs' \in Seq(ServiceJob) /\ Len(jobs') = Len(jobs)
           /\ DOMAIN jobs' = DOMAIN jobs
           /\ jobs'[j] = x
           /\ \A i \in DOMAIN jobs : i # j => jobs'[i] = jobs[i]
BY DEF ServiceJob

\* Writing the state of one worker.
LEMMA UpdateWorker ==
    ASSUME worker \in [Workers -> WorkerState], NEW w \in Workers, NEW x \in WorkerState,
           worker' = [worker EXCEPT ![w] = x]
    PROVE  /\ worker' \in [Workers -> WorkerState]
           /\ worker'[w] = x
           /\ \A v \in Workers : v # w => worker'[v] = worker[v]
OBVIOUS

-----------------------------------------------------------------------------
(* Leases *)

HoldingPc == {"running", "worked", "completed", "failing", "selected"}

\* Once it has selected, a worker in state x knows whether the row has attempts left.
Knows(x, row) == x.pc = "selected" => x.terminal = (row.attempts >= MaxAttempts)

\* Nobody else holds the job of a worker that holds one.
LEMMA HeldAlone ==
    ASSUME LeaseInv, NEW w \in Workers, Holding(w)
    PROVE  /\ worker[w].job \in DOMAIN jobs
           /\ \A v \in Workers \ {w} : Holding(v) => worker[v].job # worker[w].job
BY Zenon DEF LeaseInv

\* A job that waits for a worker is held by none.
LEMMA WaitingIsFree ==
    ASSUME LeaseInv, NEW j \in DOMAIN jobs, jobs[j].status \in {"queued", "failed_retry"}
    PROVE  \A v \in Workers : Holding(v) => worker[v].job # j
BY DEF LeaseInv, HeldStatus

\* Worker w goes to state x and writes the row of j, which it holds or which no
\* one does.
LEMMA WorkerWrites ==
    ASSUME TypeOK, LeaseInv, NEW w \in Workers, NEW x \in WorkerState,
           worker' = [worker EXCEPT ![w] = x],
           NEW j \in DOMAIN jobs, NEW row \in ServiceJob, jobs' = [jobs EXCEPT ![j] = row],
           \A v \in Workers \ {w} : Holding(v) => worker[v].job # j,
           row.status \in {"queued", "failed_retry"} => row.attempts < MaxAttempts,
           x.pc \in HoldingPc =>
               /\ x.job = j
               /\ row.status \in HeldStatus(x.pc)
               /\ Knows(x, row)
    PROVE  LeaseInv'
<1>1. /\ DOMAIN jobs' = DOMAIN jobs /\ jobs'[j] = row
      /\ \A i \in DOMAIN jobs : i # j => jobs'[i] = jobs[i]
  BY UpdateRow DEF TypeOK
<1>2. worker'[w] = x /\ \A v \in Workers : v # w => worker'[v] = worker[v]
  BY UpdateWorker, Zenon DEF TypeOK
<1>3. \A v \in Workers \ {w} : Holding(v)' <=> Holding(v)
  BY <1>2, Zenon DEF Holding
<1>4. Holding(w)' <=> x.pc \in HoldingPc
  BY <1>2, Zenon DEF Holding, HoldingPc
<1>5. ASSUME NEW v \in Workers, Holding(v)'
      PROVE  /\ worker'[v].job \in DOMAIN jobs'
             /\ jobs'[worker'[v].job].status \in HeldStatus(worker'[v].pc)
             /\ worker'[v].pc = "selected" => worker'[v].terminal = NoAttemptsLeft(worker[v].job)'
  <2>1. CASE v = w
    <3>1. /\ worker'[v] = x /\ x.job = j /\ row.status \in HeldStatus(x.pc)
          /\ x.pc = "selected" => x.terminal = (row.attempts >= MaxAttempts)
      BY <1>2, <1>4, <1>5, <2>1, Zenon DEF Knows
    <3>2. NoAttemptsLeft(worker[v].job)' = (row.attempts >= MaxAttempts)
      BY <1>1, <3>1 DEF NoAttemptsLeft
    <3> QED  BY <1>1, <3>1, <3>2, Zenon
  <2>2. CASE v # w
    <3>1. Holding(v) /\ worker'[v] = worker[v]  BY <1>2, <1>3, <1>5, <2>2, Zenon
    <3>2. worker[v].job \in DOMAIN jobs /\ jobs'[worker[v].job] = jobs[worker[v].job]
      BY <1>1, <2>2, <3>1, Zenon DEF LeaseInv
    <3> QED  BY <1>1, <3>1, <3>2, Zenon DEF LeaseInv, NoAttemptsLeft
  <2> QED  BY <2>1, <2>2
<1>6. ASSUME NEW u \in Workers, NEW v \in Workers, Holding(u)', Holding(v)',
             worker'[u].job = worker'[v].job
      PROVE  u = v
  <2>1. CASE u = w  BY <1>2, <1>3, <1>4, <1>6, <2>1, Zenon
  <2>2. CASE v = w  BY <1>2, <1>3, <1>4, <1>6, <2>2, Zenon
  <2>3. CASE u # w /\ v # w  BY <1>2, <1>3, <1>6, <2>3, Zenon DEF LeaseInv
  <2> QED  BY <2>1, <2>2, <2>3, Zenon
<1>7. \A i \in DOMAIN jobs' :
          jobs'[i].status \in {"queued", "failed_retry"} => jobs'[i].attempts < MaxAttempts
  BY <1>1, Zenon DEF LeaseInv
<1> QED  BY <1>5, <1>6, <1>7, Zenon DEF LeaseInv

\* Worker w goes to a state in which it holds nothing and writes no row.
LEMMA WorkerLetsGo ==
    ASSUME TypeOK, LeaseInv, NEW w \in Workers, NEW x \in WorkerState,
           worker' = [worker EXCEPT ![w] = x], x.pc \notin HoldingPc, jobs' = jobs
    PROVE  LeaseInv'
<1>1. worker'[w] = x /\ \A v \in Workers : v # w => worker'[v] = worker[v]
  BY UpdateWorker, Zenon DEF TypeOK
<1>2. ~Holding(w)' /\ \A v \in Workers \ {w} : Holding(v)' <=> Holding(v)
  BY <1>1, Zenon DEF Holding, HoldingPc
<1>3. \A i : NoAttemptsLeft(i)' <=> NoAttemptsLeft(i)  BY Zenon DEF NoAttemptsLeft
<1>4. ASSUME NEW v \in Workers, Holding(v)'
      PROVE  Holding(v) /\ worker'[v] = worker[v]
  BY <1>1, <1>2, <1>4, Zenon
<1> QED  BY <1>3, <1>4, Zenon DEF LeaseInv

-----------------------------------------------------------------------------
(* What a step of a worker does to its job *)

\* Neither clients nor answers change, and the counters stay counters.
WorkersOnly ==
    /\ client' = client /\ answers' = answers
    /\ crashes' \in 0..MaxCrashes /\ performed' \in [Jobs -> Nat]

\* w holds a job and keeps it, or gives it back as settled, to be retried or
\* as it was.
HolderStep(w) ==
    \E x \in WorkerState, row \in ServiceJob :
        /\ WorkersOnly
        /\ Holding(w)
        /\ worker' = [worker EXCEPT ![w] = x]
        /\ jobs' = [jobs EXCEPT ![worker[w].job] = row]
        /\ row.key = jobs[worker[w].job].key
        /\ row.attempts = jobs[worker[w].job].attempts
        /\ \/ /\ x.pc \in HoldingPc
              /\ x.job = worker[w].job
              /\ row.status \in HeldStatus(x.pc)
              /\ Knows(x, row)
           \/ /\ x.pc \notin HoldingPc
              /\ row.status \in {"ready", "failed", "claimed", "in_progress"}
           \/ /\ x.pc \notin HoldingPc
              /\ row.status = "failed_retry"
              /\ row.attempts < MaxAttempts

\* w has no job and takes none.
FreeStep(w) ==
    \E x \in WorkerState :
        /\ WorkersOnly
        /\ ~Holding(w)
        /\ worker' = [worker EXCEPT ![w] = x]
        /\ x.pc \notin HoldingPc
        /\ jobs' = jobs

\* w has no job and claims j.
ClaimStep(w, j) ==
    \E x \in WorkerState, row \in ServiceJob :
        /\ WorkersOnly
        /\ ~Holding(w)
        /\ jobs[j].status \in {"queued", "failed_retry"}
        /\ worker' = [worker EXCEPT ![w] = x] /\ x.pc = "running" /\ x.job = j
        /\ jobs' = [jobs EXCEPT ![j] = row] /\ row.status = "claimed"
        /\ row.key = jobs[j].key /\ row.attempts = jobs[j].attempts + 1

\* A worker at one place of its loop goes to another with the same job.
LEMMA AtIsUpdate ==
    ASSUME TypeOK, NEW w \in Workers,
           NEW pc \in {"running", "worked", "completed", "failing", "selected", "logging"},
           At(w, pc)
    PROVE  /\ [worker[w] EXCEPT !.pc = pc] \in WorkerState
           /\ worker' = [worker EXCEPT ![w] = [worker[w] EXCEPT !.pc = pc]]
BY Zenon DEF TypeOK, At, WorkerState

\* Setting the status of a row, and its backoff.
LEMMA StatusIsUpdate ==
    ASSUME TypeOK, NEW j \in DOMAIN jobs,
           NEW s \in {"claimed", "in_progress", "ready", "failed_retry", "failed"}
    PROVE  \E row \in ServiceJob :
              /\ row.status = s /\ row.key = jobs[j].key /\ row.attempts = jobs[j].attempts
              /\ [jobs EXCEPT ![j].status = s] = [jobs EXCEPT ![j] = row]
<1>1. jobs[j] \in ServiceJob  BY DEF TypeOK
<1> DEFINE row == [jobs[j] EXCEPT !.status = s]
<1>2. /\ row \in ServiceJob /\ row.status = s /\ row.key = jobs[j].key
      /\ row.attempts = jobs[j].attempts
  BY <1>1 DEF ServiceJob
<1>3. [jobs EXCEPT ![j].status = s] = [jobs EXCEPT ![j] = row]  OBVIOUS
<1> QED  BY <1>2, <1>3, Zenon

LEMMA RetryIsUpdate ==
    ASSUME TypeOK, NEW j \in DOMAIN jobs
    PROVE  \E row \in ServiceJob :
              /\ row.status = "failed_retry"
              /\ row.key = jobs[j].key /\ row.attempts = jobs[j].attempts
              /\ [jobs EXCEPT ![j].status = "failed_retry", ![j].backoff = TRUE]
                    = [jobs EXCEPT ![j] = row]
<1>1. jobs[j] \in ServiceJob  BY DEF TypeOK
<1> DEFINE row == [jobs[j] EXCEPT !.status = "failed_retry", !.backoff = TRUE]
<1>2. /\ row \in ServiceJob /\ row.status = "failed_retry" /\ row.key = jobs[j].key
      /\ row.attempts = jobs[j].attempts
  BY <1>1, Zenon DEF ServiceJob
<1>3. [jobs EXCEPT ![j].status = "failed_retry", ![j].backoff = TRUE] = [jobs EXCEPT ![j] = row]
  BY <1>1, Zenon DEF TypeOK
<1> HIDE DEF row
<1> QED  BY <1>2, <1>3

\* Keeping the row of a job.
LEMMA KeptRow ==
    ASSUME TypeOK, NEW j \in DOMAIN jobs
    PROVE  jobs[j] \in ServiceJob /\ jobs = [jobs EXCEPT ![j] = jobs[j]]
BY DEF TypeOK

\* The worker has a job in the table, and its row is typed.
LEMMA HolderHas ==
    ASSUME TypeOK, LeaseInv, NEW w \in Workers, Holding(w)
    PROVE  /\ worker[w].job \in DOMAIN jobs /\ jobs[worker[w].job] \in ServiceJob
           /\ jobs[worker[w].job].status \in HeldStatus(worker[w].pc)
           /\ worker[w] \in WorkerState
<1>1. worker[w].job \in DOMAIN jobs /\ jobs[worker[w].job].status \in HeldStatus(worker[w].pc)
  BY Zenon DEF LeaseInv
<1> QED  BY <1>1, KeptRow, Zenon DEF TypeOK

\* The worker stays with its job and writes the status that goes with its place.
LEMMA HolderKeeps ==
    ASSUME TypeOK, LeaseInv, NEW w \in Workers, Holding(w), WorkersOnly,
           NEW pc \in HoldingPc \ {"selected"}, At(w, pc),
           \/ jobs' = jobs /\ jobs[worker[w].job].status \in HeldStatus(pc)
           \/ \E s \in HeldStatus(pc) : SetStatus(worker[w].job, s)
    PROVE  HolderStep(w)
<1> DEFINE x == [worker[w] EXCEPT !.pc = pc]
<1> DEFINE j == worker[w].job
<1>1. j \in DOMAIN jobs /\ jobs[j] \in ServiceJob /\ worker[w] \in WorkerState
  BY HolderHas
<1>2. x \in WorkerState /\ worker' = [worker EXCEPT ![w] = x]
  BY AtIsUpdate, Zenon DEF HoldingPc
<1>3. x.pc = pc /\ x.job = j /\ \A row : Knows(x, row)  BY <1>1 DEF WorkerState, Knows
<1>4. CASE jobs' = jobs /\ jobs[j].status \in HeldStatus(pc)
  <2>1. jobs' = [jobs EXCEPT ![j] = jobs[j]]  BY <1>1, <1>4, KeptRow, Zenon
  <2> HIDE DEF x, j
  <2> QED  BY <1>1, <1>2, <1>3, <1>4, <2>1, Zenon DEF HolderStep, j
<1>5. ASSUME NEW s \in HeldStatus(pc), SetStatus(j, s)
      PROVE  HolderStep(w)
  <2>1. s \in {"claimed", "in_progress", "ready", "failed_retry", "failed"}
    BY DEF HeldStatus
  <2> HIDE DEF x, j
  <2>2. PICK row \in ServiceJob :
           /\ row.status = s /\ row.key = jobs[j].key /\ row.attempts = jobs[j].attempts
           /\ jobs' = [jobs EXCEPT ![j] = row]
    <3>1. jobs' = [jobs EXCEPT ![j].status = s]  BY <1>5, Zenon DEF SetStatus
    <3>2. \E row \in ServiceJob :
             /\ row.status = s /\ row.key = jobs[j].key /\ row.attempts = jobs[j].attempts
             /\ [jobs EXCEPT ![j].status = s] = [jobs EXCEPT ![j] = row]
      BY <1>1, <2>1, StatusIsUpdate, Zenon
    <3> QED  BY <3>1, <3>2, Zenon
  <2> QED  BY <1>2, <1>3, <1>5, <2>2, Zenon DEF HolderStep, j
<1> QED  BY <1>4, <1>5, Zenon

LEMMA LoopHolds ==
    ASSUME TypeOK, LeaseInv, NEW w \in Workers,
           setStatus(w) \/ work(w) \/ work_throws(w) \/ complete(w) \/ complete_throws(w)
    PROVE  HolderStep(w)
<1>1. CASE setStatus(w)
  <2>1. worker[w] \in WorkerState  BY DEF TypeOK
  <2>2. worker[w].pc \in {"running", "worked"} /\ SetStatus(worker[w].job, "in_progress")
    BY <1>1, Zenon DEF setStatus
  <2>3. worker' = worker  BY <1>1, Zenon DEF setStatus
  <2>4. At(w, worker[w].pc)  BY <2>1, <2>3 DEF At, TypeOK, WorkerState
  <2>5. WorkersOnly /\ Holding(w)  BY <1>1, <2>2 DEF setStatus, WorkersOnly, TypeOK, Holding
  <2>6. worker[w].pc \in HoldingPc \ {"selected"} /\ "in_progress" \in HeldStatus(worker[w].pc)
    BY <2>2 DEF HoldingPc, HeldStatus
  <2> QED  BY <2>2, <2>4, <2>5, <2>6, HolderKeeps, Zenon
<1>2. CASE work(w)
  <2>1. Holding(w) /\ At(w, "worked") /\ worker[w].pc = "running" /\ jobs' = jobs
    BY <1>2, Zenon DEF work, Holding
  <2>2. worker[w].job \in Jobs
    BY <2>1, HolderHas, QueueAssumption DEF TypeOK, Jobs
  <2>3. WorkersOnly  BY <1>2, <2>2 DEF work, WorkersOnly, TypeOK
  <2>4. jobs[worker[w].job].status \in HeldStatus("worked")
    BY <2>1, HolderHas DEF HeldStatus
  <2> QED  BY <2>1, <2>3, <2>4, HolderKeeps DEF HoldingPc
<1>3. CASE work_throws(w)
  <2>1. Holding(w) /\ At(w, "failing") /\ jobs' = jobs /\ WorkersOnly
    BY <1>3 DEF work_throws, Holding, WorkersOnly, TypeOK
  <2>2. jobs[worker[w].job].status \in HeldStatus("failing")
    BY <1>3, <2>1, HolderHas DEF HeldStatus, work_throws
  <2> QED  BY <2>1, <2>2, HolderKeeps DEF HoldingPc
<1>4. CASE complete(w)
  <2>1. /\ Holding(w) /\ At(w, "completed") /\ SetStatus(worker[w].job, "ready")
        /\ WorkersOnly
    BY <1>4 DEF complete, Holding, WorkersOnly, TypeOK
  <2>2. "ready" \in HeldStatus("completed")  BY DEF HeldStatus
  <2> QED  BY <2>1, <2>2, HolderKeeps DEF HoldingPc
<1>5. CASE complete_throws(w)
  <2>1. Holding(w) /\ At(w, "failing") /\ jobs' = jobs /\ WorkersOnly
    BY <1>5 DEF complete_throws, Holding, WorkersOnly, TypeOK
  <2>2. jobs[worker[w].job].status \in HeldStatus("failing")
    BY <1>5, <2>1, HolderHas DEF HeldStatus, complete_throws
  <2> QED  BY <2>1, <2>2, HolderKeeps DEF HoldingPc
<1> QED  BY <1>1, <1>2, <1>3, <1>4, <1>5

\* fail reads the attempts and notes whether any are left.
LEMMA SelectHolds ==
    ASSUME TypeOK, LeaseInv, NEW w \in Workers, fail_select(w)
    PROVE  HolderStep(w)
<1> DEFINE j == worker[w].job
<1> DEFINE last == jobs[j].attempts >= MaxAttempts
<1> DEFINE x == [worker[w] EXCEPT !.pc = "selected", !.terminal = last]
<1>1. worker[w].pc = "failing" /\ jobs' = jobs /\ WorkersOnly /\ Holding(w)
  BY DEF fail_select, WorkersOnly, TypeOK, Holding
<1>2. /\ j \in DOMAIN jobs /\ jobs[j] \in ServiceJob /\ worker[w] \in WorkerState
      /\ jobs[j].status \in HeldStatus("selected")
  BY <1>1, HolderHas DEF HeldStatus
<1>3. worker' = [worker EXCEPT ![w].pc = "selected", ![w].terminal = last]
  BY Zenon DEF fail_select, NoAttemptsLeft
<1>4. x \in WorkerState /\ x.pc = "selected" /\ x.job = j /\ x.terminal = last
  <2>1. last \in BOOLEAN  OBVIOUS
  <2> HIDE DEF last
  <2> QED  BY <1>2, <2>1, Zenon DEF WorkerState
<1>5. worker' = [worker EXCEPT ![w] = x]
  BY <1>2, <1>3, Zenon DEF TypeOK
<1>6. jobs' = [jobs EXCEPT ![j] = jobs[j]]  BY <1>1, <1>2, KeptRow, Zenon
<1>7. "selected" \in HoldingPc /\ Knows(x, jobs[j])
  <2> HIDE DEF x
  <2> QED  BY <1>4, Zenon DEF HoldingPc, Knows
<1> HIDE DEF x
<1> QED  BY <1>1, <1>2, <1>4, <1>5, <1>6, <1>7, Zenon DEF HolderStep

\* fail settles the job, or puts it back when attempts are left.
LEMMA UpdateHolds ==
    ASSUME TypeOK, LeaseInv, NEW w \in Workers, fail_update(w)
    PROVE  HolderStep(w)
<1> DEFINE j == worker[w].job
<1> DEFINE x == [worker[w] EXCEPT !.pc = "logging"]
<1>1. /\ worker[w].pc = "selected" /\ At(w, "logging") /\ WorkersOnly /\ Holding(w)
      /\ jobs' = IF worker[w].terminal
                 THEN [jobs EXCEPT ![j].status = "failed"]
                 ELSE [jobs EXCEPT ![j].status = "failed_retry", ![j].backoff = TRUE]
  BY DEF fail_update, WorkersOnly, TypeOK, Holding
<1>2. j \in DOMAIN jobs /\ jobs[j] \in ServiceJob /\ worker[w] \in WorkerState
  BY <1>1, HolderHas
<1>3. x \in WorkerState /\ worker' = [worker EXCEPT ![w] = x]
  BY <1>1, AtIsUpdate, Zenon
<1>4. x.pc \notin HoldingPc  BY <1>2 DEF WorkerState, HoldingPc
<1>5. worker[w].terminal = (jobs[j].attempts >= MaxAttempts)
  BY <1>1, Zenon DEF LeaseInv, NoAttemptsLeft
<1> HIDE DEF x, j
<1>6. CASE worker[w].terminal
  <2>1. \E row \in ServiceJob :
           /\ row.status = "failed" /\ row.key = jobs[j].key /\ row.attempts = jobs[j].attempts
           /\ jobs' = [jobs EXCEPT ![j] = row]
    <3>1. jobs' = [jobs EXCEPT ![j].status = "failed"]  BY <1>1, <1>6, Zenon DEF j
    <3>2. \E row \in ServiceJob :
             /\ row.status = "failed" /\ row.key = jobs[j].key
             /\ row.attempts = jobs[j].attempts
             /\ [jobs EXCEPT ![j].status = "failed"] = [jobs EXCEPT ![j] = row]
      BY <1>2, StatusIsUpdate, Zenon
    <3> QED  BY <3>1, <3>2, Zenon
  <2> QED  BY <1>1, <1>3, <1>4, <2>1, Zenon DEF HolderStep, j
<1>7. CASE ~worker[w].terminal
  <2>1. PICK row \in ServiceJob :
           /\ row.status = "failed_retry"
           /\ row.key = jobs[j].key /\ row.attempts = jobs[j].attempts
           /\ jobs' = [jobs EXCEPT ![j] = row]
    BY <1>1, <1>2, <1>7, RetryIsUpdate, Zenon
  <2>2. ~(jobs[j].attempts >= MaxAttempts)  BY <1>5, <1>7, Zenon
  <2>3. row.attempts < MaxAttempts
    BY <1>2, <2>1, <2>2, QueueAssumption DEF ServiceJob
  <2> QED  BY <1>1, <1>3, <1>4, <2>1, <2>3, Zenon DEF HolderStep, j
<1> QED  BY <1>6, <1>7

\* The steps after which a worker holds nothing: the event that ends a round, a
\* loop that dies, a process that is killed or starts again.
LEMMA LettingGo ==
    ASSUME TypeOK, LeaseInv, NEW w \in Workers,
           log_completed(w) \/ log_failed(w) \/ loop_dies(w) \/ Crash(w) \/ Restart(w)
    PROVE  HolderStep(w) \/ FreeStep(w)
<1>1. PICK x \in WorkerState :
          worker' = [worker EXCEPT ![w] = x] /\ x.pc \notin HoldingPc
  <2>1. /\ Idle \in WorkerState /\ Idle.pc \notin HoldingPc
        /\ \A pc \in {"down", "dead"} :
              [Idle EXCEPT !.pc = pc] \in WorkerState /\ [Idle EXCEPT !.pc = pc].pc \notin HoldingPc
    BY Zenon DEF Idle, WorkerState, HoldingPc, None
  <2> QED  BY <2>1, Zenon DEF log_completed, log_failed, loop_dies, Crash, Restart
<1>2. WorkersOnly /\ jobs' = jobs
  BY QueueAssumption DEF log_completed, log_failed, loop_dies, Crash, Restart, WorkersOnly, TypeOK
<1>3. CASE Holding(w)
  <2>1. /\ worker[w].job \in DOMAIN jobs /\ jobs[worker[w].job] \in ServiceJob
        /\ jobs[worker[w].job].status \in {"ready", "claimed", "in_progress"}
    BY <1>3, HolderHas DEF HeldStatus
  <2>2. jobs' = [jobs EXCEPT ![worker[w].job] = jobs[worker[w].job]]
    BY <1>2, <2>1, KeptRow, Zenon
  <2> QED  BY <1>1, <1>2, <1>3, <2>1, <2>2, Zenon DEF HolderStep
<1>4. CASE ~Holding(w)  BY <1>1, <1>2, <1>4, Zenon DEF FreeStep
<1> QED  BY <1>3, <1>4

\* claimNext takes a job that waits, whose attempts are not used up.
LEMMA ClaimTakes ==
    ASSUME TypeOK, LeaseInv, NEW w \in Workers, claimNext(w)
    PROVE  \E j \in DOMAIN jobs : ClaimStep(w, j)
<1>1. PICK j \in DOMAIN jobs :
          /\ worker[w].pc = "idle" /\ Available(j)
          /\ jobs' = [jobs EXCEPT ![j].status = "claimed", ![j].attempts = @ + 1]
          /\ worker' = [worker EXCEPT ![w].pc = "running", ![w].job = j]
          /\ UNCHANGED <<client, crashes, performed, answers>>
  BY Zenon DEF claimNext
<1> DEFINE x == [worker[w] EXCEPT !.pc = "running", !.job = j]
<1> DEFINE n == jobs[j].attempts + 1
<1> DEFINE row == [jobs[j] EXCEPT !.status = "claimed", !.attempts = n]
<1>2. jobs[j] \in ServiceJob /\ worker[w] \in WorkerState /\ j \in Jobs
  BY QueueAssumption DEF TypeOK, Jobs
<1>3. jobs[j].status \in {"queued", "failed_retry"} /\ jobs[j].attempts < MaxAttempts
  BY <1>1 DEF Available, LeaseInv
<1>4. /\ row \in ServiceJob /\ row.status = "claimed" /\ row.key = jobs[j].key
      /\ row.attempts = n
  <2>1. jobs[j].attempts \in 0..MaxAttempts  BY <1>2 DEF ServiceJob
  <2>2. n \in 0..MaxAttempts  BY <1>3, <2>1, QueueAssumption
  <2> HIDE DEF n
  <2> QED  BY <1>2, <2>2, Zenon DEF ServiceJob
<1>5. x \in WorkerState /\ x.pc = "running" /\ x.job = j
  BY <1>2, Zenon DEF WorkerState
<1>6. worker' = [worker EXCEPT ![w] = x]  BY <1>1, <1>2, Zenon DEF TypeOK
<1>7. jobs' = [jobs EXCEPT ![j] = row]  BY <1>1, <1>2, Zenon DEF TypeOK
<1>8. WorkersOnly /\ ~Holding(w)  BY <1>1 DEF WorkersOnly, TypeOK, Holding
<1> HIDE DEF x, row
<1> QED  BY <1>3, <1>4, <1>5, <1>6, <1>7, <1>8, Zenon DEF ClaimStep

-----------------------------------------------------------------------------
(* The invariant is inductive *)

\* Writing a row under its own key leaves the keys alone.
LEMMA KeyFrame ==
    ASSUME KeyInv, DOMAIN jobs' = DOMAIN jobs, client' = client, answers' = answers,
           \A i \in DOMAIN jobs : jobs'[i].key = jobs[i].key
    PROVE  KeyInv'
BY Zenon DEF KeyInv

LEMMA HolderStepInv ==
    ASSUME QInv, NEW w \in Workers, HolderStep(w)
    PROVE  QInv'
<1> DEFINE j == worker[w].job
<1>1. PICK x \in WorkerState, row \in ServiceJob : HolderStep(w)!(x, row)
  BY Zenon DEF HolderStep
<1>2. TypeOK /\ LeaseInv /\ KeyInv  BY Zenon DEF QInv
<1>3. j \in DOMAIN jobs /\ \A v \in Workers \ {w} : Holding(v) => worker[v].job # j
  BY <1>1, <1>2, HeldAlone, Zenon
<1>4. /\ jobs' \in Seq(ServiceJob) /\ Len(jobs') = Len(jobs)
      /\ DOMAIN jobs' = DOMAIN jobs
      /\ jobs'[j] = row
      /\ \A i \in DOMAIN jobs : i # j => jobs'[i] = jobs[i]
  BY <1>1, <1>2, <1>3, UpdateRow, Zenon DEF TypeOK
<1>5. TypeOK'
  BY <1>1, <1>2, <1>4 DEF TypeOK, WorkersOnly
<1>6. row.status \in {"queued", "failed_retry"} => row.attempts < MaxAttempts
  BY <1>1 DEF HeldStatus
<1>7. LeaseInv'
  <2>1. x.pc \in HoldingPc =>
           /\ x.job = j /\ row.status \in HeldStatus(x.pc)
           /\ Knows(x, row)
    BY <1>1, Zenon
  <2>2. worker' = [worker EXCEPT ![w] = x] /\ jobs' = [jobs EXCEPT ![j] = row]
    BY <1>1, Zenon
  <2>3. j \in DOMAIN jobs  BY <1>3, Zenon
  <2>4. \A v \in Workers \ {w} : Holding(v) => worker[v].job # j  BY <1>3, Zenon
  <2> HIDE DEF j
  <2> QED  BY <1>2, <1>6, <2>1, <2>2, <2>3, <2>4, WorkerWrites, Zenon
<1>8. KeyInv'
  BY <1>1, <1>2, <1>4, KeyFrame, Zenon DEF WorkersOnly
<1> QED  BY <1>5, <1>7, <1>8, Zenon DEF QInv

LEMMA FreeStepInv ==
    ASSUME QInv, NEW w \in Workers, FreeStep(w)
    PROVE  QInv'
<1>1. PICK x \in WorkerState : FreeStep(w)!(x)  BY Zenon DEF FreeStep
<1>2. TypeOK /\ LeaseInv /\ KeyInv  BY Zenon DEF QInv
<1>3. TypeOK'  BY <1>1, <1>2 DEF TypeOK, WorkersOnly
<1>4. LeaseInv'  BY <1>1, <1>2, WorkerLetsGo, Zenon
<1>5. KeyInv'  BY <1>1, <1>2, KeyFrame, Zenon DEF WorkersOnly
<1> QED  BY <1>3, <1>4, <1>5, Zenon DEF QInv

LEMMA ClaimStepInv ==
    ASSUME QInv, NEW w \in Workers, NEW j \in DOMAIN jobs, ClaimStep(w, j)
    PROVE  QInv'
<1>1. PICK x \in WorkerState, row \in ServiceJob : ClaimStep(w, j)!(x, row)
  BY Zenon DEF ClaimStep
<1>2. TypeOK /\ LeaseInv /\ KeyInv  BY Zenon DEF QInv
<1>3. \A v \in Workers \ {w} : Holding(v) => worker[v].job # j
  BY <1>1, <1>2, WaitingIsFree, Zenon
<1>4. /\ jobs' \in Seq(ServiceJob) /\ Len(jobs') = Len(jobs)
      /\ DOMAIN jobs' = DOMAIN jobs
      /\ jobs'[j] = row
      /\ \A i \in DOMAIN jobs : i # j => jobs'[i] = jobs[i]
  BY <1>1, <1>2, UpdateRow, Zenon DEF TypeOK
<1>5. TypeOK'  BY <1>1, <1>2, <1>4 DEF TypeOK, WorkersOnly
<1>6. LeaseInv'
  <2>1. /\ row.status \notin {"queued", "failed_retry"}
        /\ Knows(x, row) /\ row.status \in HeldStatus(x.pc)
    BY <1>1 DEF HeldStatus, Knows
  <2> QED  BY <1>1, <1>2, <1>3, <2>1, WorkerWrites, Zenon
<1>7. KeyInv'  BY <1>1, <1>2, <1>4, KeyFrame, Zenon DEF WorkersOnly
<1> QED  BY <1>5, <1>6, <1>7, Zenon DEF QInv

\* No row and no worker changes: leases stay as they are.
LEMMA LeaseFrame ==
    ASSUME LeaseInv, jobs' = jobs, worker' = worker
    PROVE  LeaseInv'
BY Zenon DEF LeaseInv, Holding, NoAttemptsLeft

\* An enqueue call moves on without inserting anything.
LEMMA CallMovesInv ==
    ASSUME QInv, NEW c \in Clients, NEW x \in ClientState, client' = [client EXCEPT ![c] = x],
           x.pc = "logging" => x.job \in DOMAIN jobs /\ jobs[x.job].key = x.key,
           \A a \in answers' \ answers :
               /\ a \in (Keys \union {NoKey}) \X Jobs
               /\ a[2] \in DOMAIN jobs /\ jobs[a[2]].key = a[1],
           answers \subseteq answers',
           UNCHANGED <<jobs, worker, crashes, performed>>
    PROVE  QInv'
<1>1. TypeOK /\ LeaseInv /\ KeyInv  BY Zenon DEF QInv
<1>2. client'[c] = x /\ \A d \in Clients : d # c => client'[d] = client[d]
  BY <1>1 DEF TypeOK
<1>3. TypeOK'  BY <1>1 DEF TypeOK
<1>4. LeaseInv'  BY <1>1, LeaseFrame, Zenon
<1>5. KeyInv'
  <2>1. \A d \in Clients : client'[d].pc = "logging" =>
           client'[d].job \in DOMAIN jobs /\ jobs[client'[d].job].key = client'[d].key
    BY <1>1, <1>2, Zenon DEF KeyInv
  <2>2. \A a \in answers' : a[2] \in DOMAIN jobs /\ jobs[a[2]].key = a[1]
    BY <1>1, Zenon DEF KeyInv
  <2> QED  BY <1>1, <2>1, <2>2, Zenon DEF KeyInv
<1> QED  BY <1>3, <1>4, <1>5, Zenon DEF QInv

\* enqueue answers with the job of a key.
LEMMA ReturnInv ==
    ASSUME QInv, NEW c \in Clients, NEW k \in Keys \union {NoKey}, NEW j \in DOMAIN jobs,
           jobs[j].key = k, Return(c, k, j), UNCHANGED <<jobs, worker, crashes, performed>>
    PROVE  QInv'
<1> DEFINE x == [pc |-> "returned", key |-> k, job |-> j]
<1>1. j \in Jobs  BY QueueAssumption DEF QInv, TypeOK, Jobs
<1>2. x \in ClientState /\ x.pc # "logging"  BY <1>1 DEF ClientState
<1>3. client' = [client EXCEPT ![c] = x]  BY Zenon DEF Return
<1>4. /\ answers \subseteq answers'
      /\ \A a \in answers' \ answers :
            /\ a \in (Keys \union {NoKey}) \X Jobs
            /\ a[2] \in DOMAIN jobs /\ jobs[a[2]].key = a[1]
  BY <1>1 DEF Return
<1> HIDE DEF x
<1> QED  BY <1>2, <1>3, <1>4, CallMovesInv, Zenon

\* The place of a call changes.
LEMMA CallThrowsInv ==
    ASSUME QInv, NEW c \in Clients, client' = [client EXCEPT ![c].pc = "threw"],
           UNCHANGED <<jobs, worker, crashes, performed, answers>>
    PROVE  QInv'
<1> DEFINE x == [client[c] EXCEPT !.pc = "threw"]
<1>1. client[c] \in ClientState  BY DEF QInv, TypeOK
<1>2. x \in ClientState /\ x.pc # "logging"  BY <1>1 DEF ClientState
<1>3. client' = [client EXCEPT ![c] = x]  BY <1>1 DEF QInv, TypeOK
<1> HIDE DEF x
<1> QED  BY <1>2, <1>3, CallMovesInv, Zenon

\* A row is inserted under a key no row has.
LEMMA InsertInv ==
    ASSUME QInv, NEW c \in Clients, insert(c)
    PROVE  QInv'
<1> DEFINE k == client[c].key
<1> DEFINE n == Len(jobs) + 1
<1> DEFINE row == [key |-> k, status |-> "queued", attempts |-> 0, backoff |-> FALSE]
<1> DEFINE x == [client[c] EXCEPT !.pc = "logging", !.job = n]
<1>1. TypeOK /\ LeaseInv /\ KeyInv  BY Zenon DEF QInv
<1>2. /\ client[c] \in ClientState /\ Len(jobs) < MaxJobs /\ ~KeyTaken(k)
      /\ jobs' = Append(jobs, row)
      /\ client' = [client EXCEPT ![c].pc = "logging", ![c].job = n]
      /\ UNCHANGED <<worker, crashes, performed, answers>>
  BY <1>1 DEF insert, TypeOK
<1>3. n \in Jobs /\ n \in Nat  BY <1>1, <1>2, QueueAssumption DEF TypeOK, Jobs
<1>4. row \in ServiceJob  BY <1>2, QueueAssumption DEF ServiceJob, ClientState
<1>5. /\ jobs' \in Seq(ServiceJob) /\ Len(jobs') = n /\ DOMAIN jobs' = DOMAIN jobs \union {n}
      /\ n \notin DOMAIN jobs /\ jobs'[n] = row
      /\ \A j \in DOMAIN jobs : jobs'[j] = jobs[j]
  BY <1>1, <1>2, <1>4 DEF TypeOK
<1>6. x \in ClientState /\ x.key = k /\ x.job = n  BY <1>2, <1>3, Zenon DEF ClientState
<1>7. client' = [client EXCEPT ![c] = x]  BY <1>1, <1>2, Zenon DEF TypeOK
<1>8. client'[c] = x /\ \A d \in Clients : d # c => client'[d] = client[d]
  BY <1>1, <1>7 DEF TypeOK
<1>9. row.key = k /\ row.status = "queued" /\ row.attempts = 0  OBVIOUS
<1> HIDE DEF x, row
<1>10. TypeOK'
  <2>1. Len(jobs') <= MaxJobs  BY <1>2, <1>3, <1>5, QueueAssumption DEF Jobs
  <2>2. client' \in [Clients -> ClientState]  BY <1>1, <1>6, <1>7 DEF TypeOK
  <2> QED  BY <1>1, <1>2, <1>5, <2>1, <2>2, Zenon DEF TypeOK
<1> HIDE DEF n
<1>11. LeaseInv'
  <2>1. \A w \in Workers : Holding(w)' <=> Holding(w)  BY <1>2, Zenon DEF Holding
  <2>2. \A j \in DOMAIN jobs : NoAttemptsLeft(j)' <=> NoAttemptsLeft(j)
    BY <1>5, Zenon DEF NoAttemptsLeft
  <2>3. \A w \in Workers : Holding(w) =>
           /\ worker'[w].job \in DOMAIN jobs'
           /\ jobs'[worker'[w].job].status \in HeldStatus(worker'[w].pc)
           /\ worker'[w].pc = "selected" => worker'[w].terminal = NoAttemptsLeft(worker[w].job)'
    <3>1. ASSUME NEW w \in Workers, Holding(w)
          PROVE  /\ worker'[w].job \in DOMAIN jobs'
                 /\ jobs'[worker'[w].job].status \in HeldStatus(worker'[w].pc)
      BY <1>1, <1>2, <1>5, <3>1, Zenon DEF LeaseInv
    <3>2. ASSUME NEW w \in Workers, Holding(w), worker'[w].pc = "selected"
          PROVE  worker'[w].terminal = NoAttemptsLeft(worker[w].job)'
      <4>1. worker[w].job \in DOMAIN jobs /\ worker[w].terminal = NoAttemptsLeft(worker[w].job)
        BY <1>1, <1>2, <3>2, Zenon DEF LeaseInv
      <4>2. worker' = worker /\ jobs'[worker[w].job] = jobs[worker[w].job]
        BY <1>2, <1>5, <4>1, Zenon
      <4> QED  BY <4>1, <4>2, Zenon DEF NoAttemptsLeft
    <3> QED  BY <3>1, <3>2, Zenon
  <2>4. \A u, v \in Workers :
           Holding(u) /\ Holding(v) /\ worker'[u].job = worker'[v].job => u = v
    BY <1>1, <1>2, Zenon DEF LeaseInv
  <2>5. \A j \in DOMAIN jobs' :
           jobs'[j].status \in {"queued", "failed_retry"} => jobs'[j].attempts < MaxAttempts
    <3>1. jobs'[n].attempts < MaxAttempts  BY <1>5, <1>9, QueueAssumption
    <3> QED  BY <1>1, <1>5, <3>1, Zenon DEF LeaseInv
  <2> QED  BY <2>1, <2>3, <2>4, <2>5, Zenon DEF LeaseInv
<1>12. KeyInv'
  <2>1. \A j \in DOMAIN jobs : k # NoKey => jobs[j].key # k
    BY <1>2 DEF KeyTaken, WithKey
  <2>2. \A i, j \in DOMAIN jobs' : jobs'[i].key = jobs'[j].key /\ jobs'[i].key # NoKey => i = j
    <3> SUFFICES ASSUME NEW i \in DOMAIN jobs', NEW j \in DOMAIN jobs',
                        jobs'[i].key = jobs'[j].key, jobs'[i].key # NoKey
                 PROVE  i = j
      BY Zenon
    <3>1. CASE i = n \/ j = n  BY <1>5, <1>9, <2>1, <3>1, Zenon
    <3>2. CASE i # n /\ j # n
      <4>1. /\ i \in DOMAIN jobs /\ j \in DOMAIN jobs
            /\ jobs'[i] = jobs[i] /\ jobs'[j] = jobs[j]
        BY <1>5, <3>2, Zenon
      <4> QED  BY <1>1, <4>1, Zenon DEF KeyInv
    <3> QED  BY <3>1, <3>2, Zenon
  <2>3. \A d \in Clients : client'[d].pc = "logging" =>
           client'[d].job \in DOMAIN jobs' /\ jobs'[client'[d].job].key = client'[d].key
    <3> SUFFICES ASSUME NEW d \in Clients, client'[d].pc = "logging"
                 PROVE  /\ client'[d].job \in DOMAIN jobs'
                        /\ jobs'[client'[d].job].key = client'[d].key
      BY Zenon
    <3>1. CASE d = c  BY <1>5, <1>6, <1>8, <1>9, <3>1, Zenon
    <3>2. CASE d # c
      <4>1. client'[d] = client[d]  BY <1>8, <3>2, Zenon
      <4>2. client[d].job \in DOMAIN jobs /\ jobs[client[d].job].key = client[d].key
        BY <1>1, <4>1, Zenon DEF KeyInv
      <4> QED  BY <1>5, <4>1, <4>2, Zenon
    <3> QED  BY <3>1, <3>2, Zenon
  <2>4. \A a \in answers' : a[2] \in DOMAIN jobs' /\ jobs'[a[2]].key = a[1]
    <3>1. ASSUME NEW a \in answers'
          PROVE  a[2] \in DOMAIN jobs' /\ jobs'[a[2]].key = a[1]
      <4>1. a[2] \in DOMAIN jobs /\ jobs[a[2]].key = a[1]
        BY <1>1, <1>2, Zenon DEF KeyInv
      <4> QED  BY <1>5, <4>1, Zenon
    <3> QED  BY <3>1, Zenon
  <2> QED  BY <2>2, <2>3, <2>4, Zenon DEF KeyInv
<1> QED  BY <1>10, <1>11, <1>12, Zenon DEF QInv

\* The delay of a retry ends.
LEMMA BackoffInv ==
    ASSUME QInv, NEW j \in DOMAIN jobs, BackoffElapses(j)
    PROVE  /\ QInv'
           /\ worker' = worker /\ DOMAIN jobs' = DOMAIN jobs
           /\ \A i \in DOMAIN jobs :
                 jobs'[i].status = jobs[i].status /\ jobs'[i].attempts = jobs[i].attempts
<1> DEFINE row == [jobs[j] EXCEPT !.backoff = FALSE]
<1>1. TypeOK /\ LeaseInv /\ KeyInv  BY Zenon DEF QInv
<1>2. /\ jobs' = [jobs EXCEPT ![j].backoff = FALSE]
      /\ UNCHANGED <<client, worker, crashes, performed, answers>>
  BY Zenon DEF BackoffElapses
<1>3. jobs[j] \in ServiceJob  BY <1>1 DEF TypeOK
<1>4. /\ row \in ServiceJob /\ row.status = jobs[j].status
      /\ row.attempts = jobs[j].attempts /\ row.key = jobs[j].key
  BY <1>3, Zenon DEF ServiceJob
<1>5. jobs' = [jobs EXCEPT ![j] = row]  BY <1>1, <1>2 DEF TypeOK
<1> HIDE DEF row
<1>6. /\ jobs' \in Seq(ServiceJob) /\ Len(jobs') = Len(jobs)
      /\ DOMAIN jobs' = DOMAIN jobs
      /\ jobs'[j] = row
      /\ \A i \in DOMAIN jobs : i # j => jobs'[i] = jobs[i]
  BY <1>1, <1>4, <1>5, UpdateRow, Zenon DEF TypeOK
<1>7. \A i \in DOMAIN jobs : /\ jobs'[i].status = jobs[i].status /\ jobs'[i].key = jobs[i].key
                             /\ jobs'[i].attempts = jobs[i].attempts
  BY <1>4, <1>6, Zenon
<1>8. TypeOK'  BY <1>1, <1>2, <1>6 DEF TypeOK
<1>9. LeaseInv'
  <2>1. \A w \in Workers : Holding(w)' <=> Holding(w)  BY <1>2, Zenon DEF Holding
  <2>2. ASSUME NEW w \in Workers, Holding(w)
        PROVE  /\ worker'[w].job \in DOMAIN jobs'
               /\ jobs'[worker'[w].job].status \in HeldStatus(worker'[w].pc)
               /\ worker'[w].pc = "selected" => worker'[w].terminal = NoAttemptsLeft(worker[w].job)'
    <3>1. worker' = worker /\ worker[w].job \in DOMAIN jobs
      BY <1>1, <1>2, <2>2, Zenon DEF LeaseInv
    <3>2. NoAttemptsLeft(worker[w].job)' = NoAttemptsLeft(worker[w].job)
      BY <1>7, <3>1, Zenon DEF NoAttemptsLeft
    <3> QED  BY <1>1, <1>6, <1>7, <2>2, <3>1, <3>2, Zenon DEF LeaseInv
  <2>3. \A u, v \in Workers :
           Holding(u) /\ Holding(v) /\ worker'[u].job = worker'[v].job => u = v
    BY <1>1, <1>2, Zenon DEF LeaseInv
  <2>4. \A i \in DOMAIN jobs' :
           jobs'[i].status \in {"queued", "failed_retry"} => jobs'[i].attempts < MaxAttempts
    BY <1>1, <1>6, <1>7, Zenon DEF LeaseInv
  <2> QED  BY <2>1, <2>2, <2>3, <2>4, Zenon DEF LeaseInv
<1>10. KeyInv'  BY <1>1, <1>2, <1>6, <1>7, KeyFrame, Zenon
<1> QED  BY <1>2, <1>6, <1>7, <1>8, <1>9, <1>10, Zenon DEF QInv

\* What a step of the queue is, seen from its rows and its workers.
LEMMA StepKinds ==
    ASSUME QInv, Next
    PROVE  \/ \E w \in Workers : HolderStep(w) \/ FreeStep(w)
           \/ \E w \in Workers, j \in DOMAIN jobs : ClaimStep(w, j)
           \/ \E c \in Clients : insert(c)
           \/ \E j \in DOMAIN jobs : BackoffElapses(j)
           \/ \E c \in Clients : ClientStep(c) /\ ~insert(c)
<1>1. TypeOK /\ LeaseInv  BY Zenon DEF QInv
<1>2. ASSUME NEW w \in Workers, LoopStep(w) \/ Fault(w) \/ Restart(w)
      PROVE  HolderStep(w) \/ FreeStep(w) \/ \E j \in DOMAIN jobs : ClaimStep(w, j)
  <2>1. CASE claimNext(w)  BY <1>1, <2>1, ClaimTakes, Zenon
  <2>2. CASE setStatus(w) \/ work(w) \/ work_throws(w) \/ complete(w) \/ complete_throws(w)
    BY <1>1, <2>2, LoopHolds, Zenon
  <2>3. CASE fail_select(w)  BY <1>1, <2>3, SelectHolds, Zenon
  <2>4. CASE fail_update(w)  BY <1>1, <2>4, UpdateHolds, Zenon
  <2>5. CASE log_completed(w) \/ log_failed(w) \/ loop_dies(w) \/ Crash(w) \/ Restart(w)
    BY <1>1, <2>5, LettingGo, Zenon
  <2> QED  BY <1>2, <2>1, <2>2, <2>3, <2>4, <2>5, Zenon DEF LoopStep, Fault
<1> QED  BY <1>2, Zenon DEF Next

\* A client step that inserts nothing leaves rows and workers alone.
LEMMA CallInv ==
    ASSUME QInv, NEW c \in Clients, ClientStep(c), ~insert(c)
    PROVE  QInv' /\ jobs' = jobs /\ worker' = worker
<1>1. TypeOK /\ KeyInv  BY Zenon DEF QInv
<1>2. ASSUME NEW k \in Keys \union {NoKey}, enqueue(c, k)
      PROVE  QInv' /\ jobs' = jobs /\ worker' = worker
  <2>1. UNCHANGED <<jobs, worker, crashes, performed>>  BY <1>2, Zenon DEF enqueue
  <2>2. CASE WithKey(k) # {}
    <3>1. PICK j \in WithKey(k) : Return(c, k, j)  BY <1>2, <2>2, Zenon DEF enqueue
    <3>2. j \in DOMAIN jobs /\ jobs[j].key = k  BY <3>1 DEF WithKey
    <3> QED  BY <2>1, <3>1, <3>2, ReturnInv, Zenon
  <2>3. CASE WithKey(k) = {}
    <3> DEFINE x == [pc |-> "inserting", key |-> k, job |-> None]
    <3>1. client' = [client EXCEPT ![c] = x] /\ answers' = answers
      BY <1>2, <2>3, Zenon DEF enqueue
    <3>2. x \in ClientState /\ x.pc # "logging"  BY DEF ClientState, None
    <3> HIDE DEF x
    <3> QED  BY <2>1, <3>1, <3>2, CallMovesInv, Zenon
  <2> QED  BY <2>2, <2>3, Zenon
<1>3. CASE insert_conflict(c) \/ enqueue_throws(c)
  BY <1>3, CallThrowsInv, Zenon DEF insert_conflict, enqueue_throws
<1>4. CASE log_enqueued(c)
  <2>1. client[c] \in ClientState  BY <1>1 DEF TypeOK
  <2>2. client[c].key \in Keys \union {NoKey}  BY <2>1 DEF ClientState
  <2>3. client[c].job \in DOMAIN jobs /\ jobs[client[c].job].key = client[c].key
    BY <1>1, <1>4, Zenon DEF KeyInv, log_enqueued
  <2>4. Return(c, client[c].key, client[c].job) /\ UNCHANGED <<jobs, worker, crashes, performed>>
    BY <1>4, Zenon DEF log_enqueued
  <2> QED  BY <2>2, <2>3, <2>4, ReturnInv, Zenon
<1> QED  BY <1>2, <1>3, <1>4, Zenon DEF ClientStep

LEMMA InitQInv ==
    ASSUME Init
    PROVE  QInv
<1>1. TypeOK
  BY QueueAssumption DEF Init, TypeOK, Idle, None, ClientState, WorkerState, ServiceJob
<1>2. DOMAIN jobs = {} /\ answers = {}  BY DEF Init
<1>3. \A w \in Workers : ~Holding(w)  BY DEF Init, Holding, Idle
<1>4. \A c \in Clients : client[c].pc # "logging"  BY DEF Init
<1> QED  BY <1>1, <1>2, <1>3, <1>4, Zenon DEF QInv, LeaseInv, KeyInv

LEMMA NextQInv ==
    ASSUME QInv, [Next]_vars
    PROVE  QInv'
<1>1. CASE Next
  BY <1>1, StepKinds, HolderStepInv, FreeStepInv, ClaimStepInv, InsertInv, BackoffInv, CallInv,
     Zenon
<1>2. CASE UNCHANGED vars
  <2>1. UNCHANGED <<jobs, client, worker, crashes, performed, answers>>  BY <1>2, Zenon DEF vars
  <2>2. LeaseInv'  BY <2>1, LeaseFrame, Zenon DEF QInv
  <2>3. TypeOK'  BY <2>1 DEF QInv, TypeOK
  <2>4. KeyInv'  BY <2>1, KeyFrame, Zenon DEF QInv
  <2> QED  BY <2>2, <2>3, <2>4, Zenon DEF QInv
<1> QED  BY <1>1, <1>2, Zenon

\* However clients, workers, faults and crashes interleave, a job is in the
\* hands of one worker, what fail read of its attempts is still true when it
\* updates them, and a key names one row.
THEOREM QueueInvariant == Spec => []QInv
<1>1. Init => QInv  BY InitQInv
<1>2. QInv /\ [Next]_vars => QInv'  BY NextQInv
<1> QED  BY <1>1, <1>2, PTL DEF Spec

\* Every enqueue call that returns for an idempotency key returns the same job,
\* however the selects and the inserts of concurrent calls interleave.
THEOREM QueueIdempotentEnqueue == Spec => []IdempotentEnqueue
<1>1. QInv => IdempotentEnqueue  BY Zenon DEF QInv, KeyInv, IdempotentEnqueue
<1> QED  BY <1>1, QueueInvariant, PTL

-----------------------------------------------------------------------------
(* The queue implements JobLease *)

HeldBySome(j) == \E w \in Workers : Holding(w) /\ worker[w].job = j

Attempts(j) == IF j \in DOMAIN jobs THEN jobs[j].attempts ELSE 0

\* The phase of a job from its row and from whether someone holds it.
PhaseIs(j) ==
    /\ j \notin DOMAIN jobs => Phase(j) = "none"
    /\ j \in DOMAIN jobs /\ HeldBySome(j) => Phase(j) = "leased"
    /\ j \in DOMAIN jobs /\ ~HeldBySome(j) =>
          /\ jobs[j].status \in {"ready", "failed"} => Phase(j) = "settled"
          /\ jobs[j].status \in {"claimed", "in_progress"} => Phase(j) = "lost"
          /\ jobs[j].status \in {"queued", "failed_retry"} => Phase(j) = "waiting"

LEMMA PhaseNow ==
    ASSUME NEW j
    PROVE  PhaseIs(j)
<1>1. Holders(j) # {} <=> HeldBySome(j)  BY Zenon DEF Holders, HeldBySome
<1>2. CASE j \notin DOMAIN jobs  BY <1>2 DEF PhaseIs, Phase
<1>3. CASE j \in DOMAIN jobs /\ HeldBySome(j)  BY <1>1, <1>3 DEF PhaseIs, Phase, Settled, Orphaned
<1>4. CASE j \in DOMAIN jobs /\ ~HeldBySome(j)
  BY <1>1, <1>4 DEF PhaseIs, Phase, Settled, Orphaned
<1> QED  BY <1>2, <1>3, <1>4

LEMMA PhaseNext ==
    ASSUME NEW CONSTANT j
    PROVE  PhaseIs(j)'
<1>1. (Holders(j) # {})' <=> HeldBySome(j)'  BY Zenon DEF Holders, HeldBySome
<1>2. CASE j \notin DOMAIN jobs'  BY <1>2 DEF PhaseIs, Phase
<1>3. CASE j \in DOMAIN jobs' /\ HeldBySome(j)'  BY <1>1, <1>3 DEF PhaseIs, Phase, Settled, Orphaned
<1>4. CASE j \in DOMAIN jobs' /\ ~HeldBySome(j)'
  BY <1>1, <1>4 DEF PhaseIs, Phase, Settled, Orphaned
<1> QED  BY <1>2, <1>3, <1>4

\* The phase of a job stays when its row has the same status and the same
\* workers hold it.
LEMMA PhaseStays ==
    ASSUME NEW CONSTANT j, j \in DOMAIN jobs' <=> j \in DOMAIN jobs,
           j \in DOMAIN jobs => /\ jobs'[j].status = jobs[j].status
                                /\ jobs'[j].attempts = jobs[j].attempts,
           HeldBySome(j)' <=> HeldBySome(j)
    PROVE  Phase(j)' = Phase(j) /\ Attempts(j)' = Attempts(j)
<1>1. (Holders(j) # {})' <=> Holders(j) # {}
  BY Zenon DEF Holders, HeldBySome
<1>2. Attempts(j)' = Attempts(j)  BY Zenon DEF Attempts
<1>3. CASE j \notin DOMAIN jobs  BY <1>2, <1>3 DEF Phase
<1>4. CASE j \in DOMAIN jobs  BY <1>1, <1>2, <1>4 DEF Phase, Settled, Orphaned
<1> QED  BY <1>3, <1>4

\* When one worker changes, only its old and its new job may change hands.
LEMMA HandsStay ==
    ASSUME TypeOK, NEW w \in Workers, NEW x \in WorkerState, worker' = [worker EXCEPT ![w] = x]
    PROVE  /\ \A j : /\ ~(Holding(w) /\ worker[w].job = j)
                     /\ ~(x.pc \in HoldingPc /\ x.job = j)
                     => (HeldBySome(j)' <=> HeldBySome(j))
           /\ x.pc \in HoldingPc => HeldBySome(x.job)'
           /\ Holding(w) => HeldBySome(worker[w].job)
<1>1. worker'[w] = x /\ \A v \in Workers : v # w => worker'[v] = worker[v]
  BY UpdateWorker, Zenon DEF TypeOK
<1>2. Holding(w)' <=> x.pc \in HoldingPc  BY <1>1, Zenon DEF Holding, HoldingPc
<1>3. \A v \in Workers : v # w => (Holding(v)' <=> Holding(v))  BY <1>1, Zenon DEF Holding
<1>4. ASSUME NEW j, ~(Holding(w) /\ worker[w].job = j), ~(x.pc \in HoldingPc /\ x.job = j)
      PROVE  HeldBySome(j)' <=> HeldBySome(j)
  <2>1. ASSUME NEW v \in Workers
        PROVE  (Holding(v) /\ worker[v].job = j)' <=> Holding(v) /\ worker[v].job = j
    BY <1>1, <1>2, <1>3, <1>4, Zenon
  <2> QED  BY <2>1, Zenon DEF HeldBySome
<1>5. x.pc \in HoldingPc => HeldBySome(x.job)'  BY <1>1, <1>2, Zenon DEF HeldBySome
<1>6. Holding(w) => HeldBySome(worker[w].job)  BY Zenon DEF HeldBySome
<1> QED  BY <1>4, <1>5, <1>6, Zenon

\* A phase or a count that changes for one job changes the map at that job.
LEMMA MapAtOneJob ==
    ASSUME NEW j \in Jobs
    PROVE  /\ \A to : /\ Phase(j)' = to
                      /\ \A i \in Jobs \ {j} : Phase(i)' = Phase(i)
                      => [i \in Jobs |-> Phase(i)]' = [[i \in Jobs |-> Phase(i)] EXCEPT ![j] = to]
           /\ \A to : /\ Attempts(j)' = to
                      /\ \A i \in Jobs \ {j} : Attempts(i)' = Attempts(i)
                      => [i \in Jobs |-> Attempts(i)]'
                            = [[i \in Jobs |-> Attempts(i)] EXCEPT ![j] = to]
BY Zenon

\* The moves of one job that JobLease allows.
JobMoves(j) ==
    \/ Phase(j)' = Phase(j) /\ Attempts(j)' = Attempts(j)
    \/ Phase(j) = "none" /\ Phase(j)' = "waiting" /\ Attempts(j)' = Attempts(j)
    \/ /\ Phase(j) = "waiting" /\ Phase(j)' = "leased"
       /\ Attempts(j) < MaxAttempts /\ Attempts(j)' = Attempts(j) + 1
    \/ /\ Phase(j) = "leased" /\ Phase(j)' = "waiting"
       /\ Attempts(j) < MaxAttempts /\ Attempts(j)' = Attempts(j)
    \/ Phase(j) = "leased" /\ Phase(j)' \in {"settled", "lost"} /\ Attempts(j)' = Attempts(j)

LEMMA MovesRefine ==
    ASSUME NEW j \in Jobs, JobMoves(j),
           \A i \in Jobs \ {j} : Phase(i)' = Phase(i) /\ Attempts(i)' = Attempts(i)
    PROVE  [Lease!Next]_(Lease!vars)
<1> DEFINE ph == [i \in Jobs |-> Phase(i)]
<1> DEFINE ls == [i \in Jobs |-> Attempts(i)]
<1>1. ls = [i \in Jobs |-> IF i \in DOMAIN jobs THEN jobs[i].attempts ELSE 0]
  BY Zenon DEF Attempts
<1>2. ls' = [i \in Jobs |-> IF i \in DOMAIN jobs THEN jobs[i].attempts ELSE 0]'
  BY Zenon DEF Attempts
<1>3. ph[j] = Phase(j) /\ ls[j] = Attempts(j)  OBVIOUS
<1>4. ph' = [ph EXCEPT ![j] = Phase(j)']  BY MapAtOneJob, Zenon
<1>5. ls' = [ls EXCEPT ![j] = Attempts(j)']  BY MapAtOneJob, Zenon
<1>6. [ph EXCEPT ![j] = Phase(j)] = ph /\ [ls EXCEPT ![j] = Attempts(j)] = ls  BY Zenon
<1>7. Attempts(j)' = Attempts(j) => ls' = ls  BY <1>5, <1>6, Zenon
<1>8. Attempts(j)' = Attempts(j) + 1 => ls' = [ls EXCEPT ![j] = @ + 1]  BY <1>3, <1>5
<1> HIDE DEF ph, ls
<1>9. CASE Phase(j)' = Phase(j) /\ Attempts(j)' = Attempts(j)
  <2>1. ph' = ph /\ ls' = ls  BY <1>4, <1>6, <1>7, <1>9, Zenon
  <2> QED  BY <1>1, <1>2, <2>1 DEF Lease!vars, ph
<1>10. CASE Phase(j) = "none" /\ Phase(j)' = "waiting" /\ Attempts(j)' = Attempts(j)
  <2>1. Lease!Create(j)
    BY <1>1, <1>2, <1>3, <1>4, <1>7, <1>10, Zenon DEF Lease!Create, Lease!Move, ph
  <2> QED  BY <2>1, Zenon DEF Lease!Next
<1>11. CASE /\ Phase(j) = "waiting" /\ Phase(j)' = "leased"
            /\ Attempts(j) < MaxAttempts /\ Attempts(j)' = Attempts(j) + 1
  <2>1. Lease!Lease(j)
    BY <1>1, <1>2, <1>3, <1>4, <1>8, <1>11, Zenon DEF Lease!Lease, Lease!Move, ph
  <2> QED  BY <2>1, Zenon DEF Lease!Next
<1>12. CASE /\ Phase(j) = "leased" /\ Phase(j)' = "waiting"
            /\ Attempts(j) < MaxAttempts /\ Attempts(j)' = Attempts(j)
  <2>1. Lease!Return(j)
    BY <1>1, <1>2, <1>3, <1>4, <1>7, <1>12, Zenon DEF Lease!Return, Lease!Move, ph
  <2> QED  BY <2>1, Zenon DEF Lease!Next
<1>13. CASE Phase(j) = "leased" /\ Phase(j)' \in {"settled", "lost"} /\ Attempts(j)' = Attempts(j)
  <2>1. Lease!Settle(j) \/ Lease!Lose(j)
    BY <1>1, <1>2, <1>3, <1>4, <1>7, <1>13, Zenon
    DEF Lease!Settle, Lease!Lose, Lease!Move, ph
  <2> QED  BY <2>1, Zenon DEF Lease!Next
<1> QED  BY <1>9, <1>10, <1>11, <1>12, <1>13, Zenon DEF JobMoves

\* Nothing moves.
LEMMA NoneMoves ==
    ASSUME \A i \in Jobs : Phase(i)' = Phase(i) /\ Attempts(i)' = Attempts(i)
    PROVE  UNCHANGED Lease!vars
<1>1. [i \in Jobs |-> Phase(i)]' = [i \in Jobs |-> Phase(i)]  OBVIOUS
<1>2. [i \in Jobs |-> Attempts(i)]' = [i \in Jobs |-> Attempts(i)]  OBVIOUS
<1> QED  BY <1>1, <1>2, Zenon DEF Lease!vars, Attempts

\* The holder of a job keeps it, or returns, settles or loses it.
LEMMA HolderRefines ==
    ASSUME QInv, NEW w \in Workers, HolderStep(w)
    PROVE  [Lease!Next]_(Lease!vars)
<1>1. PICK x \in WorkerState, row \in ServiceJob : HolderStep(w)!(x, row)
  BY Zenon DEF HolderStep
<1>2. TypeOK /\ LeaseInv  BY Zenon DEF QInv
<1>3. PICK j \in DOMAIN jobs : /\ j = worker[w].job
                               /\ \A v \in Workers \ {w} : Holding(v) => worker[v].job # j
  BY <1>1, <1>2, HeldAlone, Zenon
<1>4. j \in Jobs  BY <1>2, QueueAssumption DEF TypeOK, Jobs
<1>5. /\ DOMAIN jobs' = DOMAIN jobs /\ jobs'[j] = row
      /\ \A i \in DOMAIN jobs : i # j => jobs'[i] = jobs[i]
  BY <1>1, <1>2, <1>3, UpdateRow, Zenon DEF TypeOK
<1>6. worker' = [worker EXCEPT ![w] = x] /\ Holding(w)  BY <1>1, Zenon
<1>7. x.pc \in HoldingPc => x.job = j  BY <1>1, <1>3, Zenon
<1>8. \A i : i # j => (HeldBySome(i)' <=> HeldBySome(i))
  BY <1>2, <1>3, <1>6, <1>7, HandsStay, Zenon
<1>9. ASSUME NEW i \in Jobs \ {j}
      PROVE  Phase(i)' = Phase(i) /\ Attempts(i)' = Attempts(i)
  BY <1>5, <1>8, PhaseStays, Zenon
<1>10. Phase(j) = "leased"
  BY <1>2, <1>3, <1>6, HandsStay, PhaseNow, Zenon DEF PhaseIs
<1>11. Attempts(j) = row.attempts /\ Attempts(j)' = row.attempts
  BY <1>1, <1>3, <1>5, Zenon DEF Attempts
<1>12. CASE x.pc \in HoldingPc
  <2>1. Phase(j)' = "leased"
    BY <1>2, <1>3, <1>5, <1>6, <1>7, <1>12, HandsStay, PhaseNext, Zenon DEF PhaseIs
  <2> QED  BY <1>4, <1>9, <1>10, <1>11, <2>1, MovesRefine, Zenon DEF JobMoves
<1>13. CASE x.pc \notin HoldingPc
  <2>1. ~HeldBySome(j)'
    <3>1. worker'[w] = x /\ \A v \in Workers : v # w => worker'[v] = worker[v]
      BY <1>2, <1>6, UpdateWorker, Zenon DEF TypeOK
    <3> QED  BY <1>3, <1>13, <3>1, Zenon DEF HeldBySome, Holding, HoldingPc
  <2>2. \/ row.status \in {"ready", "failed", "claimed", "in_progress"}
        \/ row.status = "failed_retry" /\ row.attempts < MaxAttempts
    BY <1>1, <1>13, Zenon
  <2>3. PhaseIs(j)'  BY PhaseNext
  <2>4. CASE row.status \in {"ready", "failed", "claimed", "in_progress"}
    <3>1. Phase(j)' \in {"settled", "lost"}
      BY <1>5, <2>1, <2>3, <2>4 DEF PhaseIs
    <3> QED  BY <1>4, <1>9, <1>10, <1>11, <3>1, MovesRefine, Zenon DEF JobMoves
  <2>5. CASE row.status = "failed_retry" /\ row.attempts < MaxAttempts
    <3>1. Phase(j)' = "waiting"
      BY <1>5, <2>1, <2>3, <2>5 DEF PhaseIs
    <3> QED  BY <1>4, <1>9, <1>10, <1>11, <2>5, <3>1, MovesRefine, Zenon DEF JobMoves
  <2> QED  BY <2>2, <2>4, <2>5, Zenon
<1> QED  BY <1>12, <1>13, Zenon

\* A worker without a job that takes none moves no job.
LEMMA FreeRefines ==
    ASSUME QInv, NEW w \in Workers, FreeStep(w)
    PROVE  UNCHANGED Lease!vars
<1>1. PICK x \in WorkerState : FreeStep(w)!(x)  BY Zenon DEF FreeStep
<1>2. TypeOK  BY Zenon DEF QInv
<1>3. \A i : HeldBySome(i)' <=> HeldBySome(i)  BY <1>1, <1>2, HandsStay, Zenon
<1> QED  BY <1>1, <1>3, PhaseStays, NoneMoves, Zenon

\* A claim takes a lease.
LEMMA ClaimRefines ==
    ASSUME QInv, NEW w \in Workers, NEW j \in DOMAIN jobs, ClaimStep(w, j)
    PROVE  [Lease!Next]_(Lease!vars)
<1>1. PICK x \in WorkerState, row \in ServiceJob : ClaimStep(w, j)!(x, row)
  BY Zenon DEF ClaimStep
<1>2. TypeOK /\ LeaseInv  BY Zenon DEF QInv
<1>3. j \in Jobs  BY <1>2, QueueAssumption DEF TypeOK, Jobs
<1>4. /\ DOMAIN jobs' = DOMAIN jobs /\ jobs'[j] = row
      /\ \A i \in DOMAIN jobs : i # j => jobs'[i] = jobs[i]
  BY <1>1, <1>2, UpdateRow, Zenon DEF TypeOK
<1>5. \A i : i # j => (HeldBySome(i)' <=> HeldBySome(i))
  BY <1>1, <1>2, HandsStay, Zenon
<1>6. ASSUME NEW i \in Jobs \ {j}
      PROVE  Phase(i)' = Phase(i) /\ Attempts(i)' = Attempts(i)
  BY <1>4, <1>5, PhaseStays, Zenon
<1>7. Phase(j) = "waiting"
  <2>1. ~HeldBySome(j)  BY <1>1, <1>2, WaitingIsFree, Zenon DEF HeldBySome
  <2> QED  BY <1>1, <2>1, PhaseNow, Zenon DEF PhaseIs
<1>8. Phase(j)' = "leased"
  <2>1. x.pc \in HoldingPc /\ x.job = j  BY <1>1 DEF HoldingPc
  <2>2. worker' = [worker EXCEPT ![w] = x]  BY <1>1, Zenon
  <2>3. HeldBySome(j)'  BY <1>2, <2>1, <2>2, HandsStay, Zenon
  <2> QED  BY <1>4, <2>3, PhaseNext, Zenon DEF PhaseIs
<1>9. Attempts(j) < MaxAttempts /\ Attempts(j)' = Attempts(j) + 1
  BY <1>1, <1>2, <1>4, Zenon DEF Attempts, LeaseInv
<1> QED  BY <1>3, <1>6, <1>7, <1>8, <1>9, MovesRefine, Zenon DEF JobMoves

\* An insert creates the next job.
LEMMA InsertRefines ==
    ASSUME QInv, NEW c \in Clients, insert(c)
    PROVE  [Lease!Next]_(Lease!vars)
<1> DEFINE row == [key |-> client[c].key, status |-> "queued", attempts |-> 0, backoff |-> FALSE]
<1>1. TypeOK /\ LeaseInv  BY Zenon DEF QInv
<1>2. Len(jobs) < MaxJobs /\ jobs' = Append(jobs, row) /\ worker' = worker
  BY DEF insert
<1>3. PICK j \in Jobs : j = Len(jobs) + 1
  BY <1>1, <1>2, QueueAssumption DEF TypeOK, Jobs
<1>4. /\ DOMAIN jobs' = DOMAIN jobs \union {j} /\ j \notin DOMAIN jobs
      /\ jobs'[j].status = "queued" /\ jobs'[j].attempts = 0
      /\ \A i \in DOMAIN jobs : jobs'[i] = jobs[i]
  BY <1>1, <1>2, <1>3 DEF TypeOK
<1>5. \A i : HeldBySome(i)' <=> HeldBySome(i)
  BY <1>2, Zenon DEF HeldBySome, Holding
<1>6. ASSUME NEW i \in Jobs \ {j}
      PROVE  Phase(i)' = Phase(i) /\ Attempts(i)' = Attempts(i)
  BY <1>4, <1>5, PhaseStays, Zenon
<1>7. Phase(j) = "none"  BY <1>4, PhaseNow, Zenon DEF PhaseIs
<1>8. Phase(j)' = "waiting"
  <2>1. ~HeldBySome(j)  BY <1>1, <1>4, Zenon DEF HeldBySome, LeaseInv
  <2>2. ~HeldBySome(j)'  BY <1>5, <2>1, Zenon
  <2> QED  BY <1>4, <2>2, PhaseNext, Zenon DEF PhaseIs
<1>9. Attempts(j)' = Attempts(j)  BY <1>4, Zenon DEF Attempts
<1> QED  BY <1>6, <1>7, <1>8, <1>9, MovesRefine, Zenon DEF JobMoves

LEMMA NextRefines ==
    ASSUME QInv, [Next]_vars
    PROVE  [Lease!Next]_(Lease!vars)
<1>1. ASSUME DOMAIN jobs' = DOMAIN jobs, worker' = worker,
             \A i \in DOMAIN jobs :
                jobs'[i].status = jobs[i].status /\ jobs'[i].attempts = jobs[i].attempts
      PROVE  UNCHANGED Lease!vars
  <2>1. \A i : HeldBySome(i)' <=> HeldBySome(i)  BY <1>1, Zenon DEF HeldBySome, Holding
  <2> QED  BY <1>1, <2>1, PhaseStays, NoneMoves, Zenon
<1>2. CASE Next
  <2>1. ASSUME NEW c \in Clients, ClientStep(c), ~insert(c)
        PROVE  UNCHANGED Lease!vars
    BY <1>1, <2>1, CallInv, Zenon
  <2>2. ASSUME NEW j \in DOMAIN jobs, BackoffElapses(j)
        PROVE  UNCHANGED Lease!vars
    BY <1>1, <2>2, BackoffInv, Zenon
  <2> QED
    BY <1>2, <2>1, <2>2, StepKinds, HolderRefines, FreeRefines, ClaimRefines, InsertRefines, Zenon
<1>3. CASE UNCHANGED vars  BY <1>1, <1>3, Zenon DEF vars
<1> QED  BY <1>2, <1>3, Zenon

\* The queue implements JobLease: claimNext leases only a job that waits and at
\* most max_attempts times, complete and fail settle or return only a leased one,
\* a settled job stays settled, and a killed process or a dead loop loses at most
\* the lease it holds.
THEOREM QueueImplementsLease == Spec => ImplementsJobLease
<1>1. Init => Lease!Init
  <2> SUFFICES ASSUME Init PROVE Lease!Init  OBVIOUS
  <2>1. DOMAIN jobs = {}  BY DEF Init
  <2>2. \A j \in Jobs : Phase(j) = "none" /\ Attempts(j) = 0
    BY <2>1, PhaseNow, Zenon DEF PhaseIs, Attempts
  <2>3. [j \in Jobs |-> Phase(j)] = [j \in Jobs |-> "none"]  BY <2>2
  <2>4. [j \in Jobs |-> IF j \in DOMAIN jobs THEN jobs[j].attempts ELSE 0] = [j \in Jobs |-> 0]
    BY <2>1
  <2> QED  BY <2>3, <2>4, Zenon DEF Lease!Init
<1>2. QInv /\ [Next]_vars => [Lease!Next]_(Lease!vars)  BY NextRefines
<1> QED  BY <1>1, <1>2, QueueInvariant, PTL DEF Spec, ImplementsJobLease, Lease!Spec

-----------------------------------------------------------------------------
(* The proof builders. *)

CONSTANTS Provers, ProofJobs, Builders, Tags

VARIABLES proofJobs, files, working

Build == INSTANCE ProofBuilders WITH
            Workers <- Provers, Jobs <- ProofJobs, Kinds <- Builders, jobs <- proofJobs

\* The builders there are.
BuildConstants == Builders \subseteq {"note", "transfer", "deposit", "mpc", "priced", "compliance"}

\* The steps that come before the witness is computed.
Before(s) == s.op \in {"own", "coinutils", "check"} /\ (s.op = "check" => s.out = {})
FrontPart(p) ==
    /\ \E S : p \in Seq(S)
    /\ \A i \in DOMAIN p : Before(p[i])

\* A builder: a witness is computed at some step, and what is proved or taken is in
\* files that an earlier step wrote.
WellMade(p) ==
    /\ \E S : p \in Seq(S)
    /\ \E i \in DOMAIN p : p[i].op = "wtns"
    /\ \A i \in DOMAIN p : p[i].op \in {"prove", "take"} =>
          p[i].in # {} /\ \A f \in p[i].in : \E n \in DOMAIN p : n < i /\ f \in p[n].out
    /\ \A i \in DOMAIN p : p[i].op \in {"own", "coinutils", "check", "wtns", "prove", "verify", "take"}
    /\ \A i \in DOMAIN p : p[i].op \in {"check", "verify", "take"} => p[i].out = {}

\* The fields of a step.
LEMMA StepFields == \A o, i, u : Build!Step(o, i, u).op = o /\ Build!Step(o, i, u).in = i /\ Build!Step(o, i, u).out = u
BY DEF Build!Step

\* What snarkjs does after a front part is well made, and so is taking its files.
LEMMA SnarkjsIsWellMade ==
    ASSUME NEW a, FrontPart(a), NEW input, NEW wtns, NEW proof, NEW public
    PROVE  /\ WellMade(a \o Build!Snarkjs(input, wtns, proof, public))
           /\ WellMade(a \o Build!Snarkjs(input, wtns, proof, public) \o Build!Take(proof, public))
<1>1. PICK S : a \in Seq(S)
    BY DEF FrontPart
<1>2. PICK w, p, v, x, y : /\ w = Build!Step("wtns", {input}, {wtns}) /\ p = Build!Step("prove", {wtns}, {proof, public})
                           /\ v = Build!Step("verify", {proof, public}, {})
                           /\ x = Build!Step("take", {proof}, {}) /\ y = Build!Step("take", {public}, {})
    OBVIOUS
<1>3. Build!Snarkjs(input, wtns, proof, public) = <<w, p, v>> /\ Build!Take(proof, public) = <<x, y>>
    BY <1>2 DEF Build!Snarkjs, Build!Take
<1>4. PICK n \in Nat : n = Len(a)
    BY <1>1
<1>5. DOMAIN a = 1 .. n
    BY <1>1, <1>4
<1>6. PICK q : q = a \o <<w, p, v>>
    BY Zenon
<1>7. PICK r : r = q \o <<x, y>>
    BY Zenon
<1>8. a \in Seq(S \cup {w, p, v, x, y}) /\ <<w, p, v>> \in Seq(S \cup {w, p, v, x, y}) /\ <<x, y>> \in Seq(S \cup {w, p, v, x, y})
    BY <1>1
<1>9. /\ q \in Seq(S \cup {w, p, v, x, y}) /\ DOMAIN q = 1 .. n + 3 /\ Len(q) = n + 3
      /\ (\A i \in 1 .. n : q[i] = a[i]) /\ q[n + 1] = w /\ q[n + 2] = p /\ q[n + 3] = v
    BY <1>4, <1>6, <1>8
<1>10. /\ r \in Seq(S \cup {w, p, v, x, y}) /\ DOMAIN r = 1 .. n + 5
       /\ (\A i \in 1 .. n + 3 : r[i] = q[i]) /\ r[n + 4] = x /\ r[n + 5] = y
    BY <1>7, <1>8, <1>9
<1>11. /\ w.op = "wtns" /\ w.out = {wtns} /\ p.op = "prove" /\ p.in = {wtns} /\ p.out = {proof, public}
       /\ v.op = "verify" /\ v.out = {} /\ x.op = "take" /\ x.in = {proof} /\ x.out = {}
       /\ y.op = "take" /\ y.in = {public} /\ y.out = {}
    <2>1. w.op = "wtns" /\ w.out = {wtns}
        BY <1>2, StepFields
    <2>2. p.op = "prove" /\ p.in = {wtns} /\ p.out = {proof, public}
        BY <1>2, StepFields
    <2>3. v.op = "verify" /\ v.out = {}
        BY <1>2, StepFields, Zenon
    <2>4. x.op = "take" /\ x.in = {proof} /\ x.out = {}
        BY <1>2, StepFields, Zenon
    <2>5. y.op = "take" /\ y.in = {public} /\ y.out = {}
        BY <1>2, StepFields, Zenon
    <2> QED BY <2>1, <2>2, <2>3, <2>4, <2>5
<1>12. \A i \in 1 .. n : a[i].op \in {"own", "coinutils", "check"} /\ (a[i].op = "check" => a[i].out = {})
    BY <1>5 DEF FrontPart, Before
<1>13. WellMade(q)
    <2>1. \A i \in DOMAIN q : i \in 1 .. n \/ i = n + 1 \/ i = n + 2 \/ i = n + 3
        BY <1>9
    <2>2. n + 1 \in DOMAIN q /\ n + 1 < n + 2
        BY <1>9
    <2>3. ASSUME NEW i \in DOMAIN q, q[i].op \in {"prove", "take"}
          PROVE  q[i].in # {} /\ \A f \in q[i].in : \E m \in DOMAIN q : m < i /\ f \in q[m].out
        <3>1. i = n + 2
            BY <1>9, <1>11, <1>12, <2>1, <2>3
        <3> QED BY <1>9, <1>11, <2>2, <3>1, Zenon
    <2>4. ASSUME NEW i \in DOMAIN q
          PROVE  /\ q[i].op \in {"own", "coinutils", "check", "wtns", "prove", "verify", "take"}
                 /\ q[i].op \in {"check", "verify", "take"} => q[i].out = {}
        BY <1>9, <1>11, <1>12, <2>1
    <2> QED BY <1>9, <1>11, <2>2, <2>3, <2>4 DEF WellMade
<1>14. WellMade(r)
    <2>1. \A i \in DOMAIN r : i \in 1 .. n \/ i = n + 1 \/ i = n + 2 \/ i = n + 3 \/ i = n + 4 \/ i = n + 5
        BY <1>10
    <2>2. n + 1 \in DOMAIN r /\ n + 1 < n + 2 /\ n + 2 \in DOMAIN r /\ n + 2 < n + 4 /\ n + 2 < n + 5
        BY <1>10
    <2>3. r[n + 1] = w /\ r[n + 2] = p /\ r[n + 3] = v /\ \A i \in 1 .. n : r[i] = a[i]
        BY <1>9, <1>10
    <2>4. ASSUME NEW i \in DOMAIN r, r[i].op \in {"prove", "take"}
          PROVE  r[i].in # {} /\ \A f \in r[i].in : \E m \in DOMAIN r : m < i /\ f \in r[m].out
        <3>1. i = n + 2 \/ i = n + 4 \/ i = n + 5
            BY <1>11, <1>12, <2>1, <2>3, <2>4
        <3>2. CASE i = n + 2
            BY <1>11, <2>2, <2>3, <3>2
        <3>3. CASE i = n + 4
            BY <1>10, <1>11, <2>2, <2>3, <3>3, Zenon
        <3>4. CASE i = n + 5
            BY <1>10, <1>11, <2>2, <2>3, <3>4, Zenon
        <3> QED BY <3>1, <3>2, <3>3, <3>4
    <2>5. ASSUME NEW i \in DOMAIN r
          PROVE  /\ r[i].op \in {"own", "coinutils", "check", "wtns", "prove", "verify", "take"}
                 /\ r[i].op \in {"check", "verify", "take"} => r[i].out = {}
        BY <1>10, <1>11, <1>12, <2>1, <2>3
    <2> QED BY <1>10, <1>11, <2>2, <2>3, <2>4, <2>5 DEF WellMade
<1> QED BY <1>3, <1>6, <1>7, <1>13, <1>14, Zenon

\* Front parts: one step, and one after another.
LEMMA FrontParts ==
    /\ \A s : Before(s) => FrontPart(<<s>>)
    /\ \A a, b : FrontPart(a) /\ FrontPart(b) => FrontPart(a \o b)
<1>1. ASSUME NEW s, Before(s) PROVE FrontPart(<<s>>)
    <2>1. <<s>> \in Seq({s}) /\ \A i \in DOMAIN <<s>> : <<s>>[i] = s
        OBVIOUS
    <2> QED BY <1>1, <2>1, Zenon DEF FrontPart
<1>2. ASSUME NEW a, NEW b, FrontPart(a), FrontPart(b) PROVE FrontPart(a \o b)
    <2>1. PICK S : a \in Seq(S)
        BY <1>2 DEF FrontPart
    <2>2. PICK T : b \in Seq(T)
        BY <1>2 DEF FrontPart
    <2>3. a \in Seq(S \cup T) /\ b \in Seq(S \cup T)
        BY <2>1, <2>2
    <2>4. /\ a \o b \in Seq(S \cup T)
          /\ \A i \in DOMAIN (a \o b) :
                \/ i \in DOMAIN a /\ (a \o b)[i] = a[i]
                \/ i - Len(a) \in DOMAIN b /\ (a \o b)[i] = b[i - Len(a)]
        BY <2>3
    <2> QED BY <1>2, <2>4 DEF FrontPart
<1> QED BY <1>1, <1>2

\* Two such steps are a front part.
LEMMA FrontOfTwo ==
    ASSUME NEW s, NEW t, Before(s), Before(t)
    PROVE  FrontPart(<<s, t>>)
<1>1. <<s, t>> \in Seq({s, t}) /\ \A i \in DOMAIN <<s, t>> : <<s, t>>[i] \in {s, t}
    OBVIOUS
<1> QED BY <1>1, Zenon DEF FrontPart

\* And so are four.
LEMMA FrontOfFour ==
    ASSUME NEW s, NEW t, NEW u, NEW v, Before(s), Before(t), Before(u), Before(v)
    PROVE  FrontPart(<<s, t, u, v>>)
<1>1. <<s, t, u, v>> \in Seq({s, t, u, v}) /\ \A i \in DOMAIN <<s, t, u, v>> : <<s, t, u, v>>[i] \in {s, t, u, v}
    OBVIOUS
<1> QED BY <1>1, Zenon DEF FrontPart

\* Every builder is well made.
LEMMA BuildersAreWellMade ==
    ASSUME BuildConstants, NEW k \in Builders
    PROVE  WellMade(Build!Program(k))
<1>1. \A o, i, u : o \in {"own", "coinutils"} => Before(Build!Step(o, i, u))
    BY StepFields DEF Before
<1>0. \A i : Before(Build!Step("check", i, {}))
    BY StepFields DEF Before
<1>2. \A u : Before(Build!Own(u))
    BY StepFields DEF Build!Own, Before
<1>3. WellMade(Build!buildNoteProof)
    <2>1. FrontPart(<< Build!Own("state"), Build!Step("coinutils", {"state"}, {"input"}) >>)
        BY <1>1, <1>2, FrontOfTwo
    <2> QED BY <2>1, SnarkjsIsWellMade DEF Build!buildNoteProof
<1>4. WellMade(Build!buildTransferProof)
    <2>1. FrontPart(<< Build!Own("xstate"), Build!Step("coinutils", {"xstate"}, {"xfer", "xout"}) >>)
        BY <1>1, <1>2, FrontOfTwo
    <2> QED BY <2>1, SnarkjsIsWellMade DEF Build!buildTransferProof
<1>5. WellMade(Build!buildDepositProof)
    <2>1. FrontPart(<< Build!Own("dep_input") >>)
        BY <1>2, FrontParts
    <2> QED BY <2>1, SnarkjsIsWellMade DEF Build!buildDepositProof
<1>6. WellMade(Build!buildMpcSettlementProof)
    <2>1. FrontPart(Build!buildMpcSettlementWitness)
        BY <1>0, <1>1, <1>2, FrontOfFour DEF Build!buildMpcSettlementWitness
    <2>2. FrontPart(<< Build!Step("own", {"coinA", "coinB"}, {"mpc_witness"}) >>)
        BY <1>1, FrontParts
    <2>3. FrontPart(Build!buildMpcSettlementWitness \o << Build!Step("own", {"coinA", "coinB"}, {"mpc_witness"}) >>)
        BY <2>1, <2>2, FrontParts
    <2> QED BY <2>3, SnarkjsIsWellMade DEF Build!buildMpcSettlementProof
<1>7. WellMade(Build!buildMpcPricedProof)
    <2>1. FrontPart(Build!buildMpcPricedWitness)
        BY <1>0, <1>1, <1>2, FrontOfFour DEF Build!buildMpcPricedWitness
    <2>2. FrontPart(<< Build!Step("own", {"wX", "wY"}, {"priced_input"}) >>)
        BY <1>1, FrontParts
    <2>3. FrontPart(Build!buildMpcPricedWitness \o << Build!Step("own", {"wX", "wY"}, {"priced_input"}) >>)
        BY <2>1, <2>2, FrontParts
    <2> QED BY <2>3, SnarkjsIsWellMade DEF Build!buildMpcPricedProof
<1>8. WellMade(Build!buildComplianceProof)
    <2>1. FrontPart(Build!buildComplianceWitness)
        BY <1>0, <1>1, <1>2, FrontOfFour DEF Build!buildComplianceWitness
    <2>2. FrontPart(<< Build!Step("own", {"allow_state", "lo_state", "hi_state"}, {"comp_input"}) >>)
        BY <1>1, FrontParts
    <2>3. FrontPart(Build!buildComplianceWitness \o << Build!Step("own", {"allow_state", "lo_state", "hi_state"}, {"comp_input"}) >>)
        BY <2>1, <2>2, FrontParts
    <2> QED BY <2>3, SnarkjsIsWellMade DEF Build!buildComplianceProof
<1> QED BY <1>3, <1>4, <1>5, <1>6, <1>7, <1>8 DEF BuildConstants, Build!Program

\* No other job has the job's tag.
Unique(j) == \A o \in ProofJobs \ {j} : proofJobs[o].tag # proofJobs[j].tag

\* Rows of service_jobs and what a worker knows.
BuildTypeOK ==
    /\ DOMAIN proofJobs = ProofJobs /\ DOMAIN working = Provers
    /\ \A j \in ProofJobs : /\ DOMAIN proofJobs[j] = {"kind", "tag", "fits", "status", "attempts", "result"}
                            /\ proofJobs[j].kind \in Builders
    /\ \A w \in Provers : /\ DOMAIN working[w] = {"job", "at", "taken", "ok"}
                          /\ Build!Busy(w) => working[w].job \in ProofJobs /\ working[w].at \in Nat \ {0}

\* A job is built by one worker, and is "proving" then.
OneBuilder ==
    /\ \A w \in Provers : Build!Busy(w) => proofJobs[working[w].job].status = "proving"
    /\ \A v, w \in Provers : Build!Busy(v) /\ Build!Busy(w) /\ working[v].job = working[w].job => v = w

\* The files with the tag of one job only have that job's data.
OwnFiles == \A j \in ProofJobs : Unique(j) => \A f \in DOMAIN files : f[1] = proofJobs[j].tag => files[f] = {j}

\* Where the build of a job with a tag of its own is: the files of the steps behind
\* it are there, its inputs satisfied the circuit if the witness was computed, and
\* what it took is the job's.
Underway(w) ==
    LET j == working[w].job
        p == Build!Program(proofJobs[j].kind)
    IN  /\ \A i \in DOMAIN p : i < working[w].at =>
              /\ \A f \in p[i].out : <<proofJobs[j].tag, f>> \in DOMAIN files
              /\ p[i].op = "wtns" => proofJobs[j].fits
        /\ working[w].taken \in Seq({{j}})

Proved(j) == proofJobs[j].fits /\ proofJobs[j].result \in Seq({{j}})

BuildInv ==
    /\ BuildTypeOK /\ OneBuilder /\ OwnFiles
    /\ \A w \in Provers : Build!Busy(w) /\ Unique(working[w].job) => Underway(w)
    /\ \A j \in ProofJobs : proofJobs[j].status = "ready" /\ Unique(j) => Proved(j)

\* No job is claimed, and no file written.
LEMMA BuildInit == Build!Init => BuildInv
<1> SUFFICES ASSUME Build!Init PROVE BuildInv
    OBVIOUS
<1>1. /\ DOMAIN proofJobs = ProofJobs
      /\ \A j \in ProofJobs : /\ DOMAIN proofJobs[j] = {"kind", "tag", "fits", "status", "attempts", "result"}
                              /\ proofJobs[j].kind \in Builders /\ proofJobs[j].status = "queued"
    BY DEF Build!Init
<1>2. DOMAIN working = Provers /\ \A w \in Provers : ~Build!Busy(w) /\ DOMAIN working[w] = {"job", "at", "taken", "ok"}
    BY DEF Build!Init, Build!Idle, Build!Busy
<1>3. DOMAIN files = {}
    BY DEF Build!Init
<1> QED BY <1>1, <1>2, <1>3 DEF BuildInv, BuildTypeOK, OneBuilder, OwnFiles

\* Rows keep their kind, their tag and whether their inputs fit; all but j also
\* keep their status and result.
Kept(j) ==
    /\ DOMAIN proofJobs' = ProofJobs
    /\ \A o \in ProofJobs : /\ DOMAIN proofJobs'[o] = {"kind", "tag", "fits", "status", "attempts", "result"}
                            /\ proofJobs'[o].kind = proofJobs[o].kind /\ proofJobs'[o].tag = proofJobs[o].tag /\ proofJobs'[o].fits = proofJobs[o].fits
    /\ \A o \in ProofJobs \ {j} : proofJobs'[o].status = proofJobs[o].status /\ proofJobs'[o].result = proofJobs[o].result

\* Whether a tag is a job's own never changes.
LEMMA KeptTags ==
    ASSUME NEW j, Kept(j), NEW k \in ProofJobs
    PROVE  Unique(k)' <=> Unique(k)
BY DEF Kept, Unique

\* Only worker w moves.
Only(w) ==
    /\ DOMAIN working' = Provers
    /\ \A v \in Provers \ {w} : working'[v] = working[v]

\* What a step of worker w with job j has to show: the others' files stay, the
\* job's hold the job's data, and the worker is at rest or further on.
LEMMA BuildMoves ==
    ASSUME BuildInv, NEW w \in Provers, NEW j \in ProofJobs, Kept(j), Only(w),
           DOMAIN working'[w] = {"job", "at", "taken", "ok"},
           \A v \in Provers \ {w} : Build!Busy(v) => working[v].job # j,
           \A f : f[1] # proofJobs[j].tag => (f \in DOMAIN files' <=> f \in DOMAIN files)
                                        /\ (f \in DOMAIN files => files'[f] = files[f]),
           Unique(j) => \A f \in DOMAIN files' : f[1] = proofJobs[j].tag => files'[f] = {j},
           Build!Busy(w)' => /\ working'[w].job = j /\ proofJobs'[j].status = "proving" /\ working'[w].at \in Nat \ {0}
                             /\ Unique(j) => Underway(w)',
           proofJobs'[j].status = "ready" /\ Unique(j) => Proved(j)'
    PROVE  BuildInv'
<1>1. BuildTypeOK /\ OneBuilder /\ OwnFiles
    BY DEF BuildInv
<1>2. ASSUME NEW v \in Provers, v # w PROVE working'[v] = working[v] /\ (Build!Busy(v)' <=> Build!Busy(v))
    BY <1>2 DEF Only, Build!Busy
<1>3. BuildTypeOK'
    <2>1. \A o \in ProofJobs : proofJobs'[o].kind \in Builders
        BY <1>1 DEF BuildTypeOK, Kept
    <2>2. ASSUME NEW v \in Provers
          PROVE  /\ DOMAIN working'[v] = {"job", "at", "taken", "ok"}
                 /\ Build!Busy(v)' => working'[v].job \in ProofJobs /\ working'[v].at \in Nat \ {0}
        BY <1>1, <1>2 DEF BuildTypeOK
    <2> QED BY <2>1, <2>2 DEF BuildTypeOK, Kept, Only
<1>4. OneBuilder'
    <2>1. ASSUME NEW v \in Provers, Build!Busy(v)' PROVE proofJobs'[working'[v].job].status = "proving"
        <3>1. CASE v = w
            BY <2>1, <3>1
        <3>2. CASE v # w
            <4>1. Build!Busy(v) /\ working'[v].job = working[v].job /\ working[v].job # j
                BY <1>2, <2>1, <3>2
            <4>2. working[v].job \in ProofJobs /\ proofJobs[working[v].job].status = "proving"
                BY <1>1, <4>1 DEF BuildTypeOK, OneBuilder
            <4> QED BY <4>1, <4>2 DEF Kept
        <3> QED BY <3>1, <3>2
    <2>2. ASSUME NEW u \in Provers, NEW v \in Provers, Build!Busy(u)', Build!Busy(v)', working'[u].job = working'[v].job
          PROVE  u = v
        BY <1>1, <1>2, <2>2 DEF OneBuilder
    <2> QED BY <2>1, <2>2 DEF OneBuilder
<1>5. OwnFiles'
    <2> SUFFICES ASSUME NEW k \in ProofJobs, Unique(k)', NEW f \in DOMAIN files', f[1] = proofJobs'[k].tag
                 PROVE  files'[f] = {k}
        BY DEF OwnFiles
    <2>1. Unique(k) /\ proofJobs'[k].tag = proofJobs[k].tag
        BY KeptTags DEF Kept
    <2>2. CASE k = j
        BY <2>1, <2>2
    <2>3. CASE k # j
        <3>1. proofJobs[j].tag # proofJobs[k].tag
            BY <2>1, <2>3 DEF Unique
        <3>2. f \in DOMAIN files /\ files'[f] = files[f]
            BY <2>1, <3>1
        <3> QED BY <1>1, <2>1, <3>2 DEF OwnFiles
    <2> QED BY <2>2, <2>3
<1>7. ASSUME NEW v \in Provers, (Build!Busy(v) /\ Unique(working[v].job))' PROVE Underway(v)'
    <2>1. CASE v = w
        <3>1. Unique(j)'
            BY <1>7, <2>1
        <3> QED BY <1>7, <2>1, <3>1, KeptTags
    <2>2. CASE v # w
        <3>1. working'[v] = working[v] /\ Build!Busy(v)
            BY <1>2, <1>7, <2>2
        <3>2. PICK k \in ProofJobs : k = working[v].job
            BY <1>1, <3>1 DEF BuildTypeOK
        <3>3. k # j /\ Unique(k)
            <4>1. Unique(k)'
                BY <1>7, <3>1, <3>2
            <4> QED BY <2>2, <3>1, <3>2, <4>1, KeptTags
        <3>4. proofJobs'[k].kind = proofJobs[k].kind /\ proofJobs'[k].tag = proofJobs[k].tag /\ proofJobs'[k].fits = proofJobs[k].fits
            BY DEF Kept
        <3>5. proofJobs[k].tag # proofJobs[j].tag
            BY <3>3 DEF Unique
        <3>6. \A f : <<proofJobs[k].tag, f>> \in DOMAIN files => <<proofJobs[k].tag, f>> \in DOMAIN files'
            BY <3>5
        <3>7. Underway(v)
            BY <3>1, <3>2, <3>3 DEF BuildInv
        <3>8. \A i \in DOMAIN Build!Program(proofJobs[k].kind) : i < working[v].at =>
                 /\ \A f \in Build!Program(proofJobs[k].kind)[i].out : <<proofJobs[k].tag, f>> \in DOMAIN files
                 /\ Build!Program(proofJobs[k].kind)[i].op = "wtns" => proofJobs[k].fits
            BY <3>2, <3>7, Zenon DEF Underway
        <3>9. working[v].taken \in Seq({{k}})
            BY <3>2, <3>7 DEF Underway
        <3>10. \A i \in DOMAIN Build!Program(proofJobs'[k].kind) : i < working'[v].at =>
                  /\ \A f \in Build!Program(proofJobs'[k].kind)[i].out : <<proofJobs'[k].tag, f>> \in DOMAIN files'
                  /\ Build!Program(proofJobs'[k].kind)[i].op = "wtns" => proofJobs'[k].fits
            BY <3>1, <3>4, <3>6, <3>8
        <3>11. working'[v].job = k /\ working'[v].taken \in Seq({{k}})
            BY <3>1, <3>2, <3>9
        <3> QED BY <3>10, <3>11 DEF Underway
    <2> QED BY <2>1, <2>2
<1>8. ASSUME NEW k \in ProofJobs, proofJobs'[k].status = "ready", Unique(k)' PROVE Proved(k)'
    <2>1. Unique(k)
        BY <1>8, KeptTags
    <2>2. CASE k = j
        BY <1>8, <2>1, <2>2
    <2>3. CASE k # j
        BY <1>8, <2>1, <2>3, Zenon DEF BuildInv, Kept, Proved
    <2> QED BY <2>2, <2>3
<1> QED BY <1>3, <1>4, <1>5, <1>7, <1>8 DEF BuildInv

\* The job of a busy worker is no other's.
LEMMA BuilderAlone ==
    ASSUME BuildInv, NEW w \in Provers, Build!Busy(w)
    PROVE  /\ working[w].job \in ProofJobs /\ proofJobs[working[w].job].status = "proving"
           /\ working[w].at \in Nat \ {0}
           /\ \A v \in Provers \ {w} : Build!Busy(v) => working[v].job # working[w].job
BY DEF BuildInv, BuildTypeOK, OneBuilder

\* A worker at rest is not busy.
LEMMA AtRest ==
    ASSUME BuildTypeOK, NEW w \in Provers, working' = [working EXCEPT ![w] = Build!Idle]
    PROVE  Only(w) /\ DOMAIN working'[w] = {"job", "at", "taken", "ok"} /\ ~Build!Busy(w)'
<1>1. DOMAIN working = Provers
    BY DEF BuildTypeOK
<1>2. working'[w] = Build!Idle /\ DOMAIN working' = Provers /\ \A v \in Provers \ {w} : working'[v] = working[v]
    BY <1>1
<1> QED BY <1>2 DEF Only, Build!Idle, Build!Busy

\* A job that is claimed has its own files before it, and none of them written.
LEMMA BuildClaims ==
    ASSUME BuildConstants, BuildInv, NEW w \in Provers, NEW j \in ProofJobs, Build!claims(w, j)
    PROVE  BuildInv'
<1>1. BuildTypeOK /\ OneBuilder /\ OwnFiles
    BY DEF BuildInv
<1>2. /\ proofJobs' = [proofJobs EXCEPT ![j].status = "proving", ![j].attempts = @ + 1]
      /\ working' = [working EXCEPT ![w] = [Build!Idle EXCEPT !.job = j, !.at = 1]]
      /\ proofJobs[j].status = "queued" /\ UNCHANGED files
    BY DEF Build!claims
<1>3. DOMAIN proofJobs = ProofJobs /\ DOMAIN working = Provers
      /\ \A o \in ProofJobs : DOMAIN proofJobs[o] = {"kind", "tag", "fits", "status", "attempts", "result"}
    BY <1>1 DEF BuildTypeOK
<1>4. Kept(j) /\ proofJobs'[j].status = "proving"
    BY <1>2, <1>3 DEF Kept
<1>5. /\ Only(w) /\ DOMAIN working'[w] = {"job", "at", "taken", "ok"}
      /\ working'[w].job = j /\ working'[w].at = 1 /\ working'[w].taken = << >>
    BY <1>2, <1>3 DEF Only, Build!Idle
<1>6. \A v \in Provers \ {w} : Build!Busy(v) => working[v].job # j
    BY <1>1, <1>2 DEF OneBuilder
<1>7. Unique(j) => \A f \in DOMAIN files' : f[1] = proofJobs[j].tag => files'[f] = {j}
    BY <1>1, <1>2 DEF OwnFiles
<1>8. Underway(w)'
    <2>1. WellMade(Build!Program(proofJobs'[j].kind))
        BY <1>1, <1>4, BuildersAreWellMade DEF BuildTypeOK, Kept
    <2>2. \A i \in DOMAIN Build!Program(proofJobs'[j].kind) : ~(i < 1)
        BY <2>1 DEF WellMade
    <2> QED BY <1>5, <2>2 DEF Underway
<1>9. proofJobs'[j].status # "ready" /\ 1 \in Nat \ {0}
    BY <1>4
<1> QED BY <1>2, <1>4, <1>5, <1>6, <1>7, <1>8, <1>9, BuildMoves, Zenon

\* An exception: the job is queued again or failed, and the files stay.
LEMMA BuildThrows ==
    ASSUME BuildInv, NEW w \in Provers, Build!Busy(w), Build!throws(w), UNCHANGED files
    PROVE  BuildInv'
<1>1. BuildTypeOK /\ OwnFiles
    BY DEF BuildInv
<1>2. PICK j \in ProofJobs : j = working[w].job
    BY BuilderAlone
<1>3. PICK s : s \in {"failed", "queued"} /\ proofJobs' = [proofJobs EXCEPT ![j].status = s]
    BY <1>2, Zenon DEF Build!throws
<1>4. Kept(j) /\ proofJobs'[j].status = s
    BY <1>1, <1>3 DEF Kept, BuildTypeOK
<1>5. Only(w) /\ DOMAIN working'[w] = {"job", "at", "taken", "ok"} /\ ~Build!Busy(w)'
    BY <1>1, AtRest, Zenon DEF Build!throws
<1>6. \A v \in Provers \ {w} : Build!Busy(v) => working[v].job # j
    BY <1>2, BuilderAlone
<1>7. Unique(j) => \A f \in DOMAIN files' : f[1] = proofJobs[j].tag => files'[f] = {j}
    BY <1>1 DEF OwnFiles
<1>8. proofJobs'[j].status # "ready"
    BY <1>3, <1>4
<1> QED BY <1>4, <1>5, <1>6, <1>7, <1>8, BuildMoves

\* A worker that is killed leaves its files and its row.
LEMMA BuildKilled ==
    ASSUME BuildInv, NEW w \in Provers, Build!worker_killed(w)
    PROVE  BuildInv'
<1>1. BuildTypeOK /\ OwnFiles /\ Build!Busy(w) /\ UNCHANGED <<proofJobs, files>>
    BY DEF BuildInv, Build!worker_killed
<1>2. PICK j \in ProofJobs : j = working[w].job
    BY <1>1, BuilderAlone
<1>3. Kept(j)
    BY <1>1 DEF Kept, BuildTypeOK
<1>4. Only(w) /\ DOMAIN working'[w] = {"job", "at", "taken", "ok"} /\ ~Build!Busy(w)'
    BY <1>1, AtRest, Zenon DEF Build!worker_killed
<1>5. proofJobs[j].status = "proving" /\ \A v \in Provers \ {w} : Build!Busy(v) => working[v].job # j
    BY <1>1, <1>2, BuilderAlone
<1>6. Unique(j) => \A f \in DOMAIN files' : f[1] = proofJobs[j].tag => files'[f] = {j}
    BY <1>1 DEF OwnFiles
<1> QED BY <1>1, <1>3, <1>4, <1>5, <1>6, BuildMoves

INSTANCE FiniteSetTheorems

\* The number of elements is the library's, of which its theorems speak.
LEMMA BuildCardinality == \A S : Build!Cardinality(S) = Cardinality(S)
BY Zenon DEF Build!Cardinality, Cardinality, Build!IsFiniteSet, IsFiniteSet

\* One program that does its step.
LEMMA BuildRuns ==
    ASSUME BuildConstants, BuildInv, NEW w \in Provers, Build!runs(w)
    PROVE  BuildInv'
<1>1. BuildTypeOK /\ OwnFiles /\ Build!Busy(w) /\ Build!InProgram(w)
    BY DEF BuildInv, Build!runs, Build!InProgram
<1>2. PICK j \in ProofJobs : j = working[w].job
    BY <1>1, BuilderAlone
<1>3. PICK p : p = Build!Program(proofJobs[j].kind)
    OBVIOUS
<1>4. WellMade(p)
    BY <1>1, <1>3, BuildersAreWellMade DEF BuildTypeOK
<1>5. PICK at \in Nat \ {0} : at = working[w].at
    BY <1>1, BuilderAlone
<1>6. at \in DOMAIN p
    <2>1. PICK S : p \in Seq(S)
        BY <1>4 DEF WellMade
    <2>2. at <= Len(p)
        BY <1>1, <1>2, <1>3, <1>5 DEF Build!InProgram
    <2> QED BY <1>5, <2>1, <2>2
<1>7. PICK s : s = p[at]
    OBVIOUS
<1>8. PICK data : data = Build!Content(j, s.in) \cup (IF s.op = "own" THEN {j} ELSE {})
    BY Zenon
<1>9. PICK bad \in BOOLEAN : bad = (\/ s.op = "check" /\ ~proofJobs[j].fits
                                    \/ s.op = "wtns" /\ (Build!Cardinality(data) # 1 \/ \E d \in data : ~proofJobs[d].fits))
    BY Zenon
<1>10. IF bad THEN Build!throws(w) /\ UNCHANGED files
       ELSE /\ files' = Build!Written(j, s.out, data \cup (IF s.op = "coinutils" THEN {j} ELSE {}))
            /\ working' = [working EXCEPT ![w].at = @ + 1,
                   ![w].ok = IF s.op = "verify" THEN Build!Cardinality(data) = 1 ELSE @,
                   ![w].taken = IF s.op = "take" THEN Append(@, data) ELSE @]
            /\ UNCHANGED proofJobs
    BY <1>2, <1>3, <1>5, <1>7, <1>8, <1>9, Zenon DEF Build!runs, Build!Now
<1>11. CASE bad
    BY <1>1, <1>10, <1>11, BuildThrows
<1>12. CASE ~bad
    <2>1. PICK new : new = data \cup (IF s.op = "coinutils" THEN {j} ELSE {})
        BY Zenon
    <2>2. files' = Build!Written(j, s.out, new) /\ UNCHANGED proofJobs
        BY <1>10, <1>12, <2>1
    <2>3. PICK names : names = {Build!Name(j, f) : f \in s.out}
        BY Zenon
    <2>4. files' = [f \in DOMAIN files \cup names |-> IF f \in names THEN new ELSE files[f]]
        BY <2>2, <2>3 DEF Build!Written
    <2>5. \A f \in names : f[1] = proofJobs[j].tag
        BY <2>3 DEF Build!Name, Build!tag
    <2>6. Kept(j)
        BY <1>1, <2>2 DEF Kept, BuildTypeOK
    <2>7. DOMAIN working = Provers /\ DOMAIN working[w] = {"job", "at", "taken", "ok"}
        BY <1>1 DEF BuildTypeOK
    <2>8. /\ Only(w) /\ DOMAIN working'[w] = {"job", "at", "taken", "ok"} /\ working'[w].job = j
          /\ working'[w].at = at + 1
          /\ working'[w].taken = IF s.op = "take" THEN Append(working[w].taken, data) ELSE working[w].taken
        BY <1>2, <1>5, <1>10, <1>12, <2>7 DEF Only
    <2>9. proofJobs[j].status = "proving" /\ \A v \in Provers \ {w} : Build!Busy(v) => working[v].job # j
        BY <1>1, <1>2, BuilderAlone
    <2>10. \A f : f[1] # proofJobs[j].tag => (f \in DOMAIN files' <=> f \in DOMAIN files)
                                        /\ (f \in DOMAIN files => files'[f] = files[f])
        BY <2>4, <2>5
    <2>11. ASSUME Unique(j)
           PROVE  /\ \A f \in DOMAIN files' : f[1] = proofJobs[j].tag => files'[f] = {j}
                  /\ Underway(w)'
        <3>1. \A f \in DOMAIN files : f[1] = proofJobs[j].tag => files[f] = {j}
            BY <1>1, <2>11 DEF OwnFiles
        <3>2. Underway(w)
            BY <1>1, <1>2, <2>11 DEF BuildInv
        <3>3. \A i \in DOMAIN p : i < at =>
                 (\A f \in p[i].out : <<proofJobs[j].tag, f>> \in DOMAIN files) /\ (p[i].op = "wtns" => proofJobs[j].fits)
            BY <1>2, <1>3, <1>5, <3>2 DEF Underway
        <3>4. working[w].taken \in Seq({{j}})
            BY <1>2, <3>2 DEF Underway
        <3>5. data \subseteq {j}
            <4>1. ASSUME NEW d \in Build!Content(j, s.in) PROVE d = j
                BY <3>1, <4>1 DEF Build!Content, Build!Name, Build!tag
            <4> QED BY <1>8, <4>1
        <3>6. s.op \in {"prove", "take"} => data = {j}
            <4>1. SUFFICES ASSUME s.op \in {"prove", "take"} PROVE j \in data
                BY <3>5
            <4>2. PICK f : f \in s.in
                BY <1>4, <1>6, <1>7, <4>1 DEF WellMade
            <4>3. PICK n \in DOMAIN p : n < at /\ f \in p[n].out
                BY <1>4, <1>6, <1>7, <4>1, <4>2 DEF WellMade
            <4>4. <<proofJobs[j].tag, f>> \in DOMAIN files
                BY <3>3, <4>3
            <4>5. files[<<proofJobs[j].tag, f>>] = {j}
                BY <3>1, <4>4
            <4>6. Build!Name(j, f) = <<proofJobs[j].tag, f>>
                BY DEF Build!Name, Build!tag
            <4>7. j \in Build!Content(j, s.in)
                BY <4>2, <4>4, <4>5, <4>6 DEF Build!Content
            <4> QED BY <1>8, <4>7
        <3>7. s.op = "wtns" => data = {j} /\ proofJobs[j].fits
            <4>1. SUFFICES ASSUME s.op = "wtns" PROVE data = {j} /\ proofJobs[j].fits
                OBVIOUS
            <4>2. Build!Cardinality(data) = 1 /\ \A d \in data : proofJobs[d].fits
                BY <1>9, <1>12, <4>1
            <4>3. data # {}
                BY <4>2, FS_EmptySet, BuildCardinality
            <4> QED BY <3>5, <4>2, <4>3
        <3>8. s.op \in {"own", "coinutils"} => new = {j}
            BY <1>8, <2>1, <3>5
        <3>9. s.op \in {"own", "coinutils", "check", "wtns", "prove", "verify", "take"}
            BY <1>4, <1>6, <1>7 DEF WellMade
        <3>10. s.op \in {"check", "verify", "take"} => s.out = {}
            BY <1>4, <1>6, <1>7 DEF WellMade
        <3>12. names = {} \/ new = {j}
            BY <2>1, <2>3, <3>6, <3>7, <3>8, <3>9, <3>10
        <3>13. \A f \in DOMAIN files' : f[1] = proofJobs[j].tag => files'[f] = {j}
            BY <2>4, <3>1, <3>12
        <3>14. \A i \in DOMAIN p : i < at + 1 =>
                  (\A f \in p[i].out : <<proofJobs[j].tag, f>> \in DOMAIN files') /\ (p[i].op = "wtns" => proofJobs[j].fits)
            <4>1. SUFFICES ASSUME NEW i \in DOMAIN p, i < at + 1
                           PROVE  (\A f \in p[i].out : <<proofJobs[j].tag, f>> \in DOMAIN files') /\ (p[i].op = "wtns" => proofJobs[j].fits)
                OBVIOUS
            <4>2. CASE i < at
                BY <2>4, <3>3, <4>2
            <4>3. CASE ~(i < at)
                <5>1. i = at
                    <6>1. i \in Nat
                        BY <1>4 DEF WellMade
                    <6> QED BY <4>1, <4>3, <6>1
                <5>2. \A f \in s.out : <<proofJobs[j].tag, f>> \in names
                    BY <2>3 DEF Build!Name, Build!tag
                <5> QED BY <1>7, <2>4, <3>7, <5>1, <5>2
            <4> QED BY <4>2, <4>3
        <3>15. working'[w].taken \in Seq({{j}})
            BY <2>8, <3>4, <3>6
        <3>16. Underway(w)'
            BY <1>3, <2>2, <2>8, <3>14, <3>15 DEF Underway
        <3> QED BY <3>13, <3>16
    <2>12. at + 1 \in Nat \ {0}
        OBVIOUS
    <2> QED BY <2>2, <2>6, <2>8, <2>9, <2>10, <2>11, <2>12, BuildMoves
<1> QED BY <1>11, <1>12

\* The build is over: the witness was computed, so the inputs fit.
LEMMA BuildFinishes ==
    ASSUME BuildConstants, BuildInv, NEW w \in Provers, Build!processProofJob(w)
    PROVE  BuildInv'
<1>1. BuildTypeOK /\ OwnFiles /\ Build!Busy(w) /\ ~Build!InProgram(w)
    BY DEF BuildInv, Build!processProofJob
<1>2. PICK j \in ProofJobs : j = working[w].job
    BY <1>1, BuilderAlone
<1>3. CASE ~working[w].ok
    BY <1>1, <1>3, BuildThrows DEF Build!processProofJob
<1>4. CASE working[w].ok
    <2>1. PICK gone : gone = {Build!Name(j, "witness"), Build!Name(j, "x_wtns"), Build!Name(j, "dep_wtns")}
        BY Zenon
    <2>2. /\ proofJobs' = [proofJobs EXCEPT ![j].status = "ready", ![j].result = working[w].taken]
          /\ files' = [f \in DOMAIN files \ gone |-> files[f]]
          /\ working' = [working EXCEPT ![w] = Build!Idle]
        BY <1>2, <1>4, <2>1 DEF Build!processProofJob
    <2>3. \A f \in gone : f[1] = proofJobs[j].tag
        BY <2>1 DEF Build!Name, Build!tag
    <2>4. DOMAIN proofJobs = ProofJobs /\ \A o \in ProofJobs : DOMAIN proofJobs[o] = {"kind", "tag", "fits", "status", "attempts", "result"}
        BY <1>1 DEF BuildTypeOK
    <2>5. Kept(j) /\ proofJobs'[j].result = working[w].taken /\ proofJobs'[j].fits = proofJobs[j].fits
        BY <2>2, <2>4 DEF Kept
    <2>6. Only(w) /\ DOMAIN working'[w] = {"job", "at", "taken", "ok"} /\ ~Build!Busy(w)'
        BY <1>1, <2>2, AtRest, Zenon
    <2>7. \A v \in Provers \ {w} : Build!Busy(v) => working[v].job # j
        BY <1>1, <1>2, BuilderAlone
    <2>8. \A f : f[1] # proofJobs[j].tag => (f \in DOMAIN files' <=> f \in DOMAIN files)
                                       /\ (f \in DOMAIN files => files'[f] = files[f])
        BY <2>2, <2>3
    <2>9. Unique(j) => \A f \in DOMAIN files' : f[1] = proofJobs[j].tag => files'[f] = {j}
        BY <1>1, <2>2 DEF OwnFiles
    <2>10. ASSUME Unique(j) PROVE Proved(j)'
        <3>1. PICK p : p = Build!Program(proofJobs[j].kind)
            OBVIOUS
        <3>2. WellMade(p)
            BY <1>1, <3>1, BuildersAreWellMade DEF BuildTypeOK
        <3>3. PICK S : p \in Seq(S)
            BY <3>2 DEF WellMade
        <3>4. PICK i \in DOMAIN p : p[i].op = "wtns"
            BY <3>2 DEF WellMade
        <3>5. working[w].at \in Nat \ {0} /\ ~(working[w].at <= Len(p))
            BY <1>1, <1>2, <3>1, BuilderAlone DEF Build!InProgram
        <3>6. i < working[w].at
            BY <3>3, <3>4, <3>5
        <3>7. Underway(w)
            BY <1>1, <1>2, <2>10 DEF BuildInv
        <3>8. proofJobs[j].fits /\ working[w].taken \in Seq({{j}})
            BY <1>2, <3>1, <3>4, <3>6, <3>7 DEF Underway
        <3> QED BY <2>5, <3>8 DEF Proved
    <2> QED BY <2>5, <2>6, <2>7, <2>8, <2>9, <2>10, BuildMoves
<1> QED BY <1>3, <1>4

\* Every step preserves it.
LEMMA BuildStep == BuildConstants /\ BuildInv /\ [Build!Next]_Build!vars => BuildInv'
<1> SUFFICES ASSUME BuildConstants, BuildInv, [Build!Next]_Build!vars PROVE BuildInv'
    OBVIOUS
<1>1. CASE UNCHANGED Build!vars
    <2>1. UNCHANGED <<proofJobs, files, working>>
        BY <1>1 DEF Build!vars
    <2>2. (\A w : Build!Busy(w)' <=> Build!Busy(w)) /\ (\A j : Unique(j)' <=> Unique(j))
        BY <2>1 DEF Build!Busy, Unique
    <2>3. BuildTypeOK' /\ OneBuilder'
        BY <2>1, <2>2 DEF BuildInv, BuildTypeOK, OneBuilder
    <2>4. OwnFiles'
        BY <2>1, <2>2 DEF BuildInv, OwnFiles
    <2>5. (\A w : Underway(w)' <=> Underway(w)) /\ (\A j : Proved(j)' <=> Proved(j))
        BY <2>1 DEF Underway, Proved
    <2> QED BY <2>1, <2>2, <2>3, <2>4, <2>5 DEF BuildInv
<1>2. ASSUME NEW w \in Provers, NEW j \in ProofJobs, Build!claims(w, j) PROVE BuildInv'
    BY <1>2, BuildClaims
<1>3. ASSUME NEW w \in Provers, Build!runs(w) \/ Build!program_fails(w) \/ Build!worker_killed(w) \/ Build!processProofJob(w) PROVE BuildInv'
    <2>1. CASE Build!program_fails(w)
        BY <2>1, BuildThrows DEF Build!program_fails, Build!InProgram
    <2> QED BY <1>3, <2>1, BuildRuns, BuildKilled, BuildFinishes
<1> QED BY <1>1, <1>2, <1>3 DEF Build!Next

\* Of the jobs that share no tag with another, the files are the job's own.
THEOREM BuildInvariant ==
    ASSUME BuildConstants PROVE Build!Spec => []BuildInv
<1>1. Build!Init => BuildInv
    BY BuildInit
<1>2. BuildInv /\ [Build!Next]_Build!vars => BuildInv'
    BY BuildStep
<1> QED BY <1>1, <1>2, PTL DEF Build!Spec

\* ProofIsOfItsJob for any workers, jobs, tags and number of attempts: a job that
\* shares its tag with no other is ready only with a proof and public signals made
\* from its own data, which satisfies the circuit, whatever else was being built
\* and whichever builds died.
THEOREM BuildProofIsOfItsJob ==
    ASSUME BuildConstants PROVE Build!Spec => []Build!ProofIsOfItsJob
<1>1. BuildInv => Build!ProofIsOfItsJob
    <2> SUFFICES ASSUME BuildInv, NEW j \in ProofJobs, proofJobs[j].status = "ready", Unique(j)
                 PROVE  (\A n \in DOMAIN proofJobs[j].result : proofJobs[j].result[n] = {j}) /\ proofJobs[j].fits
        BY DEF Build!ProofIsOfItsJob, Unique
    <2>1. Proved(j)
        BY DEF BuildInv
    <2> QED BY <2>1 DEF Proved
<1> QED BY <1>1, BuildInvariant, PTL
=============================================================================
