-------------------------- MODULE MCQueueScenarios --------------------------
(***************************************************************************)
(* Three instances of the queue in one run.  "faults": two workers take up *)
(* two jobs while queries throw and loops die of it.  "race": two clients  *)
(* enqueue and retry under the same key while queries throw.               *)
(* "settles": queries do not throw, a worker may be killed and restarts.   *)
(***************************************************************************)
EXTENDS JobQueue

VARIABLE scenario

CONSTANTS c1, w1

Faults == INSTANCE JobQueue WITH Clients <- {c1}, Keys <- {}, MaxCrashes <- 0
Race == INSTANCE JobQueue WITH Workers <- {w1}, MaxAttempts <- 1, MaxCrashes <- 0
Settles == INSTANCE JobQueue WITH Clients <- {c1}, Keys <- {}, DbFaults <- FALSE

ScenarioInit == scenario \in {"faults", "race", "settles"} /\ Init

ScenarioNext ==
    /\ \/ scenario = "faults" /\ Faults!Next
       \/ scenario = "race" /\ Race!Next
       \/ scenario = "settles" /\ Settles!Next
    /\ UNCHANGED scenario

\* A loop whose process is up keeps running, the container runtime restarts a
\* killed process (infra/docker-compose.phase2.yml, restart: unless-stopped),
\* and time passes.
ScenarioFairness ==
    /\ \A w \in Workers :
          /\ WF_vars(scenario = "settles" /\ Settles!LoopStep(w))
          /\ WF_vars(scenario = "settles" /\ Settles!Restart(w))
    /\ \A j \in Jobs :
          WF_vars(scenario = "settles" /\ j \in DOMAIN jobs /\ Settles!BackoffElapses(j))

ScenarioSpec == ScenarioInit /\ [][ScenarioNext]_<<vars, scenario>> /\ ScenarioFairness

\* Every job that is queued, or waits for a retry, is settled in the end, unless
\* its worker was killed while holding it: a loop that stays up drains the
\* queue through every order of claims, failures, backoffs and restarts.
EveryJobSettles ==
    \A j \in Jobs :
        scenario = "settles" /\ j \in DOMAIN jobs
            ~> j \in DOMAIN jobs /\ (Settled(j) \/ Orphaned(j))

=============================================================================
