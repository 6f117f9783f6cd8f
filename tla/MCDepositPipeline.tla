-------------------------- MODULE MCDepositPipeline --------------------------
(***************************************************************************)
(* Two instances of the deposit pipeline in one run.  "credit": a relayer  *)
(* works off a user's deposit and an operator's, each with its witness and *)
(* a retry.  "ends": a user's deposit without a witness, as the API leaves *)
(* it, and an operator's, on a relayer whose loop keeps running.           *)
(***************************************************************************)
EXTENDS DepositPipeline

CONSTANTS u1, u2, o1, n1, n2

VARIABLE scenario

\* u1 and u2 are deposits of users, o1 is an operator's.
MCNote == [j \in Jobs |-> IF j = u1 THEN n1 ELSE n2]

MCAmount6 == [j \in Jobs |-> 2]

\* n1 is worth what is minted for two units after a fee of one, n2 what is
\* minted without a fee.
MCValue == [n \in Notes |-> IF n = n1 THEN 10 ELSE 20]

Credit == INSTANCE DepositPipeline WITH Jobs <- {u1, o1}, UserJobs <- {u1}
Ends == INSTANCE DepositPipeline WITH Jobs <- {u2, o1}, UserJobs <- {u2}, MaxBurns <- 2

ScenarioInit == scenario \in {"credit", "ends"} /\ Init

ScenarioNext ==
    /\ \/ scenario = "credit" /\ Credit!Next
       \/ scenario = "ends" /\ Ends!Next
    /\ UNCHANGED scenario

\* The relayer's loops keep running, and every call returns or throws: polls and
\* transactions time out.  Neither users nor Circle are assumed to act.
ScenarioSpec ==
    /\ ScenarioInit
    /\ [][ScenarioNext]_<<vars, scenario>>
    /\ \A j \in Jobs : WF_vars(scenario = "ends" /\ j # u1 /\ Ends!RelayerStep(j))

\* Every job that is taken into the queue ends, though the user may never burn,
\* the attestation never come and every call throw.
EveryDepositEnds ==
    \A j \in Jobs :
        scenario = "ends" /\ job[j].status = "queued"
            ~> job[j].status \in {"ready", "failed", "lost"}

==============================================================================
