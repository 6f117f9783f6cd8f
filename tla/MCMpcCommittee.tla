--------------------------- MODULE MCMpcCommittee ---------------------------
(***************************************************************************)
(* Instances of MpcCommittee.  Of the deployment with nodes of their own:  *)
(* "rounds" has three intents and no failures, "outages" two intents while *)
(* nodes and processes stop.  Of the deployment in one process: "settler"  *)
(* has direct and RFQ intents with two crashes, "resubmit" clients that    *)
(* submit again, "routed" a settler that keeps polling.                    *)
(***************************************************************************)
EXTENDS MpcCommittee, TLC

CONSTANTS a, b, c, d, n1, n2, n3

VARIABLE scenario

\* a and c pay what b and d want.
MCPays == [i \in Intents |-> IF i \in {a, c} THEN "USDC" ELSE "XLM"]
MCWants == [i \in Intents |-> IF i \in {a, c} THEN "XLM" ELSE "USDC"]

Symmetry == Permutations(Nodes)

Rounds == INSTANCE MpcCommittee WITH MaxFaults <- 0
Outages == INSTANCE MpcCommittee WITH Intents <- {a, b}

RoundsInit == scenario \in {"rounds", "outages"} /\ Init

RoundsNext ==
    /\ \/ scenario = "rounds" /\ Rounds!Next
       \/ scenario = "outages" /\ Outages!Next
    /\ UNCHANGED scenario

RoundsSpec == RoundsInit /\ [][RoundsNext]_<<vars, scenario>>

-----------------------------------------------------------------------------
Settler == INSTANCE MpcCommittee WITH Intents <- {a, b, c}, MaxSubmits <- 1
Resubmit == INSTANCE MpcCommittee WITH Intents <- {a, b}, MaxFaults <- 0
Routed == INSTANCE MpcCommittee WITH Intents <- {a, d}, MaxSubmits <- 1

SettlerInit == scenario \in {"settler", "resubmit", "routed"} /\ Init

SettlerNext ==
    /\ \/ scenario = "settler" /\ Settler!Next
       \/ scenario = "resubmit" /\ Resubmit!Next
       \/ scenario = "routed" /\ Routed!Next
    /\ UNCHANGED scenario

\* The settler polls for ever, and processes are restarted.
SettlerSpec ==
    /\ SettlerInit
    /\ [][SettlerNext]_<<vars, scenario>>
    /\ WF_vars(scenario = "routed" /\ Routed!SettlerStep)
    /\ WF_vars(scenario = "routed" /\ Routed!fetchCommitteeInfo)

\* A batch in mpc_batches does not stay pending: the settler queues it or hands
\* it to the RFQ route, although its process stops between any two queries.
EveryBatchIsRouted ==
    scenario = "routed" /\ Pending # {} ~> Pending = {}
=============================================================================
