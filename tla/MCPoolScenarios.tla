-------------------------- MODULE MCPoolScenarios ---------------------------
(***************************************************************************)
(* Four instances of the pool in one run.  "lifecycle" starts from the     *)
(* constructor and has every call of the contract; the others start from a *)
(* deployed and funded pool and go deeper: "exits" has all ways out of the *)
(* pool with two assets, "netting" the committee's settlements within an   *)
(* asset, "crossing" those across assets.                                  *)
(***************************************************************************)
EXTENDS MCShieldedPool

VARIABLE scenario

LifecycleNotes == {"u1", "u2"}
ExitNotes == {"u1", "u2", "x1"}
NettingNotes == {"u3", "u4", "u5", "u6"}
CrossingNotes == {"u3", "u4", "u5", "x2", "x3"}

Lifecycle == INSTANCE ShieldedPool
    WITH Assets <- {USDC}, Notes <- LifecycleNotes, Nonces <- {"c1"}, Prices <- {3},
         Capacity <- 2, MaxBalance <- 2, MaxLedger <- 1
Exits == INSTANCE ShieldedPool
    WITH Notes <- ExitNotes, Signers <- {}, Prices <- {1, 3}, MaxBalance <- 2
Netting == INSTANCE ShieldedPool
    WITH Notes <- NettingNotes, Nonces <- {"c1", "c2"}, Solvers <- {}, Prices <- {}
Crossing == INSTANCE ShieldedPool
    WITH Notes <- CrossingNotes, Nonces <- {"c1", "c2"}, Solvers <- {}, Prices <- {2}

ScenarioInit ==
    \/ scenario = "lifecycle" /\ Init
    \/ scenario = "exits" /\ Deployed(ExitNotes, Solvers, {}, 2)
    \/ scenario = "netting" /\ Deployed(NettingNotes, {}, Signers, 3)
    \/ scenario = "crossing" /\ Deployed(CrossingNotes, {}, Signers, 3)

ScenarioNext ==
    /\ \/ scenario = "lifecycle" /\ Lifecycle!Next
       \/ scenario = "exits" /\ (Exits!Deposit \/ Exits!WithdrawFamily \/ Exits!Transfer)
       \/ scenario = "netting" /\ (Netting!Deposit \/ Netting!WithdrawFamily
                                   \/ Netting!Transfer \/ Netting!MpcSettle)
       \/ scenario = "crossing" /\ (Crossing!Deposit \/ Crossing!WithdrawFamily
                                    \/ Crossing!MpcSettle)
    /\ UNCHANGED scenario

ScenarioSpec == ScenarioInit /\ [][ScenarioNext]_<<vars, scenario>>

=============================================================================
