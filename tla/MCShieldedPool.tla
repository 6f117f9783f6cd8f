--------------------------- MODULE MCShieldedPool ---------------------------
(***************************************************************************)
(* Instances of ShieldedPool for TLC: what the notes are, and a pool that  *)
(* has been configured and funded.                                         *)
(***************************************************************************)
EXTENDS ShieldedPool

\* u1 and u2 share a nullifier.
MCAssetOf == [n \in Notes |-> IF n \in {"x1", "x2", "x3"} THEN "xlm" ELSE "usdc"]
MCValueOf == [n \in Notes |-> IF n \in {"u1", "u3", "x1"} THEN 2 ELSE 1]
MCNulOf == [n \in Notes |-> IF n \in {"u1", "u2"} THEN "nf" ELSE n]

\* The state the deployment scripts leave behind: verifiers, messenger,
\* committee and solvers set, assets registered, the pool authorized in the
\* registry, the labels of the notes allowed; and tokens have arrived in the
\* vault.
Deployed(labels, trusted, keys, funds) ==
    /\ admin = Deployer
    /\ paused = FALSE
    /\ wired = Parts
    /\ assoc = labels
    /\ solvers = trusted
    /\ committee = keys
    /\ registered = Assets
    /\ leaves = <<>>
    /\ leafCount = 0
    /\ knownRoots = {<<>>}
    /\ deposits = {}
    /\ noteSupply = [a \in Assets |-> 0]
    /\ spent = {}
    /\ spenders = {Pool}
    /\ regPaused = FALSE
    /\ balance = [a \in Assets |-> funds]
    /\ ledger = 0
    /\ claims = [a \in Assets |-> 0]
    /\ released = [n \in Notes |-> 0]
    /\ drained = [a \in Assets |-> 0]
    /\ credited = [x \in Nonces |-> 0]

DeployedSpec ==
    /\ Deployed(Notes, Solvers, Signers, MaxBalance)
    /\ [][Deposit \/ WithdrawFamily \/ Transfer \/ MpcSettle]_vars

=============================================================================
