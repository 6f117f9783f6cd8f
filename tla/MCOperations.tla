---------------------------- MODULE MCOperations ----------------------------
(***************************************************************************)
(* What operators and their processes do, one part at a time: the          *)
(* guardians, whose set and threshold change around one proposal           *)
(* ("quorum") or who have two proposals ("timelock"); the root auditor     *)
(* ("audit"); the deployment scripts ("deployment"); the command-line      *)
(* drivers, each on its own ("drivers") and in the suites ("suites"), and  *)
(* those of the committee ("committee"); the building and testing of the   *)
(* circuits ("circuits"); and the proof builders, the prover's ("proofs")  *)
(* and the relayer's and the CLI's ("matches").  The variables of the      *)
(* parts that are not at work keep their initial values.                   *)
(***************************************************************************)
EXTENDS MCGovernanceGuardian

VARIABLES scenario,
          leaves, root, aged, dbRows, audit, runs, findings,
          settings, file, flags, chain, spenders, script, passed, faults, launches,
          poolLeaves, spent, paid, minted, vault, assoc, solvers, committee, xlm, fills,
          driver, results, suite, report, lost,
          jobs, files, working,
          db, up, sessions, node, listed, sealed, held, sessionRow, rows, other, tester, stops,
          version, wasm, zkey, vk, build, builds, keys, kills, since

auditVars == <<leaves, root, aged, dbRows, audit, runs, findings>>
deployVars == <<settings, file, flags, chain, spenders, script, passed, faults, launches>>
driverVars == <<poolLeaves, spent, paid, minted, vault, assoc, solvers, committee, xlm, fills,
                driver, results, suite, report, lost>>
proofVars == <<jobs, files, working>>
committeeVars == <<db, up, sessions, node, listed, sealed, held, sessionRow, rows, other,
                   tester, stops>>
circuitVars == <<version, wasm, zkey, vk, build, builds, keys, kills, since>>

QuorumCase == INSTANCE GovernanceGuardian WITH MaxProposals <- 1
TimelockCase == INSTANCE GovernanceGuardian WITH Accounts <- {"g1", "g2"}, Founders <- MCPair

Audit == INSTANCE RootAuditor WITH
             MaxLeaves <- 3, Kinds <- {"deposit", "xfer"}, Wrong <- TRUE, MaxAged <- 1, MaxRuns <- 2

Deploy == INSTANCE Deployment WITH
              MaxFaults <- 2, MaxLaunches <- 6, XlmKnown <- TRUE, PricedBuilt <- TRUE

Alone == INSTANCE Drivers WITH
             leaves <- poolLeaves, faults <- lost, MaxRuns <- 3, MaxFaults <- 2, Suites <- {},
             Standalone <- {"zk:withdraw:e2e", "rfq:e2e", "cctp:outbound:e2e", "cctp:inbound:e2e",
                            "zk:transfer:e2e", "mpc:onchain:e2e", "mpc:priced:e2e", "rfq:swap:e2e"}
InSuite == INSTANCE Drivers WITH
             leaves <- poolLeaves, faults <- lost, MaxRuns <- 4, MaxFaults <- 2, Standalone <- {},
             Suites <- {"e2e:all", "e2e:testnet:all"}

\* Two processes and two jobs, with a retry for the builders of the worker.
Proofs == INSTANCE ProofBuilders WITH
              Workers <- {"w1", "w2"}, Jobs <- {"j1", "j2"}, Tags <- {"t1", "t2"},
              Kinds <- {"note", "transfer", "deposit"}, MaxAttempts <- 2
Matches == INSTANCE ProofBuilders WITH
              Workers <- {"w1", "w2"}, Jobs <- {"j1", "j2"}, Tags <- {"t1", "t2"},
              Kinds <- {"mpc", "priced", "compliance"}, MaxAttempts <- 1

Committee == INSTANCE CommitteeDrivers WITH
                 driver <- tester, faults <- stops, MaxFaults <- 2,
                 Programs <- {"mpc:e2e", "phase2", "mpc:rfq:e2e", "mpc:liveness:e2e"}

Circuit == INSTANCE CircuitBuild WITH
               run <- build, runs <- builds, faults <- kills, MaxVersion <- 2, MaxRuns <- 4,
               MaxFaults <- 2, Circuits <- <<"withdraw_public", "mpc_settlement">>,
               Tested <- <<"withdraw_public">>

\* Tags are interchangeable: the first job's is t1, the second's the same or not.
ScenarioInit ==
    /\ scenario \in {"quorum", "timelock", "audit", "deployment", "drivers", "suites",
                     "committee", "circuits", "proofs", "matches"}
    /\ IF scenario = "quorum" THEN initialize ELSE TimelockCase!initialize
    /\ Audit!Init /\ Deploy!Init /\ Circuit!Init
    /\ Committee!Init /\ (scenario # "committee" => tester.name = "mpc:e2e" /\ ~db)
    /\ IF scenario = "drivers" THEN Alone!Init ELSE InSuite!Init
    /\ CASE scenario = "proofs" -> Proofs!Init /\ jobs["j1"].tag = "t1"
         [] scenario = "matches" -> Matches!Init /\ jobs["j1"].tag = "t1"
         [] OTHER -> jobs = << >> /\ files = << >> /\ working = << >>

ScenarioNext ==
    /\ \/ /\ \/ scenario = "quorum" /\ QuorumCase!Next
             \/ scenario = "timelock" /\ TimelockCase!Next
          /\ UNCHANGED <<auditVars, deployVars, driverVars, proofVars, committeeVars, circuitVars>>
       \/ /\ scenario = "audit" /\ Audit!Next
          /\ UNCHANGED <<vars, deployVars, driverVars, proofVars, committeeVars, circuitVars>>
       \/ /\ scenario = "deployment" /\ Deploy!Next
          /\ UNCHANGED <<vars, auditVars, driverVars, proofVars, committeeVars, circuitVars>>
       \/ /\ \/ scenario = "drivers" /\ Alone!Next
             \/ scenario = "suites" /\ InSuite!Next
          /\ UNCHANGED <<vars, auditVars, deployVars, proofVars, committeeVars, circuitVars>>
       \/ /\ \/ scenario = "proofs" /\ Proofs!Next
             \/ scenario = "matches" /\ Matches!Next
          /\ UNCHANGED <<vars, auditVars, deployVars, driverVars, committeeVars, circuitVars>>
       \/ /\ scenario = "committee" /\ Committee!Next
          /\ UNCHANGED <<vars, auditVars, deployVars, driverVars, proofVars, circuitVars>>
       \/ /\ scenario = "circuits" /\ Circuit!Next
          /\ UNCHANGED <<vars, auditVars, deployVars, driverVars, proofVars, committeeVars>>
    /\ UNCHANGED scenario

allVars == <<scenario, vars, auditVars, deployVars, driverVars, proofVars, committeeVars, circuitVars>>
ScenarioSpec == ScenarioInit /\ [][ScenarioNext]_allVars

\* An audit of a pool that has only deposits, all of them still served, and that
\* stood still between the two reads, says OK exactly when the stored root is the
\* one over its leaves or over the last leaf (compareRoots); spends are stopped
\* (assertRootHealthy) only by a run that did not say OK.
AuditIsExact == Audit!AuditIsExact

\* A contract that .env.generated flags as initialised is initialised on the
\* ledger, whatever was killed, lost or repeated (invokeOnce).
FlagMeansInitialised == Deploy!FlagMeansInitialised

\* What prints PASS did what it says.  A driver did the whole of what it drives
\* exactly once, also when answers were lost and calls repeated on the way; a
\* driver of the committee saw a batch of its own round with a quorum of the
\* committee it read (runMatchingRound, verifySignedBatch); circuits:test, and
\* circuits:build with CIRCUITS_FORCE_SETUP, leave files that belong together.
PassMeansDone ==
    CASE scenario = "drivers" -> Alone!PassedDriverSettled
      [] scenario = "committee" -> Committee!PassedDriverSawItsMatch
      [] scenario = "circuits" -> Circuit!PassedMeansProvable
      [] OTHER -> InSuite!PassedDriverSettled

\* processProofJob: a job is ready only with a proof and public signals made from
\* its own data, which satisfies the circuit, whatever other workers wrote and a
\* dead build left in the scratch directory, as long as no other job has its tag.
ProofIsOfItsJob ==
    scenario \in {"proofs", "matches"} => Proofs!ProofIsOfItsJob
=============================================================================
