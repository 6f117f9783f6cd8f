----------------------------- MODULE Deployment -----------------------------
(* The scripts that put the contracts on a network and record them in         *)
(* .env.generated: setup-env, deploy-stellar-contracts,                       *)
(* init-stellar-contracts, deploy-shielded-pool and deploy-mpc-verifier.      *)
(* Each is a list of steps against two stores that no transaction spans, the  *)
(* ledger and the file.  A script can be killed between any two steps, a      *)
(* call can fail, and a call can land while its answer is lost; the operator  *)
(* then starts a script again.  A contract's id is its position in `chain`.   *)
EXTENDS Integers, Sequences, FiniteSets

CONSTANTS MaxFaults, MaxLaunches, XlmKnown, PricedBuilt

VARIABLES settings, file, flags, chain, spenders, script, passed, faults, launches

vars == <<settings, file, flags, chain, spenders, script, passed, faults, launches>>
-----------------------------------------------------------------------------
contracts == <<"commitment_tree", "nullifier_registry", "compliance_registry", "shade_vault",
               "intent_escrow", "governance_guardian", "verifier_deposit", "verifier_withdraw",
               "verifier_rfq", "verifier_fill_claim">>

Initialised == SubSeq(contracts, 1, 6)

\* The crates whose constructor takes arguments
Constructed == {"verifier_deposit", "verifier_withdraw", "verifier_rfq", "verifier_fill_claim",
                "verifier_transfer", "verifier_mint", "verifier_mpc", "verifier_priced", "pool"}

Keys == {contracts[i] : i \in 1..Len(contracts)} \cup Constructed

stellarRoles == <<"DEPLOYER", "USER", "RELAYER", "SOLVER">>

Op(o, k) == [op |-> o, key |-> k]

setup_env == [i \in 1..4 |-> Op("wallet", stellarRoles[i])] \o <<Op("write", "roles")>>

deploy_stellar == [i \in 1..Len(contracts) |-> Op("deploy_bare", contracts[i])]

init_stellar == <<Op("asset_id", "USDC_SAC")>> \o
                [i \in 1..Len(Initialised) |-> Op("invokeOnce", Initialised[i])]

\* What makes a fresh pool usable; "spender" is set on the nullifier registry.
Wiring == <<"spender", "cctp_messenger", "verifier_transfer", "verifier_mint", "usdc">>
          \o (IF XlmKnown THEN <<"xlm">> ELSE <<>>)

deploy_pool == <<Op("deploy", "verifier_withdraw"), Op("deploy", "verifier_transfer"),
                 Op("deploy", "verifier_mint"), Op("deploy_pool", "pool")>>
               \o [i \in 1..Len(Wiring) |-> Op("invoke", Wiring[i])]

deploy_mpc == <<Op("deploy", "verifier_mpc"), Op("invoke", "verifier_mpc")>>
              \o (IF PricedBuilt THEN <<Op("deploy", "verifier_priced"),
                                        Op("invoke", "verifier_priced")>> ELSE <<>>)

Program(n) == CASE n = "setup_env"      -> setup_env
                [] n = "deploy_stellar" -> deploy_stellar
                [] n = "init_stellar"   -> init_stellar
                [] n = "deploy_pool"    -> deploy_pool
                [] n = "deploy_mpc"     -> deploy_mpc
                [] OTHER                -> <<>>

Scripts == {"setup_env", "deploy_stellar", "init_stellar", "deploy_pool", "deploy_mpc"}

Required(n) ==
    CASE n = "setup_env"      -> TRUE
      [] n = "deploy_stellar" -> "DEPLOYER" \in settings
      [] n = "init_stellar"   -> {"DEPLOYER", "RELAYER"} \subseteq settings
      [] n = "deploy_pool"    -> {"DEPLOYER", "RELAYER", "USDC_SAC"} \subseteq settings
                                 /\ file["nullifier_registry"] # 0
      [] n = "deploy_mpc"     -> "DEPLOYER" \in settings /\ file["pool"] # 0

Idle == [name |-> "none", todo |-> <<>>, redeploy |-> FALSE, made |-> {}]

Init ==
    /\ settings = {} /\ flags = {} /\ spenders = {} /\ chain = <<>>
    /\ file = [k \in Keys |-> 0]
    /\ script = Idle /\ passed = "none"
    /\ faults = 0 /\ launches = 0
-----------------------------------------------------------------------------
store == <<settings, file, flags>>
ledger == <<chain, spenders>>

launch(n, again) ==
    /\ script = Idle
    /\ launches < MaxLaunches
    /\ Required(n)
    /\ again => n = "deploy_pool"
    /\ launches' = launches + 1
    /\ passed' = "none"
    /\ script' = [name |-> n, todo |-> Program(n), redeploy |-> again, made |-> {}]
    /\ UNCHANGED <<store, ledger, faults>>

At(o) == script.name # "none" /\ script.todo # <<>> /\ Head(script.todo).op = o
Key == Head(script.todo).key
Done == script' = [script EXCEPT !.todo = Tail(@)]

Fault == faults < MaxFaults /\ faults' = faults + 1

Fresh(k) == Append(chain, [crate |-> k, inited |-> FALSE, set |-> {}])

\* A step that throws, or the operator's kill: the process is gone, and with
\* it everything it had not written.
exits ==
    /\ script.name # "none" /\ script.todo # <<>>
    /\ Fault
    /\ script' = Idle
    /\ UNCHANGED <<store, ledger, passed, launches>>

pass ==
    /\ script.name # "none" /\ script.todo = <<>>
    /\ passed' = script.name
    /\ script' = Idle
    /\ UNCHANGED <<store, ledger, faults, launches>>

\* setup-env keeps the wallets it has made and funded in memory ...
wallet ==
    /\ At("wallet")
    /\ script' = [script EXCEPT !.todo = Tail(@),
                                !.made = IF Key \in settings THEN @ ELSE @ \cup {Key}]
    /\ UNCHANGED <<store, ledger, passed, faults, launches>>

\* ... and writes the file once, at the end.
writeEnvGenerated ==
    /\ At("write")
    /\ settings' = settings \cup script.made
    /\ Done
    /\ UNCHANGED <<file, flags, ledger, passed, faults, launches>>

\* init-stellar-contracts derives the USDC contract's id and records it.
asset_id ==
    /\ At("asset_id")
    /\ settings' = settings \cup {Key}
    /\ Done
    /\ UNCHANGED <<file, flags, ledger, passed, faults, launches>>

\* deploy-stellar-contracts: no constructor arguments are passed, so the
\* command fails for a crate that needs them and the script throws.
deployWithRetry ==
    /\ At("deploy_bare")
    /\ \/ file[Key] # 0 /\ Done /\ UNCHANGED <<file, chain, faults>>
       \/ file[Key] = 0 /\ Key \in Constructed
          /\ script' = Idle /\ UNCHANGED <<file, chain, faults>>
       \/ file[Key] = 0 /\ Key \notin Constructed
          /\ chain' = Fresh(Key)
          /\ \/ file' = [file EXCEPT ![Key] = Len(chain')] /\ Done /\ UNCHANGED faults
             \/ Fault /\ UNCHANGED <<file, script>>
    /\ UNCHANGED <<settings, flags, spenders, passed, launches>>

\* deployVerifier and deploy: reuse the recorded id, or deploy and record.
\* An answer that is lost leaves an orphan on the ledger and is tried again.
deployVerifier ==
    /\ At("deploy")
    /\ \/ file[Key] # 0 /\ Done /\ UNCHANGED <<file, chain, faults>>
       \/ file[Key] = 0
          /\ chain' = Fresh(Key)
          /\ \/ file' = [file EXCEPT ![Key] = Len(chain')] /\ Done /\ UNCHANGED faults
             \/ Fault /\ UNCHANGED <<file, script>>
    /\ UNCHANGED <<settings, flags, spenders, passed, launches>>

\* deploy-shielded-pool: the id is written before the pool is wired, and a
\* recorded pool skips the wiring.
deployPool ==
    /\ At("deploy_pool")
    /\ \/ file["pool"] # 0 /\ ~script.redeploy
          /\ script' = [script EXCEPT !.todo = <<>>] /\ UNCHANGED <<file, chain, faults>>
       \/ (file["pool"] = 0 \/ script.redeploy)
          /\ chain' = Fresh("pool")
          /\ \/ file' = [file EXCEPT !["pool"] = Len(chain')] /\ Done /\ UNCHANGED faults
             \/ Fault /\ UNCHANGED <<file, script>>
    /\ UNCHANGED <<settings, flags, spenders, passed, launches>>

initialize(c) == chain' = [chain EXCEPT ![c].inited = TRUE]

\* `run` giving up on a timeout as if the call had been made
invokeOnce_early ==
    /\ At("invokeOnce") /\ file[Key] # 0
    /\ flags' = flags \cup {Key}
    /\ \/ initialize(file[Key])
       \/ UNCHANGED chain
    /\ Done
    /\ UNCHANGED <<settings, file, spenders, passed, faults, launches>>

\* A contract that is already initialised panics, which `run` takes as done.
\* A recorded flag skips the call; a missing contract id throws (exits).
invokeOnce ==
    /\ At("invokeOnce") /\ file[Key] # 0
    /\ \/ Key \in flags /\ Done /\ UNCHANGED <<flags, chain, faults>>
       \/ Key \notin flags
          /\ initialize(file[Key])
          /\ \/ flags' = flags \cup {Key} /\ Done /\ UNCHANGED faults
             \/ Fault /\ UNCHANGED <<flags, script>>
    /\ UNCHANGED <<settings, file, spenders, passed, launches>>

contract_missing ==
    /\ At("invokeOnce") /\ file[Key] = 0
    /\ script' = Idle
    /\ UNCHANGED <<store, ledger, passed, faults, launches>>

\* invoke of deploy-shielded-pool and deploy-mpc-verifier: the setters are
\* idempotent, so a lost answer is repeated without harm.
invoke ==
    /\ At("invoke")
    /\ IF Key = "spender"
       THEN spenders' = spenders \cup {file["pool"]} /\ UNCHANGED chain
       ELSE /\ chain' = [chain EXCEPT ![file["pool"]].set =
                             {w \in @ : w[1] # Key} \cup
                             {<<Key, IF Key \in Keys THEN file[Key] ELSE 0>>}]
            /\ UNCHANGED spenders
    /\ \/ Done /\ UNCHANGED faults
       \/ Fault /\ UNCHANGED script
    /\ UNCHANGED <<store, passed, launches>>

Next ==
    \/ \E n \in Scripts, again \in BOOLEAN : launch(n, again)
    \/ exits \/ pass
    \/ wallet \/ writeEnvGenerated \/ asset_id
    \/ deployWithRetry \/ deployVerifier \/ deployPool
    \/ invokeOnce \/ contract_missing \/ invoke

Spec == Init /\ [][Next]_vars
-----------------------------------------------------------------------------
\* A contract that .env.generated flags as initialised is initialised on the
\* ledger, whatever was killed, lost or repeated: invokeOnce writes the flag
\* only after `run` has returned (init-stellar-contracts.ts:66).
FlagMeansInitialised == \A k \in flags : chain[file[k]].inited
=============================================================================
