--------------------------- MODULE RelayerSubmits ---------------------------
(***************************************************************************)
(* The jobs in which the relayer itself acts on the pool: the operator's   *)
(* own deposit, the settlement of an RFQ, its atomic swap, and the         *)
(* settlement of a match of the committee with a proof.  Other deposits    *)
(* reach the tree meanwhile, and note_commitments, from which the relayer  *)
(* computes roots, has only what a driver managed to write.  The RFQ jobs  *)
(* are rows an operator inserts: no route enqueues them.                   *)
(***************************************************************************)
EXTENDS Integers, Sequences, FiniteSets

CONSTANTS Jobs,         \* rows of service_jobs
          TypeOf,       \* job_type
          NotesOf,      \* notes a job's call spends
          Outputs,      \* commitments it appends to the tree
          Witnessed,    \* MPC jobs whose payload has the three witness paths
          MaxAttempts,  \* max_attempts
          Retries,      \* retries of sorobanInvoke
          MaxLeaves,    \* bound on the leaves of the tree
          MaxFaults     \* bound on lost and failed calls and killed relayers

VARIABLES
    operator,  \* ENABLE_OPERATOR_TESTNET_DEPOSIT
    leaves,    \* leaves of the pool's tree; a root is the sequence it is over
    noteRows,  \* leaf indexes with a row in note_commitments
    spent,     \* nullifiers the registry holds
    burns,     \* burns made for a job
    landed,    \* history: how often the pool accepted a job's call
    jobs,
    faults

pool == <<leaves, noteRows, spent, burns, landed>>
vars == <<operator, pool, jobs, faults>>

RELAYER_JOB_TYPES ==
    {"CCTP_INBOUND", "CCTP_INBOUND_AFTER_USER_BURN", "CCTP_INBOUND_BURN", "CCTP_FETCH_ATTESTATION",
     "STELLAR_MINT_FORWARD", "REGISTER_NOTE", "WITHDRAW_PUBLIC_SUBMIT", "WITHDRAW_CCTP_BURN",
     "RFQ_SETTLE_SUBMIT", "RFQ_ATOMIC_SWAP_SUBMIT", "CCTP_OUTBOUND_ATTESTATION",
     "CCTP_OUTBOUND_MINT", "MPC_SETTLE_SUBMIT"}

\* The granular steps of a deposit are the composite one.
INBOUND_ALIASES == {"CCTP_INBOUND_BURN", "CCTP_FETCH_ATTESTATION", "STELLAR_MINT_FORWARD", "REGISTER_NOTE"}
Inbound(j) == TypeOf[j] \in INBOUND_ALIASES \cup {"CCTP_INBOUND"}

Init ==
    /\ operator \in BOOLEAN
    /\ leaves = << >>
    /\ noteRows = {}
    /\ spent = {}
    /\ burns = [j \in Jobs |-> 0]
    /\ landed = [j \in Jobs |-> 0]
    /\ jobs = [j \in Jobs |-> [status |-> "none", attempts |-> 0, tries |-> 0, root |-> << >>, proof |-> << >>]]
    /\ faults = 0

-----------------------------------------------------------------------------
Become(j, status) == jobs' = [jobs EXCEPT ![j].status = status]
Fail(j) == Become(j, IF jobs[j].attempts >= MaxAttempts THEN "failed" ELSE "failed_retry")
Fault == faults < MaxFaults /\ faults' = faults + 1

\* depositStep of the API, and the settler: one job per key.  The payload of a
\* deposit has the root after it, as the client sees the tree.
enqueue(j) ==
    /\ jobs[j].status = "none"
    /\ jobs' = [jobs EXCEPT ![j].status = "queued",
                            ![j].root = IF Inbound(j) THEN leaves \o Outputs[j] ELSE << >>]
    /\ UNCHANGED <<operator, pool, faults>>

claimNext(j) ==
    /\ TypeOf[j] \in RELAYER_JOB_TYPES
    /\ jobs[j].status \in {"queued", "failed_retry"}
    /\ jobs' = [jobs EXCEPT ![j].status = "claimed", ![j].attempts = @ + 1, ![j].tries = 0]
    /\ UNCHANGED <<operator, pool, faults>>

\* CCTP_INBOUND: refused unless enabled; every attempt starts with a burn.
operator_inbound(j) ==
    /\ Inbound(j) /\ jobs[j].status = "claimed"
    /\ IF operator
       THEN Become(j, "minting") /\ burns' = [burns EXCEPT ![j] = @ + 1]
       ELSE Fail(j) /\ UNCHANGED burns
    /\ UNCHANGED <<operator, leaves, noteRows, spent, landed, faults>>

\* mint_and_forward and the deposit proof; register-note is submitted next.
inbound_minted(j) ==
    /\ Inbound(j) /\ jobs[j].status = "minting"
    /\ Become(j, "submitting")
    /\ UNCHANGED <<operator, pool, faults>>

rfq_settle_submit(j) ==
    /\ TypeOf[j] = "RFQ_SETTLE_SUBMIT" /\ jobs[j].status = "claimed"
    /\ Become(j, "submitting")
    /\ UNCHANGED <<operator, pool, faults>>

rfq_atomic_swap_submit(j) ==
    /\ TypeOf[j] = "RFQ_ATOMIC_SWAP_SUBMIT" /\ jobs[j].status = "claimed"
    /\ Become(j, "submitting")
    /\ UNCHANGED <<operator, pool, faults>>

\* The batch, read again or rebuilt from the payload, has a quorum of the
\* committee the pool lists.
verify_signatures(j) ==
    /\ TypeOf[j] = "MPC_SETTLE_SUBMIT" /\ jobs[j].status = "claimed"
    /\ Become(j, "verified_signatures")
    /\ UNCHANGED <<operator, pool, faults>>

\* select commitment from note_commitments ... order by leaf_index.
RowLeaves ==
    LET row(n) == CHOOSE k \in noteRows : Cardinality({m \in noteRows : m <= k}) = n
    IN  [n \in 1 .. Cardinality(noteRows) |-> leaves[row(n)]]

\* The proof of the pair, over the tree the rows describe.  What fails there is
\* swallowed, and the job is then refused for having no proof.
prove(j) ==
    /\ jobs[j].status = "verified_signatures"
    /\ \/ /\ j \in Witnessed
          /\ jobs' = [jobs EXCEPT ![j].status = "proof_ready", ![j].proof = RowLeaves]
       \/ Fail(j)
    /\ UNCHANGED <<operator, pool, faults>>

\* The root after the settlement, from the rows and the two outputs; without the
\* database from the outputs alone.
computeMpcRoot(j) ==
    /\ jobs[j].status = "proof_ready"
    /\ \E rows \in {RowLeaves, << >>} :
          jobs' = [jobs EXCEPT ![j].status = "submitting", ![j].root = rows \o Outputs[j]]
    /\ UNCHANGED <<operator, pool, faults>>

-----------------------------------------------------------------------------
\* What the pool asks of the call: fresh nullifiers, the root it arrives at, and
\* a proof over a root it had.
Accepts(j) ==
    /\ NotesOf[j] \cap spent = {}
    /\ Outputs[j] # << >> => jobs[j].root = leaves \o Outputs[j]
    /\ TypeOf[j] = "MPC_SETTLE_SUBMIT" => \E n \in 0 .. Len(leaves) : jobs[j].proof = SubSeq(leaves, 1, n)

Land(j) ==
    /\ spent' = spent \cup NotesOf[j]
    /\ leaves' = leaves \o Outputs[j]
    /\ landed' = [landed EXCEPT ![j] = @ + 1]
    /\ UNCHANGED <<operator, noteRows, burns>>

\* sorobanInvoke: the call is accepted and its hash returned, or it reverts,
\* which is not repeated.
invoke_answered(j) ==
    /\ jobs[j].status = "submitting"
    /\ IF Accepts(j)
       THEN Land(j) /\ Become(j, "ready")
       ELSE Fail(j) /\ UNCHANGED <<operator, pool>>
    /\ UNCHANGED faults

invoke_lost_trusting(j) ==
    /\ jobs[j].status = "submitting"
    /\ Fault
    /\ IF jobs[j].tries + 1 < Retries
       THEN jobs' = [jobs EXCEPT ![j].tries = @ + 1]
       ELSE Become(j, "ready")
    /\ \/ Accepts(j) /\ Land(j)
       \/ UNCHANGED <<operator, pool>>

\* A timeout, sent or not, is tried again, and the last one throws.
invoke_lost(j) ==
    /\ jobs[j].status = "submitting"
    /\ Fault
    /\ IF jobs[j].tries + 1 < Retries
       THEN jobs' = [jobs EXCEPT ![j].tries = @ + 1]
       ELSE Fail(j)
    /\ \/ Accepts(j) /\ Land(j)
       \/ UNCHANGED <<operator, pool>>

\* Any other step throws (Circle, get_committee, compute-root, the database).
step_throws(j) ==
    /\ jobs[j].status \in {"claimed", "minting", "verified_signatures", "proof_ready"}
    /\ Fault
    /\ Fail(j)
    /\ UNCHANGED <<operator, pool>>

\* The relayer is killed: its row is never claimed again.
relayer_killed(j) ==
    /\ jobs[j].status \in {"claimed", "minting", "verified_signatures", "proof_ready", "submitting"}
    /\ Fault
    /\ Become(j, "abandoned")
    /\ UNCHANGED <<operator, pool>>

\* A driver deposits, and writes the row of its note if the database lets it.
other_deposit ==
    /\ Len(leaves) < MaxLeaves
    /\ leaves' = Append(leaves, <<"other", Len(leaves) + 1>>)
    /\ noteRows' \in {noteRows, noteRows \cup {Len(leaves) + 1}}
    /\ UNCHANGED <<operator, spent, burns, landed, jobs, faults>>

Next ==
    \/ other_deposit
    \/ \E j \in Jobs :
          \/ enqueue(j) \/ claimNext(j)
          \/ operator_inbound(j) \/ inbound_minted(j)
          \/ rfq_settle_submit(j) \/ rfq_atomic_swap_submit(j)
          \/ verify_signatures(j) \/ prove(j) \/ computeMpcRoot(j)
          \/ invoke_answered(j) \/ invoke_lost(j)
          \/ step_throws(j) \/ relayer_killed(j)

Spec == Init /\ [][Next]_vars

-----------------------------------------------------------------------------
\* processRelayerJob and sorobanInvoke: a job's call is accepted once at most,
\* and was accepted if the job is ready, however often it was repeated; a note
\* is spent by one job only; and what the relayer registered for a ready job of
\* its own deposit was burned for.
ReadyMeansLanded ==
    /\ \A j \in Jobs : landed[j] <= 1 /\ (jobs[j].status = "ready" => landed[j] = 1)
    /\ \A i, j \in Jobs : landed[i] = 1 /\ landed[j] = 1 /\ NotesOf[i] \cap NotesOf[j] # {} => i = j
    /\ \A j \in Jobs : Inbound(j) => landed[j] <= burns[j]
=============================================================================
