--------------------------- MODULE DepositPipeline ---------------------------
(***************************************************************************)
(* A CCTP deposit end to end: the API's deposit routes, the relayer's      *)
(* CCTP_INBOUND and CCTP_INBOUND_AFTER_USER_BURN jobs, the burn on         *)
(* Arbitrum, Circle's attestation, the Stellar forwarder and the shielded  *)
(* pool's receive_cctp_deposit.  One action per call that leaves the       *)
(* relayer; JobQueue has the details of the queue.                         *)
(***************************************************************************)
EXTENDS Integers, Sequences, FiniteSets, Functions

CONSTANTS Jobs,          \* relayer jobs, named after their idempotency keys
          UserJobs,      \* those of type CCTP_INBOUND_AFTER_USER_BURN
          Witnessed,     \* those whose payload has a coinPath
          Notes,         \* note commitments
          Note,          \* the commitment each job registers
          Amount6,       \* the amount each job burns or expects burnt, 6 decimals
          Value,         \* value in the opening of each note, 7 decimals
          MaxAttempts,   \* max_attempts of a job
          EmptyReads,    \* whether all replies to a balance read may be empty
          Relayers,      \* how many relayer processes work the queue
          MaxBurns       \* bound on burns

ASSUME DepositAssumption ==
    /\ IsFiniteSet(Jobs)
    /\ UserJobs \subseteq Jobs
    /\ Witnessed \subseteq Jobs
    /\ Note \in [Jobs -> Notes]
    /\ Amount6 \in [Jobs -> Nat \ {0}]
    /\ Value \in [Notes -> Nat]
    /\ MaxAttempts \in Nat \ {0}
    /\ EmptyReads \in BOOLEAN
    /\ Relayers \in Nat \ {0}
    /\ MaxBurns \in Nat

VARIABLES
    recorded,   \* cctp_deposits.source_tx_hash of the deposit of a user job
    job,        \* the jobs and, while one runs, its local variables
    burns,      \* burn transactions on Arbitrum; a hash is a position here
    balance,    \* the pool's USDC
    leaves,     \* the pool's tree
    credited,   \* DataKey::Deposit: amount credited for each burn's message
    supply,     \* the pool's USDC note supply
    spent       \* notes withdrawn

vars == <<recorded, job, burns, balance, leaves, credited, supply, spent>>
chain == <<balance, leaves, credited, supply, spent>>

Burns == 1..MaxBurns
None == 0

Steps == {"burn", "validate", "attest", "before", "mint", "after", "receive"}

JobState == [status : {"none", "queued", "running", "ready", "failed", "lost"},
             attempts : 0..MaxAttempts, pc : Steps \union {"none"},
             burn : Burns \union {None}, base : Seq(Notes), before : Int, amount7 : Int]

Burn == [amount : Nat, fee : Nat, attested : BOOLEAN, minted : BOOLEAN]

TypeOK ==
    /\ recorded \in [Jobs -> Burns \union {None}]
    /\ job \in [Jobs -> JobState]
    /\ burns \in Seq(Burn)
    /\ Len(burns) <= MaxBurns
    /\ balance \in Nat
    /\ leaves \in Seq(Notes)
    /\ credited \in [Burns -> Nat]
    /\ supply \in Nat
    /\ spent \subseteq Notes

NoJob == [status |-> "none", attempts |-> 0, pc |-> "none", burn |-> None, base |-> <<>>,
          before |-> 0, amount7 |-> 0]

Init ==
    /\ recorded = [j \in Jobs |-> None]
    /\ job = [j \in Jobs |-> NoJob]
    /\ burns = <<>>
    /\ balance = 0
    /\ leaves = <<>>
    /\ credited = [b \in Burns |-> 0]
    /\ supply = 0
    /\ spent = {}

-----------------------------------------------------------------------------
\* Arbitrum and Circle

usdc6ToStellar7(a) == 10 * a

MaxFee(a) == IF a \div 1000 > 0 THEN a \div 1000 ELSE 1

\* A fast transfer costs a fee of at most maxFee, taken from what is minted.
depositForBurnWithHook(a) ==
    \E fee \in 0..MaxFee(a) :
        /\ Len(burns) < MaxBurns
        /\ fee <= a
        /\ burns' = Append(burns, [amount |-> a, fee |-> fee, attested |-> FALSE,
                                   minted |-> FALSE])

Minted7(b) == usdc6ToStellar7(burns[b].amount - burns[b].fee)

\* The user's wallet signs the burn that /v1/deposits/prepare returned.
user_burns(j) ==
    /\ j \in UserJobs
    /\ depositForBurnWithHook(Amount6[j])
    /\ UNCHANGED <<recorded, job, chain>>

circle_attests(b) ==
    /\ b \in DOMAIN burns
    /\ ~burns[b].attested
    /\ burns' = [burns EXCEPT ![b].attested = TRUE]
    /\ UNCHANGED <<recorded, job, chain>>

-----------------------------------------------------------------------------
\* API.  The payload's newRootHex is the root after appending the note to the
\* leaves of that moment; enqueue keeps the first payload of a job.

Enqueue(j, b) ==
    IF job[j].status = "none"
    THEN job' = [job EXCEPT ![j] = [NoJob EXCEPT !.status = "queued", !.burn = b,
                                                 !.base = leaves]]
    ELSE UNCHANGED job

\* POST /v1/deposits/:id/burn-submitted
burn_submitted(j, b) ==
    /\ j \in UserJobs
    /\ b \in DOMAIN burns
    /\ recorded' = [recorded EXCEPT ![j] = b]
    /\ Enqueue(j, b)
    /\ UNCHANGED <<burns, chain>>

\* POST /v1/deposits/:id/process and the granular steps, all of them aliases
deposit_step(j) ==
    /\ j \notin UserJobs
    /\ job[j].status = "none"
    /\ Enqueue(j, None)
    /\ UNCHANGED <<recorded, burns, chain>>

-----------------------------------------------------------------------------
\* Relayer

Running(j) == job[j].status = "running"

At(j, pc) == Running(j) /\ job[j].pc = pc

Goto(j, pc) == job' = [job EXCEPT ![j].pc = pc]

\* The attempt is over, and its local variables with it.
Stop(j, status) ==
    job' = [job EXCEPT ![j].status = status, ![j].pc = "none",
                       ![j].before = 0, ![j].amount7 = 0]

FailedStatus(j) == IF job[j].attempts >= MaxAttempts THEN "failed" ELSE "queued"

claim(j) ==
    /\ job[j].status = "queued"
    /\ Cardinality({i \in Jobs : Running(i)}) < Relayers
    /\ job' = [job EXCEPT ![j].status = "running", ![j].attempts = @ + 1,
                          ![j].pc = IF j \in UserJobs THEN "validate" ELSE "burn"]
    /\ UNCHANGED <<recorded, burns, chain>>

\* An operator job burns in every attempt.
operator_burn(j) ==
    /\ At(j, "burn")
    /\ depositForBurnWithHook(Amount6[j])
    /\ job' = [job EXCEPT ![j].burn = Len(burns) + 1, ![j].pc = "attest"]
    /\ UNCHANGED <<recorded, chain>>

\* The burn must be the one prepared; without the opening of the note the job
\* ends here and is completed.
validateInboundBurnTx(j) ==
    /\ At(j, "validate")
    /\ burns[job[j].burn].amount = Amount6[j]
    /\ IF j \in Witnessed THEN Goto(j, "attest") ELSE Stop(j, "ready")
    /\ UNCHANGED <<recorded, burns, chain>>

\* Iris has no message of the burn, or one that waits for its attestation, until
\* Circle has attested it.
fetchAttestationByTx(b) == IF burns[b].attested THEN "complete" ELSE "pending"

pollAttestation(j) ==
    /\ At(j, "attest")
    /\ fetchAttestationByTx(job[j].burn) = "complete"
    /\ Goto(j, "before")
    /\ UNCHANGED <<recorded, burns, chain>>

\* Mutant: the pool is taken to be empty before the mint.
sacBalance_assumed(j) ==
    /\ At(j, "before")
    /\ Goto(j, "mint")
    /\ UNCHANGED <<recorded, burns, chain>>

\* After five empty replies sacBalance returns 0.
sacBalance_before(j) ==
    \E seen \in {balance} \union (IF EmptyReads THEN {0} ELSE {}) :
        /\ At(j, "before")
        /\ job' = [job EXCEPT ![j].before = seen, ![j].pc = "mint"]
        /\ UNCHANGED <<recorded, burns, chain>>

\* The forwarder uses a message once.  The call may land and still throw (no
\* hash in the output, a timeout before the reply); `next` is where it goes.
mint_and_forward(j, next) ==
    LET b == job[j].burn IN
    /\ At(j, "mint")
    /\ ~burns[b].minted
    /\ burns' = [burns EXCEPT ![b].minted = TRUE]
    /\ balance' = balance + Minted7(b)
    /\ job' = [job EXCEPT ![j].pc = next,
                          ![j].status = IF next = "none" THEN FailedStatus(j) ELSE @,
                          ![j].before = IF next = "none" THEN 0 ELSE @]
    /\ UNCHANGED <<recorded, leaves, credited, supply, spent>>

mint_again(j) ==
    /\ At(j, "mint")
    /\ burns[job[j].burn].minted
    /\ Stop(j, FailedStatus(j))
    /\ UNCHANGED <<recorded, burns, chain>>

\* Only runCctpInbound bounds the delta from above.
DeltaAccepted(j, d) == d > 0 /\ (j \in UserJobs \/ d <= usdc6ToStellar7(Amount6[j]))

\* DepositNoteMint: the note is worth at most the amount.
ProofExists(j, d) == Value[Note[j]] <= d

sacBalance_after(j) ==
    LET d == balance - job[j].before IN
    /\ At(j, "after")
    /\ DeltaAccepted(j, d)
    /\ ProofExists(j, d)
    /\ job' = [job EXCEPT ![j].amount7 = d, ![j].pc = "receive"]
    /\ UNCHANGED <<recorded, burns, chain>>

\* Mutant: new_root is not compared with the computed root.
AnyRoot(j) == TRUE

RootMatches(j) == Append(job[j].base, Note[j]) = Append(leaves, Note[j])

\* The call may land and still throw.
receive_cctp_deposit(j, status) ==
    LET b == job[j].burn IN
    /\ At(j, "receive")
    /\ credited[b] = 0
    /\ usdc6ToStellar7(Amount6[j]) >= job[j].amount7
    /\ RootMatches(j)
    /\ leaves' = Append(leaves, Note[j])
    /\ credited' = [credited EXCEPT ![b] = job[j].amount7]
    /\ supply' = supply + job[j].amount7
    /\ Stop(j, status)
    /\ UNCHANGED <<recorded, burns, balance, spent>>

\* Mutant: the poll has no timeout.
AnythingButTimeout(j) == Running(j) /\ job[j].pc # "attest"

\* Any call may throw: a node that does not answer, a burn that is not the
\* expected one, an attestation that times out, a delta, proof or root that is
\* rejected.  The queue's fail puts the job back or ends it.
MayThrow(j) == Running(j)

\* Mutant: the error is swallowed and the job completed.
throws_unnoticed(j) ==
    /\ MayThrow(j)
    /\ Stop(j, "ready")
    /\ UNCHANGED <<recorded, burns, chain>>

throws(j) ==
    /\ MayThrow(j)
    /\ Stop(j, FailedStatus(j))
    /\ UNCHANGED <<recorded, burns, chain>>

\* The process is killed: nobody takes the job up again.
Crash(j) ==
    /\ Running(j)
    /\ Stop(j, "lost")
    /\ UNCHANGED <<recorded, burns, chain>>

\* A note is withdrawn once and paid out of the pool.
withdraw(n) ==
    /\ n \in Range(leaves)
    /\ n \notin spent
    /\ Value[n] \in 1..balance
    /\ Value[n] <= supply
    /\ balance' = balance - Value[n]
    /\ supply' = supply - Value[n]
    /\ spent' = spent \union {n}
    /\ UNCHANGED <<recorded, job, burns, leaves, credited>>

-----------------------------------------------------------------------------
RelayerStep(j) ==
    \/ claim(j) \/ operator_burn(j) \/ validateInboundBurnTx(j) \/ pollAttestation(j)
    \/ sacBalance_before(j)
    \/ mint_and_forward(j, "after") \/ mint_and_forward(j, "none") \/ mint_again(j)
    \/ sacBalance_after(j)
    \/ receive_cctp_deposit(j, "ready") \/ receive_cctp_deposit(j, FailedStatus(j))
    \/ throws(j)

Next ==
    \/ \E j \in Jobs : user_burns(j) \/ deposit_step(j) \/ RelayerStep(j) \/ Crash(j)
    \/ \E j \in Jobs, b \in Burns : burn_submitted(j, b)
    \/ \E b \in Burns : circle_attests(b)
    \/ \E n \in Notes : withdraw(n)

Spec == Init /\ [][Next]_vars

-----------------------------------------------------------------------------
\* "Use the actual minted delta for the on-chain note amount": although the
\* delta is the difference of two reads of a balance others move, a deposit is
\* never credited with more than was minted for its own burn.
CreditBackedByMint ==
    \A b \in Burns : credited[b] > 0 => burns[b].minted /\ credited[b] <= Minted7(b)

\* An operator job burns and mints anew in every attempt, and a registration can
\* land although the call throws; still no retry puts a note into the tree twice.
NoteRegisteredOnce == \A i, k \in DOMAIN leaves : leaves[i] = leaves[k] => i = k

\* A job with the opening of its note is completed only when the note is in the
\* tree and its burn credited with at least the note's value.
ReadyMeansRegistered ==
    \A j \in Witnessed :
        job[j].status = "ready" =>
            /\ Note[j] \in Range(leaves)
            /\ credited[job[j].burn] >= Value[Note[j]]
=============================================================================
