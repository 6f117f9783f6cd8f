---------------------------- MODULE ExitPipeline ----------------------------
(***************************************************************************)
(* How a note leaves the pool: the API prepares rows and unsigned          *)
(* transactions, the user's Stellar wallet signs, the relayer broadcasts   *)
(* what was signed, and for an exit to Arbitrum asks Circle for the        *)
(* attestation of the burn.  One user; a transaction carries the sequence  *)
(* number of the user's account and a time bound, as Stellar's do.         *)
(***************************************************************************)
EXTENDS Integers, Sequences, FiniteSets

CONSTANTS Notes,         \* notes of the user
          Keys, NoKey,   \* idempotency keys; a call without one
          MaxTxs,        \* bound on the transactions built
          MaxJobs,       \* bound on the rows of service_jobs
          MaxAttempts,   \* max_attempts
          MaxFaults      \* bound on RPC failures and killed relayers

VARIABLES
    withdrawals, cctp_exits,  \* the prepared rows, by idempotency key and nullifier
    txs,        \* signed transactions, in the order they were built
    sequence,   \* sequence number of the user's account
    spent,      \* notes whose nullifier the registry holds
    payouts,    \* how often the pool paid for a note
    attested,   \* burns Circle has attested
    jobs,       \* service_jobs
    asked,      \* history: exits whose attestation was asked for once it existed
    faults

rows == <<withdrawals, cctp_exits>>
chain == <<txs, sequence, spent, payouts, attested>>
vars == <<rows, chain, jobs, asked, faults>>

Init ==
    /\ withdrawals = {}
    /\ cctp_exits = {}
    /\ txs = << >>
    /\ sequence = 0
    /\ spent = {}
    /\ payouts = [n \in Notes |-> 0]
    /\ attested = {}
    /\ jobs = << >>
    /\ asked = {}
    /\ faults = 0

-----------------------------------------------------------------------------
\* POST /v1/withdrawals/prepare: insert ... on conflict do nothing.
createWithdrawal(key, n) ==
    /\ withdrawals' = withdrawals \cup {<<key, n>>}
    /\ UNCHANGED <<cctp_exits, chain, jobs, asked, faults>>

\* POST /v1/cctp/outbound/prepare.
outbound_prepare(key, n) ==
    /\ cctp_exits' = cctp_exits \cup {<<key, n>>}
    /\ UNCHANGED <<withdrawals, chain, jobs, asked, faults>>

\* Only exits of the user have steps; one user is modelled.
requireOwnedExit(exit) == exit \in cctp_exits

\* A transaction is built on the account's sequence number as it is now, and
\* simulated: a spent note's is refused.
buildInvokeXdr(n, method) ==
    /\ Len(txs) < MaxTxs
    /\ n \notin spent
    /\ txs' = Append(txs, [note |-> n, method |-> method, seq |-> sequence + 1, state |-> "signed"])

\* build-xdr and the wallet's signature (a refused one leaves nothing behind).
withdraw_page(n) ==
    /\ buildInvokeXdr(n, "withdraw")
    /\ UNCHANGED <<rows, sequence, spent, payouts, attested, jobs, asked, faults>>

\* A client builds withdraw_cctp itself.
exit_client(n) ==
    /\ buildInvokeXdr(n, "withdraw_cctp")
    /\ UNCHANGED <<rows, sequence, spent, payouts, attested, jobs, asked, faults>>

\* queue.enqueue: a key that has a job gets that job back.
enqueue(type, key, about) ==
    IF key # NoKey /\ \E j \in DOMAIN jobs : jobs[j].type = type /\ jobs[j].key = key
    THEN UNCHANGED jobs
    ELSE /\ Len(jobs) < MaxJobs
         /\ jobs' = Append(jobs, [type |-> type, key |-> key, about |-> about, status |-> "queued",
                                  attempts |-> 0, result |-> "none"])

\* POST /v1/withdrawals/submit.
withdrawals_submit(t, key) ==
    /\ txs[t].method = "withdraw"
    /\ enqueue("WITHDRAW_PUBLIC_SUBMIT", key, t)
    /\ UNCHANGED <<rows, chain, asked, faults>>

\* POST /v1/cctp/outbound/submit, for an exit or with no exit named.
outbound_submit(t, key) ==
    /\ txs[t].method = "withdraw_cctp"
    /\ enqueue("WITHDRAW_CCTP_BURN", key, t)
    /\ UNCHANGED <<rows, chain, asked, faults>>

\* POST .../fetch-attestation for the burn t.
fetch_attestation(exit, t) ==
    /\ requireOwnedExit(exit)
    /\ txs[t].method = "withdraw_cctp" /\ txs[t].note = exit[2] /\ txs[t].state # "signed"
    /\ enqueue("CCTP_OUTBOUND_ATTESTATION", exit, t)
    /\ asked' = IF t \in attested THEN asked \cup {exit} ELSE asked
    /\ UNCHANGED <<rows, chain, faults>>

\* What the attestation job of an exit has answered.
Fetched(exit) ==
    \E j \in DOMAIN jobs : /\ jobs[j].type = "CCTP_OUTBOUND_ATTESTATION" /\ jobs[j].key = exit
                           /\ jobs[j].result = "complete"

\* POST .../complete-mint, with the message and attestation if there are any.
complete_mint(exit) ==
    /\ requireOwnedExit(exit)
    /\ enqueue("CCTP_OUTBOUND_MINT", exit, Fetched(exit))
    /\ UNCHANGED <<rows, chain, asked, faults>>

-----------------------------------------------------------------------------
Broadcasts(j) == jobs[j].type \in {"WITHDRAW_PUBLIC_SUBMIT", "WITHDRAW_CCTP_BURN"}

\* complete and fail of the queue.
Ready(j, result) == jobs' = [jobs EXCEPT ![j].status = "ready", ![j].result = result]
Fail(j) ==
    jobs' = [jobs EXCEPT ![j].status = IF jobs[j].attempts >= MaxAttempts THEN "failed" ELSE "failed_retry"]

claimNext(j) ==
    /\ jobs[j].status \in {"queued", "failed_retry"}
    /\ jobs' = [jobs EXCEPT ![j].status = "claimed", ![j].attempts = @ + 1]
    /\ UNCHANGED <<rows, chain, asked, faults>>

\* sendTransaction.  The network takes a transaction that can still be applied,
\* answers DUPLICATE or ERROR for one it has, and ERROR for any other.
sendTransaction(j) ==
    /\ Broadcasts(j) /\ jobs[j].status = "claimed"
    /\ LET t == jobs[j].about
           tx == txs[t]
           applied == tx.state \in {"SUCCESS", "FAILED"}
       IN  \/ /\ tx.state \in {"signed", "pending"} /\ tx.seq = sequence + 1
              /\ txs' = [txs EXCEPT ![t].state = "pending"]
              /\ jobs' = [jobs EXCEPT ![j].status = "broadcasting"]
           \/ applied /\ jobs' = [jobs EXCEPT ![j].status = "broadcasting"] /\ UNCHANGED txs
           \/ /\ applied \/ tx.state = "expired" \/ tx.seq # sequence + 1
              /\ Fail(j)
              /\ UNCHANGED txs
    /\ UNCHANGED <<rows, sequence, spent, payouts, attested, asked, faults>>

broadcastSignedXdr_trusting(j) ==
    /\ Broadcasts(j) /\ jobs[j].status = "broadcasting"
    /\ IF txs[jobs[j].about].state = "FAILED" THEN Fail(j) ELSE Ready(j, "txHash")
    /\ UNCHANGED <<rows, chain, asked, faults>>

\* getTransaction, asked 31 times: the job is ready for SUCCESS only, and throws
\* for FAILED and for a transaction not found in that time.
broadcastSignedXdr(j) ==
    /\ Broadcasts(j) /\ jobs[j].status = "broadcasting"
    /\ IF txs[jobs[j].about].state = "SUCCESS" THEN Ready(j, "txHash") ELSE Fail(j)
    /\ UNCHANGED <<rows, chain, asked, faults>>

\* CCTP_OUTBOUND_ATTESTATION: without an attestation the job is ready too, and
\* its result says pending.
outbound_attestation(j) ==
    /\ jobs[j].type = "CCTP_OUTBOUND_ATTESTATION" /\ jobs[j].status = "claimed"
    /\ Ready(j, IF jobs[j].about \in attested THEN "complete" ELSE "pending")
    /\ UNCHANGED <<rows, chain, asked, faults>>

\* CCTP_OUTBOUND_MINT: the mint itself is left to an Arbitrum wallet.
outbound_mint(j) ==
    /\ jobs[j].type = "CCTP_OUTBOUND_MINT" /\ jobs[j].status = "claimed"
    /\ Ready(j, IF jobs[j].about THEN "submit_via_arbitrum" ELSE "pending")
    /\ UNCHANGED <<rows, chain, asked, faults>>

\* An RPC or Iris call throws; or the relayer is killed, and the row stays as it is.
call_fails(j) ==
    /\ faults < MaxFaults
    /\ jobs[j].status \in {"claimed", "broadcasting"}
    /\ faults' = faults + 1
    /\ Fail(j)
    /\ UNCHANGED <<rows, chain, asked>>

relayer_killed(j) ==
    /\ faults < MaxFaults
    /\ jobs[j].status \in {"claimed", "broadcasting"}
    /\ faults' = faults + 1
    /\ jobs' = [jobs EXCEPT ![j].status = "abandoned"]
    /\ UNCHANGED <<rows, chain, asked>>

-----------------------------------------------------------------------------
\* pool.withdraw and withdraw_cctp: the nullifier is checked and stored, and
\* the pool pays or burns.
withdraw(n) ==
    IF n \in spent
    THEN UNCHANGED <<spent, payouts>>
    ELSE spent' = spent \cup {n} /\ payouts' = [payouts EXCEPT ![n] = @ + 1]

\* A ledger applies a pending transaction whose sequence number is next.
ledger_applies(t) ==
    /\ txs[t].state = "pending" /\ txs[t].seq = sequence + 1
    /\ sequence' = sequence + 1
    /\ withdraw(txs[t].note)
    /\ txs' = [txs EXCEPT ![t].state = IF txs[t].note \in spent THEN "FAILED" ELSE "SUCCESS"]
    /\ UNCHANGED <<rows, attested, jobs, asked, faults>>

\* setTimeout(120): a transaction that was not applied never will be.
tx_expires(t) ==
    /\ txs[t].state \in {"signed", "pending"}
    /\ txs' = [txs EXCEPT ![t].state = "expired"]
    /\ UNCHANGED <<rows, sequence, spent, payouts, attested, jobs, asked, faults>>

circle_attests(t) ==
    /\ txs[t].method = "withdraw_cctp" /\ txs[t].state = "SUCCESS" /\ t \notin attested
    /\ attested' = attested \cup {t}
    /\ UNCHANGED <<rows, txs, sequence, spent, payouts, jobs, asked, faults>>

Next ==
    \/ \E key \in Keys, n \in Notes : createWithdrawal(key, n) \/ outbound_prepare(key, n)
    \/ \E n \in Notes : withdraw_page(n) \/ exit_client(n)
    \/ \E t \in DOMAIN txs :
          \/ \E key \in Keys \cup {NoKey} : withdrawals_submit(t, key) \/ outbound_submit(t, key)
          \/ \E exit \in cctp_exits : fetch_attestation(exit, t)
          \/ ledger_applies(t)
          \/ tx_expires(t)
          \/ circle_attests(t)
    \/ \E exit \in cctp_exits : complete_mint(exit)
    \/ \E j \in DOMAIN jobs :
          \/ claimNext(j)
          \/ sendTransaction(j)
          \/ broadcastSignedXdr(j)
          \/ outbound_attestation(j)
          \/ outbound_mint(j)
          \/ call_fails(j)
          \/ relayer_killed(j)

Spec == Init /\ [][Next]_vars

-----------------------------------------------------------------------------
\* A submit job that is ready has the transaction it broadcast in a ledger, and
\* the pool paid for that note, once, however often submissions were repeated,
\* timed out, were retried or landed late (broadcastSignedXdr).
ReadyMeansPaid ==
    /\ \A j \in DOMAIN jobs :
          Broadcasts(j) /\ jobs[j].status = "ready" =>
              txs[jobs[j].about].state = "SUCCESS" /\ txs[jobs[j].about].note \in spent
    /\ \A n \in Notes : payouts[n] = Cardinality({t \in DOMAIN txs : txs[t].note = n /\ txs[t].state = "SUCCESS"})
    /\ \A n \in Notes : payouts[n] <= 1

\* "attestation not yet available; retry" (worker.ts): asked again once Circle
\* has the attestation, the step does not end without it.
RetryFindsAttestation ==
    \A j \in DOMAIN jobs :
        jobs[j].type = "CCTP_OUTBOUND_ATTESTATION" /\ jobs[j].key \in asked /\ jobs[j].status = "ready" =>
            jobs[j].result = "complete"
=============================================================================
