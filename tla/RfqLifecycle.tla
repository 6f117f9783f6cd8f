---------------------------- MODULE RfqLifecycle ----------------------------
(***************************************************************************)
(* The life of an RFQ in the backend: the quotes of the solver service and *)
(* of other solvers, the acceptance, the inventory lock, the payout and    *)
(* its fill row, the proof request, and the gate POST /v1/rfq/settle puts  *)
(* in front of a settlement row.  The intents exist (MpcCommittee has the  *)
(* route that creates them and the committee that matches them).  No route *)
(* compares a ledger, so quotes have no expiry here.                       *)
(***************************************************************************)
EXTENDS Integers, Sequences, FiniteSets

CONSTANTS Intents,      \* rows of intents
          Quotes,       \* quote ids
          IntentOf,     \* intent a quote answers
          Net,          \* net output of a quote, in what the solver pays out
          Foreign,      \* quotes of solvers other than apps/solver
          Signatures,   \* user_signature_hash values
          Routed,       \* intents with mpc_session_id
          Inventory,    \* USDC of the solver at the start
          MaxPayouts    \* bound on the payouts for one quote

VARIABLES
    quoteRows,    \* quotes
    lockRows,     \* quotes with a row in solver_inventory_locks
    accepting,    \* accept requests past the check of routes.ts:619
    acceptRows,   \* quote_acceptances: quote and signature
    stock,        \* USDC balance of the solver's Arbitrum wallet
    payouts,      \* USDC transfers made for each quote
    fillRows,     \* fills of each quote in the order of created_at
    proofRows,    \* proof_jobs.status of the settlement proof of an intent
    proverJob,    \* service_jobs.status of the same proof
    matched,      \* intents whose mpc_intents row says 'matched'
    mismatch,     \* root_audit_findings has a ROOT_MISMATCH_CRITICAL
    settlements,  \* settlements: intent and quote
    answer        \* last answer of POST /v1/rfq/settle for each quote

quoting == <<quoteRows, lockRows>>
acceptance == <<accepting, acceptRows>>
paying == <<stock, payouts, fillRows>>
proving == <<proofRows, proverJob>>
gates == <<matched, mismatch>>
settling == <<settlements, answer>>
vars == <<quoting, acceptance, paying, proving, gates, settling>>

Fill == [receipt : 1 .. MaxPayouts, state : {"FILL_CREATED", "EXECUTED"}]

Answers == {"none", "root mismatch", "quote not found", "quote is not accepted",
            "fill not found for quote", "fill is not executed", "proof job is not ready",
            "MPC match not yet confirmed", "settled"}

\* Every table holds rows of its columns' types (migration 001).
TypeOK ==
    /\ quoteRows \subseteq Quotes
    /\ lockRows \subseteq quoteRows
    /\ accepting \cup acceptRows \subseteq Quotes \X Signatures
    /\ stock \in 0 .. Inventory
    /\ payouts \in [Quotes -> 0 .. MaxPayouts]
    /\ \A q \in Quotes : fillRows[q] \in Seq(Fill) /\ Len(fillRows[q]) <= payouts[q]
    /\ {proofRows, proverJob} \subseteq [Intents -> {"none", "queued", "ready"}]
    /\ matched \subseteq Routed
    /\ mismatch \in BOOLEAN
    /\ settlements \subseteq Intents \X Quotes
    /\ answer \in [Quotes -> Answers]

Init ==
    /\ quoteRows = {} /\ lockRows = {}
    /\ accepting = {} /\ acceptRows = {}
    /\ stock = Inventory
    /\ payouts = [q \in Quotes |-> 0]
    /\ fillRows = [q \in Quotes |-> << >>]
    /\ proofRows = [i \in Intents |-> "none"]
    /\ proverJob = [i \in Intents |-> "none"]
    /\ matched = {} /\ mismatch = FALSE
    /\ settlements = {}
    /\ answer = [q \in Quotes |-> "none"]

-----------------------------------------------------------------------------
\* POST /v1/quote of apps/solver prices the amount and refuses what its
\* balance does not cover; the balance is read, not reserved.
CanQuote(q) == stock >= Net[q]

\* POST request-quotes asks apps/solver and inserts what it signed.
request_quotes(q) ==
    /\ q \notin Foreign
    /\ q \notin quoteRows
    /\ CanQuote(q)
    /\ quoteRows' = quoteRows \cup {q}
    /\ UNCHANGED <<lockRows, acceptance, paying, proving, gates, settling>>

\* POST /v1/solver/quotes: another solver posts a quote it signed.
solver_quotes(q) ==
    /\ q \in Foreign
    /\ q \notin quoteRows
    /\ quoteRows' = quoteRows \cup {q}
    /\ UNCHANGED <<lockRows, acceptance, paying, proving, gates, settling>>

\* lc.accepted of rfqLifecycle: an acceptance of this quote.
IsAccepted(q) == \E s \in Signatures : <<q, s>> \in acceptRows

\* POST accept, up to its check.
accept_check(q, s) ==
    /\ q \in quoteRows
    /\ <<q, s>> \notin accepting
    /\ ~IsAccepted(q)
    /\ accepting' = accepting \cup {<<q, s>>}
    /\ UNCHANGED <<acceptRows, quoting, paying, proving, gates, settling>>

\* POST accept, the insert: quote_id is UNIQUE and a conflict does nothing.
accept_insert(q, s) ==
    /\ <<q, s>> \in accepting
    /\ accepting' = accepting \ {<<q, s>>}
    /\ acceptRows' = IF IsAccepted(q) THEN acceptRows ELSE acceptRows \cup {<<q, s>>}
    /\ UNCHANGED <<quoting, paying, proving, gates, settling>>

\* POST lock inserts a row for any quote and asks nothing else.
quote_lock(q) ==
    /\ q \in quoteRows
    /\ lockRows' = lockRows \cup {q}
    /\ UNCHANGED <<quoteRows, acceptance, paying, proving, gates, settling>>

\* POST /v1/fill of the solver service: a transfer for a quote in the table.
\* The service keeps no record, so a repeated request pays again.  A foreign
\* solver pays from its own wallet.
fill(q) ==
    /\ q \in quoteRows
    /\ payouts[q] < MaxPayouts
    /\ q \notin Foreign => stock >= Net[q]
    /\ payouts' = [payouts EXCEPT ![q] = @ + 1]
    /\ stock' = IF q \in Foreign THEN stock ELSE stock - Net[q]
    /\ UNCHANGED <<fillRows, quoting, acceptance, proving, gates, settling>>

Receipts(q) == {fillRows[q][k].receipt : k \in DOMAIN fillRows[q]}

post_fill_upsert(q, r) ==
    /\ r \in 1 .. payouts[q]
    /\ fillRows' = [fillRows EXCEPT ![q] =
           Append(SelectSeq(@, LAMBDA f : f.receipt # r), [receipt |-> r, state |-> "FILL_CREATED"])]
    /\ UNCHANGED <<stock, payouts, quoting, acceptance, proving, gates, settling>>

\* POST /v1/fills: the solver reports a payout.  The row's key is made of the
\* quote and the receipt hash, so a repeated report changes nothing.
post_fill(q, r) ==
    /\ r \in 1 .. payouts[q]
    /\ fillRows' = [fillRows EXCEPT ![q] =
           IF r \in Receipts(q) THEN @ ELSE Append(@, [receipt |-> r, state |-> "FILL_CREATED"])]
    /\ UNCHANGED <<stock, payouts, quoting, acceptance, proving, gates, settling>>

\* POST execute: executeFill marks the row whatever its state is.
executeFill(q, k) ==
    /\ k \in DOMAIN fillRows[q]
    /\ fillRows' = [fillRows EXCEPT ![q][k].state = "EXECUTED"]
    /\ UNCHANGED <<stock, payouts, quoting, acceptance, proving, gates, settling>>

\* POST /v1/proofs/:kind/request: the proof_jobs row and the prover's job.
proof_request(i) ==
    /\ proofRows[i] = "none"
    /\ proofRows' = [proofRows EXCEPT ![i] = "queued"]
    /\ proverJob' = [proverJob EXCEPT ![i] = "queued"]
    /\ UNCHANGED <<quoting, acceptance, paying, gates, settling>>

\* The prover completes its job: JobQueue.complete writes to service_jobs and
\* to the job's events, and to no other table.
prover_completes(i) ==
    /\ proverJob[i] = "queued"
    /\ proverJob' = [proverJob EXCEPT ![i] = "ready"]
    /\ UNCHANGED <<proofRows, quoting, acceptance, paying, gates, settling>>

\* persistSignedBatch marks a routed intent (see MpcCommittee).
committee_matches(i) ==
    /\ i \in Routed \ matched
    /\ matched' = matched \cup {i}
    /\ UNCHANGED <<mismatch, quoting, acceptance, paying, proving, settling>>

\* The root auditor stores a critical finding (see RootAuditor).
audit_finding ==
    /\ ~mismatch
    /\ mismatch' = TRUE
    /\ UNCHANGED <<matched, quoting, acceptance, paying, proving, settling>>

-----------------------------------------------------------------------------
\* rfqLifecycle takes the fill that was stored last.
LastFill(q) == fillRows[q][Len(fillRows[q])]

SettleAnswer_unaccepted(q) ==
    IF mismatch THEN "root mismatch"
    ELSE IF q \notin quoteRows THEN "quote not found"
    ELSE IF fillRows[q] = << >> THEN "fill not found for quote"
    ELSE IF LastFill(q).state # "EXECUTED" THEN "fill is not executed"
    ELSE "proof job is not ready"

\* What POST /v1/rfq/settle answers for the intent of q: its checks in order.
\* nullifier_spends has no writer, so isNullifierSpent is false.
SettleAnswer(q) ==
    IF mismatch THEN "root mismatch"
    ELSE IF q \notin quoteRows THEN "quote not found"
    ELSE IF ~IsAccepted(q) THEN "quote is not accepted"
    ELSE IF fillRows[q] = << >> THEN "fill not found for quote"
    ELSE IF LastFill(q).state # "EXECUTED" THEN "fill is not executed"
    ELSE IF proofRows[IntentOf[q]] # "ready" THEN "proof job is not ready"
    ELSE IF IntentOf[q] \in Routed \ matched THEN "MPC match not yet confirmed"
    ELSE "settled"

\* POST /v1/rfq/settle.
rfq_settle(q) ==
    /\ answer' = [answer EXCEPT ![q] = SettleAnswer(q)]
    /\ settlements' = IF SettleAnswer(q) = "settled"
                      THEN settlements \cup {<<IntentOf[q], q>>} ELSE settlements
    /\ UNCHANGED <<quoting, acceptance, paying, proving, gates>>

Next ==
    \/ \E q \in Quotes :
        \/ request_quotes(q)
        \/ solver_quotes(q)
        \/ \E s \in Signatures : accept_check(q, s) \/ accept_insert(q, s)
        \/ quote_lock(q)
        \/ fill(q)
        \/ \E r \in 1 .. MaxPayouts : post_fill(q, r) \/ executeFill(q, r)
        \/ rfq_settle(q)
    \/ \E i \in Intents : proof_request(i) \/ prover_completes(i) \/ committee_matches(i)
    \/ audit_finding

Spec == Init /\ [][Next]_vars

-----------------------------------------------------------------------------

\* A payout that was reported as executed stays so: repeated reports of the
\* same receipt, which POST /v1/fills accepts at any time, do not reset it.
ExecutedFillStays ==
    [][\A q \in DOMAIN fillRows : \A k \in DOMAIN fillRows[q] :
           fillRows[q][k].state = "EXECUTED" =>
               \E j \in DOMAIN fillRows'[q] : fillRows'[q][j] = fillRows[q][k]]_vars

\* POST /v1/rfq/settle gets past its fill checks only for a quote the user
\* accepted and a solver paid, in whatever order the other routes, none of
\* which checks the one before it, were called.
SettleNeedsFill ==
    \A q \in DOMAIN answer :
        answer[q] \in {"fill is not executed", "proof job is not ready", "settled"} =>
            /\ IsAccepted(q)
            /\ payouts[q] > 0

\* POST /v1/rfq/settle answers "proof job is not ready" only while the prover
\* has not completed the proof the client requested.
NotReadyIsTrue ==
    [][\A q \in DOMAIN answer :
           answer'[q] = "proof job is not ready" /\ answer[q] # answer'[q] =>
               proverJob[IntentOf[q]] # "ready"]_vars
=============================================================================
