----------------------------- MODULE MCClients ------------------------------
(***************************************************************************)
(* What users and solvers go through, one part at a time: the escrow       *)
(* contract ("escrow") and the RFQ routes, two quotes of one intent        *)
(* ("accept") and one quote with racing acceptances, paid and reported     *)
(* twice ("fills"); the note vault ("vault"); login and wallets            *)
(* ("accounts", "linking"); withdrawals and exits, with two transactions   *)
(* or with an exit's three jobs ("withdrawal", "exit"); the pages, the     *)
(* deposits without and with the note's opening in the relayer's hands     *)
(* ("deposits", "opened", "spends", "trackers"); the relayer's own calls,  *)
(* two that append to the tree ("inserts") and two that spend one note     *)
(* ("settles"); and what the API records for users, settlements and        *)
(* reports over them ("reports") or payouts and backups ("backups").       *)
(***************************************************************************)
EXTENDS IntentEscrow, Sequences, TLC

CONSTANTS i1, q1, q2, n1, n2, k1, u1, u2, Nil

VARIABLES scenario,
          quoteRows, lockRows, accepting, acceptRows, stock, payouts, fillRows,
          proofRows, proverJob, matched, mismatch, settlements, answer,
          rows, tabs, held, used, funded,
          users, wallets, nonces, sessions, req,
          withdrawals, cctp_exits, txs, sequence, spent, paid, attested, exitJobs, asked, faults,
          page, deposits, burned, registered, spentNotes, intentRow, quotes, pageJobs,
          operator, leaves, noteRows, nullifiers, burns, landed, relayJobs, lost,
          settlementRows, payments, anchorRows, reports, backups, activity, requests, acked, failures

rfqVars == <<quoteRows, lockRows, accepting, acceptRows, stock, payouts, fillRows,
             proofRows, proverJob, matched, mismatch, settlements, answer>>
vaultVars == <<rows, tabs, held, used, funded>>
accountVars == <<users, wallets, nonces, sessions, req>>
exitVars == <<withdrawals, cctp_exits, txs, sequence, spent, paid, attested, exitJobs, asked, faults>>
pageVars == <<page, deposits, burned, registered, spentNotes, intentRow, quotes, pageJobs>>
relayVars == <<operator, leaves, noteRows, nullifiers, burns, landed, relayJobs, lost>>
recordVars == <<settlementRows, payments, anchorRows, reports, backups, activity, requests, acked, failures>>

\* The solver's stock covers one of two quotes of different solvers.
Accept == INSTANCE RfqLifecycle WITH
              Intents <- {i1}, Quotes <- {q1, q2}, IntentOf <- (q1 :> i1) @@ (q2 :> i1),
              Net <- (q1 :> 2) @@ (q2 :> 2), Foreign <- {q2}, Signatures <- {"s1"},
              Routed <- {i1}, Inventory <- 3, MaxPayouts <- 1
Fills == INSTANCE RfqLifecycle WITH
             Intents <- {i1}, Quotes <- {q1}, IntentOf <- q1 :> i1,
             Net <- q1 :> 2, Foreign <- {}, Signatures <- {"s1", "s2"},
             Routed <- {i1}, Inventory <- 4, MaxPayouts <- 2

\* A testnet user with a tab of each front end, who may make two vaults.
Vault == INSTANCE NoteVault WITH
             WebTabs <- {"web"}, AppTabs <- {"app"}, Vaults <- {u1, u2}, Notes <- {n1}, NoVault <- Nil,
             Added <- {"stellar_ed25519_signature"}, Methods <- {"passkey_prf", "recovery_file_secret"},
             Mainnet <- FALSE, MinWrappers <- 1, AllowEvmOnly <- FALSE

\* Three requests with two nonces, of two identities and a wallet, or of an
\* identity and two wallets; four where sessions authenticate.
Login == INSTANCE Accounts WITH
             Dids <- {u1, u2}, Wallets <- {"w1"}, Nonces <- {n1, n2}, Requests <- 1 .. 3,
             Nobody <- Nil, PrivyEnabled <- TRUE, MaxUsers <- 2
Linking == INSTANCE Accounts WITH
             Dids <- {u1}, Wallets <- {"w1", "w2"}, Nonces <- {n1, n2}, Requests <- 1 .. 3,
             Nobody <- Nil, PrivyEnabled <- TRUE, MaxUsers <- 2
Legacy == INSTANCE Accounts WITH
             Dids <- {}, Wallets <- {"w1", "w2"}, Nonces <- {n1, n2}, Requests <- 1 .. 4,
             Nobody <- Nil, PrivyEnabled <- FALSE, MaxUsers <- 2

\* Two transactions of one note with two jobs; one transaction with the three
\* jobs of an exit.
Withdrawal == INSTANCE ExitPipeline WITH
             payouts <- paid, jobs <- exitJobs, Notes <- {n1}, Keys <- {k1}, NoKey <- Nil,
             MaxTxs <- 2, MaxJobs <- 2, MaxAttempts <- 2, MaxFaults <- 1
Exit == INSTANCE ExitPipeline WITH
             payouts <- paid, jobs <- exitJobs, Notes <- {n1}, Keys <- {k1}, NoKey <- Nil,
             MaxTxs <- 1, MaxJobs <- 3, MaxAttempts <- 2, MaxFaults <- 1

Deposits == INSTANCE ClientPages WITH
    spent <- spentNotes, intent <- intentRow, jobs <- pageJobs,
    Pages <- {"app_deposit", "web_deposit"}, Witnessed <- FALSE, MaxPolls <- 2, MaxClicks <- 1, MaxJobs <- 2
Opened == INSTANCE ClientPages WITH
    spent <- spentNotes, intent <- intentRow, jobs <- pageJobs,
    Pages <- {"app_deposit", "web_deposit"}, Witnessed <- TRUE, MaxPolls <- 2, MaxClicks <- 1, MaxJobs <- 2
Spends == INSTANCE ClientPages WITH
    spent <- spentNotes, intent <- intentRow, jobs <- pageJobs,
    Pages <- {"withdraw", "swap"}, Witnessed <- FALSE, MaxPolls <- 2, MaxClicks <- 2, MaxJobs <- 3
Trackers == INSTANCE ClientPages WITH
    spent <- spentNotes, intent <- intentRow, jobs <- pageJobs,
    Pages <- {"pollQuote", "trackSettlement", "trackDeposit"}, Witnessed <- FALSE,
    MaxPolls <- 3, MaxClicks <- 2, MaxJobs <- 0

\* An operator's deposit and a match of the committee; two settlements of a note.
TypeOfJob == ("deposit" :> "CCTP_INBOUND") @@ ("match" :> "MPC_SETTLE_SUBMIT")
             @@ ("settle" :> "RFQ_SETTLE_SUBMIT") @@ ("swap" :> "RFQ_ATOMIC_SWAP_SUBMIT")
SpentByJob == ("deposit" :> {}) @@ ("match" :> {n1, n2}) @@ ("settle" :> {n1}) @@ ("swap" :> {n1})
MadeByJob == ("deposit" :> <<<<"deposit", 1>>>>) @@ ("match" :> <<<<"match", 1>>, <<"match", 2>>>>)
             @@ ("settle" :> << >>) @@ ("swap" :> << >>)
Inserts == INSTANCE RelayerSubmits WITH
    spent <- nullifiers, jobs <- relayJobs, faults <- lost,
    Jobs <- {"deposit", "match"}, TypeOf <- TypeOfJob, NotesOf <- SpentByJob, Outputs <- MadeByJob,
    Witnessed <- {"match"}, MaxAttempts <- 2, Retries <- 3, MaxLeaves <- 2, MaxFaults <- 3
Settles == INSTANCE RelayerSubmits WITH
    spent <- nullifiers, jobs <- relayJobs, faults <- lost,
    Jobs <- {"settle", "swap"}, TypeOf <- TypeOfJob, NotesOf <- SpentByJob, Outputs <- MadeByJob,
    Witnessed <- {}, MaxAttempts <- 2, Retries <- 3, MaxLeaves <- 0, MaxFaults <- 3

\* Three requests of two users, each of whom can settle one intent.
Reports == INSTANCE UserRecords WITH
    Users <- {u1, u2}, Nobody <- Nil, Settlements <- {"s1", "s2"}, OwnerOf <- ("s1" :> u1) @@ ("s2" :> u2),
    Kinds <- {"settle", "report"}, MaxRequests <- 3, MaxFaults <- 1
Backups == INSTANCE UserRecords WITH
    Users <- {u1, u2}, Nobody <- Nil, Settlements <- {"s1"}, OwnerOf <- "s1" :> u1,
    Kinds <- {"quote", "payout", "payout_status", "compliance", "backup", "recover"}, MaxRequests <- 3, MaxFaults <- 1

\* The variables of a part that is not at work.
AtRest(x, y, z, t) == x = Nil /\ y = Nil /\ z = Nil /\ t = Nil

ScenarioInit ==
    /\ Init
    /\ scenario \in {"escrow", "accept", "fills", "vault", "accounts", "linking", "legacy", "withdrawal", "exit",
                     "deposits", "opened", "spends", "trackers", "inserts", "settles",
                     "reports", "backups"}
    /\ IF scenario = "fills" THEN Fills!Init ELSE Accept!Init
    /\ IF scenario = "vault"
       THEN Vault!Init
       ELSE AtRest(rows, tabs, held, used) /\ funded = Nil
    /\ CASE scenario = "accounts" -> Login!Init
         [] scenario = "linking" -> Linking!Init
         [] scenario = "legacy" -> Legacy!Init
         [] OTHER -> AtRest(users, wallets, nonces, sessions) /\ req = Nil
    /\ IF scenario \in {"withdrawal", "exit"}
       THEN Exit!Init
       ELSE AtRest(withdrawals, cctp_exits, txs, sequence) /\ AtRest(spent, paid, attested, exitJobs)
            /\ asked = Nil /\ faults = Nil
    /\ CASE scenario \in {"deposits", "opened"} -> Deposits!Init
         [] scenario = "spends" -> Spends!Init
         [] scenario = "trackers" -> Trackers!Init
         [] OTHER -> AtRest(page, deposits, burned, registered) /\ AtRest(spentNotes, intentRow, quotes, pageJobs)
    /\ CASE scenario = "inserts" -> Inserts!Init
         [] scenario = "settles" -> Settles!Init
         [] OTHER -> AtRest(operator, leaves, noteRows, nullifiers) /\ AtRest(burns, landed, relayJobs, lost)
    /\ IF scenario \in {"reports", "backups"}
       THEN Reports!Init
       ELSE AtRest(settlementRows, payments, anchorRows, reports)
            /\ AtRest(backups, activity, requests, acked) /\ failures = Nil

\* Names that are interchangeable come into use in one order: any other behaviour
\* of the scenario is one of these with two names exchanged (of the users of
\* "reports" together with their settlements; no request of "backups" asks whose
\* a settlement is).  The row of a withdrawal, which no step and no property
\* reads, is there before a transaction is built.
InOrder ==
    CASE scenario = "escrow" ->
            /\ (\E i \in Intents : intent'[i] # None) => intent'[i1] # None
            /\ quote'[q2] # None => quote'[q1] # None
      [] scenario = "vault" -> u2 \in used' => u1 \in used'
      [] scenario \in {"accounts", "linking", "legacy"} ->
            /\ nonces'[n2].state # "none" => nonces'[n1].state # "none"
            /\ nonces'[n1].address # "w2"
            /\ req'[1].did # u2
      [] scenario \in {"reports", "backups"} -> requests'[1].user # u2
      [] scenario \in {"withdrawal", "exit"} -> txs' # << >> => withdrawals' # {}
      [] OTHER -> TRUE

ScenarioNext ==
    /\ \/ /\ scenario = "escrow" /\ Next
          /\ UNCHANGED <<rfqVars, vaultVars, accountVars, exitVars, pageVars, relayVars, recordVars>>
       \/ /\ \/ scenario = "accept" /\ Accept!Next
             \/ scenario = "fills" /\ Fills!Next
          /\ UNCHANGED <<vars, vaultVars, accountVars, exitVars, pageVars, relayVars, recordVars>>
       \/ /\ scenario = "vault" /\ Vault!Next
          /\ UNCHANGED <<vars, rfqVars, accountVars, exitVars, pageVars, relayVars, recordVars>>
       \/ /\ \/ scenario = "accounts" /\ Login!Next
             \/ scenario = "linking" /\ Linking!Next
             \/ scenario = "legacy" /\ Legacy!Next
          /\ UNCHANGED <<vars, rfqVars, vaultVars, exitVars, pageVars, relayVars, recordVars>>
       \/ /\ \/ scenario = "withdrawal" /\ Withdrawal!Next
             \/ scenario = "exit" /\ Exit!Next
          /\ UNCHANGED <<vars, rfqVars, vaultVars, accountVars, pageVars, relayVars, recordVars>>
       \/ /\ \/ scenario = "deposits" /\ Deposits!Next
             \/ scenario = "opened" /\ Opened!Next
             \/ scenario = "spends" /\ Spends!Next
             \/ scenario = "trackers" /\ Trackers!Next
          /\ UNCHANGED <<vars, rfqVars, vaultVars, accountVars, exitVars, relayVars, recordVars>>
       \/ /\ \/ scenario = "inserts" /\ Inserts!Next
             \/ scenario = "settles" /\ Settles!Next
          /\ UNCHANGED <<vars, rfqVars, vaultVars, accountVars, exitVars, pageVars, recordVars>>
       \/ /\ \/ scenario = "reports" /\ Reports!Next
             \/ scenario = "backups" /\ Backups!Next
          /\ UNCHANGED <<vars, rfqVars, vaultVars, accountVars, exitVars, pageVars, relayVars>>
    /\ InOrder
    /\ UNCHANGED scenario

allVars == <<scenario, vars, rfqVars, vaultVars, accountVars, exitVars, pageVars, relayVars, recordVars>>
ScenarioSpec == ScenarioInit /\ [][ScenarioNext]_allVars

\* A payout reported as executed stays so: repeated reports of its receipt,
\* which POST /v1/fills accepts at any time, do not reset it.
ExecutedFillStays == Accept!ExecutedFillStays

\* POST /v1/rfq/settle gets past its fill checks only for a quote the user
\* accepted and a solver paid, in whatever order the other routes were called.
SettleNeedsFill ==
    /\ scenario = "accept" => Accept!SettleNeedsFill
    /\ scenario = "fills" => Fills!SettleNeedsFill

\* POST /v1/rfq/settle answers "proof job is not ready" only while the prover
\* has not completed the proof the client requested.
NotReadyIsTrue == Accept!NotReadyIsTrue

\* A vault that deposits/prepare let a user fund stays recoverable from what the
\* user keeps, across lost replies, retried creations, closed tabs, restores and
\* uploads by several clients.
FundedVaultOpens == scenario = "vault" => Vault!FundedVaultOpens

\* docs/note-vault-recovery.md, "How private notes survive a browser-cache wipe":
\* the note of a deposit made on the deposit page is in the stored vault, or
\* still in the memory of some tab.
FundedNoteIsKept == scenario = "vault" => Vault!FundedNoteIsKept

\* Concurrent first requests of a Privy identity are answered as one user.
OneUserPerIdentity ==
    /\ scenario \in {"accounts", "linking"} => Login!OneUserPerIdentity
    /\ scenario = "legacy" => Legacy!OneUserPerIdentity

\* A signature opens one session: two requests with the same nonce, however
\* their queries interleave, do not both log in.
NonceOpensOneSession == scenario \in {"accounts", "linking", "legacy"} => Login!NonceOpensOneSession

\* A submit job that is ready has its transaction in a ledger, and the pool paid
\* for that note, once, however often submissions were repeated, timed out, were
\* retried or landed late (broadcastSignedXdr); and the call of a job the relayer
\* submits itself (sorobanInvoke) is accepted once at most, and was accepted if
\* the job is ready.
ReadyMeansPaid ==
    CASE scenario = "inserts" -> Inserts!ReadyMeansLanded
      [] scenario = "settles" -> Settles!ReadyMeansLanded
      [] scenario \in {"withdrawal", "exit"} -> Exit!ReadyMeansPaid
      [] OTHER -> TRUE

\* "attestation not yet available; retry" (the relayer's worker): asked again
\* once Circle has the attestation, the step does not end without it.
RetryFindsAttestation == scenario \in {"withdrawal", "exit"} => Exit!RetryFindsAttestation

\* What users are shown is so.  apps/web says a deposit is ready of a note the
\* pool holds, the Move page of a note its own run spent, and frontend/ of a job
\* that is ready (of a registered note, where the relayer can open it).  A report
\* of Shade View lists settlements of its user, all that were asked for and
\* answered before, and a recovery has the last payload answered as backed up.
ShownIsTrue ==
    CASE scenario = "reports" -> Reports!RecordsAreTheUsers
      [] scenario = "backups" -> Backups!RecordsAreTheUsers
      [] scenario = "opened" -> Opened!PagesAreTruthful
      [] scenario \in {"deposits", "spends", "trackers"} -> Deposits!PagesAreTruthful
      [] OTHER -> TRUE
=============================================================================
