---------------------------- MODULE ClientPages -----------------------------
(***************************************************************************)
(* What the pages and the SDK tell their user: the deposit pages of both   *)
(* front ends, the Withdraw and Swap forms, and the SDK's polling loops.   *)
(* A page runs a program, a sequence of awaited steps; any of them may     *)
(* throw, and a wallet transaction may be mined although its await threw.  *)
(* The backend is what a page can see of it: a job that ends, a row.       *)
(***************************************************************************)
EXTENDS Integers, Sequences, FiniteSets

CONSTANTS Pages,       \* the pages that are open
          Witnessed,   \* whether the relayer has the opening of a deposited note
          MaxPolls,    \* polls before a page gives up (240, 40, 120 in the code)
          MaxClicks,   \* bound on the clicks on a page's button
          MaxJobs      \* bound on jobs

VARIABLES
    page,        \* the state of each page's hooks
    deposits,    \* state of the cctp_deposits row of each note
    burned,      \* notes whose USDC was burned on Arbitrum
    registered,  \* notes the pool holds
    spent,       \* notes the pool has paid for or swapped
    intent,      \* the intents row: nothing updates its state
    quotes,      \* whether a solver has quoted the intent
    jobs         \* service_jobs

backend == <<deposits, burned, registered, spent, intent, quotes, jobs>>
vars == <<page, backend>>

\* DepositPage.run of frontend/.
app_deposit == <<"coin", "prepare", "network", "approve", "burn", "burn-submitted", "poll">>

\* deposit() of apps/web.
web_deposit == <<"token", "sync-wallets", "receipt", "prepare", "network", "approve", "burn",
                 "burn-submitted", "poll">>

\* Withdraw.run and Swap.run of the Move page.
withdraw_run == <<"/v1/withdrawals/assist", "poll">>
swap_run(mode) == <<mode, "poll">>
MODES == {"/v1/rfq/assist", "/v1/mpc/assist"}

Program(p) ==
    CASE p = "app_deposit" -> app_deposit
      [] p = "web_deposit" -> web_deposit
      [] p = "withdraw" -> withdraw_run
      [] p = "swap" -> swap_run(page[p].mode)
      [] OTHER -> <<"track">>

\* A note of its own for each deposit; the Move page spends the first one.
Old == <<"move", 0>>
Notes == {Old} \cup ({"app_deposit", "web_deposit"} \X (1 .. MaxClicks))
NoNote == <<"none", 0>>

Fresh == [step |-> 0, busy |-> FALSE, shown |-> "idle", note |-> NoNote, job |-> 0, polls |-> 0,
          clicks |-> 0, mode |-> "/v1/rfq/assist"]

Init ==
    /\ page = [p \in Pages |-> Fresh]
    /\ deposits = [n \in Notes |-> "none"]
    /\ burned = {}
    /\ registered = {Old}
    /\ spent = {}
    /\ intent = "open"
    /\ quotes = FALSE
    /\ jobs = << >>

-----------------------------------------------------------------------------
At(p, steps) == page[p].busy /\ Program(p)[page[p].step] \in steps
Goes(p) == page' = [page EXCEPT ![p].step = @ + 1]
Rests(p, shown) == page' = [page EXCEPT ![p].busy = FALSE, ![p].shown = shown]
Deposits(p) == p \in {"app_deposit", "web_deposit"}

\* The button: a deposit makes a note of its own, the Move page takes one the
\* pool has (as the notes route listed it, spent or not).  The button of apps/web
\* stays off after a deposit that was not seen to end.
click(p) ==
    /\ ~page[p].busy
    /\ p = "web_deposit" => page[p].shown # "running"
    /\ page[p].clicks < MaxClicks
    /\ page' = [page EXCEPT ![p] = [@ EXCEPT !.step = 1, !.busy = TRUE, !.shown = "running", !.job = 0,
                                             !.polls = 0, !.clicks = @ + 1,
                                             !.note = IF Deposits(p) THEN <<p, page[p].clicks + 1>> ELSE Old]]
    /\ UNCHANGED backend

\* A tab of the Swap form; not while it is busy.
pickMode(m) ==
    /\ ~page["swap"].busy
    /\ page["swap"].mode # m
    /\ page' = [page EXCEPT !["swap"].mode = m, !["swap"].shown = "idle", !["swap"].job = 0]
    /\ UNCHANGED backend

\* A step throws before it did anything: a request that fails, a refusal in the
\* wallet, the wrong network.  Every catch shows the error and ends the run.
throws(p) ==
    /\ page[p].busy
    /\ Program(p)[page[p].step] # "track"
    /\ Rests(p, "error")
    /\ UNCHANGED backend

\* Steps that change nothing the backend keeps, or only the wallet's allowance.
await_step(p) ==
    /\ At(p, {"coin", "token", "sync-wallets", "receipt", "network", "approve"})
    /\ Goes(p)
    /\ UNCHANGED backend

\* POST /v1/deposits/prepare.
prepare(p) ==
    /\ At(p, {"prepare"})
    /\ deposits' = [deposits EXCEPT ![page[p].note] = "prepared"]
    /\ Goes(p)
    /\ UNCHANGED <<burned, registered, spent, intent, quotes, jobs>>

\* depositForBurnWithHook is mined; waiting for its receipt may throw all the same.
burn(p) ==
    /\ At(p, {"burn"})
    /\ burned' = burned \cup {page[p].note}
    /\ Goes(p) \/ Rests(p, "error")
    /\ UNCHANGED <<deposits, registered, spent, intent, quotes, jobs>>

\* A route that answers with a job; the answer may be lost.
Enqueues(p, route) ==
    /\ Len(jobs) < MaxJobs
    /\ jobs' = Append(jobs, [route |-> route, note |-> page[p].note, status |-> "queued", result |-> "none"])
    /\ \/ page' = [page EXCEPT ![p].step = @ + 1, ![p].job = Len(jobs')]
       \/ Rests(p, "error")

\* POST .../burn-submitted.
burnSubmitted(p) ==
    /\ At(p, {"burn-submitted"})
    /\ Enqueues(p, "CCTP_INBOUND_AFTER_USER_BURN")
    /\ deposits' = [deposits EXCEPT ![page[p].note] = "burn_submitted"]
    /\ UNCHANGED <<burned, registered, spent, intent, quotes>>

\* The assist routes of the backend behind frontend/ are not in the repository.
assist(p) ==
    /\ At(p, MODES \cup {"/v1/withdrawals/assist"})
    /\ Enqueues(p, Program(p)[1])
    /\ UNCHANGED <<deposits, burned, registered, spent, intent, quotes>>

-----------------------------------------------------------------------------
Polling(p) == At(p, {"poll"})
Job(p) == jobs[page[p].job]

\* Another poll, or the end of the loop: then the page just stops being busy.
Again(p) ==
    page' = [page EXCEPT ![p].polls = @ + 1, ![p].busy = page[p].polls + 1 < MaxPolls]

\* The loop of the deposit page of frontend/.
app_poll(p) ==
    /\ p = "app_deposit" /\ Polling(p)
    /\ CASE Job(p).status = "ready" -> Rests(p, "done")
         [] Job(p).status = "failed" -> Rests(p, "error")
         [] OTHER -> Again(p)
    /\ UNCHANGED backend

\* A plausible slip: apps/web takes a job that is ready for a registered note.
web_poll_ready(p) ==
    /\ p = "web_deposit" /\ Polling(p)
    /\ CASE Job(p).status = "ready" -> Rests(p, "done")
         [] Job(p).status = "failed" -> Rests(p, "error")
         [] OTHER -> Again(p)
    /\ UNCHANGED backend

\* The loop of apps/web: only the result of a registered note ends it well.
web_poll(p) ==
    /\ p = "web_deposit" /\ Polling(p)
    /\ CASE Job(p).result = "active" -> Rests(p, "done")
         [] Job(p).status = "failed" -> Rests(p, "error")
         [] OTHER -> Again(p)
    /\ UNCHANGED backend

\* The loops of the Move page.
move_poll(p) ==
    /\ p \in {"withdraw", "swap"} /\ Polling(p)
    /\ CASE Job(p).status = "ready" -> Rests(p, "done")
         [] Job(p).status = "failed" -> Rests(p, "error")
         [] OTHER -> Again(p)
    /\ UNCHANGED backend

\* IntentClient.pollQuote: a failed request counts as no quote yet; the deadline throws.
pollQuote(p) ==
    /\ p = "pollQuote" /\ At(p, {"track"})
    /\ \/ quotes /\ Rests(p, "quote")
       \/ IF page[p].polls + 1 < MaxPolls THEN Again(p) ELSE Rests(p, "error")
    /\ UNCHANGED backend

\* Poll a row until its state is terminal; at the deadline the answer is "pending".
Tracks(p, state, terminal) ==
    /\ At(p, {"track"})
    /\ IF state \in terminal
       THEN Rests(p, state)
       ELSE IF page[p].polls + 1 < MaxPolls THEN Again(p) ELSE Rests(p, "pending")
    /\ UNCHANGED backend

trackSettlement(p) == p = "trackSettlement" /\ Tracks(p, intent, {"settled", "failed", "expired"})

\* It follows the first deposit of the web page.
trackDeposit(p) ==
    /\ p = "trackDeposit"
    /\ Tracks(p, deposits[<<"web_deposit", 1>>], {"registered", "failed"})

-----------------------------------------------------------------------------
\* The relayer's job for a user burn: without the note's opening it ends with
\* the burn validated, and the job is ready.
relayer_deposit(j) ==
    /\ jobs[j].status = "queued" /\ jobs[j].route = "CCTP_INBOUND_AFTER_USER_BURN"
    /\ \/ /\ Witnessed
          /\ jobs' = [jobs EXCEPT ![j].status = "ready", ![j].result = "active"]
          /\ registered' = registered \cup {jobs[j].note}
       \/ /\ ~Witnessed
          /\ jobs' = [jobs EXCEPT ![j].status = "ready", ![j].result = "burn_validated"]
          /\ UNCHANGED registered
       \/ /\ jobs' = [jobs EXCEPT ![j].status = "failed"]
          /\ registered' \in {registered, registered \cup {jobs[j].note}}
    /\ UNCHANGED <<page, deposits, burned, spent, intent, quotes>>

\* A job of an assist route: it spends its note, or fails for one that is spent.
relayer_spend(j) ==
    /\ jobs[j].status = "queued" /\ jobs[j].route # "CCTP_INBOUND_AFTER_USER_BURN"
    /\ \/ /\ jobs[j].note \notin spent
          /\ spent' = spent \cup {jobs[j].note}
          /\ \E s \in {"ready", "failed"} : jobs' = [jobs EXCEPT ![j].status = s]
       \/ jobs' = [jobs EXCEPT ![j].status = "failed"] /\ UNCHANGED spent
    /\ UNCHANGED <<page, deposits, burned, registered, intent, quotes>>

solver_quotes ==
    /\ ~quotes
    /\ quotes' = TRUE
    /\ UNCHANGED <<page, deposits, burned, registered, spent, intent, jobs>>

PageStep(p) ==
    \/ await_step(p)
    \/ prepare(p)
    \/ burn(p)
    \/ burnSubmitted(p)
    \/ assist(p)

Polls(p) ==
    app_poll(p) \/ web_poll(p) \/ move_poll(p) \/ pollQuote(p) \/ trackSettlement(p) \/ trackDeposit(p)

Next ==
    \/ \E p \in Pages : click(p) \/ throws(p) \/ PageStep(p) \/ Polls(p)
    \/ "swap" \in Pages /\ \E m \in MODES : pickMode(m)
    \/ \E j \in DOMAIN jobs : relayer_deposit(j) \/ relayer_spend(j)
    \/ solver_quotes

Spec == Init /\ [][Next]_vars

-----------------------------------------------------------------------------
\* "Only ready when the note is actually registered on-chain" (apps/web): the
\* deposit page of apps/web says so of registered notes only; the one of
\* frontend/ does if the relayer has the note's opening; the Move page says
\* done of the run it is in, when that run's note is spent.
PagesAreTruthful ==
    \A p \in DOMAIN page :
        page[p].shown = "done" =>
            /\ p = "web_deposit" => page[p].note \in registered
            /\ p = "app_deposit" => Job(p).status = "ready" /\ (Witnessed => page[p].note \in registered)
            /\ p \in {"withdraw", "swap"} => page[p].note \in spent /\ Job(p).route = Program(p)[1]
=============================================================================
