------------------------------ MODULE Drivers -------------------------------
(* The command-line drivers of apps/cli, and the two suites that run them one *)
(* after another against one network.  A driver is a list of calls: it makes  *)
(* its own notes, funds them through CCTP, settles them and checks what came  *)
(* back.  Every driver computes the roots it submits from its own notes.      *)
(* A call can be refused by the contract, can fail before it lands, and can   *)
(* land while its answer is lost (sorobanInvoke repeats it and is refused).   *)
(* Note i of run r is <<r, i>>; a root is the sequence of leaves under it.    *)
EXTENDS Integers, Sequences, FiniteSets, SequencesExt

CONSTANTS MaxRuns, MaxFaults, Standalone, Suites

VARIABLES leaves, spent, paid, minted, vault, assoc, solvers, committee, xlm, fills,
          driver, results, suite, report, faults

pool == <<leaves, spent, paid, assoc, solvers, committee, xlm>>
outside == <<minted, vault, fills>>
vars == <<pool, outside, driver, results, suite, report, faults>>

Runs == 1..MaxRuns
Notes == Runs \X (1..4)
-----------------------------------------------------------------------------
\* The drivers.  `ins` are the notes an operation is about, `outs` the notes
\* it creates, `own` the leaves the driver believes the pool holds, `safe`
\* whether the driver catches an exception, `terms` whether the arguments
\* agree with the proof.

Op(o, ins, own) == [op |-> o, ins |-> ins, outs |-> <<>>, own |-> own, safe |-> FALSE, terms |-> TRUE]
Caught(x) == [x EXCEPT !.safe = TRUE]
Mismatched(x) == [x EXCEPT !.op = "refuse", !.terms = FALSE]
Again(x) == [x EXCEPT !.op = "refuse", !.safe = FALSE]
Creates(x, outs) == [x EXCEPT !.outs = outs]

runCctpInbound(i, own) == <<Op("burn", <<i>>, own), Op("mint", <<i>>, own), Op("register", <<i>>, own)>>

zk_withdraw ==
    LET spend == Op("spend", <<1>>, <<1>>)
    IN <<Op("associate", <<1>>, <<>>)>> \o runCctpInbound(1, <<1>>) \o <<spend, Again(spend)>>

rfq ==
    LET settle == Op("rfq_settle", <<1>>, <<1>>)
    IN <<Op("associate", <<1>>, <<>>)>> \o runCctpInbound(1, <<1>>)
       \o <<Op("inventory", <<>>, <<>>), Op("authorize", <<>>, <<>>), Op("fill", <<>>, <<>>),
            Mismatched(settle), Mismatched(settle), settle, Again(settle)>>

cctp_outbound ==
    LET exit == Op("spend", <<1>>, <<1>>)
    IN <<Op("associate", <<1>>, <<>>)>> \o runCctpInbound(1, <<1>>)
       \o <<Mismatched(exit), Caught(exit)>>

\* The legacy vault, not the pool; one try block around the whole flow
cctp_inbound ==
    <<Caught(Op("burn", <<1>>, <<>>)), Caught(Op("mint", <<1>>, <<>>)),
      Caught(Op("vault_deposit", <<1>>, <<>>))>>

private_transfer ==
    LET settle == Creates(Op("spend", <<1>>, <<1>>), <<3>>)
    IN runCctpInbound(1, <<1>>) \o <<Op("associate", <<1>>, <<>>), settle, Again(settle)>>

mpc_onchain_settle ==
    <<Op("committee", <<>>, <<>>)>> \o runCctpInbound(1, <<1>>) \o runCctpInbound(2, <<1, 2>>)
    \o <<Op("associate", <<1, 2>>, <<>>),
         Caught(Creates(Op("mpc_settle", <<1, 2>>, <<1, 2>>), <<3, 4>>))>>

\* The XLM note is registered directly, against reserves sent to the pool.
mpc_priced_onchain ==
    <<Op("committee", <<>>, <<>>), Op("xlm", <<>>, <<>>)>> \o runCctpInbound(1, <<1>>)
    \o <<Op("register_xlm", <<2>>, <<1, 2>>), Op("associate", <<1, 2>>, <<>>),
         Caught(Creates(Op("mpc_settle", <<1, 2>>, <<1, 2>>), <<3, 4>>))>>

rfq_atomic_swap ==
    <<Op("xlm", <<>>, <<>>)>> \o runCctpInbound(1, <<1>>)
    \o <<Op("associate", <<1>>, <<>>), Op("authorize", <<>>, <<>>),
         Caught(Op("swap", <<1>>, <<1>>))>>

Program(n) == CASE n = "zk:withdraw:e2e"   -> zk_withdraw
                [] n = "rfq:e2e"           -> rfq
                [] n = "cctp:outbound:e2e" -> cctp_outbound
                [] n = "cctp:inbound:e2e"  -> cctp_inbound
                [] n = "zk:transfer:e2e"   -> private_transfer
                [] n = "mpc:onchain:e2e"   -> mpc_onchain_settle
                [] n = "mpc:priced:e2e"    -> mpc_priced_onchain
                [] n = "rfq:swap:e2e"      -> rfq_atomic_swap

\* The commands of the two suites that talk to the pool, in their order
commands == <<"cctp:inbound:e2e", "zk:withdraw:e2e", "rfq:e2e", "cctp:outbound:e2e">>

SCENARIOS == <<"cctp:inbound:e2e", "zk:withdraw:e2e", "rfq:e2e", "cctp:outbound:e2e">>

NoDriver == [name |-> "none", rid |-> 0, todo |-> <<>>, ok |-> TRUE]
NoSuite == [name |-> "none", todo |-> <<>>, ok |-> TRUE, wrote |-> <<>>]

Init ==
    /\ leaves = <<>> /\ spent = {} /\ paid = [c \in Notes |-> 0]
    /\ minted = {} /\ vault = {} /\ assoc = {} /\ solvers = {} /\ committee = 0
    /\ xlm = 0 /\ fills = [r \in Runs |-> 0]
    /\ driver = NoDriver /\ results = <<>> /\ suite = NoSuite
    /\ report = <<>> /\ faults = 0
-----------------------------------------------------------------------------
\* The pool as the drivers use it

Named(is) == [k \in 1..Len(is) |-> <<driver.rid, is[k]>>]
Set(is) == {<<driver.rid, is[k]>> : k \in 1..Len(is)}

\* A root over the driver's own notes, and an association set of the labels of
\* its coins and no others: the file of an earlier run is removed first.
computeStateRoot(own) == Named(own)
buildAssociationSet(coins) == Set(coins)

KnownRoot(s) == s # <<>> /\ IsPrefix(s, leaves)

\* The contract recomputes the root and refuses a submitted root that differs.
Accepts(x) ==
    CASE x.op \in {"register", "register_xlm"} ->
            /\ Append(leaves, <<driver.rid, x.ins[1]>>) = computeStateRoot(x.own)
            /\ x.op = "register_xlm" => xlm > 0
      [] x.op \in {"spend", "rfq_settle", "mpc_settle", "swap", "refuse"} ->
            /\ x.terms
            /\ KnownRoot(Named(x.own))
            /\ Set(x.ins) \cap spent = {}
            /\ assoc = Set(x.ins)
            /\ x.outs # <<>> => leaves = Named(x.own)
            /\ x.op = "rfq_settle" => driver.rid \in solvers
            /\ x.op = "mpc_settle" => committee = driver.rid
            /\ x.op = "swap" => driver.rid \in solvers /\ xlm > 0
      [] OTHER -> TRUE

Settle(x) ==
    /\ spent' = spent \cup Set(x.ins)
    /\ paid' = [c \in Notes |-> IF c \in Set(x.ins) THEN paid[c] + 1 ELSE paid[c]]
    /\ leaves' = leaves \o Named(x.outs)
    /\ xlm' = IF x.op = "swap" THEN xlm - 1 ELSE xlm
    /\ UNCHANGED <<assoc, solvers, committee, outside>>

Lands(x) ==
    CASE x.op = "associate" -> assoc' = buildAssociationSet(x.ins)
            /\ UNCHANGED <<leaves, spent, paid, solvers, committee, xlm, outside>>
      [] x.op = "authorize" -> solvers' = solvers \cup {driver.rid}
            /\ UNCHANGED <<leaves, spent, paid, assoc, committee, xlm, outside>>
      [] x.op = "committee" -> committee' = driver.rid
            /\ UNCHANGED <<leaves, spent, paid, assoc, solvers, xlm, outside>>
      [] x.op = "xlm" -> xlm' = xlm + 1
            /\ UNCHANGED <<leaves, spent, paid, assoc, solvers, committee, outside>>
      [] x.op \in {"register", "register_xlm"} -> leaves' = Append(leaves, <<driver.rid, x.ins[1]>>)
            /\ UNCHANGED <<spent, paid, assoc, solvers, committee, xlm, outside>>
      [] x.op = "mint" -> minted' = minted \cup Set(x.ins) /\ UNCHANGED <<pool, vault, fills>>
      [] x.op = "vault_deposit" -> vault' = vault \cup Set(x.ins) /\ UNCHANGED <<pool, minted, fills>>
      [] x.op = "fill" -> fills' = [fills EXCEPT ![driver.rid] = @ + 1]
            /\ UNCHANGED <<pool, minted, vault>>
      [] x.op \in {"spend", "rfq_settle", "mpc_settle", "swap", "refuse"} -> Settle(x)
      [] OTHER -> UNCHANGED <<pool, outside>>
-----------------------------------------------------------------------------
Busy == driver.name # "none" /\ driver.todo # <<>>
Call == Head(driver.todo)
Continue(ok) == driver' = [driver EXCEPT !.todo = Tail(@), !.ok = @ /\ ok]
Finish(status) ==
    /\ results' = Append(results, [name |-> driver.name, rid |-> driver.rid, status |-> status])
    /\ driver' = NoDriver

Fault == faults < MaxFaults /\ faults' = faults + 1

\* The exceptions a driver catches become a failed check; an inbound that
\* throws leaves its try block, so nothing of it is left to do.
Throw_ignored == Continue(TRUE) /\ UNCHANGED <<results, suite>>

Throw ==
    \/ Call.safe
       /\ driver' = [driver EXCEPT !.todo = <<>>, !.ok = FALSE]
       /\ UNCHANGED <<results, suite>>
    \/ ~Call.safe
       /\ Finish("fail")
       /\ suite' = [suite EXCEPT !.ok = FALSE]

step_answered ==
    /\ Busy /\ Call.op \notin {"refuse", "inventory"} /\ Accepts(Call)
    /\ Lands(Call)
    /\ Continue(TRUE)
    /\ UNCHANGED <<results, suite, report, faults>>

step_refused ==
    /\ Busy /\ Call.op # "refuse" /\ ~Accepts(Call)
    /\ Throw
    /\ UNCHANGED <<pool, outside, report, faults>>

\* Lost before or after it landed
step_lost ==
    /\ Busy /\ Call.op # "refuse" /\ Accepts(Call) /\ Fault
    /\ Lands(Call) \/ UNCHANGED <<pool, outside>>
    /\ Throw
    /\ UNCHANGED report

\* A negative check: any exception counts as the refusal it expects.
step_expect_refusal ==
    /\ Busy /\ Call.op = "refuse"
    /\ \/ Accepts(Call) /\ Lands(Call) /\ Continue(FALSE) /\ UNCHANGED faults
       \/ ~Accepts(Call) /\ Continue(TRUE) /\ UNCHANGED <<pool, outside, faults>>
       \/ Fault /\ Continue(TRUE) /\ UNCHANGED <<pool, outside>>
    /\ UNCHANGED <<results, suite, report>>

\* rfq-e2e stops before the fill when the solver's balance is too small.
inventory ==
    /\ Busy /\ Call.op = "inventory"
    /\ \/ Continue(TRUE)
       \/ driver' = [driver EXCEPT !.todo = <<>>, !.ok = FALSE]
    /\ UNCHANGED <<pool, outside, results, suite, report, faults>>
-----------------------------------------------------------------------------
\* The report and the suites

\* A child of e2e-all appends; any other process resets the file first.
ensureStarted == IF suite.name = "e2e:all" THEN report ELSE <<>>

\* writeCheckReport and failIfAny, the end of every driver
finish ==
    /\ driver.name # "none" /\ driver.todo = <<>>
    /\ report' = Append(ensureStarted, driver.name)
    /\ Finish(IF driver.ok THEN "pass" ELSE "fail")
    /\ suite' = [suite EXCEPT !.ok = @ /\ driver.ok, !.wrote = Append(@, driver.name)]
    /\ UNCHANGED <<pool, outside, faults>>

Start(n) == [name |-> n, rid |-> Len(results) + 1, todo |-> Program(n), ok |-> TRUE]

run_alone(n) ==
    /\ driver = NoDriver /\ suite.name \notin Suites /\ Len(results) < MaxRuns
    /\ driver' = Start(n)
    /\ suite' = NoSuite
    /\ UNCHANGED <<pool, outside, results, report, faults>>

\* beginReport: one fresh report for the whole suite
begin_suite(n) ==
    /\ driver = NoDriver /\ suite.name \notin Suites /\ Len(results) + 4 <= MaxRuns
    /\ suite' = [name |-> n, todo |-> IF n = "e2e:all" THEN commands ELSE SCENARIOS,
                 ok |-> TRUE, wrote |-> <<>>]
    /\ report' = <<>>
    /\ UNCHANGED <<pool, outside, driver, results, faults>>

\* spawnSync of the next command; a failure does not stop the suite.
suite_next ==
    /\ driver = NoDriver /\ suite.todo # <<>>
    /\ driver' = Start(Head(suite.todo))
    /\ suite' = [suite EXCEPT !.todo = Tail(@)]
    /\ UNCHANGED <<pool, outside, results, report, faults>>

suite_end ==
    /\ driver = NoDriver /\ suite.name \in Suites /\ suite.todo = <<>>
    /\ report' = Append(report, "aggregate")
    /\ suite' = [suite EXCEPT !.name = IF suite.name = "e2e:all" THEN "whole" ELSE "done",
                              !.wrote = Append(@, "aggregate")]
    /\ UNCHANGED <<pool, outside, driver, results, faults>>

Next ==
    \/ \E n \in Standalone : run_alone(n)
    \/ \E n \in Suites : begin_suite(n)
    \/ suite_next \/ suite_end
    \/ step_answered \/ step_refused \/ step_lost \/ step_expect_refusal \/ inventory
    \/ finish

Spec == Init /\ [][Next]_vars
-----------------------------------------------------------------------------
Passed == {results[k] : k \in {j \in DOMAIN results : results[j].status = "pass"}}
Ops(n) == {Program(n)[k] : k \in DOMAIN Program(n)}
Of(r, is) == {<<r, is[k]>> : k \in DOMAIN is}

\* A driver that prints PASS did the whole of what it drives exactly once, also
\* when answers were lost and calls repeated on the way: its notes are funded
\* and in the pool (or the vault), each note it settles was paid out once, and
\* an RFQ driver's fill was paid once (zk-withdraw-e2e.ts:187, rfq-e2e.ts:245).
PassedDriverSettled ==
    \A p \in Passed : \A x \in Ops(p.name) :
        /\ x.op \in {"spend", "rfq_settle", "mpc_settle", "swap"} =>
               \A c \in Of(p.rid, x.ins) : c \in spent /\ paid[c] = 1
        /\ x.op \in {"register", "register_xlm"} => \A c \in Of(p.rid, x.ins) :
               Cardinality({k \in DOMAIN leaves : leaves[k] = c}) = 1
        /\ x.op = "mint" => Of(p.rid, x.ins) \subseteq minted
        /\ x.op = "vault_deposit" => Of(p.rid, x.ins) \subseteq vault
        /\ x.op = "fill" => fills[p.rid] = 1
=============================================================================
