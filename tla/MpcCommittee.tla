---------------------------- MODULE MpcCommittee ----------------------------
(***************************************************************************)
(* Private matching: the API's two intent routes, the coordinator with its *)
(* sessions and matching rounds, the committee nodes, the rows a signed    *)
(* batch leaves in the database, the settler that turns the batch into     *)
(* relayer jobs, and the relayer's MPC_SETTLE_SUBMIT.  A step ends where   *)
(* the code awaits.  IntentMatching has the matching algorithm itself.     *)
(***************************************************************************)
EXTENDS Integers, Sequences, FiniteSets, Functions

CONSTANTS Intents,      \* intent ids
          Rfq,          \* those submitted through POST /v1/intents
          Pays,         \* asset an intent spends
          Wants,        \* asset it asks for
          Nodes,        \* committee nodes
          InProcess,    \* server.ts (one process) or coordinator-server.ts
          MaxSubmits,   \* bound on the submissions of one intent
          MaxFaults     \* bound on crashes and node outages

ASSUME MpcAssumption ==
    /\ IsFiniteSet(Intents)
    /\ Rfq \subseteq Intents
    /\ DOMAIN Pays = Intents
    /\ DOMAIN Wants = Intents
    /\ IsFiniteSet(Nodes)
    /\ InProcess \in BOOLEAN
    /\ MaxSubmits \in Nat
    /\ MaxFaults \in Nat

VARIABLES
    handler,    \* the API's request for each intent
    intentRow,  \* intents: rows of the RFQ route
    sessionRow, \* mpc_sessions
    mpcRow,     \* mpc_intents.status, "none" without a row
    batchRow,   \* mpc_batches
    jobs,       \* MPC_SETTLE_SUBMIT jobs in the order of their creation
    running,    \* whether the coordinator process runs
    sessions,   \* CommitteeState.sessions; an id is a position here
    flight,     \* shares on their way to nodes
    held,       \* shares each node has in memory
    down,       \* nodes that do not answer
    rounds,     \* calls of runMatchingRound(Remote) and what they have got to
    settler,    \* the settler loop
    faults      \* crashes and outages so far

api == <<handler, intentRow, sessionRow>>
network == <<flight, held, down>>
vars == <<api, mpcRow, batchRow, jobs, running, sessions, network, rounds, settler, faults>>

None == 0

Session == [status : {"open", "matching", "signed", "failed", "lost"},
            intents : SUBSET Intents]

Pairs == {p \in Intents \X Intents : p[1] # p[2]}

RoundPc == {"decrypt", "sign", "persist", "rows", "done", "failed", "threw", "lost"}

Round == [session : Nat \ {0}, by : {"timer", "api"}, pc : RoundPc,
          responded : SUBSET Nodes, matches : SUBSET Pairs, signers : SUBSET Nodes,
          left : Seq(Pairs)]

TypeOK ==
    /\ handler \in [Intents -> [pc : {"new", "row", "waiting", "accepted", "session",
                                      "done", "failed"},
                                session : Nat, submits : 0..MaxSubmits]]
    /\ intentRow \subseteq Rfq
    /\ sessionRow \subseteq DOMAIN sessions
    /\ mpcRow \in [Intents -> {"none", "pending", "matched"}]
    /\ batchRow \in Seq([session : DOMAIN sessions, matches : SUBSET Pairs,
                         signers : SUBSET Nodes,
                         status : {"pending", "queued", "rfq_routed"}])
    /\ jobs \in Seq([batch : DOMAIN batchRow, match : Pairs, notes : BOOLEAN,
                     status : {"queued", "no_notes", "no_proof"}])
    /\ running \in BOOLEAN
    /\ sessions \in Seq(Session)
    /\ flight \subseteq Intents \X Nodes
    /\ held \in [Nodes -> SUBSET Intents]
    /\ down \subseteq Nodes
    /\ rounds \in Seq(Round)
    /\ settler \in [batch : 0..Len(batchRow), todo : SUBSET Pairs, queued : BOOLEAN]
    /\ faults \in 0..MaxFaults

Idle == [batch |-> None, todo |-> {}, queued |-> FALSE]

Init ==
    /\ handler = [i \in Intents |-> [pc |-> "new", session |-> None, submits |-> 0]]
    /\ intentRow = {}
    /\ sessionRow = {}
    /\ mpcRow = [i \in Intents |-> "none"]
    /\ batchRow = <<>>
    /\ jobs = <<>>
    /\ running = TRUE
    /\ sessions = <<>>
    /\ flight = {}
    /\ held = [n \in Nodes |-> {}]
    /\ down = {}
    /\ rounds = <<>>
    /\ settler = Idle
    /\ faults = 0

-----------------------------------------------------------------------------
\* API: POST /v1/intents and POST /v1/mpc/intents

\* A client may submit again; the RFQ route first inserts its own row.
submit(i) ==
    /\ handler[i].pc \in {"new", "done", "failed"}
    /\ handler[i].submits < MaxSubmits
    /\ handler' = [handler EXCEPT ![i].pc = "row", ![i].submits = @ + 1]
    /\ intentRow' = IF i \in Rfq THEN intentRow \union {i} ELSE intentRow
    /\ UNCHANGED <<sessionRow, mpcRow, batchRow, jobs, running, sessions, network, rounds,
                   settler, faults>>

\* Mutant: a session that is being matched still takes intents.
OpenSessions_matching == {s \in DOMAIN sessions : sessions[s].status \in {"open", "matching"}}

OpenSessions == {s \in DOMAIN sessions : sessions[s].status = "open"}

getOrCreateOpenSession ==
    IF OpenSessions # {} THEN CHOOSE s \in OpenSessions : TRUE ELSE Len(sessions) + 1

\* The route forwards the intent; the coordinator's handler runs up to the
\* delivery of the shares, which the in-process committee does not need.
addIntent(i) ==
    LET s == getOrCreateOpenSession
    IN  /\ handler[i].pc = "row"
        /\ running
        /\ sessions' = IF s \in DOMAIN sessions
                       THEN [sessions EXCEPT ![s].intents = @ \union {i}]
                       ELSE Append(sessions, [status |-> "open", intents |-> {i}])
        /\ flight' = IF InProcess THEN flight ELSE flight \union ({i} \X Nodes)
        /\ handler' = [handler EXCEPT ![i].pc = IF InProcess THEN "accepted" ELSE "waiting",
                                      ![i].session = s]
        /\ UNCHANGED <<intentRow, sessionRow, mpcRow, batchRow, jobs, running, held, down,
                       rounds, settler, faults>>

\* The RFQ route carries on without the committee, the other answers 503.
committee_unreachable(i) ==
    /\ handler[i].pc = "row"
    /\ ~running
    /\ handler' = [handler EXCEPT ![i].pc = "failed"]
    /\ UNCHANGED <<intentRow, sessionRow, mpcRow, batchRow, jobs, running, sessions, network,
                   rounds, settler, faults>>

\* distributeShares only logs a share that did not get through.
distributeShares(i, n) ==
    /\ <<i, n>> \in flight
    /\ flight' = flight \ {<<i, n>>}
    /\ \/ /\ n \notin down
          /\ held' = [held EXCEPT ![n] = @ \union {i}]
       \/ /\ n \in down
          /\ UNCHANGED held
    /\ UNCHANGED <<api, mpcRow, batchRow, jobs, running, sessions, down, rounds, settler, faults>>

accepted(i) ==
    /\ handler[i].pc = "waiting"
    /\ flight \intersect ({i} \X Nodes) = {}
    /\ handler' = [handler EXCEPT ![i].pc = "accepted"]
    /\ UNCHANGED <<intentRow, sessionRow, mpcRow, batchRow, jobs, running, sessions, network,
                   rounds, settler, faults>>

insert_session(i) ==
    /\ handler[i].pc = "accepted"
    /\ sessionRow' = sessionRow \union {handler[i].session}
    /\ handler' = [handler EXCEPT ![i].pc = "session"]
    /\ UNCHANGED <<intentRow, mpcRow, batchRow, jobs, running, sessions, network, rounds,
                   settler, faults>>

\* On conflict only the session id changes.
insert_mpc_intent(i) ==
    /\ handler[i].pc = "session"
    /\ mpcRow' = [mpcRow EXCEPT ![i] = IF @ = "none" THEN "pending" ELSE @]
    /\ handler' = [handler EXCEPT ![i].pc = "done"]
    /\ UNCHANGED <<intentRow, sessionRow, batchRow, jobs, running, sessions, network, rounds,
                   settler, faults>>

-----------------------------------------------------------------------------
\* The coordinator's rounds

threshold == (2 * Cardinality(Nodes) + 2) \div 3

Complementary(a, b) == a # b /\ Pays[a] = Wants[b] /\ Wants[a] = Pays[b]

Disjoint(ms) == \A p, q \in ms : p # q => {p[1], p[2]} \intersect {q[1], q[2]} = {}

Matched(ms) == UNION {{p[1], p[2]} : p \in ms}

\* Mutant: a partner is not marked as used.
matchIntents_reusing ==
    [S \in SUBSET Intents |->
        {ms \in SUBSET {p \in S \X S : Complementary(p[1], p[2])} :
            \A a, b \in S \ Matched(ms) : ~Complementary(a, b)}]

\* What matchIntents may return for each set of intents: IntentMatching shows
\* that its result is a maximal matching.
matchIntents ==
    [S \in SUBSET Intents |->
        {ms \in SUBSET {p \in S \X S : Complementary(p[1], p[2])} :
            /\ Disjoint(ms)
            /\ \A a, b \in S \ Matched(ms) : ~Complementary(a, b)}]

SetStatus(s, status) == sessions' = [sessions EXCEPT ![s].status = status]

NewRound(s, by) ==
    [session |-> s, by |-> by, pc |-> "decrypt", responded |-> {}, matches |-> {},
     signers |-> {}, left |-> <<>>]

\* The timer and the match route start a round for an open session.
Startable(s) == sessions[s].status = "open" /\ Cardinality(sessions[s].intents) >= 2

runMatchingRoundRemote(s, by) ==
    /\ running
    /\ ~InProcess
    /\ Startable(s)
    /\ SetStatus(s, "matching")
    /\ rounds' = Append(rounds, NewRound(s, by))
    /\ UNCHANGED <<api, mpcRow, batchRow, jobs, running, network, settler, faults>>

\* In one process nothing is awaited before the batch is signed.
runMatchingRound(s, by) ==
    /\ running
    /\ InProcess
    /\ Startable(s)
    /\ SetStatus(s, "signed")
    /\ \E ms \in matchIntents[sessions[s].intents] :
           rounds' = Append(rounds, [NewRound(s, by) EXCEPT !.pc = "persist", !.matches = ms,
                                                            !.signers = Nodes])
    /\ UNCHANGED <<api, mpcRow, batchRow, jobs, running, network, settler, faults>>

At(r, pc) == rounds[r].pc = pc

\* Shares for an intent among the replies of the nodes in R
Shares(i, R) == Cardinality({n \in R : i \in held[n]})

\* The replies to /internal/decrypt are in: any nodes that are up may answer in
\* time.  Two shares for each intent are needed to go on.
internal_decrypt(r, R) ==
    LET s == rounds[r].session
        S == sessions[s].intents
        enough == /\ Cardinality(R) >= threshold
                  /\ \A i \in S : Shares(i, R) >= 2
    IN  /\ At(r, "decrypt")
        /\ R \intersect down = {}
        /\ \/ /\ enough
              /\ \E ms \in matchIntents[S] :
                     rounds' = [rounds EXCEPT ![r].pc = "sign", ![r].matches = ms]
              /\ UNCHANGED sessions
           \/ /\ ~enough
              /\ rounds' = [rounds EXCEPT ![r].pc = "failed", ![r].responded = R]
              /\ SetStatus(s, "failed")
        /\ UNCHANGED <<api, mpcRow, batchRow, jobs, running, network, settler, faults>>

\* Mutant: any signature will do.
internal_sign_batch_any(r, R) ==
    /\ At(r, "sign")
    /\ R \intersect down = {}
    /\ R # {}
    /\ rounds' = [rounds EXCEPT ![r].pc = "persist", ![r].signers = R]
    /\ SetStatus(rounds[r].session, "signed")
    /\ UNCHANGED <<api, mpcRow, batchRow, jobs, running, network, settler, faults>>

internal_sign_batch(r, R) ==
    /\ At(r, "sign")
    /\ R \intersect down = {}
    /\ \/ /\ Cardinality(R) >= threshold
          /\ rounds' = [rounds EXCEPT ![r].pc = "persist", ![r].signers = R]
          /\ SetStatus(rounds[r].session, "signed")
       \/ /\ Cardinality(R) < threshold
          /\ rounds' = [rounds EXCEPT ![r].pc = "failed", ![r].responded = R]
          /\ SetStatus(rounds[r].session, "failed")
    /\ UNCHANGED <<api, mpcRow, batchRow, jobs, running, network, settler, faults>>

-----------------------------------------------------------------------------
\* persistSignedBatch, and processes that stop

Active(r) == rounds[r].pc \in {"decrypt", "sign", "persist", "rows"}

\* Everything the coordinator process has in memory is gone; `ended` is what
\* becomes of the round that brought it down, if one did.
ProcessEnds(r, ended) ==
    /\ running' = FALSE
    /\ sessions' = [s \in DOMAIN sessions |-> [sessions[s] EXCEPT !.status = "lost"]]
    /\ rounds' = [q \in DOMAIN rounds |->
                     IF q = r THEN [rounds[q] EXCEPT !.pc = ended]
                     ELSE IF Active(q) THEN [rounds[q] EXCEPT !.pc = "lost"] ELSE rounds[q]]
    /\ handler' = [i \in DOMAIN handler |->
                      IF handler[i].pc = "waiting" THEN [handler[i] EXCEPT !.pc = "failed"]
                                                   ELSE handler[i]]
    /\ settler' = Idle

\* A query of persistSignedBatch fails.  The match route answers 500; nobody
\* handles the rejection in the timer, which ends the process.
Throw(r) ==
    \/ /\ rounds[r].by = "api"
       /\ rounds' = [rounds EXCEPT ![r].pc = "threw"]
       /\ UNCHANGED <<running, sessions, handler, settler>>
    \/ /\ rounds[r].by = "timer"
       /\ ProcessEnds(r, "threw")

\* matched_with is set on both rows of every match.
MatchedWith(ms) ==
    LET order == CHOOSE f \in [1..Cardinality(ms) -> ms] : IsInjective(f)
    IN  [k \in 1..(2 * Cardinality(ms)) |->
            IF k % 2 = 1 THEN order[(k + 1) \div 2]
                         ELSE <<order[k \div 2][2], order[k \div 2][1]>>]

\* mpc_batches.session_id references mpc_sessions.
persist_batch(r) ==
    LET s == rounds[r].session
        row == [session |-> s, matches |-> rounds[r].matches, signers |-> rounds[r].signers,
                status |-> "pending"]
    IN  /\ At(r, "persist")
        /\ \/ /\ s \in sessionRow
              /\ batchRow' = Append(batchRow, row)
              /\ rounds' = [rounds EXCEPT ![r].pc = "rows",
                                          ![r].left = MatchedWith(rounds[r].matches)]
              /\ UNCHANGED <<handler, running, sessions, settler>>
           \/ /\ s \notin sessionRow
              /\ Throw(r)
              /\ UNCHANGED batchRow
        /\ UNCHANGED <<intentRow, sessionRow, mpcRow, jobs, network, faults>>

\* matched_with references mpc_intents; a row that is not there is not updated.
persist_intent(r) ==
    LET i == Head(rounds[r].left)[1]
        with == Head(rounds[r].left)[2]
    IN  /\ At(r, "rows")
        /\ rounds[r].left # <<>>
        /\ \/ /\ mpcRow[i] = "none" \/ mpcRow[with] # "none"
              /\ mpcRow' = [mpcRow EXCEPT ![i] = IF @ = "none" THEN @ ELSE "matched"]
              /\ rounds' = [rounds EXCEPT ![r].left = Tail(@)]
              /\ UNCHANGED <<handler, running, sessions, settler>>
           \/ /\ mpcRow[i] # "none" /\ mpcRow[with] = "none"
              /\ Throw(r)
              /\ UNCHANGED mpcRow
        /\ UNCHANGED <<intentRow, sessionRow, batchRow, jobs, network, faults>>

persisted(r) ==
    /\ At(r, "rows")
    /\ rounds[r].left = <<>>
    /\ rounds' = [rounds EXCEPT ![r].pc = "done"]
    /\ UNCHANGED <<api, mpcRow, batchRow, jobs, running, sessions, network, settler, faults>>

Crash ==
    /\ running
    /\ faults < MaxFaults
    /\ faults' = faults + 1
    /\ ProcessEnds(None, "lost")
    /\ UNCHANGED <<intentRow, sessionRow, mpcRow, batchRow, jobs, network>>

\* The coordinator asks every node for its identity before it serves.
fetchCommitteeInfo ==
    /\ ~running
    /\ down = {}
    /\ running' = TRUE
    /\ UNCHANGED <<api, mpcRow, batchRow, jobs, sessions, network, rounds, settler, faults>>

\* The API process dies in a request.
ApiCrash(i) ==
    /\ handler[i].pc \in {"row", "waiting", "accepted", "session"}
    /\ faults < MaxFaults
    /\ faults' = faults + 1
    /\ handler' = [handler EXCEPT ![i].pc = "failed"]
    /\ UNCHANGED <<intentRow, sessionRow, mpcRow, batchRow, jobs, running, sessions, network,
                   rounds, settler>>

\* A node stops, and comes back with its keys but without its shares.
NodeStops(n) ==
    /\ ~InProcess
    /\ n \notin down
    /\ faults < MaxFaults
    /\ faults' = faults + 1
    /\ down' = down \union {n}
    /\ held' = [held EXCEPT ![n] = {}]
    /\ UNCHANGED <<api, mpcRow, batchRow, jobs, running, sessions, flight, rounds, settler>>

NodeStarts(n) ==
    /\ n \in down
    /\ down' = down \ {n}
    /\ UNCHANGED <<api, mpcRow, batchRow, jobs, running, sessions, flight, held, rounds,
                   settler, faults>>

-----------------------------------------------------------------------------
\* Settler and relayer

Pending == {b \in DOMAIN batchRow : batchRow[b].status = "pending"}

settleOnce(b) ==
    /\ running
    /\ settler = Idle
    /\ b \in Pending
    /\ \A c \in Pending : b <= c
    /\ settler' = [batch |-> b, todo |-> batchRow[b].matches, queued |-> FALSE]
    /\ UNCHANGED <<api, mpcRow, batchRow, jobs, running, sessions, network, rounds, faults>>

isRfqRouted(p) == p[1] \in intentRow \/ p[2] \in intentRow

\* Mutant: no idempotency key.
HasJob_never(b, p) == FALSE

HasJob(b, p) == \E k \in DOMAIN jobs : jobs[k].batch = b /\ jobs[k].match = p

\* The idempotency key is the batch and the position of the match; the notes
\* are those of the rows at this moment.
queueSettlementJob(p) ==
    LET batch == settler.batch
        notes == mpcRow[p[1]] # "none" /\ mpcRow[p[2]] # "none"
        job == [batch |-> batch, match |-> p, notes |-> notes, status |-> "queued"]
    IN  /\ running
        /\ p \in settler.todo
        /\ jobs' = IF isRfqRouted(p) \/ HasJob(batch, p) THEN jobs ELSE Append(jobs, job)
        /\ settler' = [settler EXCEPT !.todo = @ \ {p}, !.queued = @ \/ ~isRfqRouted(p)]
        /\ UNCHANGED <<api, mpcRow, batchRow, running, sessions, network, rounds, faults>>

\* Mutant: a batch without a job keeps its status.
settlement_status_kept ==
    /\ running
    /\ settler.batch # None
    /\ settler.todo = {}
    /\ settler' = Idle
    /\ batchRow' = [batchRow EXCEPT ![settler.batch].status =
                       IF settler.queued THEN "queued" ELSE @]
    /\ UNCHANGED <<api, mpcRow, jobs, running, sessions, network, rounds, faults>>

settlement_status ==
    /\ running
    /\ settler.batch # None
    /\ settler.todo = {}
    /\ batchRow' = [batchRow EXCEPT ![settler.batch].status =
                       IF settler.queued THEN "queued" ELSE "rfq_routed"]
    /\ settler' = Idle
    /\ UNCHANGED <<api, mpcRow, jobs, running, sessions, network, rounds, faults>>

\* Distinct registered signers of the batch hash
verifySignedBatch(batch) == Cardinality(batch.signers) >= threshold

\* The relayer verifies the signatures against the registered committee, then
\* needs the notes, then the files of the coins, which no job of the settler
\* names: the attempts end in failure.
MPC_SETTLE_SUBMIT(k) ==
    /\ jobs[k].status = "queued"
    /\ verifySignedBatch(batchRow[jobs[k].batch])
    /\ jobs' = [jobs EXCEPT ![k].status = IF jobs[k].notes THEN "no_proof" ELSE "no_notes"]
    /\ UNCHANGED <<api, mpcRow, batchRow, running, sessions, network, rounds, settler, faults>>

-----------------------------------------------------------------------------
SettlerStep ==
    \/ \E b \in DOMAIN batchRow : settleOnce(b)
    \/ \E p \in settler.todo : queueSettlementJob(p)
    \/ settlement_status

Next ==
    \/ \E i \in Intents : \/ submit(i) \/ addIntent(i) \/ committee_unreachable(i)
                          \/ accepted(i) \/ insert_session(i) \/ insert_mpc_intent(i)
                          \/ ApiCrash(i)
    \/ \E i \in Intents, n \in Nodes : distributeShares(i, n)
    \/ \E s \in DOMAIN sessions, by \in {"timer", "api"} :
           runMatchingRoundRemote(s, by) \/ runMatchingRound(s, by)
    \/ \E r \in DOMAIN rounds, R \in SUBSET Nodes :
           internal_decrypt(r, R) \/ internal_sign_batch(r, R)
    \/ \E r \in DOMAIN rounds : persist_batch(r) \/ persist_intent(r) \/ persisted(r)
    \/ Crash
    \/ fetchCommitteeInfo
    \/ \E n \in Nodes : NodeStops(n) \/ NodeStarts(n)
    \/ SettlerStep
    \/ \E k \in DOMAIN jobs : MPC_SETTLE_SUBMIT(k)

Spec == Init /\ [][Next]_vars

-----------------------------------------------------------------------------
\* Properties

\* A session takes part in one round: whatever timer, match route and awaits do,
\* an intent submitted once is in at most one match of the signed batches.
MatchedOnce ==
    \A b, c \in DOMAIN batchRow : \A p \in batchRow[b].matches, q \in batchRow[c].matches :
        {p[1], p[2]} \intersect {q[1], q[2]} # {} => b = c /\ p = q

\* Nobody is left behind by the round of their session: once its batch is
\* signed, no two intents of the session could still be matched.
SignedSessionIsExhausted ==
    \A r \in DOMAIN rounds :
        At(r, "persist") \/ At(r, "rows") \/ At(r, "done") =>
            LET left == sessions[rounds[r].session].intents \ Matched(rounds[r].matches)
            IN  \A a, b \in left : ~Complementary(a, b)

\* A batch the settler can see is the decision of a quorum: at least ceil(2n/3)
\* nodes signed it, so the relayer and the pool accept its signatures.
BatchesHaveQuorum ==
    \A b \in DOMAIN batchRow : 3 * Cardinality(batchRow[b].signers) >= 2 * Cardinality(Nodes)

\* The settler may stop between two queries and start over with the batch, and
\* still there is one job for a match.
OneJobPerMatch ==
    \A j, k \in DOMAIN jobs :
        jobs[j].batch = jobs[k].batch /\ jobs[j].match = jobs[k].match => j = k

\* persist.ts: a signed batch must be persisted to mpc_batches regardless of what
\* triggered the matching round.
SignedBatchIsPersisted ==
    \A r \in DOMAIN rounds :
        At(r, "threw") => \E b \in DOMAIN batchRow : batchRow[b].session = rounds[r].session
=============================================================================
