-------------------------- MODULE CommitteeDrivers --------------------------
(***************************************************************************)
(* The four command-line drivers of the matching committee, and the        *)
(* committee and API routes as they meet them: the committee in one        *)
(* process (server.ts), with or without a database, which other clients    *)
(* use and whose timer matches sessions on its own, and, for the liveness  *)
(* driver, a coordinator with nodes the driver spawns, kills and restarts. *)
(* A driver is a list of steps.  A step that does not hold ends the driver *)
(* ("fail"), is noted for failIfAny ("check") or is only printed ("warn"). *)
(* Intents 1 to 4 are the driver's, 5 is somebody else's; an intent with   *)
(* an odd number pays what one with an even number wants.                  *)
(***************************************************************************)
EXTENDS Integers, Sequences, FiniteSets

CONSTANTS Programs,  \* names of the drivers that may be run
          MaxFaults  \* bound on lost calls and on processes that stop

VARIABLES db,         \* whether the committee has DATABASE_URL
          up,         \* whether the committee's process runs
          sessions,   \* its sessions; an id is a position
          node,       \* node -> whether it runs, and the key pair it has
          listed,     \* committeeInfo: node -> key
          sealed,     \* intent -> keys its shares were closed for
          held,       \* node -> intents whose share it was given
          sessionRow, \* mpc_sessions
          rows,       \* mpc_intents.status, "none" without a row
          other,      \* session the other client's intent was put in, 0 for none yet
          driver, faults

vars == <<db, up, sessions, node, listed, sealed, held, sessionRow, rows, other, driver, faults>>
database == <<db, sessionRow, rows>>
members == <<node, listed>>
shares == <<sealed, held>>

Nodes == 1 .. 3
Intents == 1 .. 5
threshold == 2

Step(op, arg, otherwise) == [op |-> op, arg |-> arg, otherwise |-> otherwise]

\* mpc-e2e talks to the committee itself; its local verification is printed.
mpc_e2e ==
    <<Step("health", 0, "fail"), Step("committee", 0, "fail"), Step("intent", 1, "fail"),
      Step("intent", 2, "fail"), Step("match", 1, "fail"), Step("verify", 0, "fail"),
      Step("verify_local", 0, "warn")>>

\* What the database has of the batch and the matches is printed.
phase2_integration ==
    <<Step("health", 0, "fail"), Step("api_committee", 0, "fail"), Step("intent", 1, "fail"),
      Step("record", 1, "fail"), Step("intent", 2, "fail"), Step("record", 2, "fail"),
      Step("row", 1, "fail"), Step("row", 2, "fail"), Step("match", 1, "fail"),
      Step("saved", 0, "warn"), Step("matched", 1, "warn"), Step("matched", 2, "warn"),
      Step("verify_local", 0, "fail"), Step("verify", 0, "fail")>>

\* The RFQ route answers without a session when it did not reach the committee,
\* and the driver goes on without the second intent, not without the first.
\* "gate" is quote, acceptance, fill and a settlement that must be refused for
\* its proof, not for its match.
mpc_rfq_submit ==
    <<Step("committee", 0, "fail"), Step("intent", 1, "fail"), Step("record", 1, "fail"),
      Step("intent", 2, "check"), Step("record", 2, "check")>>
mpc_rfq_match ==
    <<Step("pending", 1, "check"), Step("pending", 2, "check"), Step("match", 1, "check"),
      Step("one_match", 0, "check"), Step("signatures", 3, "check"),
      Step("matched", 1, "check"), Step("matched", 2, "check"), Step("gate", 1, "check"),
      Step("batches", 0, "check")>>

\* A round with one node down, and one after it is back
liveness_degraded ==
    <<Step("health", 0, "fail"), Step("committee", 0, "fail"), Step("intent", 1, "check"),
      Step("intent", 2, "check"), Step("kill", 3, "check"), Step("match", 1, "fail"),
      Step("signatures", 2, "fail"), Step("verify_local", 0, "check")>>
liveness_recovered ==
    <<Step("spawn", 3, "check"), Step("verify_local", 0, "check"), Step("intent", 3, "check"),
      Step("intent", 4, "check"), Step("match", 3, "check"), Step("signatures", 3, "check")>>

Program(name) == CASE name = "mpc:e2e" -> mpc_e2e
                   [] name = "phase2" -> phase2_integration
                   [] name = "mpc:rfq:e2e" -> mpc_rfq_submit \o mpc_rfq_match
                   [] name = "mpc:liveness:e2e" -> liveness_degraded \o liveness_recovered

Init ==
    /\ \E name \in Programs :
          driver = [name |-> name, todo |-> Program(name), ok |-> TRUE, status |-> "running",
                    info |-> [n \in Nodes |-> 0], of |-> [i \in 1 .. 4 |-> 0], waits |-> 0,
                    got |-> << >>]
    /\ db \in IF driver.name = "mpc:liveness:e2e" THEN {FALSE} ELSE BOOLEAN
    /\ up = TRUE /\ sessions = << >> /\ other = 0 /\ faults = 0
    /\ node = [n \in Nodes |-> [up |-> TRUE, key |-> n]]
    /\ listed = [n \in Nodes |-> n]
    /\ sealed = [i \in Intents |-> [n \in Nodes |-> 0]]
    /\ held = [n \in Nodes |-> {}]
    /\ sessionRow = {} /\ rows = [i \in Intents |-> "none"]

InProcess == driver.name # "mpc:liveness:e2e"
-----------------------------------------------------------------------------
\* The committee

Open == {s \in DOMAIN sessions : sessions[s].status = "open"}
OpenSession == IF Open # {} THEN CHOOSE s \in Open : TRUE ELSE Len(sessions) + 1

\* POST /v1/mpc/intents: into the open session; a node that runs gets its share.
addIntent(i, keys) ==
    LET s == OpenSession
    IN  /\ sessions' = IF s \in DOMAIN sessions
                       THEN [sessions EXCEPT ![s].intents = @ \cup {i}]
                       ELSE Append(sessions, [status |-> "open", intents |-> {i}, matches |-> {},
                                              signers |-> {}, by |-> "nobody", saved |-> "no"])
        /\ sealed' = [sealed EXCEPT ![i] = keys]
        /\ held' = [n \in Nodes |-> IF node[n].up THEN held[n] \cup {i} ELSE held[n]]

Matched(ms) == UNION {{p[1], p[2]} : p \in ms}

matchIntents(S) ==
    LET crossing == {p \in S \X S : p[1] % 2 = 1 /\ p[2] % 2 = 0}
    IN  {ms \in SUBSET crossing :
            /\ \A p, q \in ms : p # q => {p[1], p[2]} \cap {q[1], q[2]} = {}
            /\ \A p \in crossing : {p[1], p[2]} \cap Matched(ms) # {}}

\* In one process the first share that does not open fails the round.
Opens(i, n) == sealed[i][n] = node[n].key
Reconstructs(S) ==
    IF InProcess THEN \A i \in S, n \in Nodes : Opens(i, n)
    ELSE \A i \in S : Cardinality({n \in Nodes : node[n].up /\ i \in held[n] /\ Opens(i, n)}) >= 2

Signers == {<<n, node[n].key>> : n \in {n \in Nodes : node[n].up}}

runMatchingRound(s, by) ==
    \/ /\ Reconstructs(sessions[s].intents) /\ Cardinality(Signers) >= threshold
       /\ \E ms \in matchIntents(sessions[s].intents) :
             sessions' = [sessions EXCEPT ![s] =
                 [@ EXCEPT !.status = "signed", !.matches = ms, !.signers = Signers, !.by = by]]
    \/ /\ ~(Reconstructs(sessions[s].intents) /\ Cardinality(Signers) >= threshold)
       /\ sessions' = [sessions EXCEPT ![s].status = "failed"]

Startable(s) == s \in Open /\ Cardinality(sessions[s].intents) >= 2

startBatchTimer(s) ==
    /\ up /\ Startable(s)
    /\ runMatchingRound(s, "timer")
    /\ UNCHANGED <<database, up, members, shares, other, driver, faults>>

Lose == /\ up' = FALSE
        /\ sessions' = [s \in DOMAIN sessions |-> [sessions[s] EXCEPT !.status = "lost"]]

\* persistSignedBatch: the session's row is referenced by the batch, and a row
\* of an intent by that of its partner.  A query that fails ends the process
\* when the timer made it; the match route answers 500.
persistSignedBatch(s) ==
    LET whole == {p \in sessions[s].matches : rows[p[1]] # "none" /\ rows[p[2]] # "none"}
        half == {p \in sessions[s].matches : (rows[p[1]] = "none") # (rows[p[2]] = "none")}
        Write(ps) == rows' = [i \in Intents |-> IF i \in Matched(ps) THEN "matched" ELSE rows[i]]
    IN  /\ up /\ db
        /\ sessions[s].status = "signed" /\ sessions[s].saved = "no"
        /\ \/ /\ s \in sessionRow /\ half = {}
              /\ Write(whole)
              /\ sessions' = [sessions EXCEPT ![s].saved = "yes"]
              /\ UNCHANGED up
           \/ /\ s \notin sessionRow \/ half # {}
              /\ IF s \in sessionRow THEN \E ps \in SUBSET whole : Write(ps) ELSE UNCHANGED rows
              /\ IF sessions[s].by = "timer" THEN Lose
                 ELSE sessions' = [sessions EXCEPT ![s].saved = "threw"] /\ UNCHANGED up
        /\ UNCHANGED <<db, sessionRow, members, shares, other, driver, faults>>

Fault == faults < MaxFaults /\ faults' = faults + 1

committee_stops ==
    /\ up /\ Fault
    /\ Lose
    /\ UNCHANGED <<database, members, shares, other, driver>>

\* Without a database its nodes have new keys.
committee_starts ==
    /\ InProcess /\ ~up
    /\ up' = TRUE
    /\ node' = IF db THEN node ELSE [n \in Nodes |-> [node[n] EXCEPT !.key = @ + 3]]
    /\ listed' = [n \in Nodes |-> node'[n].key]
    /\ UNCHANGED <<database, sessions, shares, other, driver, faults>>

\* Somebody else submits through the API, which records the intent afterwards.
other_client ==
    /\ InProcess /\ up
    /\ \/ /\ other = 0
          /\ addIntent(5, listed)
          /\ other' = OpenSession
          /\ UNCHANGED <<sessionRow, rows>>
       \/ /\ other # 0 /\ rows[5] = "none"
          /\ sessionRow' = sessionRow \cup {other}
          /\ rows' = [rows EXCEPT ![5] = "pending"]
          /\ UNCHANGED <<sessions, shares, other>>
    /\ UNCHANGED <<db, up, members, driver, faults>>
-----------------------------------------------------------------------------
\* The driver

Running == driver.status = "running" /\ driver.todo # << >>
Now == Head(driver.todo)
Go(d) == driver' = [d EXCEPT !.todo = Tail(@)]

\* What becomes of a driver whose step does not hold
Not == CASE Now.otherwise = "fail"  -> [driver EXCEPT !.status = "fail"]
         [] Now.otherwise = "check" -> [driver EXCEPT !.ok = FALSE, !.todo = Tail(@)]
         [] OTHER                   -> [driver EXCEPT !.todo = Tail(@)]

Batch == IF driver.got = << >> THEN 0 ELSE driver.got[Len(driver.got)]

\* Every signature is of a listed key and there are enough of them.
verifySignedBatch(signers, committee) ==
    /\ \A sig \in signers : \E n \in Nodes : committee[n] = sig[2]
    /\ Cardinality(signers) >= threshold

\* The routes the steps read from, and what they must answer
health == up /\ \A n \in Nodes : node[n].up
get_committee == up
api_committee == get_committee
mpc_intent(i, status) == rows[i] = status
batches(s) == up /\ sessions[s].status = "signed"
api_batches(s) == batches(s)
verify(s) == up /\ verifySignedBatch(sessions[s].signers, listed)
mpc_gate(i) == rows[i] = "matched"

Holds(x) ==
    CASE x.op = "health" -> health
      [] x.op = "committee" -> get_committee
      [] x.op = "api_committee" -> api_committee
      [] x.op = "row" -> rows[x.arg] # "none"
      [] x.op = "pending" -> mpc_intent(x.arg, "pending")
      [] x.op = "matched" -> mpc_intent(x.arg, "matched")
      [] x.op = "gate" -> mpc_gate(x.arg)
      [] Batch = 0 -> x.op \in {"one_match", "signatures", "batches"}
      [] x.op = "one_match" -> Cardinality(sessions[Batch].matches) = 1
      [] x.op = "signatures" -> Cardinality(sessions[Batch].signers) = x.arg
      [] x.op = "saved" -> sessions[Batch].saved = "yes"
      [] x.op = "verify" -> verify(Batch)
      [] x.op = "verify_local" -> verifySignedBatch(sessions[driver.got[1]].signers, driver.info)
      [] x.op = "batches" -> api_batches(Batch)

Acts == {"intent", "record", "match", "kill", "spawn"}

look ==
    /\ Running /\ Now.op \notin Acts
    /\ \/ /\ Holds(Now) /\ UNCHANGED faults
          /\ Go(IF Now.op \in {"committee", "api_committee"} THEN [driver EXCEPT !.info = listed]
                ELSE driver)
       \/ /\ ~Holds(Now) /\ UNCHANGED faults /\ driver' = Not
       \/ /\ Fault /\ driver' = Not
    /\ UNCHANGED <<database, up, sessions, members, shares, other>>

\* The answer may be lost after the committee has taken the intent.
post_intent ==
    /\ Running /\ Now.op = "intent"
    /\ \/ /\ up /\ addIntent(Now.arg, driver.info)
          /\ \/ Go([driver EXCEPT !.of[Now.arg] = OpenSession]) /\ UNCHANGED faults
             \/ Fault /\ driver' = Not
       \/ /\ ~up /\ driver' = Not /\ UNCHANGED <<sessions, shares, faults>>
    /\ UNCHANGED <<database, up, members, other>>

\* The rows of an intent the committee has taken
Insert(i) ==
    /\ sessionRow' = sessionRow \cup {driver.of[i]}
    /\ rows' = [rows EXCEPT ![i] = IF @ = "none" THEN "pending" ELSE @]

\* POST /v1/mpc/intents answers 500 when a query fails.
record_mpc_intent ==
    /\ Running /\ Now.op = "record" /\ driver.name = "phase2"
    /\ \/ Insert(Now.arg) /\ Go(driver) /\ UNCHANGED faults
       \/ Fault /\ driver' = Not /\ UNCHANGED <<sessionRow, rows>>
    /\ UNCHANGED <<db, up, sessions, members, shares, other>>

\* POST /v1/intents reports the session also when a query fails afterwards, and
\* no session when it did not reach the committee.
record_rfq_intent ==
    /\ Running /\ Now.op = "record" /\ driver.name = "mpc:rfq:e2e"
    /\ \/ /\ driver.of[Now.arg] # 0 /\ Go(driver)
          /\ \/ Insert(Now.arg) /\ UNCHANGED faults
             \/ Fault /\ UNCHANGED <<sessionRow, rows>>
       \/ driver.of[Now.arg] = 0 /\ driver' = Not /\ UNCHANGED <<sessionRow, rows, faults>>
    /\ UNCHANGED <<db, up, sessions, members, shares, other>>

\* The match route refuses a session that is not open or not known, and the one
\* of the API passes the answer on.
match_route(s) == up /\ s # 0 /\ Startable(s)
api_match(s) == match_route(s)

match_session ==
    LET s == driver.of[Now.arg]
    IN  /\ Running /\ Now.op = "match" /\ driver.waits = 0
        /\ IF IF driver.name \in {"phase2", "mpc:rfq:e2e"} THEN api_match(s) ELSE match_route(s)
           THEN runMatchingRound(s, "driver") /\ driver' = [driver EXCEPT !.waits = s]
           ELSE UNCHANGED sessions /\ driver' = Not
        /\ UNCHANGED <<database, up, members, shares, other, faults>>

match_answers ==
    LET s == driver.waits
    IN  /\ Running /\ s # 0
        /\ \/ /\ sessions[s].status = "signed" /\ (~db \/ sessions[s].saved = "yes")
              /\ Go([driver EXCEPT !.got = Append(@, s), !.waits = 0])
           \/ /\ sessions[s].status \in {"failed", "lost"} \/ sessions[s].saved = "threw"
              /\ driver' = [Not EXCEPT !.waits = 0]
        /\ UNCHANGED <<database, up, sessions, members, shares, other, faults>>

\* The liveness driver kills a node, whose shares are gone, and spawns it anew
\* without a database: with another key.
kill_node ==
    /\ Running /\ Now.op \in {"kill", "spawn"}
    /\ \/ /\ node' = [node EXCEPT ![Now.arg] = IF Now.op = "kill" THEN [@ EXCEPT !.up = FALSE]
                                               ELSE [up |-> TRUE, key |-> @.key + 3]]
          /\ held' = [held EXCEPT ![Now.arg] = {}]
          /\ Go(driver) /\ UNCHANGED faults
       \/ Fault /\ driver' = Not /\ UNCHANGED <<node, held>>
    /\ UNCHANGED <<database, up, sessions, listed, sealed, other>>

\* Mutant: the checks that failed are only written to the report.
finish_quiet ==
    /\ driver.status = "running" /\ driver.todo = << >>
    /\ driver' = [driver EXCEPT !.status = "pass"]
    /\ UNCHANGED <<database, up, sessions, members, shares, other, faults>>

\* writeCheckReport and failIfAny
finish ==
    /\ driver.status = "running" /\ driver.todo = << >>
    /\ driver' = [driver EXCEPT !.status = IF driver.ok THEN "pass" ELSE "fail"]
    /\ UNCHANGED <<database, up, sessions, members, shares, other, faults>>

Next ==
    \/ \E s \in DOMAIN sessions : startBatchTimer(s) \/ persistSignedBatch(s)
    \/ committee_stops \/ committee_starts \/ other_client
    \/ look \/ post_intent \/ record_mpc_intent \/ record_rfq_intent
    \/ match_session \/ match_answers \/ kill_node \/ finish

Spec == Init /\ [][Next]_vars
-----------------------------------------------------------------------------
\* A driver that passes has seen a batch of its own round, whatever the timer,
\* other clients, restarts and lost answers did: the batch is of the session its
\* first intent was put in, matches one of its intents, and carries a quorum of
\* the committee it read at the start.  mpc-rfq-e2e also has its two intents
\* matched with each other, in the rows of the database too, and the liveness
\* driver a second batch signed by all three nodes.
PassedDriverSawItsMatch ==
    driver.status = "pass" =>
        LET s == sessions[driver.got[1]]
        IN  /\ driver.got # << >>
            /\ driver.got[1] = driver.of[1]
            /\ {1, 2} \subseteq s.intents
            /\ {1, 2} \cap Matched(s.matches) # {}
            /\ verifySignedBatch(s.signers, driver.info)
            /\ driver.name = "mpc:rfq:e2e" =>
                  /\ s.matches = {<<1, 2>>}
                  /\ rows[1] = "matched" /\ rows[2] = "matched"
            /\ driver.name = "mpc:liveness:e2e" =>
                  /\ Len(driver.got) = 2
                  /\ {sig[1] : sig \in sessions[driver.got[2]].signers} = Nodes
=============================================================================
