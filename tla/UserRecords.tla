---------------------------- MODULE UserRecords -----------------------------
(***************************************************************************)
(* What the API records for a user beside the deposits and exits: the      *)
(* settlement rows POST /v1/rfq/settle leaves once its gates are passed    *)
(* (RfqLifecycle has the gates), Shade View's signed reports over them,    *)
(* payouts by an anchor, encrypted note backups, and the activity log.     *)
(* A handler is a sequence of queries; other handlers, failing queries and *)
(* the end of the process fall between any two of them.                    *)
(***************************************************************************)
EXTENDS Integers, Sequences, FiniteSets

CONSTANTS Users, Nobody,  \* a row's user_id when it is null
          Settlements,    \* settlement ids
          OwnerOf,        \* user of the intent a settlement belongs to
          Kinds,          \* of the requests: settle, report, quote, payout, ...
          MaxRequests,    \* bound on the requests the API gets
          MaxFaults       \* bound on failing queries and ends of the process

VARIABLES
    settlementRows,  \* settlements: user_id by id, for the ids that have a row
    payments,        \* transactions of the anchor, by settlement
    anchorRows,      \* rows of anchor_quotes and anchor_payouts: table and settlement
    reports,         \* view_key_reports in the order of their insertion
    backups,         \* encrypted_note_backups: which payload a user's row has, 0 for no row
    activity,        \* number of user_activity rows of a user
    requests,
    acked,           \* settlements and payloads whose request was answered
    failures

tables == <<settlementRows, payments, anchorRows, reports, backups, activity>>
vars == <<tables, requests, acked, failures>>

Idle == [kind |-> "settle", user |-> Nobody, asked |-> {}, pc |-> "new", owned |-> {},
         payload |-> 0, found |-> 0, known |-> {}, code |-> 0]

Requests == 1 .. MaxRequests

Init ==
    /\ settlementRows = [s \in {} |-> Nobody]
    /\ payments = {}
    /\ anchorRows = {}
    /\ reports = << >>
    /\ backups = [u \in Users |-> 0]
    /\ activity = [u \in Users |-> 0]
    /\ requests = [r \in Requests |-> Idle]
    /\ acked = [settled |-> {}, payload |-> [u \in Users |-> 0]]
    /\ failures = 0

-----------------------------------------------------------------------------
\* A request passes its authentication, its schema and, for a settlement, the
\* gates in front of the row; what was answered before is remembered.
request(r, u, kind, asked) ==
    /\ requests[r].pc = "new" /\ \A q \in 1 .. r - 1 : requests[q].pc # "new"
    /\ kind = "settle" => \A s \in asked : OwnerOf[s] = u
    /\ kind \in {"settle", "quote", "payout", "payout_status", "compliance"} => Cardinality(asked) = 1
    /\ kind \in {"backup", "recover"} => asked = {}
    /\ requests' = [requests EXCEPT ![r] =
          [Idle EXCEPT !.kind = kind, !.user = u, !.asked = asked, !.pc = "first",
                       !.known = asked \cap acked.settled, !.payload = acked.payload[u]]]
    /\ UNCHANGED <<tables, acked, failures>>

At(r, kind, pc) == requests[r].kind = kind /\ requests[r].pc = pc
Go(r, pc) == requests' = [requests EXCEPT ![r].pc = pc]
Answer(r, code) == requests' = [requests EXCEPT ![r].pc = "done", ![r].code = code]

\* insertGeneric and getById know these tables and throw for any other.
insertable == {"proof_jobs", "withdrawals", "intents", "quotes", "quote_acceptances",
               "solver_inventory_locks", "fills", "settlements", "cctp_exits"}
readable == {"cctp_deposits", "proof_jobs", "withdrawals", "intents", "quotes", "settlements",
             "cctp_exits", "note_commitments"}

\* insert into settlements ... on conflict do nothing; the row has no user yet.
insert_settlement(r) ==
    /\ At(r, "settle", "first") /\ "settlements" \in insertable
    /\ settlementRows' = [s \in DOMAIN settlementRows \cup requests[r].asked |->
                             IF s \in DOMAIN settlementRows THEN settlementRows[s] ELSE Nobody]
    /\ Go(r, "tag")
    /\ UNCHANGED <<payments, anchorRows, reports, backups, activity, acked, failures>>

setRowUser(r) ==
    /\ At(r, "settle", "tag")
    /\ settlementRows' = [s \in DOMAIN settlementRows |->
                             IF s \in requests[r].asked THEN requests[r].user ELSE settlementRows[s]]
    /\ Go(r, "log")
    /\ UNCHANGED <<payments, anchorRows, reports, backups, activity, acked, failures>>

\* The last query of the four kinds that log, and the answer.
logActivity(r) ==
    /\ requests[r].pc = "log"
    /\ LET q == requests[r]
       IN  /\ activity' = [activity EXCEPT ![q.user] = @ + 1]
           /\ acked' = CASE q.kind = "settle" -> [acked EXCEPT !.settled = @ \cup q.asked]
                         [] q.kind = "backup" ->
                               [acked EXCEPT !.payload[q.user] = IF q.payload > @ THEN q.payload ELSE @]
                         [] OTHER -> acked
    /\ Answer(r, 200)
    /\ UNCHANGED <<settlementRows, payments, anchorRows, reports, backups, failures>>

-----------------------------------------------------------------------------
getOwnedSettlements_any(u, asked) == asked \cap DOMAIN settlementRows

\* Ids of other users and of no row are dropped.  note_commitments rows never
\* have a user, so getOwnedNoteCommitments finds nothing.
getOwnedSettlements(u, asked) == {s \in asked \cap DOMAIN settlementRows : settlementRows[s] = u}

\* The anchor's transactions of the settlements, of whomever.
getAnchorIdsForSettlements(owned) == {s \in owned : <<"anchor_payouts", s>> \in anchorRows}

\* POST /v1/reports/view-key reads what the user owns of what they ask for.
view_key_read(r) ==
    /\ At(r, "report", "first")
    /\ requests' = [requests EXCEPT ![r].owned = getOwnedSettlements(requests[r].user, requests[r].asked),
                                    ![r].pc = "store"]
    /\ UNCHANGED <<tables, acked, failures>>

\* The payload that is signed sorts its lists: it depends on what is listed.
canonicalReportPayload(report) ==
    [user |-> report.user, nullifiers |-> report.nullifiers, anchors |-> report.anchors,
     generatedAt |-> report.generatedAt]

\* An object's fields and more: { ...object, more }.
Spread(object, more) ==
    [f \in DOMAIN object \cup DOMAIN more |-> IF f \in DOMAIN more THEN more[f] ELSE object[f]]

signViewKeyReport(input, now) ==
    LET unsigned == Spread(input, [generatedAt |-> now])
    IN  Spread(unsigned, [signature |-> canonicalReportPayload(unsigned)])

\* The row has no column for generatedAt.
insertViewKeyReport(report) ==
    reports' = Append(reports, [f \in DOMAIN report \ {"generatedAt"} |-> report[f]])

\* The report is signed and stored; the answer has it too.
view_key_store(r) ==
    /\ At(r, "report", "store")
    /\ LET q == requests[r]
       IN  insertViewKeyReport(signViewKeyReport(
               [user |-> q.user, nullifiers |-> q.owned, anchors |-> getAnchorIdsForSettlements(q.owned), of |-> r], r))
    /\ Go(r, "log")
    /\ UNCHANGED <<settlementRows, payments, anchorRows, backups, activity, acked, failures>>

\* GET /v1/reports/view-key/:report_id.
getViewKeyReport(u) == {i \in DOMAIN reports : reports[i].user = u}

-----------------------------------------------------------------------------
\* proxyAnchor: the anchor gives the quote or takes the payout, or refuses, and
\* the route passes its status on.
proxyAnchor(r) ==
    /\ requests[r].kind \in {"quote", "payout"} /\ requests[r].pc = "first"
    /\ \/ /\ payments' = IF requests[r].kind = "payout" THEN payments \cup requests[r].asked ELSE payments
          /\ Go(r, "row")
       \/ UNCHANGED payments /\ Answer(r, 400)
    /\ UNCHANGED <<settlementRows, anchorRows, reports, backups, activity, acked, failures>>

\* What insertGeneric throws is swallowed by both routes.
insertAnchorRow(table, asked) ==
    anchorRows' = IF table \in insertable THEN anchorRows \cup ({table} \X asked) ELSE anchorRows

\* POST /v1/anchors/quotes answers what the anchor said.
anchors_quotes(r) ==
    /\ At(r, "quote", "row")
    /\ insertAnchorRow("anchor_quotes", requests[r].asked)
    /\ Answer(r, 200)
    /\ UNCHANGED <<settlementRows, payments, reports, backups, activity, acked, failures>>

\* POST /v1/anchors/payouts answers an id, whatever became of the row.
anchors_payouts(r) ==
    /\ At(r, "payout", "row")
    /\ insertAnchorRow("anchor_payouts", requests[r].asked)
    /\ Answer(r, 200)
    /\ UNCHANGED <<settlementRows, payments, reports, backups, activity, acked, failures>>

\* What getById finds of a payout, or its exception.
Lookup(r, found) ==
    Answer(r, IF "anchor_payouts" \notin readable THEN 500
              ELSE IF \E s \in requests[r].asked : <<"anchor_payouts", s>> \in anchorRows THEN found
              ELSE 404)

\* GET /v1/anchors/payouts/:payout_id.
payout_status(r) ==
    /\ At(r, "payout_status", "first")
    /\ Lookup(r, 200)
    /\ UNCHANGED <<tables, acked, failures>>

\* POST /v1/anchors/compliance-package, refused too without a transaction.
compliance_package(r) ==
    /\ At(r, "compliance", "first")
    /\ \E found \in {200, 400} : Lookup(r, found)
    /\ UNCHANGED <<tables, acked, failures>>

-----------------------------------------------------------------------------
\* insert ... on conflict do update: the row takes the new payload.
addNoteBackup(u) == backups' = [backups EXCEPT ![u] = @ + 1]

\* POST /v1/notes/encrypted-backup.
encrypted_backup(r) ==
    /\ At(r, "backup", "first")
    /\ addNoteBackup(requests[r].user)
    /\ requests' = [requests EXCEPT ![r].payload = backups[requests[r].user] + 1, ![r].pc = "log"]
    /\ UNCHANGED <<settlementRows, payments, anchorRows, reports, activity, acked, failures>>

\* POST /v1/notes/recover: the user's rows.
notes_recover(r) ==
    /\ At(r, "recover", "first")
    /\ requests' = [requests EXCEPT ![r].pc = "log", ![r].found = backups[requests[r].user]]
    /\ UNCHANGED <<tables, acked, failures>>

-----------------------------------------------------------------------------
InProgress(r) == requests[r].pc \notin {"new", "done"}

\* A query or the call to the anchor throws, done or not: the client gets a 500.
query_throws(r) ==
    /\ failures < MaxFaults /\ InProgress(r) /\ requests[r].pc # "row"
    /\ failures' = failures + 1
    /\ Answer(r, 500)
    /\ UNCHANGED <<tables, acked>>

\* The process ends and is started again: no request in progress is answered.
api_ends ==
    /\ failures < MaxFaults
    /\ \E r \in Requests : InProgress(r)
    /\ failures' = failures + 1
    /\ requests' = [r \in Requests |-> IF InProgress(r) THEN [requests[r] EXCEPT !.pc = "done"] ELSE requests[r]]
    /\ UNCHANGED <<tables, acked>>

Next ==
    \/ api_ends
    \/ \E r \in Requests :
          \/ \E u \in Users, kind \in Kinds, asked \in SUBSET Settlements : request(r, u, kind, asked)
          \/ insert_settlement(r) \/ setRowUser(r) \/ logActivity(r)
          \/ view_key_read(r) \/ view_key_store(r)
          \/ proxyAnchor(r) \/ anchors_quotes(r) \/ anchors_payouts(r)
          \/ payout_status(r) \/ compliance_package(r)
          \/ encrypted_backup(r) \/ notes_recover(r)
          \/ query_throws(r)

Spec == Init /\ [][Next]_vars

-----------------------------------------------------------------------------
\* POST /v1/reports/view-key and POST /v1/notes/recover: a report, answered or
\* only stored, lists settlements of its user and of nobody else; an answered one
\* lists all that were asked for and had been answered as settled before, and the
\* user finds it again with a signature over the same list; a recovery has the
\* last payload whose backup had been answered, or a later one.
RecordsAreTheUsers ==
    /\ \A i \in DOMAIN reports : \A s \in reports[i].nullifiers : settlementRows[s] = reports[i].user
    /\ \A r \in Requests :
          LET q == requests[r]
          IN  q.code = 200 =>
                /\ q.kind = "report" =>
                      /\ {s \in q.known : OwnerOf[s] = q.user} \subseteq q.owned
                      /\ \E i \in getViewKeyReport(q.user) : reports[i].of = r /\ reports[i].signature.nullifiers = q.owned
                /\ q.kind = "recover" => q.payload <= q.found
=============================================================================
