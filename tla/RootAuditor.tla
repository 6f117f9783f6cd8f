---------------------------- MODULE RootAuditor -----------------------------
(***************************************************************************)
(* The root auditor: it rebuilds the pool's leaves from events (or from    *)
(* note_commitments), recomputes the root, compares it with the pool's     *)
(* get_root, and stores a run and, for a mismatch, a finding, which the    *)
(* API takes as a reason to refuse every spend.  A root is the sequence of *)
(* the leaves under it; a step ends where runAudit or persist awaits.      *)
(***************************************************************************)
EXTENDS Integers, Sequences, FiniteSets

CONSTANTS MaxLeaves,     \* bound on the leaves; the commitment of a leaf is its number
          Kinds,         \* events that carry a new leaf: "deposit", "xfer", "mpc"
          Wrong,         \* whether the pool may come to store a wrong root
          MaxAged,       \* bound on the events that leave the RPC's window
          MaxRuns        \* bound on the audits

VARIABLES
    leaves,    \* leaves of the pool with the kind of the event that told of them
    root,      \* get_root
    aged,      \* events that are out of the window the RPC serves
    dbRows,    \* leaf indices in note_commitments
    audit,     \* the audit in progress
    runs,      \* root_audit_runs
    findings   \* root_audit_findings: the run each one belongs to

pool == <<leaves, root, aged, dbRows>>
vars == <<pool, audit, runs, findings>>

Idle == [pc |-> "idle", read |-> << >>, still |-> TRUE]

CommitmentsOf(s) == [n \in DOMAIN s |-> s[n].commitment]

Init ==
    /\ leaves = << >>
    /\ root = << >>
    /\ aged = 0
    /\ dbRows = {}
    /\ audit = Idle
    /\ runs = << >>
    /\ findings = {}

-----------------------------------------------------------------------------
\* The pool appends a leaf and computes the root over all of them; only
\* deposits announce it in a "deposit" event.
append_leaf(kind) ==
    /\ Len(leaves) < MaxLeaves
    /\ kind # "deposit" => leaves # << >>
    /\ leaves' = Append(leaves, [commitment |-> Len(leaves) + 1, kind |-> kind])
    /\ root' = CommitmentsOf(leaves')
    /\ audit' = [audit EXCEPT !.still = FALSE]
    /\ UNCHANGED <<aged, dbRows, runs, findings>>

\* What the auditor is there to find: the registrar of a pool that stores the
\* root it is given submits one over other leaves.
wrong_root ==
    /\ Wrong
    /\ root = CommitmentsOf(leaves)
    /\ root' \in {[n \in DOMAIN root |-> root[Len(root) + 1 - n]], Append(root, 0)} \ {root}
    /\ audit' = [audit EXCEPT !.still = FALSE]
    /\ UNCHANGED <<leaves, aged, dbRows, runs, findings>>

\* The oldest event leaves the window of readDepositLeavesFromEvents.
event_ages ==
    /\ aged < Len(leaves)
    /\ aged < MaxAged
    /\ aged' = aged + 1
    /\ audit' = [audit EXCEPT !.still = FALSE]
    /\ UNCHANGED <<leaves, root, dbRows, runs, findings>>

\* The inbound script stores the note of a deposit it made.
note_recorded(k) ==
    /\ k \in DOMAIN leaves \ dbRows
    /\ leaves[k].kind = "deposit"
    /\ dbRows' = dbRows \cup {k}
    /\ audit' = [audit EXCEPT !.still = FALSE]
    /\ UNCHANGED <<leaves, root, aged, runs, findings>>

-----------------------------------------------------------------------------
\* The n-th smallest of a set of indices.
Nth(ks, n) == CHOOSE k \in ks : Cardinality({m \in ks : m <= k}) = n

\* The commitments of the leaves in a set of indices, in the order of the indices.
InOrder(ks) == [n \in 1 .. Cardinality(ks) |-> leaves[Nth(ks, n)].commitment]

readDepositLeavesFromEvents_newest ==
    {k \in DOMAIN leaves : k > aged /\ k > Len(leaves) - 2 /\ leaves[k].kind = "deposit"}

\* The leaves whose "deposit" event the RPC still serves.
readDepositLeavesFromEvents == {k \in DOMAIN leaves : k > aged /\ leaves[k].kind = "deposit"}

\* The leaves recorded in note_commitments.
readLeavesFromDb == dbRows

\* runAudit up to the call of get_root: events, or the database when the events
\* give nothing.
runAudit ==
    /\ audit.pc = "idle"
    /\ Len(runs) < MaxRuns
    /\ LET events == readDepositLeavesFromEvents
           ks == IF events # {} THEN events ELSE readLeavesFromDb
       IN  audit' = [pc |-> "read", read |-> InOrder(ks), still |-> TRUE]
    /\ UNCHANGED <<pool, runs, findings>>

\* The root over all leaves read, or over the last of them alone.
compareRoots(read, onchain) ==
    IF onchain = read \/ (read # << >> /\ onchain = <<read[Len(read)]>>)
    THEN "OK" ELSE "ROOT_MISMATCH_CRITICAL"

\* get_root and compareRoots.  The result also remembers, for the properties,
\* what the pool held then and whether it stood still since the leaves were read.
readOnchainRoot ==
    /\ audit.pc = "read"
    /\ audit' = [pc |-> "persist", status |-> compareRoots(audit.read, root), still |-> audit.still,
                 right |-> root = CommitmentsOf(leaves),
                 latest |-> leaves # << >> /\ root = <<leaves[Len(leaves)].commitment>>,
                 complete |-> aged = 0 /\ \A k \in DOMAIN leaves : leaves[k].kind = "deposit"]
    /\ UNCHANGED <<pool, runs, findings>>

\* persist, first statement.
persist_run ==
    /\ audit.pc = "persist"
    /\ runs' = Append(runs, audit)
    /\ audit' = IF audit.status = "OK" THEN Idle ELSE [audit EXCEPT !.pc = "finding"]
    /\ UNCHANGED <<pool, findings>>

\* persist, second statement, for a status that is not OK.
persist_finding ==
    /\ audit.pc = "finding"
    /\ findings' = findings \cup {Len(runs)}
    /\ audit' = Idle
    /\ UNCHANGED <<pool, runs>>

\* A query fails or the process ends; the next audit starts anew.
audit_stops ==
    /\ audit.pc # "idle"
    /\ audit' = Idle
    /\ UNCHANGED <<pool, runs, findings>>

Next ==
    \/ \E kind \in Kinds : append_leaf(kind)
    \/ wrong_root
    \/ event_ages
    \/ \E k \in DOMAIN leaves : note_recorded(k)
    \/ runAudit
    \/ readOnchainRoot
    \/ persist_run
    \/ persist_finding
    \/ audit_stops

Spec == Init /\ [][Next]_vars

-----------------------------------------------------------------------------
\* The API refuses every withdrawal, transfer and intent while there is a finding;
\* nothing ever removes one.
assertRootHealthy == findings = {}

\* An audit of a pool that has only deposits, all of them still served, and that
\* stood still between the two reads, says OK exactly when the stored root is the
\* one over its leaves or over the last leaf (compareRoots); a finding that stops
\* the spends (assertRootHealthy) comes from such a run that did not, or from an
\* audit of a pool that moved, had other leaves or lost events.
AuditIsExact ==
    /\ \A n \in DOMAIN runs :
          LET r == runs[n] IN
          r.still /\ r.complete =>
              (r.status = "OK" <=> r.right \/ r.latest)
    /\ ~assertRootHealthy => \E n \in DOMAIN runs : n \in findings /\ runs[n].status # "OK"
=============================================================================
