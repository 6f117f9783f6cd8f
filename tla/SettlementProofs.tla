-------------------------- MODULE SettlementProofs --------------------------
(***************************************************************************)
(* What users are paid and what is settled, for any number of intents,     *)
(* quotes, notes, jobs and ledgers: the escrow contract's acceptances, the *)
(* RFQ routes' fills, the exits' transactions and the relayer's calls of   *)
(* the pool.  The parts are independent of each other.                     *)
(***************************************************************************)
EXTENDS IntentEscrow, Sequences, TLAPS

-----------------------------------------------------------------------------
(* The escrow contract. *)

\* An acceptance rests on records that exist; with TypeOK this is inductive,
\* because the registrations never replace a record.
Accepted ==
    \A i \in Intents :
        accepted[i] # None =>
            /\ intent[i] # None
            /\ acceptedAt[i] <= intent[i]
            /\ quote[accepted[i]] # None
            /\ acceptedAt[i] <= quote[accepted[i]]

EscrowInv == TypeOK /\ Accepted

\* Every record the calls of the contract leave has the type of its key.
LEMMA EscrowTypeStep ==
    TypeOK /\ [Next]_vars => TypeOK'
<1> SUFFICES ASSUME TypeOK, [Next]_vars PROVE TypeOK'
    OBVIOUS
<1> USE EscrowAssumption DEF TypeOK, Ledgers, None
<1>1. CASE initialize BY <1>1 DEF initialize
<1>2. ASSUME NEW i \in Intents, NEW e \in Ledgers, register_intent(i, e)
      PROVE TypeOK'
    BY <1>2 DEF register_intent
<1>3. ASSUME NEW q \in Quotes, NEW u \in Ledgers, register_quote(q, u)
      PROVE TypeOK'
    BY <1>3 DEF register_quote
<1>4. ASSUME NEW i \in Intents, NEW q \in Quotes, accept_quote(i, q)
      PROVE TypeOK'
    BY <1>4 DEF accept_quote
<1>5. ASSUME NEW q \in Quotes, NEW h \in Hashes, lock_solver_inventory(q, h)
      PROVE TypeOK'
    BY <1>5 DEF lock_solver_inventory
<1>6. ASSUME NEW i \in Intents, NEW h \in Hashes, mark_failed_recoverable(i, h)
      PROVE TypeOK'
    BY <1>6 DEF mark_failed_recoverable
<1>7. CASE CloseLedger BY <1>7 DEF CloseLedger
<1>8. CASE UNCHANGED vars BY <1>8 DEF vars
<1> QED BY <1>1, <1>2, <1>3, <1>4, <1>5, <1>6, <1>7, <1>8, Zenon DEF Next

\* No call moves the expiry of a registered intent or the validity of a
\* registered quote, and none replaces an acceptance.
LEMMA RecordsStay ==
    ASSUME TypeOK, [Next]_vars
    PROVE  /\ \A i \in Intents : intent[i] # None => intent'[i] = intent[i]
           /\ \A q \in Quotes : quote[q] # None => quote'[q] = quote[q]
           /\ \A i \in Intents : accepted[i] # None =>
                  accepted'[i] = accepted[i] /\ acceptedAt'[i] = acceptedAt[i]
<1> USE DEF TypeOK
<1>1. CASE initialize BY <1>1 DEF initialize
<1>2. CASE \E i \in Intents, e \in Ledgers : register_intent(i, e)
    BY <1>2 DEF register_intent
<1>3. CASE \E q \in Quotes, u \in Ledgers : register_quote(q, u)
    BY <1>3 DEF register_quote
<1>4. CASE \E i \in Intents, q \in Quotes : accept_quote(i, q)
    BY <1>4 DEF accept_quote
<1>5. CASE \E q \in Quotes, h \in Hashes : lock_solver_inventory(q, h)
    BY <1>5 DEF lock_solver_inventory
<1>6. CASE \E i \in Intents, h \in Hashes : mark_failed_recoverable(i, h)
    BY <1>6 DEF mark_failed_recoverable
<1>7. CASE CloseLedger BY <1>7 DEF CloseLedger
<1>8. CASE UNCHANGED vars BY <1>8 DEF vars
<1> QED BY <1>1, <1>2, <1>3, <1>4, <1>5, <1>6, <1>7, <1>8 DEF Next

\* A new acceptance is one accept_quote has checked against both expiries.
LEMMA NewAcceptanceIsChecked ==
    ASSUME TypeOK, [Next]_vars, NEW i \in Intents,
           accepted[i] = None, accepted'[i] # None
    PROVE  /\ accepted'[i] \in Quotes
           /\ acceptedAt'[i] = ledger
           /\ intent[i] # None /\ ledger <= intent[i]
           /\ quote[accepted'[i]] # None /\ ledger <= quote[accepted'[i]]
<1>1. PICK q \in Quotes : accept_quote(i, q)
    <2>1. CASE \E j \in Intents, q \in Quotes : accept_quote(j, q)
        BY <2>1, Zenon DEF accept_quote, TypeOK
    <2>2. CASE accepted' = accepted
        BY <2>2
    <2> QED
        BY <2>1, <2>2 DEF Next, vars, initialize, register_intent, register_quote,
           lock_solver_inventory, mark_failed_recoverable, CloseLedger
<1> QED BY <1>1 DEF accept_quote, TypeOK

\* The inductive step for the acceptances.
LEMMA AcceptedStep ==
    EscrowInv /\ [Next]_vars => Accepted'
<1> SUFFICES ASSUME TypeOK, Accepted, [Next]_vars, NEW i \in Intents,
                    accepted'[i] # None
             PROVE  /\ intent'[i] # None
                    /\ acceptedAt'[i] <= intent'[i]
                    /\ quote'[accepted'[i]] # None
                    /\ acceptedAt'[i] <= quote'[accepted'[i]]
    BY DEF EscrowInv, Accepted, None
<1>1. CASE accepted[i] = None
    BY <1>1, NewAcceptanceIsChecked, RecordsStay
<1>2. CASE accepted[i] # None
    <2>1. accepted[i] \in Quotes
        BY <1>2 DEF TypeOK
    <2> QED BY <1>2, <2>1, RecordsStay DEF Accepted
<1> QED BY <1>1, <1>2

\* Type correctness and the acceptances' records hold in every reachable state
\* of the contract.
THEOREM EscrowInvariant == Spec => []EscrowInv
<1>1. Init => EscrowInv
    <2> SUFFICES ASSUME Init PROVE EscrowInv
        OBVIOUS
    <2>1. 0 \in Ledgers
        BY EscrowAssumption DEF Ledgers
    <2>2. TypeOK
        BY <2>1, Zenon DEF Init, TypeOK
    <2>3. Accepted
        BY DEF Init, Accepted
    <2> QED BY <2>2, <2>3 DEF EscrowInv
<1>2. EscrowInv /\ [Next]_vars => EscrowInv'
    BY EscrowTypeStep, AcceptedStep DEF EscrowInv
<1> QED BY <1>1, <1>2, PTL DEF Spec

\* accept_quote: what is accepted was valid when it was accepted, for every set
\* of intents and quotes and every ledger.
THEOREM EscrowAcceptedBeforeExpiry == Spec => []AcceptedBeforeExpiry
<1>1. EscrowInv => AcceptedBeforeExpiry
    BY DEF EscrowInv, Accepted, AcceptedBeforeExpiry
<1> QED BY <1>1, EscrowInvariant, PTL

\* accept_quote: the acceptance of an intent never changes again.
THEOREM EscrowAcceptanceIsFinal == Spec => AcceptanceIsFinal
<1>1. EscrowInv /\ [Next]_vars =>
        [\A i \in Intents : accepted[i] # None => accepted'[i] = accepted[i]]_vars
    BY RecordsStay DEF EscrowInv
<1> QED BY <1>1, EscrowInvariant, PTL DEF Spec, AcceptanceIsFinal

-----------------------------------------------------------------------------
(* The relayer's calls. *)

CONSTANTS Jobs, TypeOf, NotesOf, Outputs, Witnessed, Retries, MaxAttempts, MaxLeaves, MaxFaults

VARIABLES operator, leaves, noteRows, spent, burns, landed, jobs, faults

Relay == INSTANCE RelayerSubmits

\* What can become a leaf: an output of a job, or the note of another deposit.
OfJobs == UNION {{Outputs[j][n] : n \in DOMAIN Outputs[j]} : j \in Jobs}
OfOthers == {<<"other", n>> : n \in Nat}
Commitments == OfJobs \cup OfOthers

\* The calls as the contract has them: register_note appends a commitment, and
\* the other calls spend at least one note.
RelayConstants ==
    /\ \A j \in Jobs : Outputs[j] \in Seq(Commitments)
    /\ \A j \in Jobs : IF Relay!Inbound(j) THEN Outputs[j] # << >> ELSE NotesOf[j] # {}

\* A row has these five columns.
Row(r) == DOMAIN r = {"status", "attempts", "tries", "root", "proof"}

RelayTypeOK ==
    /\ leaves \in Seq(Commitments)
    /\ burns \in [Jobs -> Nat] /\ landed \in [Jobs -> Nat]
    /\ DOMAIN jobs = Jobs
    /\ \A j \in Jobs : Row(jobs[j]) /\ (Relay!Inbound(j) => jobs[j].root \in Seq(Commitments))

\* A call that landed: its notes are spent, the root of a deposit's is under the
\* tree, and the deposit was burned for; a job that has its call before it has a
\* burn behind it, and only matches are proved.
RelayJob(j) ==
    /\ landed[j] <= 1
    /\ landed[j] = 1 => NotesOf[j] \subseteq spent /\ jobs[j].status # "none"
    /\ landed[j] = 1 /\ Relay!Inbound(j) => Len(jobs[j].root) <= Len(leaves) /\ burns[j] >= 1
    /\ jobs[j].status = "ready" => landed[j] = 1
    /\ Relay!Inbound(j) /\ jobs[j].status \in {"minting", "submitting"} => burns[j] >= 1
    /\ jobs[j].status \in {"verified_signatures", "proof_ready"} => ~Relay!Inbound(j)

SpentApart ==
    \A i, j \in Jobs : landed[i] = 1 /\ landed[j] = 1 /\ i # j => NotesOf[i] \cap NotesOf[j] = {}

RelayInv == RelayTypeOK /\ (\A j \in Jobs : RelayJob(j)) /\ SpentApart

\* A step of job j that leaves the pool alone.
Moves(j) ==
    /\ UNCHANGED <<leaves, spent, landed>> /\ burns' \in [Jobs -> Nat]
    /\ DOMAIN jobs' = Jobs /\ Row(jobs'[j]) /\ (Relay!Inbound(j) => jobs'[j].root \in Seq(Commitments))
    /\ \A k \in Jobs : k # j => jobs'[k] = jobs[k]
    /\ \A k \in Jobs : burns'[k] >= burns[k]

\* No job, burn or landed call at first.
LEMMA RelayInit == RelayConstants /\ Relay!Init => RelayInv
<1> SUFFICES ASSUME RelayConstants, Relay!Init PROVE RelayInv
    OBVIOUS
<1>1. RelayTypeOK
    <2>1. << >> \in Seq(Commitments)
        OBVIOUS
    <2>2. DOMAIN jobs = Jobs /\ \A j \in Jobs : Row(jobs[j])
        BY Zenon DEF Relay!Init, Row
    <2>3. \A j \in Jobs : jobs[j].root = << >>
        BY DEF Relay!Init
    <2> QED BY <2>1, <2>2, <2>3, Zenon DEF Relay!Init, RelayTypeOK
<1>2. \A j \in Jobs : RelayJob(j)
    BY DEF Relay!Init, RelayJob
<1>3. SpentApart
    BY DEF Relay!Init, SpentApart
<1> QED BY <1>1, <1>2, <1>3 DEF RelayInv

\* Such a step preserves the invariant if it preserves what it says of j.
LEMMA RelayMoves ==
    ASSUME RelayInv, NEW j \in Jobs, Moves(j), RelayJob(j)'
    PROVE  RelayInv'
<1>1. RelayTypeOK'
    BY Zenon DEF RelayInv, RelayTypeOK, Moves, Row
<1>2. ASSUME NEW k \in Jobs, k # j PROVE RelayJob(k)'
    <2>1. RelayJob(k)
        BY DEF RelayInv
    <2>2. jobs'[k] = jobs[k] /\ landed'[k] = landed[k] /\ burns'[k] >= burns[k]
        BY <1>2, Zenon DEF Moves
    <2>3. burns[k] \in Nat /\ burns'[k] \in Nat
        BY DEF RelayInv, RelayTypeOK, Moves
    <2>4. leaves' = leaves /\ spent' = spent
        BY DEF Moves
    <2>5. burns[k] >= 1 => burns'[k] >= 1
        BY <2>2, <2>3
    <2> QED BY <2>1, <2>2, <2>4, <2>5, Zenon DEF RelayJob, Relay!Inbound
<1>3. SpentApart'
    BY DEF RelayInv, SpentApart, Moves
<1> QED BY <1>1, <1>2, <1>3 DEF RelayInv

\* Row j gets status s, keeps its root, and is the only one that changes.
Becomes(j, s) ==
    /\ DOMAIN jobs' = Jobs /\ Row(jobs'[j])
    /\ \A k \in Jobs : k # j => jobs'[k] = jobs[k]
    /\ jobs'[j].status = s /\ jobs'[j].root = jobs[j].root

\* The ways a handler changes its row give it a status and leave its root.
LEMMA RowExcept ==
    ASSUME RelayTypeOK, NEW j \in Jobs, NEW s, NEW a, NEW t, NEW p
    PROVE  /\ jobs' = [jobs EXCEPT ![j].status = s] => Becomes(j, s)
           /\ jobs' = [jobs EXCEPT ![j].status = s, ![j].attempts = a, ![j].tries = t] => Becomes(j, s)
           /\ jobs' = [jobs EXCEPT ![j].status = s, ![j].proof = p] => Becomes(j, s)
           /\ jobs' = [jobs EXCEPT ![j].tries = t] => Becomes(j, jobs[j].status)
<1>1. DOMAIN jobs = Jobs /\ Row(jobs[j])
    BY DEF RelayTypeOK
<1>2. ASSUME jobs' = [jobs EXCEPT ![j].status = s] PROVE Becomes(j, s)
    BY <1>1, <1>2 DEF Row, Becomes
<1>3. ASSUME jobs' = [jobs EXCEPT ![j].status = s, ![j].attempts = a, ![j].tries = t] PROVE Becomes(j, s)
    BY <1>1, <1>3 DEF Row, Becomes
<1>4. ASSUME jobs' = [jobs EXCEPT ![j].status = s, ![j].proof = p] PROVE Becomes(j, s)
    BY <1>1, <1>4 DEF Row, Becomes
<1>5. ASSUME jobs' = [jobs EXCEPT ![j].tries = t] PROVE Becomes(j, jobs[j].status)
    BY <1>1, <1>5 DEF Row, Becomes
<1> QED BY <1>2, <1>3, <1>4, <1>5

\* A job whose row keeps its root, and whose status becomes one that promises
\* nothing, or one whose promise is kept.
LEMMA RelayBecomes ==
    ASSUME RelayInv, NEW j \in Jobs, NEW s, Becomes(j, s),
           UNCHANGED <<leaves, spent, landed>>, burns' \in [Jobs -> Nat],
           \A k \in Jobs : burns'[k] >= burns[k],
           s \notin {"none", "ready"},
           Relay!Inbound(j) /\ s \in {"minting", "submitting"} => burns'[j] >= 1,
           s \in {"verified_signatures", "proof_ready"} => ~Relay!Inbound(j)
    PROVE  RelayInv'
<1>1. Moves(j)
    BY Zenon DEF Moves, Becomes, RelayInv, RelayTypeOK
<1>2. RelayJob(j)'
    <2>1. RelayJob(j) /\ burns[j] \in Nat /\ burns'[j] \in Nat /\ burns'[j] >= burns[j]
        BY DEF RelayInv, RelayTypeOK
    <2>2. burns[j] >= 1 => burns'[j] >= 1
        BY <2>1
    <2> QED BY <2>1, <2>2, Zenon DEF RelayJob, Relay!Inbound, Becomes
<1> QED BY <1>1, <1>2, RelayMoves

\* The pool takes a call only of a job none of whose calls it took: another of a
\* deposit would have to arrive at a root the tree has passed, and another of a
\* settlement would spend its notes twice.
LEMMA RelayTakesOnce ==
    ASSUME RelayConstants, RelayInv, NEW j \in Jobs, Relay!Accepts(j)
    PROVE  landed[j] = 0
<1>1. RelayJob(j) /\ landed[j] \in Nat /\ leaves \in Seq(Commitments) /\ Outputs[j] \in Seq(Commitments)
    BY DEF RelayInv, RelayTypeOK, RelayConstants
<1>2. CASE Relay!Inbound(j)
    <2>1. Outputs[j] # << >>
        BY <1>2 DEF RelayConstants
    <2>2. jobs[j].root = leaves \o Outputs[j]
        BY <2>1 DEF Relay!Accepts
    <2>3. Len(jobs[j].root) = Len(leaves) + Len(Outputs[j]) /\ Len(Outputs[j]) > 0
        BY <1>1, <2>1, <2>2
    <2>4. Len(leaves) \in Nat /\ Len(Outputs[j]) \in Nat
        BY <1>1
    <2> QED BY <1>1, <1>2, <2>3, <2>4 DEF RelayJob
<1>3. CASE ~Relay!Inbound(j)
    <2>1. NotesOf[j] # {}
        BY <1>3 DEF RelayConstants
    <2>2. ~(NotesOf[j] \subseteq spent)
        BY <2>1 DEF Relay!Accepts
    <2> QED BY <1>1, <2>2 DEF RelayJob
<1> QED BY <1>2, <1>3

\* What adding one to a count does.
LEMMA OneMore ==
    ASSUME NEW S, NEW f \in [S -> Nat], NEW x \in S, NEW g, g = [f EXCEPT ![x] = @ + 1]
    PROVE  g \in [S -> Nat] /\ g[x] = f[x] + 1 /\ \A y \in S : y # x => g[y] = f[y]
    OBVIOUS

\* A call that lands, whatever the relayer then makes of it: it was "submitting",
\* and becomes ready or anything that is none of the job's promises.
LEMMA RelayLands ==
    ASSUME RelayConstants, RelayInv, NEW j \in Jobs, NEW s, Relay!Accepts(j), Relay!Land(j), Becomes(j, s),
           jobs[j].status = "submitting", s \notin {"none", "minting", "verified_signatures", "proof_ready"}
    PROVE  RelayInv'
<1>1. landed[j] = 0
    BY RelayTakesOnce
<1>2. leaves \in Seq(Commitments) /\ Outputs[j] \in Seq(Commitments)
    BY DEF RelayInv, RelayTypeOK, RelayConstants
<1>3. /\ landed \in [Jobs -> Nat] /\ landed' = [landed EXCEPT ![j] = @ + 1]
      /\ leaves' = leaves \o Outputs[j] /\ spent' = spent \cup NotesOf[j] /\ burns' = burns
    BY Zenon DEF RelayInv, RelayTypeOK, Relay!Land
<1>4. landed' \in [Jobs -> Nat] /\ landed'[j] = 1 /\ \A k \in Jobs : k # j => landed'[k] = landed[k]
    <2>1. /\ landed' \in [Jobs -> Nat] /\ landed'[j] = landed[j] + 1
          /\ \A k \in Jobs : k # j => landed'[k] = landed[k]
        BY <1>3, OneMore
    <2>2. landed[j] + 1 = 1
        BY <1>1
    <2> QED BY <2>1, <2>2, Zenon
<1>5. leaves' \in Seq(Commitments) /\ Len(leaves') = Len(leaves) + Len(Outputs[j])
    BY <1>2, <1>3
<1>6. Len(leaves) \in Nat /\ Len(Outputs[j]) \in Nat
    BY <1>2
<1>7. RelayTypeOK'
    BY <1>3, <1>4, <1>5, Zenon DEF RelayInv, RelayTypeOK, Becomes, Row
<1>8. RelayJob(j)'
    <2>1. RelayJob(j) /\ burns[j] \in Nat
        BY DEF RelayInv, RelayTypeOK
    <2>2. Relay!Inbound(j) => jobs[j].root = leaves \o Outputs[j] /\ burns[j] >= 1
        BY <2>1, Zenon DEF RelayConstants, Relay!Accepts, RelayJob
    <2>3. Relay!Inbound(j) => Len(jobs'[j].root) <= Len(leaves')
        <3>1. Relay!Inbound(j) => jobs'[j].root = leaves'
            BY <1>3, <2>2, Zenon DEF Becomes
        <3>2. Len(leaves') <= Len(leaves')
            BY <1>5, <1>6
        <3> QED BY <3>1, <3>2, Zenon
    <2>4. jobs'[j].status = s
        BY Zenon DEF Becomes
    <2>5. landed'[j] <= 1 /\ NotesOf[j] \subseteq spent'
        BY <1>3, <1>4
    <2> QED BY <1>3, <1>4, <2>2, <2>3, <2>4, <2>5, Zenon DEF RelayJob, Relay!Inbound
<1>9. ASSUME NEW k \in Jobs, k # j PROVE RelayJob(k)'
    <2>1. RelayJob(k)
        BY DEF RelayInv
    <2>2. jobs'[k] = jobs[k] /\ landed'[k] = landed[k] /\ burns'[k] = burns[k]
        BY <1>3, <1>4, <1>9, Zenon DEF Becomes
    <2>3. spent \subseteq spent'
        BY <1>3
    <2>4. landed[k] = 1 /\ Relay!Inbound(k) => Len(jobs[k].root) <= Len(leaves)
        BY <2>1, Zenon DEF RelayJob
    <2>5. landed[k] = 1 /\ Relay!Inbound(k) => Len(jobs[k].root) <= Len(leaves')
        <3>1. SUFFICES ASSUME landed[k] = 1, Relay!Inbound(k) PROVE Len(jobs[k].root) <= Len(leaves')
            OBVIOUS
        <3>2. jobs[k].root \in Seq(Commitments)
            BY <3>1 DEF RelayInv, RelayTypeOK
        <3>3. Len(jobs[k].root) \in Nat /\ Len(leaves') \in Nat /\ Len(leaves) <= Len(leaves')
            BY <1>5, <1>6, <3>2
        <3>4. Len(jobs[k].root) <= Len(leaves)
            BY <2>4, <3>1, Zenon
        <3> QED BY <1>6, <3>3, <3>4
    <2> QED BY <2>1, <2>2, <2>3, <2>5, Zenon DEF RelayJob, Relay!Inbound
<1>10. SpentApart'
    <2>1. \A k \in Jobs : k # j /\ landed[k] = 1 => NotesOf[k] \cap NotesOf[j] = {}
        BY Zenon DEF RelayInv, RelayJob, Relay!Accepts
    <2> QED BY <1>4, <2>1 DEF RelayInv, SpentApart
<1> QED BY <1>7, <1>8, <1>9, <1>10 DEF RelayInv

\* A failed step leaves its row failed or to be retried.
LEMMA RelayFails ==
    ASSUME RelayTypeOK, NEW j \in Jobs, Relay!Fail(j)
    PROVE  \E s \in {"failed", "failed_retry"} : Becomes(j, s)
<1>1. CASE jobs[j].attempts >= MaxAttempts
    BY <1>1, RowExcept, Zenon DEF Relay!Fail, Relay!Become
<1>2. CASE ~(jobs[j].attempts >= MaxAttempts)
    BY <1>2, RowExcept, Zenon DEF Relay!Fail, Relay!Become
<1> QED BY <1>1, <1>2

\* A step that fails and leaves the pool alone preserves the invariant.
LEMMA RelayFailed ==
    ASSUME RelayInv, NEW j \in Jobs, Relay!Fail(j), UNCHANGED Relay!pool
    PROVE  RelayInv'
<1>1. PICK s \in {"failed", "failed_retry"} : Becomes(j, s)
    BY RelayFails DEF RelayInv
<1>2. UNCHANGED <<leaves, spent, landed, burns>>
    BY DEF Relay!pool
<1>3. burns' \in [Jobs -> Nat] /\ \A k \in Jobs : burns'[k] >= burns[k]
    BY <1>2 DEF RelayInv, RelayTypeOK
<1>4. s \notin {"none", "ready", "minting", "submitting", "verified_signatures", "proof_ready"}
    BY <1>1
<1> QED BY <1>1, <1>2, <1>3, <1>4, RelayBecomes

\* So does one that only gives the row another status.
LEMMA RelayRuns ==
    ASSUME RelayInv, NEW j \in Jobs, NEW s, Becomes(j, s), UNCHANGED Relay!pool,
           s \notin {"none", "ready"},
           Relay!Inbound(j) /\ s \in {"minting", "submitting"} => jobs[j].status \in {"minting", "submitting"},
           s \in {"verified_signatures", "proof_ready"} => ~Relay!Inbound(j)
    PROVE  RelayInv'
<1>1. UNCHANGED <<leaves, spent, landed, burns>>
    BY DEF Relay!pool
<1>2. burns' \in [Jobs -> Nat] /\ \A k \in Jobs : burns'[k] >= burns[k]
    BY <1>1 DEF RelayInv, RelayTypeOK
<1>3. RelayJob(j)
    BY DEF RelayInv
<1>4. Relay!Inbound(j) /\ s \in {"minting", "submitting"} => burns'[j] >= 1
    BY <1>1, <1>3, Zenon DEF RelayJob
<1> QED BY <1>1, <1>2, <1>4, RelayBecomes, Zenon

\* A job is enqueued with the root it is to arrive at.
LEMMA RelayEnqueues ==
    ASSUME RelayConstants, RelayInv, NEW j \in Jobs, Relay!enqueue(j)
    PROVE  RelayInv'
<1>1. DOMAIN jobs = Jobs /\ Row(jobs[j]) /\ leaves \in Seq(Commitments) /\ Outputs[j] \in Seq(Commitments)
    BY DEF RelayInv, RelayTypeOK, RelayConstants
<1>2. leaves \o Outputs[j] \in Seq(Commitments)
    BY <1>1
<1>3. /\ jobs' = [jobs EXCEPT ![j].status = "queued",
                              ![j].root = IF Relay!Inbound(j) THEN leaves \o Outputs[j] ELSE << >>]
      /\ jobs[j].status = "none" /\ UNCHANGED <<leaves, spent, landed, burns>>
    BY DEF Relay!enqueue, Relay!pool
<1>4. DOMAIN jobs' = Jobs /\ Row(jobs'[j]) /\ jobs'[j].status = "queued"
    BY <1>1, <1>3 DEF Row
<1>5. Relay!Inbound(j) => jobs'[j].root = leaves \o Outputs[j]
    BY <1>1, <1>3 DEF Row
<1>6. \A k \in Jobs : k # j => jobs'[k] = jobs[k]
    BY <1>1, <1>3
<1>7. Moves(j)
    BY <1>2, <1>3, <1>4, <1>5, <1>6 DEF Moves, RelayInv, RelayTypeOK
<1>8. landed[j] # 1 /\ landed[j] \in Nat /\ landed[j] <= 1
    BY <1>3 DEF RelayInv, RelayTypeOK, RelayJob
<1>9. RelayJob(j)'
    BY <1>3, <1>4, <1>8 DEF RelayJob
<1> QED BY <1>7, <1>9, RelayMoves

\* The root of a settlement is computed only before its call.
LEMMA RelayComputes ==
    ASSUME RelayInv, NEW j \in Jobs, Relay!computeMpcRoot(j)
    PROVE  RelayInv'
<1>1. DOMAIN jobs = Jobs /\ Row(jobs[j]) /\ RelayJob(j)
    BY DEF RelayInv, RelayTypeOK
<1>2. ~Relay!Inbound(j) /\ jobs[j].status = "proof_ready" /\ UNCHANGED <<leaves, spent, landed, burns>>
    BY <1>1 DEF Relay!computeMpcRoot, RelayJob, Relay!pool
<1>3. PICK root : jobs' = [jobs EXCEPT ![j].status = "submitting", ![j].root = root]
    BY Zenon DEF Relay!computeMpcRoot
<1>4. /\ DOMAIN jobs' = Jobs /\ Row(jobs'[j]) /\ jobs'[j].status = "submitting"
      /\ \A k \in Jobs : k # j => jobs'[k] = jobs[k]
    BY <1>1, <1>3 DEF Row
<1>5. Moves(j)
    <2>1. burns' \in [Jobs -> Nat] /\ \A k \in Jobs : burns'[k] >= burns[k]
        BY <1>2 DEF RelayInv, RelayTypeOK
    <2> QED BY <1>2, <1>4, <2>1, Zenon DEF Moves
<1>6. RelayJob(j)'
    BY <1>1, <1>2, <1>4, Zenon DEF RelayJob, Relay!Inbound
<1> QED BY <1>5, <1>6, RelayMoves

\* A call is answered: it lands and the job is ready, or it reverts.
LEMMA RelayAnswers ==
    ASSUME RelayConstants, RelayInv, NEW j \in Jobs, Relay!invoke_answered(j)
    PROVE  RelayInv'
<1>1. CASE Relay!Accepts(j)
    <2>1. Relay!Land(j) /\ jobs' = [jobs EXCEPT ![j].status = "ready"] /\ jobs[j].status = "submitting"
        BY <1>1 DEF Relay!invoke_answered, Relay!Become
    <2>2. Becomes(j, "ready")
        BY <2>1, RowExcept, Zenon DEF RelayInv
    <2> QED BY <1>1, <2>1, <2>2, RelayLands
<1>2. CASE ~Relay!Accepts(j)
    BY <1>2, RelayFailed, Zenon DEF Relay!invoke_answered
<1> QED BY <1>1, <1>2

\* The answer is lost: the call may have landed, and is repeated or given up.
LEMMA RelayLosesAnswer ==
    ASSUME RelayConstants, RelayInv, NEW j \in Jobs, Relay!invoke_lost(j)
    PROVE  RelayInv'
<1>1. jobs[j].status = "submitting"
    BY DEF Relay!invoke_lost
<1>2. PICK s \in {"failed", "failed_retry", "submitting"} : Becomes(j, s)
    <2>1. CASE jobs[j].tries + 1 < Retries
        <3>1. jobs' = [jobs EXCEPT ![j].tries = jobs[j].tries + 1]
            BY <2>1 DEF Relay!invoke_lost, RelayInv, RelayTypeOK, Row
        <3> QED BY <1>1, <3>1, RowExcept, Zenon DEF RelayInv
    <2>2. CASE ~(jobs[j].tries + 1 < Retries)
        BY <2>2, RelayFails DEF Relay!invoke_lost, RelayInv
    <2> QED BY <2>1, <2>2
<1>3. CASE Relay!Accepts(j) /\ Relay!Land(j)
    <2>1. s \notin {"none", "minting", "verified_signatures", "proof_ready"}
        BY <1>2
    <2> QED BY <1>1, <1>2, <1>3, <2>1, RelayLands
<1>4. CASE UNCHANGED Relay!pool
    <2>1. s \notin {"none", "ready", "verified_signatures", "proof_ready"}
        BY <1>2
    <2> QED BY <1>1, <1>2, <1>4, <2>1, RelayRuns
<1> QED BY <1>3, <1>4 DEF Relay!invoke_lost

\* Another deposit only lengthens the tree.
LEMMA RelayOther ==
    ASSUME RelayInv, Relay!other_deposit
    PROVE  RelayInv'
<1>1. leaves \in Seq(Commitments) /\ Len(leaves) \in Nat
    BY DEF RelayInv, RelayTypeOK
<1>2. <<"other", Len(leaves) + 1>> \in Commitments
    <2>1. Len(leaves) + 1 \in Nat
        BY <1>1
    <2>2. <<"other", Len(leaves) + 1>> \in OfOthers
        BY <2>1 DEF OfOthers
    <2> QED BY <2>2 DEF Commitments
<1>3. leaves' = Append(leaves, <<"other", Len(leaves) + 1>>) /\ UNCHANGED <<spent, burns, landed, jobs>>
    BY DEF Relay!other_deposit
<1>4. leaves' \in Seq(Commitments) /\ Len(leaves') = Len(leaves) + 1
    BY <1>1, <1>2, <1>3
<1>5. RelayTypeOK'
    BY <1>3, <1>4 DEF RelayInv, RelayTypeOK, Relay!Inbound
<1>6. ASSUME NEW k \in Jobs PROVE RelayJob(k)'
    <2>1. RelayJob(k) /\ (Relay!Inbound(k) => jobs[k].root \in Seq(Commitments))
        BY DEF RelayInv, RelayTypeOK
    <2>2. Relay!Inbound(k) /\ Len(jobs[k].root) <= Len(leaves) => Len(jobs[k].root) <= Len(leaves')
        BY <1>1, <1>4, <2>1
    <2> QED BY <1>3, <2>1, <2>2, Zenon DEF RelayJob, Relay!Inbound
<1>7. SpentApart'
    BY <1>3 DEF RelayInv, SpentApart
<1> QED BY <1>5, <1>6, <1>7 DEF RelayInv

\* The steps of a job before its call.
LEMMA RelayRunsOn ==
    ASSUME RelayInv, NEW j \in Jobs,
           \/ Relay!claimNext(j) \/ Relay!operator_inbound(j) \/ Relay!inbound_minted(j)
           \/ Relay!rfq_settle_submit(j) \/ Relay!rfq_atomic_swap_submit(j)
           \/ Relay!verify_signatures(j) \/ Relay!prove(j) \/ Relay!step_throws(j) \/ Relay!relayer_killed(j)
    PROVE  RelayInv'
<1>1. RelayTypeOK /\ DOMAIN jobs = Jobs /\ Row(jobs[j]) /\ RelayJob(j)
    BY DEF RelayInv, RelayTypeOK
<1>2. CASE Relay!claimNext(j)
    <2>1. jobs' = [jobs EXCEPT ![j].status = "claimed", ![j].attempts = jobs[j].attempts + 1, ![j].tries = 0]
        BY <1>1, <1>2 DEF Relay!claimNext, Row
    <2>2. Becomes(j, "claimed")
        BY <1>1, <2>1, RowExcept, Zenon
    <2> QED BY <1>2, <2>2, RelayRuns DEF Relay!claimNext
<1>3. CASE Relay!operator_inbound(j)
    <2>1. CASE operator
        <3>1. Becomes(j, "minting")
            BY <1>1, <1>3, <2>1, RowExcept, Zenon DEF Relay!operator_inbound, Relay!Become
        <3>2. UNCHANGED <<leaves, spent, landed>> /\ burns' = [burns EXCEPT ![j] = @ + 1] /\ burns \in [Jobs -> Nat]
            BY <1>3, <2>1, Zenon DEF Relay!operator_inbound, RelayInv, RelayTypeOK
        <3>3. burns' \in [Jobs -> Nat] /\ burns'[j] >= 1 /\ \A k \in Jobs : burns'[k] >= burns[k]
            BY <3>2
        <3> QED BY <3>1, <3>2, <3>3, RelayBecomes
    <2>2. CASE ~operator
        BY <1>3, <2>2, RelayFailed, Zenon DEF Relay!operator_inbound, Relay!pool
    <2> QED BY <2>1, <2>2
<1>4. CASE Relay!inbound_minted(j)
    <2>1. Becomes(j, "submitting")
        BY <1>1, <1>4, RowExcept, Zenon DEF Relay!inbound_minted, Relay!Become
    <2> QED BY <1>4, <2>1, RelayRuns, Zenon DEF Relay!inbound_minted
<1>5. CASE Relay!rfq_settle_submit(j) \/ Relay!rfq_atomic_swap_submit(j)
    <2>1. Becomes(j, "submitting")
        BY <1>1, <1>5, RowExcept, Zenon DEF Relay!rfq_settle_submit, Relay!rfq_atomic_swap_submit,
           Relay!Become
    <2>2. ~Relay!Inbound(j)
        BY <1>5, Zenon DEF Relay!rfq_settle_submit, Relay!rfq_atomic_swap_submit, Relay!Inbound,
           Relay!INBOUND_ALIASES
    <2> QED BY <1>5, <2>1, <2>2, RelayRuns, Zenon DEF Relay!rfq_settle_submit, Relay!rfq_atomic_swap_submit
<1>6. CASE Relay!verify_signatures(j)
    <2>1. Becomes(j, "verified_signatures")
        BY <1>1, <1>6, RowExcept, Zenon DEF Relay!verify_signatures, Relay!Become
    <2>2. ~Relay!Inbound(j)
        BY <1>6, Zenon DEF Relay!verify_signatures, Relay!Inbound, Relay!INBOUND_ALIASES
    <2> QED BY <1>6, <2>1, <2>2, RelayRuns, Zenon DEF Relay!verify_signatures
<1>7. CASE Relay!prove(j)
    <2>1. ~Relay!Inbound(j) /\ UNCHANGED Relay!pool
        BY <1>1, <1>7 DEF Relay!prove, RelayJob
    <2>2. CASE Relay!Fail(j)
        BY <2>1, <2>2, RelayFailed
    <2>3. CASE jobs' = [jobs EXCEPT ![j].status = "proof_ready", ![j].proof = Relay!RowLeaves]
        <3>1. Becomes(j, "proof_ready")
            BY <1>1, <2>3, RowExcept, Zenon
        <3> QED BY <2>1, <3>1, RelayRuns, Zenon
    <2> QED BY <1>7, <2>2, <2>3 DEF Relay!prove
<1>8. CASE Relay!step_throws(j)
    BY <1>8, RelayFailed, Zenon DEF Relay!step_throws
<1>9. CASE Relay!relayer_killed(j)
    <2>1. Becomes(j, "abandoned")
        BY <1>1, <1>9, RowExcept, Zenon DEF Relay!relayer_killed, Relay!Become
    <2> QED BY <1>9, <2>1, RelayRuns, Zenon DEF Relay!relayer_killed
<1> QED BY <1>2, <1>3, <1>4, <1>5, <1>6, <1>7, <1>8, <1>9

\* Every step preserves it.
LEMMA RelayStep == RelayConstants /\ RelayInv /\ [Relay!Next]_Relay!vars => RelayInv'
<1> SUFFICES ASSUME RelayConstants, RelayInv, [Relay!Next]_Relay!vars PROVE RelayInv'
    OBVIOUS
<1>1. CASE UNCHANGED Relay!vars
    <2>1. UNCHANGED <<leaves, spent, landed, burns, jobs>>
        BY <1>1 DEF Relay!vars, Relay!pool
    <2> QED BY <2>1, Zenon DEF RelayInv, RelayTypeOK, RelayJob, SpentApart, Relay!Inbound
<1>2. CASE Relay!other_deposit
    BY <1>2, RelayOther
<1>3. ASSUME NEW j \in Jobs,
             \/ Relay!enqueue(j) \/ Relay!claimNext(j)
             \/ Relay!operator_inbound(j) \/ Relay!inbound_minted(j)
             \/ Relay!rfq_settle_submit(j) \/ Relay!rfq_atomic_swap_submit(j)
             \/ Relay!verify_signatures(j) \/ Relay!prove(j) \/ Relay!computeMpcRoot(j)
             \/ Relay!invoke_answered(j) \/ Relay!invoke_lost(j)
             \/ Relay!step_throws(j) \/ Relay!relayer_killed(j)
      PROVE  RelayInv'
    BY <1>3, RelayEnqueues, RelayRunsOn, RelayComputes, RelayAnswers, RelayLosesAnswer
<1> QED BY <1>1, <1>2, <1>3 DEF Relay!Next

\* A call lands at most once, after its burn, and a job is ready only then.
THEOREM RelayInvariant ==
    ASSUME RelayConstants PROVE Relay!Spec => []RelayInv
<1>1. Relay!Init => RelayInv
    BY RelayInit
<1>2. RelayInv /\ [Relay!Next]_Relay!vars => RelayInv'
    BY RelayStep
<1> QED BY <1>1, <1>2, PTL DEF Relay!Spec

\* ReadyMeansLanded for any jobs, notes and number of tries: a job is ready only
\* when its call landed, once, and a deposit's only after its burn; no two landed
\* calls spend a note.
THEOREM RelayReadyMeansLanded ==
    ASSUME RelayConstants PROVE Relay!Spec => []Relay!ReadyMeansLanded
<1>1. RelayInv => Relay!ReadyMeansLanded
    <2> SUFFICES ASSUME RelayInv PROVE Relay!ReadyMeansLanded
        OBVIOUS
    <2>1. \A j \in Jobs : landed[j] <= 1 /\ (jobs[j].status = "ready" => landed[j] = 1)
        BY DEF RelayInv, RelayJob
    <2>2. \A i, j \in Jobs : landed[i] = 1 /\ landed[j] = 1 /\ NotesOf[i] \cap NotesOf[j] # {} => i = j
        BY DEF RelayInv, SpentApart
    <2>3. ASSUME NEW j \in Jobs, Relay!Inbound(j) PROVE landed[j] <= burns[j]
        <3>1. RelayJob(j) /\ landed[j] \in Nat /\ burns[j] \in Nat
            BY DEF RelayInv, RelayTypeOK
        <3> QED BY <2>3, <3>1 DEF RelayJob
    <2> QED BY <2>1, <2>2, <2>3, Zenon DEF Relay!ReadyMeansLanded
<1> QED BY <1>1, RelayInvariant, PTL

-----------------------------------------------------------------------------
(* The exits. *)

CONSTANTS Notes, Keys, NoKey, MaxTxs, MaxJobs

VARIABLES withdrawals, cctp_exits, txs, sequence, exited, paid, attested,
          exitJobs, asked, exitFaults

Exit == INSTANCE ExitPipeline WITH
            spent <- exited, payouts <- paid, jobs <- exitJobs, faults <- exitFaults

Tx == [note : Notes, method : {"withdraw", "withdraw_cctp"}, seq : Nat,
       state : {"signed", "pending", "SUCCESS", "FAILED", "expired"}]

\* What a job may be about: a transaction, or whether there is an attestation.
Subjects == Nat \cup BOOLEAN
JobKeys == Keys \cup {NoKey} \cup (Keys \X Notes)
JobTypes == {"WITHDRAW_PUBLIC_SUBMIT", "WITHDRAW_CCTP_BURN", "CCTP_OUTBOUND_ATTESTATION", "CCTP_OUTBOUND_MINT"}
Statuses == {"queued", "claimed", "broadcasting", "ready", "failed", "failed_retry", "abandoned"}
Results == {"none", "txHash", "complete", "pending", "submit_via_arbitrum"}
ExitJob == [type : JobTypes, key : JobKeys, about : Subjects, status : Statuses, attempts : Nat,
            result : Results]

ExitTypeOK ==
    /\ cctp_exits \subseteq Keys \X Notes
    /\ txs \in Seq(Tx)
    /\ sequence \in Nat
    /\ exited \subseteq Notes
    /\ paid \in [Notes -> Nat]
    /\ exitJobs \in Seq(ExitJob)

Paid(t) == txs[t].state = "SUCCESS"

\* A note is spent by the one transaction that was applied for it, and paid for then.
OnePayment ==
    /\ \A n \in Notes : paid[n] = IF n \in exited THEN 1 ELSE 0
    /\ \A n \in Notes : n \in exited <=> \E t \in DOMAIN txs : txs[t].note = n /\ Paid(t)
    /\ \A t, u \in DOMAIN txs : Paid(t) /\ Paid(u) /\ txs[t].note = txs[u].note => t = u

\* A job that broadcasts has a transaction, which is in a ledger once it is ready.
ReadyIsApplied ==
    \A j \in DOMAIN exitJobs :
        Exit!Broadcasts(j) => /\ exitJobs[j].about \in DOMAIN txs
                              /\ exitJobs[j].status = "ready" => Paid(exitJobs[j].about)

ExitInv == ExitTypeOK /\ OnePayment /\ ReadyIsApplied

\* No transaction, job or payment at first.
LEMMA ExitInit == Exit!Init => ExitInv
BY DEF Exit!Init, ExitInv, ExitTypeOK, OnePayment, ReadyIsApplied

\* What enqueue appends keeps the rows typed and is not ready.
LEMMA ExitEnqueues ==
    ASSUME ExitTypeOK, NEW type \in JobTypes, NEW key \in JobKeys,
           NEW about \in Subjects, Exit!enqueue(type, key, about)
    PROVE  /\ exitJobs' \in Seq(ExitJob)
           /\ \A j \in DOMAIN exitJobs' :
                 \/ j \in DOMAIN exitJobs /\ exitJobs'[j] = exitJobs[j]
                 \/ exitJobs'[j].type = type /\ exitJobs'[j].about = about /\ exitJobs'[j].status = "queued"
<1>1. CASE UNCHANGED exitJobs
    BY <1>1 DEF ExitTypeOK
<1>2. PICK r : r = [type |-> type, key |-> key, about |-> about, status |-> "queued",
                    attempts |-> 0, result |-> "none"]
    BY Zenon
<1>3. r \in ExitJob
    BY <1>2 DEF ExitJob, Statuses, Results
<1>4. CASE exitJobs' = Append(exitJobs, r)
    <2>1. exitJobs' \in Seq(ExitJob)
        BY <1>3, <1>4 DEF ExitTypeOK
    <2>2. \A j \in DOMAIN exitJobs' : (j \in DOMAIN exitJobs /\ exitJobs'[j] = exitJobs[j]) \/ exitJobs'[j] = r
        BY <1>4 DEF ExitTypeOK
    <2> QED BY <1>2, <2>1, <2>2
<1> QED BY <1>1, <1>2, <1>4 DEF Exit!enqueue

\* A step of the API's routes and of the client.
LEMMA ExitRoutes ==
    ASSUME ExitInv, NEW type \in JobTypes, NEW key \in JobKeys,
           NEW about \in Subjects, Exit!enqueue(type, key, about), UNCHANGED <<Exit!rows, Exit!chain>>,
           type \in {"WITHDRAW_PUBLIC_SUBMIT", "WITHDRAW_CCTP_BURN"} => about \in DOMAIN txs
    PROVE  ExitInv'
<1>1. /\ exitJobs' \in Seq(ExitJob)
      /\ \A j \in DOMAIN exitJobs' :
            \/ j \in DOMAIN exitJobs /\ exitJobs'[j] = exitJobs[j]
            \/ exitJobs'[j].type = type /\ exitJobs'[j].about = about /\ exitJobs'[j].status = "queued"
    BY ExitEnqueues DEF ExitInv
<1>2. UNCHANGED <<cctp_exits, txs, sequence, exited, paid>>
    BY DEF Exit!rows, Exit!chain
<1>3. ExitTypeOK' /\ OnePayment'
    BY <1>1, <1>2 DEF ExitInv, ExitTypeOK, OnePayment, Paid
<1>4. ReadyIsApplied'
    <2> SUFFICES ASSUME NEW j \in DOMAIN exitJobs', Exit!Broadcasts(j)'
                 PROVE  /\ exitJobs'[j].about \in DOMAIN txs
                        /\ exitJobs'[j].status = "ready" => Paid(exitJobs'[j].about)
        BY <1>2, Zenon DEF ReadyIsApplied, Paid
    <2>1. CASE j \in DOMAIN exitJobs /\ exitJobs'[j] = exitJobs[j]
        BY <2>1, Zenon DEF ExitInv, ReadyIsApplied, Exit!Broadcasts
    <2>2. CASE exitJobs'[j].type = type /\ exitJobs'[j].about = about /\ exitJobs'[j].status = "queued"
        BY <2>2, Zenon DEF Exit!Broadcasts
    <2> QED BY <1>1, <2>1, <2>2, Zenon
<1> QED BY <1>3, <1>4 DEF ExitInv

\* The transactions are applied or not as they were.
TxsStay ==
    /\ txs' \in Seq(Tx) /\ DOMAIN txs' = DOMAIN txs
    /\ \A u \in DOMAIN txs : txs'[u].note = txs[u].note /\ (Paid(u)' <=> Paid(u))

\* A transaction that was not applied is sent, or its time is over.
LEMMA ExitTxMoves ==
    ASSUME ExitInv, NEW t \in DOMAIN txs, NEW s \in {"pending", "expired"},
           ~Paid(t), txs' = [txs EXCEPT ![t].state = s]
    PROVE  TxsStay
<1>1. txs[t] \in Tx /\ txs \in Seq(Tx)
    BY DEF ExitInv, ExitTypeOK
<1>2. PICK q : q = [txs[t] EXCEPT !.state = s]
    OBVIOUS
<1>3. q \in Tx /\ q.note = txs[t].note /\ q.state # "SUCCESS"
    BY <1>1, <1>2, Zenon DEF Tx
<1>4. /\ txs' \in Seq(Tx) /\ DOMAIN txs' = DOMAIN txs
      /\ \A u \in DOMAIN txs : txs'[u] = IF u = t THEN q ELSE txs[u]
    BY <1>1, <1>2, <1>3
<1> QED BY <1>3, <1>4 DEF Paid, TxsStay

\* What is neither a job nor an applied transaction carries over.
LEMMA ExitCarries ==
    ASSUME ExitInv, TxsStay, UNCHANGED <<sequence, exited, paid>>,
           cctp_exits' \subseteq Keys \X Notes, exitJobs' \in Seq(ExitJob)
    PROVE  ExitTypeOK' /\ OnePayment'
<1>1. ExitTypeOK'
    BY DEF ExitInv, ExitTypeOK, TxsStay
<1>2. OnePayment'
    BY DEF ExitInv, OnePayment, TxsStay
<1> QED BY <1>1, <1>2

\* A step that leaves the jobs alone.
LEMMA ExitRests ==
    ASSUME ExitInv, TxsStay, UNCHANGED <<sequence, exited, paid, exitJobs>>,
           cctp_exits' \subseteq Keys \X Notes
    PROVE  ExitInv'
<1>1. exitJobs' \in Seq(ExitJob)
    BY DEF ExitInv, ExitTypeOK
<1>2. ExitTypeOK' /\ OnePayment'
    BY <1>1, ExitCarries
<1>3. ReadyIsApplied'
    BY DEF ExitInv, ReadyIsApplied, Exit!Broadcasts, TxsStay
<1> QED BY <1>2, <1>3 DEF ExitInv

\* A job moves: it keeps its type and what it is about.
JobMoves(j) ==
    /\ exitJobs' \in Seq(ExitJob) /\ DOMAIN exitJobs' = DOMAIN exitJobs
    /\ \A k \in DOMAIN exitJobs : k # j => exitJobs'[k] = exitJobs[k]
    /\ exitJobs'[j].type = exitJobs[j].type /\ exitJobs'[j].about = exitJobs[j].about

\* The three ways a handler changes its row move the job.
LEMMA ExitJobMoves ==
    ASSUME ExitTypeOK, NEW j \in DOMAIN exitJobs, NEW s \in Statuses, NEW n \in Nat, NEW r \in Results,
           \/ exitJobs' = [exitJobs EXCEPT ![j].status = s]
           \/ exitJobs' = [exitJobs EXCEPT ![j].status = s, ![j].attempts = n]
           \/ exitJobs' = [exitJobs EXCEPT ![j].status = s, ![j].result = r]
    PROVE  JobMoves(j) /\ exitJobs'[j].status = s
<1>1. exitJobs[j] \in ExitJob /\ exitJobs \in Seq(ExitJob)
    BY DEF ExitTypeOK
<1>2. PICK q : /\ \/ q = [exitJobs[j] EXCEPT !.status = s]
                  \/ q = [exitJobs[j] EXCEPT !.status = s, !.attempts = n]
                  \/ q = [exitJobs[j] EXCEPT !.status = s, !.result = r]
               /\ exitJobs' = [exitJobs EXCEPT ![j] = q]
    OBVIOUS
<1>3. q \in ExitJob /\ q.type = exitJobs[j].type /\ q.about = exitJobs[j].about /\ q.status = s
    BY <1>1, <1>2, Zenon DEF ExitJob
<1> HIDE DEF ExitJob
<1> QED BY <1>1, <1>2, <1>3 DEF JobMoves

\* A job that broadcasts becomes ready for a transaction that was applied.
LEMMA ExitMoves ==
    ASSUME ExitInv, TxsStay, UNCHANGED <<cctp_exits, sequence, exited, paid>>,
           NEW j \in DOMAIN exitJobs, JobMoves(j),
           exitJobs'[j].status = "ready" /\ Exit!Broadcasts(j) => Paid(exitJobs[j].about)
    PROVE  ExitInv'
<1>1. ExitTypeOK' /\ OnePayment'
    <2>1. cctp_exits' \subseteq Keys \X Notes /\ exitJobs' \in Seq(ExitJob)
        BY DEF ExitInv, ExitTypeOK, JobMoves
    <2> QED BY <2>1, ExitCarries
<1>2. ASSUME NEW k \in DOMAIN exitJobs, Exit!Broadcasts(k)'
      PROVE  /\ exitJobs'[k].about \in DOMAIN txs'
             /\ exitJobs'[k].status = "ready" => Paid(exitJobs[k].about)'
    <2>1. Exit!Broadcasts(k) /\ exitJobs'[k].about = exitJobs[k].about
        BY <1>2 DEF Exit!Broadcasts, JobMoves
    <2>2. PICK a : a = exitJobs[k].about
        OBVIOUS
    <2>3. a \in DOMAIN txs /\ (exitJobs'[k].status = "ready" => Paid(a))
        <3>1. CASE k = j
            BY <2>1, <2>2, <3>1 DEF ExitInv, ReadyIsApplied
        <3>2. CASE k # j
            BY <2>1, <2>2, <3>2 DEF ExitInv, ReadyIsApplied, JobMoves
        <3> QED BY <3>1, <3>2
    <2>4. a \in DOMAIN txs' /\ (exitJobs'[k].status = "ready" => Paid(a)')
        BY <2>3 DEF TxsStay
    <2> QED BY <2>1, <2>2, <2>4 DEF Paid
<1>3. ReadyIsApplied'
    BY <1>2 DEF ReadyIsApplied, JobMoves
<1> QED BY <1>1, <1>3 DEF ExitInv

\* A transaction is built: it is signed and not applied.
LEMMA ExitBuilds ==
    ASSUME ExitInv, NEW n \in Notes, NEW m \in {"withdraw", "withdraw_cctp"}, Exit!buildInvokeXdr(n, m),
           UNCHANGED <<cctp_exits, sequence, exited, paid, exitJobs>>
    PROVE  ExitInv'
<1>1. PICK q : q = [note |-> n, method |-> m, seq |-> sequence + 1, state |-> "signed"]
    BY Zenon
<1>2. q \in Tx /\ q.state # "SUCCESS"
    BY <1>1 DEF Tx, ExitInv, ExitTypeOK
<1>3. /\ txs' \in Seq(Tx) /\ DOMAIN txs \subseteq DOMAIN txs'
      /\ \A u \in DOMAIN txs' : (u \in DOMAIN txs /\ txs'[u] = txs[u]) \/ txs'[u] = q
      /\ \A u \in DOMAIN txs : txs'[u] = txs[u]
    BY <1>1, <1>2 DEF Exit!buildInvokeXdr, ExitInv, ExitTypeOK
<1>4. /\ \A u \in DOMAIN txs' : Paid(u)' => u \in DOMAIN txs /\ Paid(u) /\ txs'[u].note = txs[u].note
      /\ \A u \in DOMAIN txs : Paid(u) => Paid(u)' /\ txs'[u].note = txs[u].note
    BY <1>2, <1>3 DEF Paid
<1>5. ExitTypeOK'
    BY <1>3 DEF ExitInv, ExitTypeOK
<1>6. OnePayment'
    BY <1>3, <1>4 DEF ExitInv, OnePayment
<1>7. ReadyIsApplied'
    BY <1>3, <1>4 DEF ExitInv, ReadyIsApplied, Exit!Broadcasts
<1> QED BY <1>5, <1>6, <1>7 DEF ExitInv

\* The ledger applies a transaction: it pays for a note that was not spent, and
\* fails for one that was.
LEMMA ExitApplies ==
    ASSUME ExitInv, NEW t \in DOMAIN txs, Exit!ledger_applies(t)
    PROVE  ExitInv'
<1>1. txs[t] \in Tx /\ txs \in Seq(Tx) /\ paid \in [Notes -> Nat]
    BY DEF ExitInv, ExitTypeOK
<1>2. PICK n : n = txs[t].note
    OBVIOUS
<1>3. PICK q : q = [txs[t] EXCEPT !.state = IF n \in exited THEN "FAILED" ELSE "SUCCESS"]
    BY Zenon
<1>4. /\ n \in Notes /\ q \in Tx /\ q.note = n
      /\ q.state = IF n \in exited THEN "FAILED" ELSE "SUCCESS"
    BY <1>1, <1>2, <1>3, Zenon DEF Tx
<1>5. /\ txs' \in Seq(Tx) /\ DOMAIN txs' = DOMAIN txs
      /\ \A u \in DOMAIN txs : txs'[u] = IF u = t THEN q ELSE txs[u]
    BY <1>1, <1>2, <1>3, <1>4 DEF Exit!ledger_applies
<1>6. UNCHANGED <<cctp_exits, exitJobs>> /\ sequence' = sequence + 1 /\ ~Paid(t)
    BY DEF Exit!ledger_applies, Exit!rows, Paid
<1>7. /\ \A u \in DOMAIN txs : txs'[u].note = txs[u].note
      /\ \A u \in DOMAIN txs : Paid(u)' <=> Paid(u) \/ (u = t /\ n \notin exited)
    BY <1>2, <1>4, <1>5, <1>6 DEF Paid
<1>8. CASE n \in exited
    <2>1. UNCHANGED <<exited, paid>>
        BY <1>2, <1>8 DEF Exit!ledger_applies, Exit!withdraw
    <2>2. ExitTypeOK'
        BY <1>5, <1>6, <2>1 DEF ExitInv, ExitTypeOK
    <2>3. OnePayment'
        BY <1>5, <1>7, <1>8, <2>1 DEF ExitInv, OnePayment
    <2>4. ReadyIsApplied'
        BY <1>5, <1>6, <1>7 DEF ExitInv, ReadyIsApplied, Exit!Broadcasts
    <2> QED BY <2>2, <2>3, <2>4 DEF ExitInv
<1>9. CASE n \notin exited
    <2>1. exited' = exited \cup {n} /\ paid' = [paid EXCEPT ![n] = @ + 1]
        BY <1>2, <1>9 DEF Exit!ledger_applies, Exit!withdraw
    <2>2. ExitTypeOK'
        BY <1>1, <1>4, <1>5, <1>6, <2>1 DEF ExitInv, ExitTypeOK
    <2>3. \A m \in Notes : paid'[m] = IF m \in exited' THEN 1 ELSE 0
        BY <1>1, <1>4, <1>9, <2>1 DEF ExitInv, OnePayment
    <2>4. \A m \in Notes : m \in exited' <=> \E u \in DOMAIN txs' : txs'[u].note = m /\ Paid(u)'
        <3> TAKE m \in Notes
        <3>1. CASE m = n
            BY <1>2, <1>5, <1>7, <1>9, <2>1, <3>1
        <3>2. CASE m # n
            BY <1>2, <1>5, <1>7, <2>1, <3>2 DEF ExitInv, OnePayment
        <3> QED BY <3>1, <3>2
    <2>5. \A u, v \in DOMAIN txs' : Paid(u)' /\ Paid(v)' /\ txs'[u].note = txs'[v].note => u = v
        <3>1. \A u \in DOMAIN txs : Paid(u) => txs[u].note # n
            BY <1>4, <1>9 DEF ExitInv, OnePayment
        <3> QED BY <1>2, <1>5, <1>7, <3>1 DEF ExitInv, OnePayment
    <2>6. ReadyIsApplied'
        BY <1>5, <1>6, <1>7 DEF ExitInv, ReadyIsApplied, Exit!Broadcasts
    <2> QED BY <2>2, <2>3, <2>4, <2>5, <2>6 DEF ExitInv, OnePayment
<1> QED BY <1>8, <1>9

\* Every step preserves it.
LEMMA ExitStep == ExitInv /\ [Exit!Next]_Exit!vars => ExitInv'
<1> SUFFICES ASSUME ExitInv, [Exit!Next]_Exit!vars PROVE ExitInv'
    OBVIOUS
<1>t. ExitTypeOK
    BY DEF ExitInv
<1>s. UNCHANGED txs => TxsStay
    BY <1>t DEF TxsStay, ExitTypeOK, Paid
<1>e. ASSUME NEW j \in DOMAIN exitJobs
      PROVE  exitJobs[j].attempts \in Nat
    <2>1. exitJobs[j] \in ExitJob
        BY <1>t DEF ExitTypeOK
    <2> QED BY <2>1 DEF ExitJob
\* Every change of the status alone, and fail and complete of the queue.
<1>m. ASSUME NEW j \in DOMAIN exitJobs, NEW s \in Statuses, TxsStay,
             UNCHANGED <<cctp_exits, sequence, exited, paid>>,
             exitJobs' = [exitJobs EXCEPT ![j].status = s], s # "ready"
      PROVE  ExitInv'
    <2>1. 0 \in Nat /\ "none" \in Results
        BY DEF Results
    <2>2. JobMoves(j) /\ exitJobs'[j].status = s
        BY <1>m, <1>t, <2>1, ExitJobMoves, Zenon
    <2> QED BY <1>m, <2>2, ExitMoves
<1>f. ASSUME NEW j \in DOMAIN exitJobs, Exit!Fail(j), TxsStay,
             UNCHANGED <<cctp_exits, sequence, exited, paid>>
      PROVE  ExitInv'
    <2>1. PICK s : s = IF exitJobs[j].attempts >= MaxAttempts THEN "failed" ELSE "failed_retry"
        OBVIOUS
    <2>2. s \in Statuses /\ s # "ready" /\ exitJobs' = [exitJobs EXCEPT ![j].status = s]
        BY <1>f, <2>1 DEF Exit!Fail, Statuses
    <2> QED BY <1>f, <1>m, <2>2, Zenon
<1>r. ASSUME NEW j \in DOMAIN exitJobs, NEW r \in Results, Exit!Ready(j, r), UNCHANGED <<Exit!rows, Exit!chain>>,
             Exit!Broadcasts(j) => Paid(exitJobs[j].about)
      PROVE  ExitInv'
    <2>1. exitJobs' = [exitJobs EXCEPT ![j].status = "ready", ![j].result = r] /\ 0 \in Nat /\ "ready" \in Statuses
        BY <1>r DEF Exit!Ready, Statuses
    <2>2. JobMoves(j)
        BY <1>t, <2>1, ExitJobMoves, Zenon
    <2>3. UNCHANGED <<cctp_exits, txs, sequence, exited, paid>>
        BY <1>r DEF Exit!rows, Exit!chain
    <2> QED BY <1>r, <1>s, <2>2, <2>3, ExitMoves
<1>1. ASSUME NEW key \in Keys, NEW n \in Notes, Exit!createWithdrawal(key, n) \/ Exit!outbound_prepare(key, n)
      PROVE  ExitInv'
    <2>1. UNCHANGED <<txs, sequence, exited, paid, exitJobs>>
        BY <1>1 DEF Exit!createWithdrawal, Exit!outbound_prepare, Exit!chain
    <2>2. cctp_exits' \subseteq Keys \X Notes
        BY <1>1, <1>t DEF Exit!createWithdrawal, Exit!outbound_prepare, ExitTypeOK
    <2> QED BY <1>s, <2>1, <2>2, ExitRests
<1>2. ASSUME NEW n \in Notes, Exit!withdraw_page(n) \/ Exit!exit_client(n)
      PROVE  ExitInv'
    <2>1. UNCHANGED <<cctp_exits, sequence, exited, paid, exitJobs>>
        BY <1>2 DEF Exit!withdraw_page, Exit!exit_client, Exit!rows
    <2>2. Exit!buildInvokeXdr(n, "withdraw") \/ Exit!buildInvokeXdr(n, "withdraw_cctp")
        BY <1>2 DEF Exit!withdraw_page, Exit!exit_client
    <2> QED BY <2>1, <2>2, ExitBuilds
<1>3. ASSUME NEW t \in DOMAIN txs, NEW key \in Keys \cup {NoKey},
             Exit!withdrawals_submit(t, key) \/ Exit!outbound_submit(t, key)
      PROVE  ExitInv'
    <2>1. t \in Nat
        BY <1>t DEF ExitTypeOK
    <2>2. CASE Exit!withdrawals_submit(t, key)
        BY <2>1, <2>2, ExitRoutes DEF Exit!withdrawals_submit, JobTypes, JobKeys, Subjects
    <2>3. CASE Exit!outbound_submit(t, key)
        BY <2>1, <2>3, ExitRoutes DEF Exit!outbound_submit, JobTypes, JobKeys, Subjects
    <2> QED BY <1>3, <2>2, <2>3
<1>4. ASSUME NEW t \in DOMAIN txs, NEW exit \in cctp_exits, Exit!fetch_attestation(exit, t)
      PROVE  ExitInv'
    <2>1. t \in Nat /\ exit \in Keys \X Notes
        BY <1>t DEF ExitTypeOK
    <2> QED BY <1>4, <2>1, ExitRoutes DEF Exit!fetch_attestation, JobTypes, JobKeys, Subjects
<1>5. ASSUME NEW t \in DOMAIN txs, Exit!ledger_applies(t)
      PROVE  ExitInv'
    BY <1>5, ExitApplies
<1>6. ASSUME NEW t \in DOMAIN txs, Exit!tx_expires(t)
      PROVE  ExitInv'
    <2>1. ~Paid(t) /\ txs' = [txs EXCEPT ![t].state = "expired"]
        BY <1>6 DEF Exit!tx_expires, Paid
    <2>2. TxsStay
        BY <2>1, ExitTxMoves, Zenon
    <2>3. UNCHANGED <<sequence, exited, paid, exitJobs>> /\ cctp_exits' \subseteq Keys \X Notes
        BY <1>6, <1>t DEF Exit!tx_expires, Exit!rows, ExitTypeOK
    <2> QED BY <2>2, <2>3, ExitRests
<1>7. ASSUME NEW t \in DOMAIN txs, Exit!circle_attests(t)
      PROVE  ExitInv'
    <2>1. UNCHANGED <<txs, sequence, exited, paid, exitJobs>> /\ cctp_exits' \subseteq Keys \X Notes
        BY <1>7, <1>t DEF Exit!circle_attests, Exit!rows, ExitTypeOK
    <2> QED BY <1>s, <2>1, ExitRests
<1>8. ASSUME NEW exit \in cctp_exits, Exit!complete_mint(exit)
      PROVE  ExitInv'
    <2>1. exit \in Keys \X Notes /\ Exit!Fetched(exit) \in BOOLEAN
        BY <1>t DEF ExitTypeOK, Exit!Fetched
    <2> QED BY <1>8, <2>1, ExitRoutes DEF Exit!complete_mint, JobTypes, JobKeys, Subjects
<1>9. ASSUME NEW j \in DOMAIN exitJobs, Exit!claimNext(j)
      PROVE  ExitInv'
    <2>1. exitJobs' = [exitJobs EXCEPT ![j].status = "claimed", ![j].attempts = exitJobs[j].attempts + 1]
        BY <1>9 DEF Exit!claimNext
    <2>2. exitJobs[j].attempts + 1 \in Nat /\ "claimed" \in Statuses /\ "none" \in Results
        BY <1>e DEF Statuses, Results
    <2>3. JobMoves(j) /\ exitJobs'[j].status = "claimed"
        BY <1>t, <2>1, <2>2, ExitJobMoves, Zenon
    <2>4. UNCHANGED <<cctp_exits, txs, sequence, exited, paid>>
        BY <1>9 DEF Exit!claimNext, Exit!rows, Exit!chain
    <2> QED BY <1>s, <2>3, <2>4, ExitMoves
<1>10. ASSUME NEW j \in DOMAIN exitJobs, Exit!sendTransaction(j)
       PROVE  ExitInv'
    <2>1. UNCHANGED <<cctp_exits, sequence, exited, paid>>
        BY <1>10 DEF Exit!sendTransaction, Exit!rows
    <2>2. exitJobs[j].about \in DOMAIN txs
        BY <1>10 DEF Exit!sendTransaction, ExitInv, ReadyIsApplied
    <2>3. \/ /\ ~Paid(exitJobs[j].about)
             /\ txs' = [txs EXCEPT ![exitJobs[j].about].state = "pending"]
             /\ exitJobs' = [exitJobs EXCEPT ![j].status = "broadcasting"]
          \/ exitJobs' = [exitJobs EXCEPT ![j].status = "broadcasting"] /\ UNCHANGED txs
          \/ Exit!Fail(j) /\ UNCHANGED txs
        BY <1>10 DEF Exit!sendTransaction, Paid
    <2>4. TxsStay
        BY <1>s, <2>2, <2>3, ExitTxMoves
    <2> QED BY <1>m, <1>f, <2>1, <2>3, <2>4 DEF Statuses
<1>11. ASSUME NEW j \in DOMAIN exitJobs, Exit!broadcastSignedXdr(j)
       PROVE  ExitInv'
    <2>1. CASE Paid(exitJobs[j].about)
        BY <1>11, <1>r, <2>1 DEF Exit!broadcastSignedXdr, Paid, Results
    <2>2. CASE ~Paid(exitJobs[j].about)
        <3>1. UNCHANGED <<cctp_exits, txs, sequence, exited, paid>>
            BY <1>11, Zenon DEF Exit!broadcastSignedXdr, Exit!rows, Exit!chain
        <3> QED BY <1>11, <1>f, <1>s, <2>2, <3>1 DEF Exit!broadcastSignedXdr, Paid
    <2> QED BY <2>1, <2>2
<1>12. ASSUME NEW j \in DOMAIN exitJobs, Exit!outbound_attestation(j)
       PROVE  ExitInv'
    <2>1. PICK r \in Results : Exit!Ready(j, r) /\ ~Exit!Broadcasts(j)
        BY <1>12, Zenon DEF Exit!outbound_attestation, Exit!Broadcasts, Results
    <2> QED BY <1>12, <1>r, <2>1, Zenon DEF Exit!outbound_attestation
<1>13. ASSUME NEW j \in DOMAIN exitJobs, Exit!outbound_mint(j)
       PROVE  ExitInv'
    <2>1. PICK r \in Results : Exit!Ready(j, r) /\ ~Exit!Broadcasts(j)
        BY <1>13 DEF Exit!outbound_mint, Exit!Broadcasts, Results
    <2> QED BY <1>13, <1>r, <2>1 DEF Exit!outbound_mint
<1>14. ASSUME NEW j \in DOMAIN exitJobs, Exit!call_fails(j)
       PROVE  ExitInv'
    <2>1. Exit!Fail(j) /\ UNCHANGED <<cctp_exits, txs, sequence, exited, paid>>
        BY <1>14 DEF Exit!call_fails, Exit!rows, Exit!chain
    <2> QED BY <1>f, <1>s, <2>1
<1>15. ASSUME NEW j \in DOMAIN exitJobs, Exit!relayer_killed(j)
       PROVE  ExitInv'
    <2>1. /\ exitJobs' = [exitJobs EXCEPT ![j].status = "abandoned"]
          /\ UNCHANGED <<cctp_exits, txs, sequence, exited, paid>>
        BY <1>15 DEF Exit!relayer_killed, Exit!rows, Exit!chain
    <2> QED BY <1>m, <1>s, <2>1, Zenon DEF Statuses
<1>16. CASE UNCHANGED Exit!vars
    <2>1. UNCHANGED <<txs, sequence, exited, paid, exitJobs>> /\ cctp_exits' \subseteq Keys \X Notes
        BY <1>16, <1>t DEF Exit!vars, Exit!rows, Exit!chain, ExitTypeOK
    <2> QED BY <1>s, <2>1, ExitRests
<1> QED BY <1>1, <1>2, <1>3, <1>4, <1>5, <1>6, <1>7, <1>8, <1>9, <1>10, <1>11, <1>12, <1>13, <1>14,
           <1>15, <1>16 DEF Exit!Next

\* A note is paid for once, by the transaction that spent it, and a job that
\* broadcasts is ready only for an applied transaction.
THEOREM ExitInvariant == Exit!Spec => []ExitInv
<1> QED BY ExitInit, ExitStep, PTL DEF Exit!Spec

INSTANCE FiniteSetTheorems

\* The number of elements is the library's, of which its theorems speak.
LEMMA ExitCardinality == \A S : Exit!Cardinality(S) = Cardinality(S)
BY Zenon DEF Exit!Cardinality, Cardinality, Exit!IsFiniteSet, IsFiniteSet

\* ReadyMeansPaid for any notes, keys and number of transactions and jobs: a
\* submit job that is ready has its transaction in a ledger, and no note is paid
\* for twice, however often it is submitted.
THEOREM ExitReadyMeansPaid == Exit!Spec => []Exit!ReadyMeansPaid
<1>1. ASSUME ExitInv PROVE Exit!ReadyMeansPaid
    <2>1. ASSUME NEW j \in DOMAIN exitJobs, Exit!Broadcasts(j), exitJobs[j].status = "ready"
          PROVE  txs[exitJobs[j].about].state = "SUCCESS" /\ txs[exitJobs[j].about].note \in exited
        <3>1. exitJobs[j].about \in DOMAIN txs /\ Paid(exitJobs[j].about)
            BY <1>1, <2>1 DEF ExitInv, ReadyIsApplied
        <3>2. txs[exitJobs[j].about] \in Tx
            BY <1>1, <3>1 DEF ExitInv, ExitTypeOK
        <3>3. txs[exitJobs[j].about].note \in Notes
            BY <3>2 DEF Tx
        <3> QED BY <1>1, <3>1, <3>3 DEF ExitInv, OnePayment, Paid
    <2>2. ASSUME NEW n \in Notes
          PROVE  /\ paid[n] <= 1
                 /\ paid[n] = Exit!Cardinality({t \in DOMAIN txs : txs[t].note = n /\ txs[t].state = "SUCCESS"})
        <3> DEFINE T == {t \in DOMAIN txs : txs[t].note = n /\ txs[t].state = "SUCCESS"}
        <3>1. CASE n \in exited
            <4>0. PICK t \in DOMAIN txs : txs[t].note = n /\ Paid(t)
                BY <1>1, <3>1 DEF ExitInv, OnePayment
            <4>1. T = {t}
                <5>1. \A u \in T : u = t
                    BY <1>1, <4>0 DEF ExitInv, OnePayment, Paid
                <5>2. t \in T
                    BY <4>0 DEF Paid
                <5> HIDE DEF T
                <5> QED BY <5>1, <5>2
            <4>2. Exit!Cardinality(T) = 1
                <5> HIDE DEF T
                <5> QED BY <4>1, FS_Singleton, ExitCardinality, Zenon
            <4>3. paid[n] = 1
                BY <1>1, <3>1 DEF ExitInv, OnePayment
            <4> QED BY <4>2, <4>3
        <3>2. CASE n \notin exited
            <4>1. T = {}
                BY <1>1, <3>2 DEF ExitInv, OnePayment, Paid
            <4>2. Exit!Cardinality(T) = 0
                <5> HIDE DEF T
                <5> QED BY <4>1, FS_EmptySet, ExitCardinality
            <4>3. paid[n] = 0
                BY <1>1, <3>2 DEF ExitInv, OnePayment
            <4> QED BY <4>2, <4>3
        <3> QED BY <3>1, <3>2
    <2> QED BY <2>1, <2>2, Zenon DEF Exit!ReadyMeansPaid
<1> QED BY <1>1, ExitInvariant, PTL

-----------------------------------------------------------------------------
(* The RFQ routes. *)

CONSTANTS IntentOf, Net, Foreign, Signatures, Routed, Inventory, MaxPayouts

VARIABLES quoteRows, lockRows, accepting, acceptRows, stock, payouts, fillRows,
          proofRows, proverJob, matched, mismatch, settlements, answer

Rfq == INSTANCE RfqLifecycle

RfqConstants ==
    /\ MaxPayouts \in Nat
    /\ Inventory \in Nat
    /\ Net \in [Quotes -> Nat]
    /\ IntentOf \in [Quotes -> Intents]

\* Every fill row of a quote tells of one of its n payouts, and no payout has
\* two rows.
Rows(s, n) ==
    /\ s \in Seq(Rfq!Fill)
    /\ \A k \in DOMAIN s : s[k].receipt \in 1 .. n
    /\ \A k, l \in DOMAIN s : s[k].receipt = s[l].receipt => k = l

RowsOfPayouts == \A q \in Quotes : Rows(fillRows[q], payouts[q])

Tables ==
    /\ quoteRows \subseteq Quotes
    /\ lockRows \subseteq quoteRows
    /\ accepting \cup acceptRows \subseteq Quotes \X Signatures
    /\ stock \in 0 .. Inventory
    /\ payouts \in [Quotes -> 0 .. MaxPayouts]
    /\ fillRows \in [Quotes -> Seq(Rfq!Fill)]
    /\ proofRows \in [Intents -> {"none", "queued", "ready"}]
    /\ proverJob \in [Intents -> {"none", "queued", "ready"}]
    /\ matched \subseteq Routed
    /\ mismatch \in BOOLEAN
    /\ settlements \subseteq Intents \X Quotes
    /\ answer \in [Quotes -> Rfq!Answers]

RfqInv == Tables /\ RowsOfPayouts /\ Rfq!SettleNeedsFill

\* Changing one row leaves a sequence of rows.
LEMMA SeqExcept ==
    ASSUME NEW S, NEW s \in Seq(S), NEW k \in DOMAIN s, NEW x \in S
    PROVE  [s EXCEPT ![k] = x] \in Seq(S)
<1> DEFINE t == [s EXCEPT ![k] = x]
<1>1. t \in [1 .. Len(s) -> S]
    OBVIOUS
<1> QED BY <1>1

Reported(r) == [receipt |-> r, state |-> "FILL_CREATED"]
Executed(s, k) == [s EXCEPT ![k].state = "EXECUTED"]

\* A report of a payout that has no row, and the execution of a row, leave one
\* row for a payout.
LEMMA RowsAppend ==
    ASSUME NEW s, NEW n \in Nat, n <= MaxPayouts, MaxPayouts \in Nat, Rows(s, n), NEW r \in 1 .. n,
           \A k \in DOMAIN s : s[k].receipt # r
    PROVE  Rows(Append(s, Reported(r)), n)
<1> DEFINE t == Append(s, Reported(r))
<1>1. Reported(r) \in Rfq!Fill
    BY DEF Reported, Rfq!Fill
<1>2. t \in Seq(Rfq!Fill)
    BY <1>1 DEF Rows
<1>3. /\ DOMAIN t = 1 .. Len(s) + 1
      /\ DOMAIN s = 1 .. Len(s) /\ Len(s) \in Nat
      /\ \A k \in 1 .. Len(s) : t[k] = s[k]
      /\ t[Len(s) + 1] = Reported(r)
    BY <1>1 DEF Rows
<1>4. Reported(r).receipt = r
    BY DEF Reported
<1> HIDE DEF t
<1>5. \A k \in DOMAIN t : (k \in DOMAIN s /\ t[k] = s[k]) \/ (k = Len(s) + 1 /\ t[k].receipt = r)
    <2> TAKE k \in DOMAIN t
    <2>1. CASE k \in 1 .. Len(s)
        BY <1>3, <2>1
    <2>2. CASE k = Len(s) + 1
        BY <1>3, <1>4, <2>2
    <2> QED BY <1>3, <2>1, <2>2
<1>6. \A k \in DOMAIN t : t[k].receipt \in 1 .. n
    BY <1>5 DEF Rows
<1>7. \A k, l \in DOMAIN t : t[k].receipt = t[l].receipt => k = l
    BY <1>5 DEF Rows
<1> QED BY <1>2, <1>6, <1>7 DEF Rows, t

\* Executing a row changes no other, and not one that was executed.
LEMMA RowsExecuted ==
    ASSUME NEW s, NEW n \in Nat, Rows(s, n), NEW k \in DOMAIN s
    PROVE  /\ Rows(Executed(s, k), n)
           /\ DOMAIN Executed(s, k) = DOMAIN s
           /\ \A l \in DOMAIN s : s[l].state = "EXECUTED" => Executed(s, k)[l] = s[l]
<1> DEFINE x == [s[k] EXCEPT !.state = "EXECUTED"]
           t == [s EXCEPT ![k] = x]
<1>1. s[k] \in Rfq!Fill
    BY DEF Rows
<1>2. x \in Rfq!Fill /\ x.receipt = s[k].receipt /\ (s[k].state = "EXECUTED" => x = s[k])
    BY <1>1 DEF Rfq!Fill
<1>3. Executed(s, k) = t
    BY DEF Executed
<1> HIDE DEF x
<1>4. t \in Seq(Rfq!Fill) /\ DOMAIN t = DOMAIN s
    BY <1>2, SeqExcept DEF Rows
<1>5. \A l \in DOMAIN s : t[l] = IF l = k THEN x ELSE s[l]
    BY DEF Rows
<1> HIDE DEF t
<1> QED BY <1>2, <1>3, <1>4, <1>5 DEF Rows

\* Every step leaves the tables typed.
LEMMA RfqTables ==
    ASSUME RfqConstants, Tables, RowsOfPayouts, [Rfq!Next]_Rfq!vars
    PROVE  Tables'
<1> USE DEF Tables, Rfq!quoting, Rfq!acceptance, Rfq!paying, Rfq!proving, Rfq!gates, Rfq!settling
<1>1. ASSUME NEW q \in Quotes, Rfq!request_quotes(q) \/ Rfq!solver_quotes(q) PROVE Tables'
    BY <1>1 DEF Rfq!request_quotes, Rfq!solver_quotes
<1>2. ASSUME NEW q \in Quotes, NEW s \in Signatures, Rfq!accept_check(q, s) \/ Rfq!accept_insert(q, s)
      PROVE  Tables'
    BY <1>2 DEF Rfq!accept_check, Rfq!accept_insert
<1>3. ASSUME NEW q \in Quotes, Rfq!quote_lock(q) PROVE Tables'
    BY <1>3 DEF Rfq!quote_lock
<1>4. ASSUME NEW q \in Quotes, Rfq!fill(q) PROVE Tables'
    <2>1. payouts' \in [Quotes -> 0 .. MaxPayouts]
        BY <1>4 DEF Rfq!fill, RfqConstants
    <2>2. stock' \in 0 .. Inventory
        BY <1>4 DEF Rfq!fill, RfqConstants
    <2> QED BY <1>4, <2>1, <2>2 DEF Rfq!fill
<1>5. ASSUME NEW q \in Quotes, NEW r \in 1 .. MaxPayouts, Rfq!post_fill(q, r) PROVE Tables'
    <2>1. Append(fillRows[q], Reported(r)) \in Seq(Rfq!Fill)
        <3>1. Reported(r) \in Rfq!Fill
            BY DEF Reported, Rfq!Fill
        <3> QED BY <3>1
    <2>2. fillRows' \in [Quotes -> Seq(Rfq!Fill)]
        BY <1>5, <2>1 DEF Rfq!post_fill, Reported
    <2> QED BY <1>5, <2>2 DEF Rfq!post_fill
<1>6. ASSUME NEW q \in Quotes, NEW k \in 1 .. MaxPayouts, Rfq!executeFill(q, k) PROVE Tables'
    <2>1. k \in DOMAIN fillRows[q]
        BY <1>6 DEF Rfq!executeFill
    <2>2. Executed(fillRows[q], k) \in Seq(Rfq!Fill)
        <3>1. payouts[q] \in Nat /\ Rows(fillRows[q], payouts[q])
            BY DEF RowsOfPayouts, RfqConstants
        <3>2. Rows(Executed(fillRows[q], k), payouts[q])
            BY <2>1, <3>1, RowsExecuted
        <3> QED BY <3>2 DEF Rows
    <2>3. fillRows' = [fillRows EXCEPT ![q] = Executed(fillRows[q], k)]
        BY <1>6 DEF Rfq!executeFill, Executed
    <2>4. fillRows' \in [Quotes -> Seq(Rfq!Fill)]
        BY <2>2, <2>3
    <2> QED BY <1>6, <2>4 DEF Rfq!executeFill
<1>7. ASSUME NEW q \in Quotes, Rfq!rfq_settle(q) PROVE Tables'
    <2>1. Rfq!SettleAnswer(q) \in Rfq!Answers
        BY Zenon DEF Rfq!SettleAnswer, Rfq!Answers
    <2>2. <<IntentOf[q], q>> \in Intents \X Quotes
        BY DEF RfqConstants
    <2> QED BY <1>7, <2>1, <2>2 DEF Rfq!rfq_settle
<1>8. ASSUME NEW i \in Intents, Rfq!proof_request(i) \/ Rfq!prover_completes(i) \/ Rfq!committee_matches(i)
      PROVE  Tables'
    BY <1>8, Zenon DEF Rfq!proof_request, Rfq!prover_completes, Rfq!committee_matches
<1>9. CASE Rfq!audit_finding
    BY <1>9 DEF Rfq!audit_finding
<1>10. CASE UNCHANGED Rfq!vars
    BY <1>10 DEF Rfq!vars
<1> QED BY <1>1, <1>2, <1>3, <1>4, <1>5, <1>6, <1>7, <1>8, <1>9, <1>10, Zenon DEF Rfq!Next

\* And every payout with at most one row.
LEMMA RfqRows ==
    ASSUME RfqConstants, Tables, RowsOfPayouts, [Rfq!Next]_Rfq!vars
    PROVE  RowsOfPayouts'
<1>0. DOMAIN fillRows = Quotes /\ \A q \in Quotes : payouts[q] \in Nat /\ payouts[q] <= MaxPayouts
    BY DEF Tables, RfqConstants
<1>1. CASE UNCHANGED <<fillRows, payouts>>
    BY <1>1 DEF RowsOfPayouts
<1>2. ASSUME NEW q \in Quotes, Rfq!fill(q) PROVE RowsOfPayouts'
    <2> SUFFICES ASSUME NEW p \in Quotes PROVE Rows(fillRows'[p], payouts'[p])
        BY DEF RowsOfPayouts
    <2>1. payouts'[p] \in Nat /\ payouts[p] <= payouts'[p] /\ fillRows' = fillRows
        BY <1>0, <1>2 DEF Rfq!fill, Tables
    <2>2. 1 .. payouts[p] \subseteq 1 .. payouts'[p]
        BY <1>0, <2>1
    <2>3. Rows(fillRows[p], payouts[p])
        BY DEF RowsOfPayouts
    <2> QED BY <2>1, <2>2, <2>3 DEF Rows
<1>3. ASSUME NEW q \in Quotes, NEW r \in 1 .. MaxPayouts, Rfq!post_fill(q, r) PROVE RowsOfPayouts'
    <2>1. payouts' = payouts /\ r \in 1 .. payouts[q]
        BY <1>3 DEF Rfq!post_fill
    <2>2. CASE r \in Rfq!Receipts(q)
        <3>1. fillRows' = [fillRows EXCEPT ![q] = fillRows[q]]
            BY <1>3, <2>2 DEF Rfq!post_fill
        <3>2. fillRows' = fillRows
            BY <3>1 DEF Tables
        <3> QED BY <1>1, <2>1, <3>2
    <2>3. CASE r \notin Rfq!Receipts(q)
        <3>1. fillRows' = [fillRows EXCEPT ![q] = Append(fillRows[q], Reported(r))]
            BY <1>3, <2>3 DEF Rfq!post_fill, Reported
        <3>2. \A k \in DOMAIN fillRows[q] : fillRows[q][k].receipt # r
            BY <2>3 DEF Rfq!Receipts
        <3>3. Rows(Append(fillRows[q], Reported(r)), payouts[q])
            BY <1>0, <2>1, <3>2, RowsAppend DEF RowsOfPayouts, RfqConstants
        <3> QED BY <1>0, <2>1, <3>1, <3>3 DEF RowsOfPayouts
    <2> QED BY <2>2, <2>3
<1>4. ASSUME NEW q \in Quotes, NEW k \in 1 .. MaxPayouts, Rfq!executeFill(q, k) PROVE RowsOfPayouts'
    <2>1. k \in DOMAIN fillRows[q] /\ payouts' = payouts
        BY <1>4 DEF Rfq!executeFill
    <2>2. fillRows' = [fillRows EXCEPT ![q] = Executed(fillRows[q], k)]
        BY <1>4 DEF Rfq!executeFill, Executed
    <2>3. Rows(Executed(fillRows[q], k), payouts[q])
        BY <1>0, <2>1, RowsExecuted DEF RowsOfPayouts
    <2> QED BY <1>0, <2>1, <2>2, <2>3 DEF RowsOfPayouts
<1> QED
    BY <1>1, <1>2, <1>3, <1>4, Zenon DEF Rfq!Next, Rfq!vars, Rfq!request_quotes, Rfq!solver_quotes,
       Rfq!accept_check,
       Rfq!accept_insert, Rfq!quote_lock, Rfq!rfq_settle, Rfq!proof_request, Rfq!prover_completes,
       Rfq!committee_matches, Rfq!audit_finding, Rfq!quoting, Rfq!acceptance, Rfq!paying, Rfq!proving,
       Rfq!gates, Rfq!settling

\* What the answer of POST /v1/rfq/settle rests on is never taken back.
LEMMA RfqStays ==
    ASSUME RfqConstants, Tables, [Rfq!Next]_Rfq!vars, NEW q \in Quotes
    PROVE  /\ Rfq!IsAccepted(q) => Rfq!IsAccepted(q)'
           /\ payouts[q] > 0 => payouts'[q] > 0
<1>1. acceptRows \subseteq acceptRows'
    BY Zenon DEF Rfq!Next, Rfq!vars, Rfq!request_quotes, Rfq!solver_quotes, Rfq!accept_check,
       Rfq!accept_insert, Rfq!quote_lock, Rfq!fill, Rfq!post_fill, Rfq!executeFill, Rfq!rfq_settle,
       Rfq!proof_request,
       Rfq!prover_completes, Rfq!committee_matches, Rfq!audit_finding, Rfq!quoting, Rfq!acceptance,
       Rfq!paying, Rfq!proving,
       Rfq!gates, Rfq!settling
<1>2. payouts[q] > 0 => payouts'[q] > 0
    <2>1. CASE payouts' = payouts
        BY <2>1
    <2>2. CASE \E p \in Quotes : Rfq!fill(p)
        BY <2>2 DEF Rfq!fill, Tables, RfqConstants
    <2> QED
      BY <2>1, <2>2, Zenon DEF Rfq!Next, Rfq!vars, Rfq!request_quotes, Rfq!solver_quotes, Rfq!accept_check,
       Rfq!accept_insert, Rfq!quote_lock, Rfq!post_fill, Rfq!executeFill, Rfq!rfq_settle, Rfq!proof_request,
       Rfq!prover_completes, Rfq!committee_matches, Rfq!audit_finding, Rfq!quoting, Rfq!acceptance,
       Rfq!paying, Rfq!proving,
       Rfq!gates, Rfq!settling
<1> QED BY <1>1, <1>2 DEF Rfq!IsAccepted

\* The answers that come after the look at the fill.
PastTheFill == {"fill is not executed", "proof job is not ready", "settled"}

\* What POST /v1/rfq/settle answers after its fill checks is about a paid quote.
LEMMA RfqSettles ==
    ASSUME RfqConstants, RfqInv, [Rfq!Next]_Rfq!vars
    PROVE  Rfq!SettleNeedsFill'
<1>0. Tables /\ RowsOfPayouts /\ Rfq!SettleNeedsFill
    BY DEF RfqInv
<1>1. DOMAIN answer = Quotes /\ DOMAIN answer' = Quotes
    BY <1>0, RfqTables DEF Tables
<1> SUFFICES ASSUME NEW q \in Quotes, answer'[q] \in PastTheFill
             PROVE  Rfq!IsAccepted(q)' /\ payouts'[q] > 0
    BY <1>1, Zenon DEF Rfq!SettleNeedsFill, PastTheFill
<1>2. CASE answer'[q] = answer[q]
    <2>1. Rfq!IsAccepted(q) /\ payouts[q] > 0
        BY <1>0, <1>1, <1>2, Zenon DEF Rfq!SettleNeedsFill, PastTheFill
    <2> QED BY <1>0, <2>1, RfqStays, Zenon
<1>3. CASE Rfq!rfq_settle(q)
    <2>1. Rfq!SettleAnswer(q) \in PastTheFill
        BY <1>1, <1>3, Zenon DEF Rfq!rfq_settle
    <2>2. Rfq!IsAccepted(q) /\ fillRows[q] # << >>
        BY <2>1, Zenon DEF Rfq!SettleAnswer, PastTheFill
    <2>3. Rows(fillRows[q], payouts[q])
        BY <1>0 DEF RowsOfPayouts
    <2>4. 1 \in DOMAIN fillRows[q]
        BY <2>2, <2>3 DEF Rows
    <2>5. payouts[q] \in Int
        BY <1>0 DEF Tables, RfqConstants
    <2>6. payouts[q] > 0
        BY <2>3, <2>4, <2>5 DEF Rows
    <2> QED BY <1>0, <2>2, <2>6, RfqStays, Zenon
<1>4. CASE \E p \in Quotes : p # q /\ Rfq!rfq_settle(p)
    <2>1. answer'[q] = answer[q]
        BY <1>1, <1>4, Zenon DEF Rfq!rfq_settle
    <2> QED BY <2>1, <1>2
<1> QED
    BY <1>2, <1>3, <1>4, Zenon DEF Rfq!Next, Rfq!vars, Rfq!request_quotes, Rfq!solver_quotes,
       Rfq!accept_check,
       Rfq!accept_insert, Rfq!quote_lock, Rfq!fill, Rfq!post_fill, Rfq!executeFill, Rfq!proof_request,
       Rfq!prover_completes, Rfq!committee_matches, Rfq!audit_finding, Rfq!quoting, Rfq!acceptance,
       Rfq!paying, Rfq!proving,
       Rfq!gates, Rfq!settling

\* The invariant holds for any quotes, intents, inventory and number of payouts.
THEOREM RfqInvariant == ASSUME RfqConstants PROVE Rfq!Spec => []RfqInv
<1>1. Rfq!Init => RfqInv
    <2> SUFFICES ASSUME Rfq!Init PROVE RfqInv
        OBVIOUS
    <2>1. Tables
        <3>1. "none" \in Rfq!Answers
            BY Zenon DEF Rfq!Answers
        <3>2. payouts \in [Quotes -> 0 .. MaxPayouts] /\ stock \in 0 .. Inventory
            BY DEF Rfq!Init, RfqConstants
        <3>3. fillRows \in [Quotes -> Seq(Rfq!Fill)]
            BY DEF Rfq!Init
        <3> QED BY <3>1, <3>2, <3>3, Zenon DEF Rfq!Init, Tables
    <2>2. RowsOfPayouts
        BY DEF Rfq!Init, RowsOfPayouts, Rows
    <2>3. Rfq!SettleNeedsFill
        BY DEF Rfq!Init, Rfq!SettleNeedsFill
    <2> QED BY <2>1, <2>2, <2>3 DEF RfqInv
<1>2. RfqInv /\ [Rfq!Next]_Rfq!vars => RfqInv'
    BY RfqTables, RfqRows, RfqSettles DEF RfqInv
<1> QED BY <1>1, <1>2, PTL DEF Rfq!Spec

\* A fill row that says EXECUTED is never lost or reset.
LEMMA RfqExecuted ==
    ASSUME RfqConstants, RfqInv, [Rfq!Next]_Rfq!vars, NEW q \in DOMAIN fillRows, NEW k \in DOMAIN fillRows[q],
           fillRows[q][k].state = "EXECUTED"
    PROVE  \E j \in DOMAIN fillRows'[q] : fillRows'[q][j] = fillRows[q][k]
<1>0. q \in Quotes /\ DOMAIN fillRows = Quotes /\ payouts[q] \in Nat /\ Rows(fillRows[q], payouts[q])
    BY DEF RfqInv, Tables, RowsOfPayouts, RfqConstants
<1>1. CASE fillRows'[q] = fillRows[q]
    BY <1>1
<1>2. ASSUME NEW r \in 1 .. MaxPayouts, Rfq!post_fill(q, r)
      PROVE  \E j \in DOMAIN fillRows'[q] : fillRows'[q][j] = fillRows[q][k]
    <2>1. CASE fillRows'[q] = Append(fillRows[q], Reported(r))
        <3>1. k \in DOMAIN fillRows'[q] /\ fillRows'[q][k] = fillRows[q][k]
            BY <1>0, <2>1 DEF Rows
        <3> QED BY <3>1
    <2> QED BY <1>0, <1>1, <1>2, <2>1 DEF Rfq!post_fill, Reported
<1>3. ASSUME NEW l \in 1 .. MaxPayouts, Rfq!executeFill(q, l)
      PROVE  \E j \in DOMAIN fillRows'[q] : fillRows'[q][j] = fillRows[q][k]
    <2>1. l \in DOMAIN fillRows[q] /\ fillRows'[q] = Executed(fillRows[q], l)
        BY <1>0, <1>3 DEF Rfq!executeFill, Executed
    <2> QED BY <1>0, <2>1, RowsExecuted
<1>4. CASE \E p \in Quotes : p # q /\ \E r \in 1 .. MaxPayouts : Rfq!post_fill(p, r) \/ Rfq!executeFill(p, r)
    <2>1. fillRows'[q] = fillRows[q]
        BY <1>0, <1>4 DEF Rfq!post_fill, Rfq!executeFill, RfqInv, Tables
    <2> QED BY <2>1, <1>1
<1> QED
    BY <1>0, <1>1, <1>2, <1>3, <1>4, Zenon DEF Rfq!Next, Rfq!vars, Rfq!request_quotes, Rfq!solver_quotes,
       Rfq!accept_check,
       Rfq!accept_insert, Rfq!quote_lock, Rfq!fill, Rfq!rfq_settle, Rfq!proof_request,
       Rfq!prover_completes, Rfq!committee_matches, Rfq!audit_finding, Rfq!quoting, Rfq!acceptance,
       Rfq!paying, Rfq!proving,
       Rfq!gates, Rfq!settling

\* ExecutedFillStays: a fill row that is EXECUTED is never changed again.
THEOREM RfqExecutedFillStays == ASSUME RfqConstants PROVE Rfq!Spec => Rfq!ExecutedFillStays
<1>1. RfqInv /\ [Rfq!Next]_Rfq!vars =>
        [\A q \in DOMAIN fillRows : \A k \in DOMAIN fillRows[q] :
           fillRows[q][k].state = "EXECUTED" =>
               \E j \in DOMAIN fillRows'[q] : fillRows'[q][j] = fillRows[q][k]]_Rfq!vars
    BY RfqExecuted
<1> QED BY <1>1, RfqInvariant, PTL DEF Rfq!Spec, Rfq!ExecutedFillStays
\* A quote has no more rows than payouts.
LEMMA RowsFit ==
    ASSUME NEW s, NEW n \in Nat, Rows(s, n)
    PROVE  Len(s) <= n
<1> DEFINE receipts == [k \in 1 .. Len(s) |-> s[k].receipt]
<1>1. Len(s) \in Nat /\ DOMAIN s = 1 .. Len(s)
    BY DEF Rows
<1>2. receipts \in Injection(1 .. Len(s), 1 .. n)
    BY <1>1, Zenon DEF Rows, Injection, IsInjective
<1>3. /\ IsFiniteSet(1 .. Len(s)) /\ Cardinality(1 .. Len(s)) = Len(s)
      /\ IsFiniteSet(1 .. n) /\ Cardinality(1 .. n) = n
    <2>1. ASSUME NEW m \in Nat PROVE IsFiniteSet(1 .. m) /\ Cardinality(1 .. m) = m
        <3>1. 1 \in Int /\ m \in Int
            OBVIOUS
        <3>2. IsFiniteSet(1 .. m) /\ Cardinality(1 .. m) = IF 1 > m THEN 0 ELSE m - 1 + 1
            BY <3>1, FS_Interval, Zenon
        <3> QED BY <3>2
    <2> QED BY <1>1, <2>1
<1>4. Cardinality(1 .. Len(s)) <= Cardinality(1 .. n)
    BY <1>2, <1>3, FS_Injection DEF ExistsInjection
<1> QED BY <1>3, <1>4

\* The tables of the backend hold rows of their types, and no quote more fill
\* rows than payouts.
THEOREM RfqTypeOK == ASSUME RfqConstants PROVE Rfq!Spec => []Rfq!TypeOK
<1>1. RfqInv => Rfq!TypeOK
    <2> SUFFICES ASSUME RfqInv PROVE Rfq!TypeOK
        OBVIOUS
    <2>1. \A q \in Quotes : fillRows[q] \in Seq(Rfq!Fill) /\ Len(fillRows[q]) <= payouts[q]
        <3> TAKE q \in Quotes
        <3>1. payouts[q] \in Nat /\ Rows(fillRows[q], payouts[q])
            BY DEF RfqInv, Tables, RowsOfPayouts, RfqConstants
        <3> QED BY <3>1, RowsFit DEF Rows
    <2> QED BY <2>1 DEF RfqInv, Tables, Rfq!TypeOK
<1> QED BY <1>1, RfqInvariant, PTL

\* POST /v1/rfq/settle passes its fill checks only for an accepted and paid quote.
THEOREM RfqSettleNeedsFill == ASSUME RfqConstants PROVE Rfq!Spec => []Rfq!SettleNeedsFill
<1>1. RfqInv => Rfq!SettleNeedsFill
    BY DEF RfqInv
<1> QED BY <1>1, RfqInvariant, PTL

NoProofIsReady ==
    /\ \A i \in Intents : proofRows[i] \in {"none", "queued"}
    /\ settlements = {}

\* No step makes a proof ready, or stores a settlement.
LEMMA NoProofStep ==
    ASSUME RfqConstants, RfqInv, NoProofIsReady, [Rfq!Next]_Rfq!vars
    PROVE  NoProofIsReady'
<1>0. proofRows \in [Intents -> {"none", "queued", "ready"}]
    BY DEF RfqInv, Tables
<1>1. ASSUME NEW i \in Intents, Rfq!proof_request(i) PROVE NoProofIsReady'
    BY <1>0, <1>1 DEF Rfq!proof_request, Rfq!settling, NoProofIsReady
<1>2. ASSUME NEW q \in Quotes, Rfq!rfq_settle(q) PROVE NoProofIsReady'
    <2>1. proofRows[IntentOf[q]] # "ready"
        BY DEF RfqConstants, NoProofIsReady
    <2>2. Rfq!SettleAnswer(q) # "settled"
        BY <2>1, Zenon DEF Rfq!SettleAnswer
    <2>3. proofRows' = proofRows /\ settlements' = settlements
        BY <1>2, <2>2, Zenon DEF Rfq!rfq_settle, Rfq!proving
    <2> QED BY <2>3, Zenon DEF NoProofIsReady
<1>3. CASE UNCHANGED <<proofRows, settlements>>
    BY <1>3 DEF NoProofIsReady
<1> QED
    BY <1>1, <1>2, <1>3, Zenon DEF Rfq!Next, Rfq!vars, Rfq!request_quotes, Rfq!solver_quotes,
       Rfq!accept_check,
       Rfq!accept_insert, Rfq!quote_lock, Rfq!fill, Rfq!post_fill, Rfq!executeFill, Rfq!prover_completes,
       Rfq!committee_matches, Rfq!audit_finding, Rfq!quoting, Rfq!acceptance, Rfq!paying, Rfq!proving,
       Rfq!gates, Rfq!settling

\* No row of proof_jobs ever becomes ready, as only the prover's own table does:
\* POST /v1/rfq/settle never stores a settlement.
THEOREM RfqNothingSettles == ASSUME RfqConstants PROVE Rfq!Spec => [](settlements = {})
<1>1. Rfq!Init => NoProofIsReady
    BY DEF Rfq!Init, NoProofIsReady
<1>2. RfqInv /\ NoProofIsReady /\ [Rfq!Next]_Rfq!vars => NoProofIsReady'
    BY NoProofStep
<1>3. NoProofIsReady => settlements = {}
    BY DEF NoProofIsReady
<1> QED BY <1>1, <1>2, <1>3, RfqInvariant, PTL DEF Rfq!Spec
=============================================================================
