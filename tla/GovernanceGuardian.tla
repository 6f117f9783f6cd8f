------------------------- MODULE GovernanceGuardian -------------------------
(***************************************************************************)
(* contracts/stellar/governance_guardian: M-of-N pause and timelocked      *)
(* upgrade of the contracts whose admin it is.  A call is one atomic       *)
(* transaction: when a panic or a failing cross-contract call reverts it,  *)
(* the action is disabled.                                                 *)
(***************************************************************************)
EXTENDS Integers, Sequences, FiniteSets, Functions

CONSTANTS Accounts,        \* addresses that may become guardians
          Founders,        \* the guardians given to initialize, in order
          Targets,         \* contracts a proposal may name
          Administered,    \* those whose admin is this contract
          TakesReason,     \* those whose `pause` takes the reason hash
          Wasms, NoWasm,   \* code hashes; the code a target is deployed with
          Delay,           \* upgrade_delay_ledgers
          MaxProposals, MaxLedger   \* bounds on proposal ids and ledgers

ASSUME GuardianAssumption ==
    /\ Founders \in Seq(Accounts)
    /\ Len(Founders) > 0
    /\ Administered \subseteq Targets
    /\ TakesReason \subseteq Targets
    /\ NoWasm \notin Wasms
    /\ Delay \in Nat
    /\ MaxProposals \in Nat
    /\ MaxLedger \in Nat

Ids == 0..(MaxProposals - 1)
None == -1

VARIABLES
    guardians,     \* GUARDIANS, a vector
    threshold,     \* THRESHOLD
    nextId,        \* NEXT_PROPOSAL_ID, shared by both kinds of proposal
    pauses,        \* DataKey::PauseProposal
    upgrades,      \* DataKey::UpgradeProposal
    tPaused, tWasm,   \* the targets' pause flags and code
    ledger,        \* ledger sequence number
    \* History variables: nothing reads them.
    everGuardian,  \* accounts that have been guardians
    needed,        \* threshold in force when a proposal reached its quorum
    installs       \* how often each upgrade proposal was executed

roleVars == <<guardians, threshold, everGuardian>>
targetVars == <<tPaused, tWasm>>
vars == <<roleVars, nextId, pauses, upgrades, targetVars, ledger, needed, installs>>

PauseProposal == [contract_id : Targets, unpause : BOOLEAN, approvals : Seq(Accounts),
                  executed : BOOLEAN]
UpgradeProposal == [contract_id : Targets, new_wasm_hash : Wasms, approvals : Seq(Accounts),
                    quorum_at_ledger : Int, executed : BOOLEAN, cancelled : BOOLEAN]

TypeOK ==
    /\ guardians \in Seq(Accounts)
    /\ threshold \in Nat \ {0}
    /\ nextId \in Nat
    /\ DOMAIN pauses \union DOMAIN upgrades = 0..(nextId - 1)
    /\ DOMAIN pauses \intersect DOMAIN upgrades = {}
    /\ \A id \in DOMAIN pauses : pauses[id] \in PauseProposal
    /\ \A id \in DOMAIN upgrades : upgrades[id] \in UpgradeProposal
    /\ tPaused \in [Targets -> BOOLEAN]
    /\ tWasm \in [Targets -> Wasms \union {NoWasm}]
    /\ ledger \in Nat
    /\ everGuardian \subseteq Accounts
    /\ needed \in [Ids -> Nat]
    /\ installs \in [Ids -> Nat]

initialize ==
    /\ guardians = Founders
    /\ threshold \in 1..Len(Founders)
    /\ nextId = 0
    /\ pauses = <<>>
    /\ upgrades = <<>>
    /\ tPaused = [t \in Targets |-> FALSE]
    /\ tWasm = [t \in Targets |-> NoWasm]
    /\ ledger = 0
    /\ everGuardian = Range(Founders)
    /\ needed = [id \in Ids |-> 0]
    /\ installs = [id \in Ids |-> 0]

\* storage().persistent().set
Store(f, id, p) == [x \in DOMAIN f \union {id} |-> IF x = id THEN p ELSE f[x]]

-----------------------------------------------------------------------------
(* Roles, changed by the admin *)

\* A guardian already in the vector is not added again.
add_guardian(g) ==
    /\ guardians' = IF g \in Range(guardians) THEN guardians ELSE Append(guardians, g)
    /\ everGuardian' = everGuardian \union {g}
    /\ UNCHANGED <<threshold, nextId, pauses, upgrades, targetVars, ledger, needed, installs>>

\* Every entry of the vector other than g, in order.
Without(s, g) ==
    LET kept[i \in 0..Len(s)] ==
            IF i = 0 THEN << >>
            ELSE IF s[i] = g THEN kept[i - 1] ELSE Append(kept[i - 1], s[i])
    IN  kept[Len(s)]

remove_guardian(g) ==
    LET kept == Without(guardians, g)
    IN  /\ threshold <= Len(kept)
        /\ guardians' = kept
        /\ UNCHANGED <<threshold, everGuardian, nextId, pauses, upgrades, targetVars, ledger,
                       needed, installs>>

set_threshold(n) ==
    /\ n \in 1..Len(guardians)
    /\ threshold' = n
    /\ UNCHANGED <<guardians, everGuardian, nextId, pauses, upgrades, targetVars, ledger,
                   needed, installs>>

require_is_guardian(g) == g \in Range(guardians)

\* Mutant: a second approval of the same guardian counts.
CountAgain(p, g) == TRUE

\* AlreadyApproved is an error.
NotYetApproved(p, g) == g \notin Range(p.approvals)

-----------------------------------------------------------------------------
(* Pause and unpause *)

\* `unpause` is called without arguments and `pause` with the reason hash: a
\* target whose `pause` takes none fails the call, as does one that has another
\* admin.
Callable(t, unpause) ==
    /\ t \in Administered
    /\ unpause \/ t \in TakesReason

\* Stores the proposal; at the threshold it also calls the target.
try_execute_pause(id, p) ==
    \/ /\ Len(p.approvals) < threshold
       /\ pauses' = Store(pauses, id, p)
       /\ UNCHANGED <<tPaused, needed>>
    \/ /\ Len(p.approvals) >= threshold
       /\ Callable(p.contract_id, p.unpause)
       /\ pauses' = Store(pauses, id, [p EXCEPT !.executed = TRUE])
       /\ tPaused' = [tPaused EXCEPT ![p.contract_id] = ~p.unpause]
       /\ needed' = [needed EXCEPT ![id] = threshold]

propose_pause(g, t, unpause) ==
    /\ require_is_guardian(g)
    /\ nextId < MaxProposals
    /\ nextId' = nextId + 1
    /\ try_execute_pause(nextId, [contract_id |-> t, unpause |-> unpause,
                                  approvals |-> <<g>>, executed |-> FALSE])
    /\ UNCHANGED <<roleVars, upgrades, tWasm, ledger, installs>>

approve_pause(g, id) ==
    /\ require_is_guardian(g)
    /\ id \in DOMAIN pauses
    /\ ~pauses[id].executed
    /\ NotYetApproved(pauses[id], g)
    /\ try_execute_pause(id, [pauses[id] EXCEPT !.approvals = Append(@, g)])
    /\ UNCHANGED <<roleVars, nextId, upgrades, tWasm, ledger, installs>>

-----------------------------------------------------------------------------
(* Upgrades *)

\* Mutant: every approval at the threshold restarts the timelock.
check_upgrade_quorum_again(id, p) ==
    IF Len(p.approvals) >= threshold
    THEN /\ upgrades' = Store(upgrades, id, [p EXCEPT !.quorum_at_ledger = ledger])
         /\ needed' = [needed EXCEPT ![id] = threshold]
    ELSE /\ upgrades' = Store(upgrades, id, p)
         /\ UNCHANGED needed

\* Stores the proposal; the ledger of the first quorum is recorded once.
check_upgrade_quorum(id, p) ==
    IF p.quorum_at_ledger = None /\ Len(p.approvals) >= threshold
    THEN /\ upgrades' = Store(upgrades, id, [p EXCEPT !.quorum_at_ledger = ledger])
         /\ needed' = [needed EXCEPT ![id] = threshold]
    ELSE /\ upgrades' = Store(upgrades, id, p)
         /\ UNCHANGED needed

propose_upgrade(g, t, wasm) ==
    /\ require_is_guardian(g)
    /\ nextId < MaxProposals
    /\ nextId' = nextId + 1
    /\ check_upgrade_quorum(nextId, [contract_id |-> t, new_wasm_hash |-> wasm,
                                     approvals |-> <<g>>, quorum_at_ledger |-> None,
                                     executed |-> FALSE, cancelled |-> FALSE])
    /\ UNCHANGED <<roleVars, pauses, targetVars, ledger, installs>>

approve_upgrade(g, id) ==
    /\ require_is_guardian(g)
    /\ id \in DOMAIN upgrades
    /\ ~upgrades[id].executed
    /\ ~upgrades[id].cancelled
    /\ NotYetApproved(upgrades[id], g)
    /\ check_upgrade_quorum(id, [upgrades[id] EXCEPT !.approvals = Append(@, g)])
    /\ UNCHANGED <<roleVars, nextId, pauses, targetVars, ledger, installs>>

\* Mutant: an executed proposal can still be cancelled.
cancel_late(g, id) ==
    /\ require_is_guardian(g)
    /\ id \in DOMAIN upgrades
    /\ upgrades' = [upgrades EXCEPT ![id].cancelled = TRUE]
    /\ UNCHANGED <<roleVars, nextId, pauses, targetVars, ledger, needed, installs>>

\* Any current guardian may cancel, whether it approved or not.
cancel_upgrade(g, id) ==
    /\ require_is_guardian(g)
    /\ id \in DOMAIN upgrades
    /\ ~upgrades[id].executed
    /\ upgrades' = [upgrades EXCEPT ![id].cancelled = TRUE]
    /\ UNCHANGED <<roleVars, nextId, pauses, targetVars, ledger, needed, installs>>

\* Mutant: the delay is not waited for.
ElapsedAtOnce(p) == p.quorum_at_ledger # None

TimelockElapsed(p) ==
    /\ p.quorum_at_ledger # None
    /\ ledger >= p.quorum_at_ledger + Delay

\* Anyone may execute.
execute_upgrade(id) ==
    /\ id \in DOMAIN upgrades
    /\ ~upgrades[id].executed
    /\ ~upgrades[id].cancelled
    /\ TimelockElapsed(upgrades[id])
    /\ upgrades[id].contract_id \in Administered
    /\ tWasm' = [tWasm EXCEPT ![upgrades[id].contract_id] = upgrades[id].new_wasm_hash]
    /\ upgrades' = [upgrades EXCEPT ![id].executed = TRUE]
    /\ installs' = [installs EXCEPT ![id] = @ + 1]
    /\ UNCHANGED <<roleVars, nextId, pauses, tPaused, ledger, needed>>

LedgerCloses ==
    /\ ledger < MaxLedger
    /\ ledger' = ledger + 1
    /\ UNCHANGED <<roleVars, nextId, pauses, upgrades, targetVars, needed, installs>>

-----------------------------------------------------------------------------
Administer ==
    \/ \E g \in Accounts : add_guardian(g)
    \/ \E g \in Accounts : remove_guardian(g)
    \/ \E n \in 1..Len(guardians) : set_threshold(n)

GuardianActs ==
    \E g \in Accounts :
        \/ \E t \in Targets, unpause \in BOOLEAN : propose_pause(g, t, unpause)
        \/ \E id \in Ids : approve_pause(g, id)
        \/ \E t \in Targets, wasm \in Wasms : propose_upgrade(g, t, wasm)
        \/ \E id \in Ids : approve_upgrade(g, id)
        \/ \E id \in Ids : cancel_upgrade(g, id)

Next ==
    \/ Administer
    \/ GuardianActs
    \/ \E id \in Ids : execute_upgrade(id)
    \/ LedgerCloses

Spec == initialize /\ [][Next]_vars

-----------------------------------------------------------------------------
(* Properties *)

\* A pause that was executed, and an upgrade whose timelock runs, was approved by
\* as many distinct accounts as the threshold in force at its quorum asked for,
\* all of them guardians when they approved.
QuorumIsDistinctGuardians ==
    /\ \A id \in DOMAIN pauses : pauses[id].executed =>
          /\ Cardinality(Range(pauses[id].approvals)) >= needed[id]
          /\ needed[id] > 0
          /\ Range(pauses[id].approvals) \subseteq everGuardian
    /\ \A id \in DOMAIN upgrades : upgrades[id].quorum_at_ledger # None =>
          /\ Cardinality(Range(upgrades[id].approvals)) >= needed[id]
          /\ needed[id] > 0
          /\ Range(upgrades[id].approvals) \subseteq everGuardian

\* Cancelling and executing exclude each other in both orders, and a proposal is
\* installed exactly once if it is executed and never otherwise: a cancelled
\* upgrade cannot be resurrected by approvals that arrive later.
CancelledNeverInstalled ==
    \A id \in DOMAIN upgrades :
        /\ ~(upgrades[id].executed /\ upgrades[id].cancelled)
        /\ installs[id] = IF upgrades[id].executed THEN 1 ELSE 0

\* The code of a target changes only through a proposal whose quorum is at least
\* the delay old and that nobody cancelled.
UpgradeWaits ==
    [][\A t \in Targets : tWasm'[t] # tWasm[t] =>
          \E id \in DOMAIN upgrades :
              /\ upgrades[id].contract_id = t
              /\ upgrades[id].new_wasm_hash = tWasm'[t]
              /\ ~upgrades[id].cancelled
              /\ upgrades[id].quorum_at_ledger # None
              /\ ledger >= upgrades[id].quorum_at_ledger + Delay]_vars

\* The timelock runs from the first quorum: neither later approvals nor a change
\* of the threshold or of the guardians restarts or withdraws it.
TimelockIsFixed ==
    [][\A id \in DOMAIN upgrades :
          upgrades[id].quorum_at_ledger # None =>
              upgrades'[id].quorum_at_ledger = upgrades[id].quorum_at_ledger]_vars

\* "Immediate pause ... for guardian quorum": when one approval is missing, any
\* guardian who has not approved can give it, and the target is paused at once.
QuorumCanPause ==
    \A id \in DOMAIN pauses, g \in Range(guardians) :
        (/\ ~pauses[id].executed
         /\ pauses[id].contract_id \in Administered
         /\ Len(pauses[id].approvals) + 1 = threshold
         /\ NotYetApproved(pauses[id], g))
        => ENABLED approve_pause(g, id)

=============================================================================
