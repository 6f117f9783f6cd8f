---------------------------- MODULE ShieldedPool ----------------------------
(***************************************************************************)
(* contracts/stellar/shielded_pool, composed with the nullifier registry   *)
(* it calls, the token contracts that hold its balances, and what the      *)
(* circuits prove about the notes it spends.                               *)
(*                                                                         *)
(* A note is a constant: its commitment commits to an asset, a value and a *)
(* nullifier, and two notes may share a nullifier.  A Merkle root is       *)
(* represented by the sequence of leaves it hashes, which is faithful as   *)
(* long as the hash is injective; the zero root the constructor stores is  *)
(* <<>>, against which no note verifies.  The association-set root is      *)
(* represented by the set of notes whose labels it contains; {} is "not    *)
(* configured".  A proof verifies exactly when the circuit's constraints   *)
(* hold of the note it opens.                                              *)
(***************************************************************************)
EXTENDS Integers, Sequences, FiniteSetsExt

CONSTANTS Assets, USDC,          \* asset ids; the one the constructor is given
          Notes, AssetOf, ValueOf, NulOf,   \* note commitments and their openings
          Nonces,                \* CCTP message nonces
          Principals, Deployer,  \* accounts that may become admin
          Solvers, Signers,      \* solver and committee ed25519 keys
          Capacity,              \* 2^depth leaves
          PriceScale, Prices,    \* fixed-point prices of a swap
          I128Max,               \* the largest i128
          MaxAmount,             \* largest deposit or transfer of tokens considered
          Deadlines,             \* deadlineLedger values bound into proofs
          MaxBalance, MaxLedger  \* bounds on token balances and ledgers

ASSUME ConstantsAssumption ==
    /\ USDC \in Assets
    /\ AssetOf \in [Notes -> Assets]
    /\ ValueOf \in [Notes -> Nat]
    /\ Deployer \in Principals
    /\ Capacity \in Nat
    /\ PriceScale \in Nat \ {0}
    /\ Prices \subseteq Nat \ {0}
    /\ I128Max \in Nat
    /\ MaxAmount \in Nat
    /\ Deadlines \subseteq Nat
    /\ MaxBalance \in Nat
    /\ MaxLedger \in Nat

\* The contracts set after deployment: the deposit, transfer, mpc and priced
\* verifiers and the CCTP TokenMessengerMinter.
Parts == {"deposit", "transfer", "mpc", "priced", "messenger"}
Pool == "pool"
Spenders == {Pool}
Nullifiers == {NulOf[n] : n \in Notes}

VARIABLES
    admin, paused,          \* ADMIN, PAUSED
    wired,                  \* which of Parts are set
    assoc,                  \* ASSOCROOT
    solvers,                \* DataKey::Solver
    committee,              \* MPC_CMTE
    registered,             \* DataKey::AssetToken
    leaves,                 \* TREE_LEAVES (and TREE_ROOT_KEY, its root)
    leafCount,              \* LEAF_COUNT_KEY
    knownRoots,             \* DataKey::KnownRoot
    deposits,               \* DataKey::Deposit
    noteSupply,             \* DataKey::NoteSupply
    spent, spenders, regPaused,   \* the nullifier registry
    balance,                \* token balances of the pool (token contracts)
    ledger,                 \* ledger sequence number
    \* History variables: nothing reads them.
    claims,                 \* value of the notes created minus that of the notes spent
    released,               \* value each note has been spent for
    drained,                \* tokens paid out with no entry in noteSupply
    credited                \* deposits registered for each nonce

configVars == <<admin, paused, wired, assoc, solvers, committee, registered>>
treeVars == <<leaves, leafCount, knownRoots>>
supplyVars == <<deposits, noteSupply>>
regVars == <<spent, spenders, regPaused>>
historyVars == <<claims, released, drained, credited>>
vars == <<configVars, treeVars, supplyVars, regVars, balance, ledger, historyVars>>

Registry == INSTANCE NullifierRegistry

LeavesOf(root) == {root[i] : i \in DOMAIN root}

TypeOK ==
    /\ admin \in Principals
    /\ paused \in BOOLEAN
    /\ wired \subseteq Parts
    /\ assoc \subseteq Notes
    /\ solvers \subseteq Solvers
    /\ committee \subseteq Signers
    /\ registered \subseteq Assets
    /\ leaves \in Seq(Notes)
    /\ leafCount \in Nat
    /\ knownRoots \subseteq Seq(Notes)
    /\ deposits \subseteq Nonces
    /\ noteSupply \in [Assets -> Nat]
    /\ Registry!RegTypeOK
    /\ balance \in [Assets -> Nat]
    /\ ledger \in Nat
    /\ claims \in [Assets -> Int]
    /\ released \in [Notes -> Nat]
    /\ drained \in [Assets -> Nat]
    /\ credited \in [Nonces -> Nat]

Init ==
    /\ admin = Deployer
    /\ paused = FALSE
    /\ wired = {}
    /\ assoc = {}
    /\ solvers = {}
    /\ committee = {}
    /\ registered = {}
    /\ leaves = <<>>
    /\ leafCount = 0
    /\ knownRoots = {<<>>}
    /\ deposits = {}
    /\ noteSupply = [a \in Assets |-> 0]
    /\ Registry!RegInit
    /\ balance = [a \in Assets |-> 0]
    /\ ledger = 0
    /\ claims = [a \in Assets |-> 0]
    /\ released = [n \in Notes |-> 0]
    /\ drained = [a \in Assets |-> 0]
    /\ credited = [x \in Nonces |-> 0]

-----------------------------------------------------------------------------
(* Helpers of the contract *)

require_admin(by) == by = admin

require_not_paused == ~paused

\* The tree is rebuilt from the stored leaves; insertion fails at capacity.
append_leaf(n) ==
    /\ Len(leaves) < Capacity
    /\ leaves' = Append(leaves, n)
    /\ knownRoots' = knownRoots \union {Append(leaves, n)}
    /\ leafCount' = leafCount + 1

\* Mutant: the leaf count is bumped once for two leaves.
append_two_miscounted(a, b) ==
    /\ Len(leaves) + 1 < Capacity
    /\ leaves' = Append(Append(leaves, a), b)
    /\ knownRoots' = knownRoots \union {Append(leaves, a), Append(Append(leaves, a), b)}
    /\ leafCount' = leafCount + 1

\* Two insertions in one transaction: the root in between is recorded too.
append_two(a, b) ==
    /\ Len(leaves) + 1 < Capacity
    /\ leaves' = Append(Append(leaves, a), b)
    /\ knownRoots' = knownRoots \union {Append(leaves, a), Append(Append(leaves, a), b)}
    /\ leafCount' = leafCount + 2

\* Mutant: a credit is entered one unit short.
adjust_short(a, delta) ==
    /\ a \in registered
    /\ noteSupply[a] + delta >= 0
    /\ noteSupply[a] + delta <= balance'[a]
    /\ noteSupply' = [noteSupply EXCEPT ![a] = IF delta > 0 THEN @ + delta - 1 ELSE @ + delta]

\* Mutant: no reserve check.
adjust_unreserved(a, delta) ==
    /\ a \in registered
    /\ noteSupply[a] + delta >= 0
    /\ noteSupply' = [noteSupply EXCEPT ![a] = @ + delta]

\* Runs after the token transfers of the transaction, hence balance'.
adjust_note_supply(a, delta) ==
    /\ a \in registered
    /\ noteSupply[a] + delta >= 0
    /\ noteSupply[a] + delta <= balance'[a]
    /\ noteSupply' = [noteSupply EXCEPT ![a] = @ + delta]

CommitteeThreshold == (2 * Cardinality(committee) + 2) \div 3

verify_committee_threshold(signed) ==
    /\ committee # {}
    /\ signed \subseteq committee
    /\ Cardinality(signed) >= CommitteeThreshold

\* What a membership proof against a known root establishes of the note it
\* opens: it is a leaf under that root and its label is in the association set.
Spendable(n, root) ==
    /\ root \in knownRoots
    /\ n \in LeavesOf(root)
    /\ n \in assoc

NotExpired(deadline) == ledger <= deadline

\* The withdraw circuit and the amount checks its four callers share.
WithdrawProof(n, root, value, fee, deadline) ==
    /\ Spendable(n, root)
    /\ value \in 1..ValueOf[n]
    /\ fee \in 0..value
    /\ NotExpired(deadline)

pay(a, amount) ==
    /\ balance[a] >= amount
    /\ balance' = [balance EXCEPT ![a] = @ - amount]

\* History: note n is spent for `value`.
Spent(n, value) ==
    /\ released' = [released EXCEPT ![n] = @ + value]
    /\ claims' = [claims EXCEPT ![AssetOf[n]] = @ - ValueOf[n]]

-----------------------------------------------------------------------------
(* Deposits and exits *)

\* Mutants of the two checks below.
AnyNonce(nonce) == TRUE
UncheckedDeposit(n, amount) == amount > 0

FreshNonce(nonce) == nonce \notin deposits

\* The deposit circuit: the note's value is at most the minted amount.
DepositProof(n, amount) ==
    /\ amount > 0
    /\ ValueOf[n] <= amount

receive_cctp_deposit(by, nonce, n, amount) ==
    /\ require_not_paused
    /\ require_admin(by)
    /\ FreshNonce(nonce)
    /\ "deposit" \in wired
    /\ DepositProof(n, amount)
    /\ append_leaf(n)
    /\ deposits' = deposits \union {nonce}
    /\ UNCHANGED balance
    /\ adjust_note_supply(AssetOf[n], amount)
    /\ claims' = [claims EXCEPT ![AssetOf[n]] = @ + ValueOf[n]]
    /\ credited' = [credited EXCEPT ![nonce] = @ + 1]
    /\ UNCHANGED <<configVars, regVars, ledger, released, drained>>

\* The recipient is paid value - fee; the fee stays in the pool.
withdraw(n, root, value, fee, deadline) ==
    /\ require_not_paused
    /\ WithdrawProof(n, root, value, fee, deadline)
    /\ Registry!Spend(Pool, NulOf[n])
    /\ AssetOf[n] \in registered
    /\ pay(AssetOf[n], value - fee)
    /\ adjust_note_supply(AssetOf[n], -value)
    /\ Spent(n, value)
    /\ UNCHANGED <<configVars, treeVars, deposits, ledger, drained, credited>>

\* deposit_for_burn pulls the whole amount; the fee signal is not read.
withdraw_cctp(n, root, value, fee, deadline) ==
    /\ require_not_paused
    /\ AssetOf[n] = USDC
    /\ WithdrawProof(n, root, value, fee, deadline)
    /\ Registry!Spend(Pool, NulOf[n])
    /\ "messenger" \in wired
    /\ pay(USDC, value)
    /\ adjust_note_supply(USDC, -value)
    /\ Spent(n, value)
    /\ UNCHANGED <<configVars, treeVars, deposits, ledger, drained, credited>>

-----------------------------------------------------------------------------
(* RFQ settlement *)

\* Pays the whole credit in USDC whatever the note's asset, and does not touch
\* noteSupply.
rfq_settle(solver, n, root, credit, fee, deadline) ==
    /\ require_not_paused
    /\ solver \in solvers
    /\ WithdrawProof(n, root, credit, fee, deadline)
    /\ Registry!Spend(Pool, NulOf[n])
    /\ pay(USDC, credit)
    /\ Spent(n, credit)
    /\ drained' = [drained EXCEPT ![USDC] = @ + credit]
    /\ UNCHANGED <<configVars, treeVars, supplyVars, ledger, credited>>

\* checked_mul: a product beyond i128 panics.
QuotedOutput(value, price) == (value * price) \div PriceScale

\* The output leaves the pool's reserves of the output asset, whose noteSupply
\* is not consulted; the input note's asset is paid to the solver and debited.
rfq_settle_atomic_swap(solver, n, root, value, fee, deadline, out, price) ==
    LET in == AssetOf[n]
        quoted == QuotedOutput(value, price)
    IN  /\ require_not_paused
        /\ solver \in solvers
        /\ quoted > 0
        /\ WithdrawProof(n, root, value, fee, deadline)
        /\ value * price <= I128Max
        /\ out # in
        /\ Registry!Spend(Pool, NulOf[n])
        /\ {out, in} \subseteq registered
        /\ balance[out] >= quoted
        /\ balance[in] >= value - fee
        /\ balance' = [balance EXCEPT ![out] = @ - quoted, ![in] = @ - (value - fee)]
        /\ adjust_note_supply(in, -value)
        /\ Spent(n, value)
        /\ drained' = [drained EXCEPT ![out] = @ + quoted]
        /\ UNCHANGED <<configVars, treeVars, deposits, ledger, credited>>

-----------------------------------------------------------------------------
(* Shielded transfers and committee settlement *)

\* The transfer circuit: same asset, inValue = outValue + fee, with no deadline.
TransferProof(n, root, out) ==
    /\ Spendable(n, root)
    /\ AssetOf[out] = AssetOf[n]
    /\ ValueOf[out] <= ValueOf[n]

private_transfer_settle(by, n, root, out) ==
    /\ require_not_paused
    /\ require_admin(by)
    /\ "transfer" \in wired
    /\ TransferProof(n, root, out)
    /\ Registry!Spend(Pool, NulOf[n])
    /\ append_leaf(out)
    /\ released' = [released EXCEPT ![n] = @ + ValueOf[n]]
    /\ claims' = [claims EXCEPT ![AssetOf[n]] = @ - ValueOf[n] + ValueOf[out]]
    /\ UNCHANGED <<configVars, supplyVars, balance, ledger, drained, credited>>

\* Mutant: the circuit forgets that the outputs add up.
MpcProofUnbalanced(nA, nB, root, outA, outB, matched) ==
    /\ Spendable(nA, root)
    /\ Spendable(nB, root)
    /\ \A m \in {nB, outA, outB} : AssetOf[m] = AssetOf[nA]
    /\ matched <= ValueOf[nA]
    /\ matched <= ValueOf[nB]

\* The mpc_settlement circuit: one asset for the four notes, the matched amount
\* is at most each input, and the outputs add up to twice the matched amount.
MpcProof(nA, nB, root, outA, outB, matched) ==
    /\ Spendable(nA, root)
    /\ Spendable(nB, root)
    /\ \A m \in {nB, outA, outB} : AssetOf[m] = AssetOf[nA]
    /\ matched <= ValueOf[nA]
    /\ matched <= ValueOf[nB]
    /\ ValueOf[outA] + ValueOf[outB] = 2 * matched

mpc_settle(signed, nA, nB, root, outA, outB, matched, deadline) ==
    /\ require_not_paused
    /\ verify_committee_threshold(signed)
    /\ "mpc" \in wired
    /\ MpcProof(nA, nB, root, outA, outB, matched)
    /\ NotExpired(deadline)
    /\ Registry!SpendBoth(Pool, NulOf[nA], NulOf[nB])
    /\ append_two(outA, outB)
    /\ released' = [released EXCEPT ![nA] = @ + matched, ![nB] = @ + matched]
    /\ claims' = [claims EXCEPT ![AssetOf[nA]] =
                     @ - ValueOf[nA] - ValueOf[nB] + ValueOf[outA] + ValueOf[outB]]
    /\ UNCHANGED <<configVars, supplyVars, balance, ledger, drained, credited>>

\* Mutant: the value of the second output is not bound to the first input.
PricedProofUnbound(nA, nB, root, outA, outB, price) ==
    /\ Spendable(nA, root)
    /\ Spendable(nB, root)
    /\ ValueOf[nB] = QuotedOutput(ValueOf[nA], price)
    /\ AssetOf[outA] = AssetOf[nB]
    /\ AssetOf[outB] = AssetOf[nA]
    /\ ValueOf[outA] = ValueOf[nB]

\* The mpc_priced_settlement circuit: both inputs are matched whole at the
\* price, and each party's output is worth exactly what the other gave.
PricedProof(nA, nB, root, outA, outB, price) ==
    /\ Spendable(nA, root)
    /\ Spendable(nB, root)
    /\ ValueOf[nB] = QuotedOutput(ValueOf[nA], price)
    /\ AssetOf[outA] = AssetOf[nB]
    /\ AssetOf[outB] = AssetOf[nA]
    /\ ValueOf[outA] = ValueOf[nB]
    /\ ValueOf[outB] = ValueOf[nA]

mpc_settle_priced(signed, nA, nB, root, outA, outB, price, deadline) ==
    /\ require_not_paused
    /\ verify_committee_threshold(signed)
    /\ "priced" \in wired
    /\ PricedProof(nA, nB, root, outA, outB, price)
    /\ NotExpired(deadline)
    /\ AssetOf[nA] # AssetOf[nB]
    /\ {AssetOf[nA], AssetOf[nB]} \subseteq registered
    /\ Registry!SpendBoth(Pool, NulOf[nA], NulOf[nB])
    /\ ValueOf[nA] > 0
    /\ ValueOf[nB] > 0
    /\ append_two(outA, outB)
    /\ released' = [released EXCEPT ![nA] = @ + ValueOf[nA], ![nB] = @ + ValueOf[nB]]
    /\ UNCHANGED <<configVars, supplyVars, balance, ledger, claims, drained, credited>>

-----------------------------------------------------------------------------
(* Administration *)

poolStateVars == <<treeVars, supplyVars, regVars, balance, ledger, historyVars>>

\* set_cctp_messenger and the four set_*_verifier setters.
set_part(by, part) ==
    /\ require_admin(by)
    /\ wired' = wired \union {part}
    /\ UNCHANGED <<admin, paused, assoc, solvers, committee, registered, poolStateVars>>

set_association_root(by, labels) ==
    /\ require_admin(by)
    /\ assoc' = labels
    /\ UNCHANGED <<admin, paused, wired, solvers, committee, registered, poolStateVars>>

set_authorized_solver(by, solver, allowed) ==
    /\ require_admin(by)
    /\ solvers' = IF allowed THEN solvers \union {solver} ELSE solvers \ {solver}
    /\ UNCHANGED <<admin, paused, wired, assoc, committee, registered, poolStateVars>>

set_committee(by, keys) ==
    /\ require_admin(by)
    /\ committee' = keys
    /\ UNCHANGED <<admin, paused, wired, assoc, solvers, registered, poolStateVars>>

\* An asset is registered once, with a supply of zero.
register_asset(by, a) ==
    /\ require_admin(by)
    /\ a \notin registered
    /\ registered' = registered \union {a}
    /\ noteSupply' = [noteSupply EXCEPT ![a] = 0]
    /\ UNCHANGED <<admin, paused, wired, assoc, solvers, committee, treeVars, deposits,
                   regVars, balance, ledger, historyVars>>

pause(by) ==
    /\ require_admin(by)
    /\ paused' = TRUE
    /\ UNCHANGED <<admin, wired, assoc, solvers, committee, registered, poolStateVars>>

unpause(by) ==
    /\ require_admin(by)
    /\ paused' = FALSE
    /\ UNCHANGED <<admin, wired, assoc, solvers, committee, registered, poolStateVars>>

transfer_admin(by, new) ==
    /\ require_admin(by)
    /\ admin' = new
    /\ UNCHANGED <<paused, wired, assoc, solvers, committee, registered, poolStateVars>>

-----------------------------------------------------------------------------
(* The environment: the registry's admin, token transfers into the pool    *)
(* (CCTP mint_and_forward, reserve funding) and the passing of ledgers.    *)

RegistryAdmin ==
    /\ \/ \E allowed \in BOOLEAN : Registry!SetAuthorizedSpender(Pool, allowed)
       \/ Registry!RegPause
       \/ Registry!RegUnpause
    /\ UNCHANGED <<configVars, treeVars, supplyVars, balance, ledger, historyVars>>

TokensArrive(a, amount) ==
    /\ balance[a] + amount <= MaxBalance
    /\ balance' = [balance EXCEPT ![a] = @ + amount]
    /\ UNCHANGED <<configVars, treeVars, supplyVars, regVars, ledger, historyVars>>

LedgerCloses ==
    /\ ledger < MaxLedger
    /\ ledger' = ledger + 1
    /\ UNCHANGED <<configVars, treeVars, supplyVars, regVars, balance, historyVars>>

-----------------------------------------------------------------------------
Deposit ==
    \E by \in Principals, nonce \in Nonces, n \in Notes, amount \in 1..MaxAmount :
        receive_cctp_deposit(by, nonce, n, amount)

\* The four operations that verify the withdraw circuit.
SpendNote(n, root, value, fee, deadline) ==
    \/ withdraw(n, root, value, fee, deadline)
    \/ withdraw_cctp(n, root, value, fee, deadline)
    \/ \E solver \in Solvers :
          \/ rfq_settle(solver, n, root, value, fee, deadline)
          \/ \E out \in Assets, price \in Prices :
                rfq_settle_atomic_swap(solver, n, root, value, fee, deadline, out, price)

WithdrawFamily ==
    \E root \in knownRoots, deadline \in Deadlines, n \in Notes :
        \E value \in 1..ValueOf[n] : \E fee \in 0..value :
            SpendNote(n, root, value, fee, deadline)

Transfer ==
    \E by \in Principals, root \in knownRoots, n, out \in Notes :
        private_transfer_settle(by, n, root, out)

MpcSettle ==
    \E signed \in SUBSET Signers, root \in knownRoots, deadline \in Deadlines,
       outA, outB \in Notes :
        \E nA, nB \in LeavesOf(root) :
            \/ \E matched \in 0..ValueOf[nA] :
                  mpc_settle(signed, nA, nB, root, outA, outB, matched, deadline)
            \/ \E price \in Prices :
                  mpc_settle_priced(signed, nA, nB, root, outA, outB, price, deadline)

Administer ==
    \E by \in Principals :
        \/ \E part \in Parts : set_part(by, part)
        \/ \E labels \in SUBSET Notes : set_association_root(by, labels)
        \/ \E solver \in Solvers, allowed \in BOOLEAN : set_authorized_solver(by, solver, allowed)
        \/ \E keys \in SUBSET Signers : set_committee(by, keys)
        \/ \E a \in Assets : register_asset(by, a)
        \/ pause(by)
        \/ unpause(by)
        \/ \E new \in Principals : transfer_admin(by, new)

Environment ==
    \/ RegistryAdmin
    \/ \E a \in Assets, amount \in 1..MaxAmount : TokensArrive(a, amount)
    \/ LedgerCloses

Next ==
    \/ Deposit
    \/ WithdrawFamily
    \/ Transfer
    \/ MpcSettle
    \/ Administer
    \/ Environment

Spec == Init /\ [][Next]_vars

-----------------------------------------------------------------------------
(* Properties *)

\* Across withdraw, withdraw_cctp, both RFQ settlements, private transfer and
\* both committee settlements, a note is spent for at most its value, and of
\* two notes that share a nullifier only one is ever spent.
NoDoubleSpend ==
    \A n \in Notes :
        /\ released[n] <= ValueOf[n]
        /\ \A m \in Notes \ {n} :
              NulOf[m] = NulOf[n] => released[n] = 0 \/ released[m] = 0

\* noteSupply, which adjust_note_supply debits and credits operation by
\* operation, is never below the value of the notes created and not yet spent,
\* although transfers, committee settlements and rfq_settle leave it alone: so
\* the SupplyUnderflow panic can never block the holder of an unspent note.
SupplyCoversClaims ==
    \A a \in Assets : claims[a] <= noteSupply[a]

\* The reserve check of adjust_note_supply bounds noteSupply by the vault
\* balance except for what rfq_settle and the output side of atomic swaps have
\* paid out without it: the shortfall of an asset never exceeds those payments.
ShortfallIsDrained ==
    \A a \in Assets : noteSupply[a] <= balance[a] + drained[a]

\* Every root a proof may be verified against is the root of an earlier state
\* of this tree, the current root is one of them, and LEAF_COUNT_KEY, which each
\* caller of append_leaf bumps on its own, agrees with the stored leaves.
RootsAreHistory ==
    /\ leaves \in knownRoots
    /\ \A root \in knownRoots :
          /\ Len(root) <= Len(leaves)
          /\ \A i \in 1..Len(root) : root[i] = leaves[i]
    /\ leafCount = Len(leaves)
    /\ Len(leaves) <= Capacity

\* A nullifier is in the registry only if a note with that nullifier was
\* inserted into the tree: no proof spends a note that was never created.
SpentWasInserted ==
    \A nf \in spent : \E n \in LeavesOf(leaves) : NulOf[n] = nf

\* A CCTP nonce registers at most one note, however often the relayer retries
\* receive_cctp_deposit.
NonceCreditedOnce ==
    \A x \in Nonces : credited[x] = IF x \in deposits THEN 1 ELSE 0

\* The value of the notes in the tree that can still be spent.
Total(S) == MapThenSumSet(LAMBDA n : ValueOf[n], S)
Live(a) == {n \in LeavesOf(leaves) : NulOf[n] \notin spent /\ AssetOf[n] = a}

\* note_supply(asset) is at least the value of the unspent notes in the tree, in
\* every interleaving of deposits, transfers, settlements and withdrawals: the
\* holders of all of them can be debited.
LiveNotesCovered ==
    \A a \in Assets : Total(Live(a)) <= noteSupply[a]

=============================================================================
