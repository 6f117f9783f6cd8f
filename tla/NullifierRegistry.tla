------------------------- MODULE NullifierRegistry -------------------------
(***************************************************************************)
(* contracts/stellar/nullifier_registry: the set of spent nullifiers that  *)
(* all spend paths of the shielded pool share.  A contract call is one     *)
(* atomic transaction: a panic is a disabled action.                       *)
(***************************************************************************)
CONSTANTS Spenders,     \* contract addresses the admin may authorize
          Nullifiers    \* domain-separated nullifier hashes

VARIABLES spent,        \* DataKey::Spent
          spenders,     \* DataKey::Authorized
          regPaused     \* DataKey::Paused

regVars == <<spent, spenders, regPaused>>

RegTypeOK ==
    /\ spent \subseteq Nullifiers
    /\ spenders \subseteq Spenders
    /\ regPaused \in BOOLEAN

RegInit ==
    /\ spent = {}
    /\ spenders = {}
    /\ regPaused = FALSE

SetAuthorizedSpender(s, allowed) ==
    /\ spenders' = IF allowed THEN spenders \union {s} ELSE spenders \ {s}
    /\ UNCHANGED <<spent, regPaused>>

\* Mutant: an already spent nullifier is accepted.
CanSpendAgain(caller, nf, already) ==
    /\ ~regPaused
    /\ caller \in spenders

\* The checks of `spend`, against the set of nullifiers already spent when the
\* call is made (a transaction may call it twice).
CanSpend(caller, nf, already) ==
    /\ ~regPaused
    /\ caller \in spenders
    /\ nf \notin already

Spend(caller, nf) ==
    /\ CanSpend(caller, nf, spent)
    /\ spent' = spent \union {nf}
    /\ UNCHANGED <<spenders, regPaused>>

\* Two calls of `spend` in one transaction.
SpendBoth(caller, nfA, nfB) ==
    /\ CanSpend(caller, nfA, spent)
    /\ CanSpend(caller, nfB, spent \union {nfA})
    /\ spent' = spent \union {nfA, nfB}
    /\ UNCHANGED <<spenders, regPaused>>

RegPause ==
    /\ regPaused' = TRUE
    /\ UNCHANGED <<spent, spenders>>

RegUnpause ==
    /\ regPaused' = FALSE
    /\ UNCHANGED <<spent, spenders>>

=============================================================================
