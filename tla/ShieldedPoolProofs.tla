------------------------- MODULE ShieldedPoolProofs -------------------------
(***************************************************************************)
(* Proofs, for every value of the constants, of the invariants that the    *)
(* run of MCPoolScenarios checks on small pools.                           *)
(***************************************************************************)
EXTENDS ShieldedPool, TLAPS

-----------------------------------------------------------------------------
(* What the argument about the notes and the claims needs of numbers and sets *)

\* p goes from the total t and from the claims c alike.
LEMMA BothLess ==
    ASSUME NEW t \in Nat, NEW c \in Int, NEW p \in Nat, NEW q, t <= c, q = t - p
    PROVE  c - p \in Int /\ q <= c - p
OBVIOUS

\* x comes to the claims c, and no more to the total t.
LEMMA BothMore ==
    ASSUME NEW t \in Nat, NEW c \in Int, NEW x \in Nat, NEW v \in Nat, t <= c, v <= t + x
    PROVE  c + x \in Int /\ v <= c + x
OBVIOUS

LEMMA AtMost ==
    ASSUME NEW l \in Nat, NEW u \in Nat, NEW c \in Int, l <= u, u <= c
    PROVE  l <= c
OBVIOUS

\* L is in U if all but x and y of it is in R.
LEMMA AllButTwo ==
    ASSUME NEW R, NEW T, NEW U, NEW L, NEW x, NEW y, R \subseteq T, T \subseteq U,
           L \subseteq R \union {x, y}, x \in L => x \in T, y \in L => y \in U
    PROVE  L \subseteq U
OBVIOUS

-----------------------------------------------------------------------------
(* The inductive invariant *)

\* A note whose nullifier is not in the registry has not been spent.
UnspentReleasedNothing ==
    \A n \in Notes : NulOf[n] \notin spent => released[n] = 0

\* register_asset sets the supply of a fresh asset to 0: it was 0 before.
UnregisteredHasNoSupply ==
    \A a \in Assets \ registered : noteSupply[a] = 0

IInv ==
    /\ TypeOK
    /\ UnspentReleasedNothing
    /\ NoDoubleSpend
    /\ UnregisteredHasNoSupply
    /\ SupplyCoversClaims
    /\ ShortfallIsDrained
    /\ RootsAreHistory
    /\ SpentWasInserted
    /\ NonceCreditedOnce

-----------------------------------------------------------------------------
(* Type correctness *)

\* The types of the pieces an operation of the pool changes.
LEMMA AppendType ==
    ASSUME TypeOK, NEW n \in Notes, append_leaf(n)
    PROVE  leaves' \in Seq(Notes) /\ leafCount' \in Nat /\ knownRoots' \subseteq Seq(Notes)
<1>1. Append(leaves, n) \in Seq(Notes)  BY DEF TypeOK
<1>2. leaves' \in Seq(Notes) /\ leafCount' \in Nat  BY <1>1 DEF TypeOK, append_leaf
<1>3. knownRoots' \subseteq Seq(Notes)
  <2>1. knownRoots' = knownRoots \union {Append(leaves, n)}  BY DEF append_leaf
  <2> QED  BY <1>1, <2>1, Zenon DEF TypeOK
<1> QED  BY <1>2, <1>3

\* The same for the two insertions of a committee settlement.
LEMMA AppendTwoType ==
    ASSUME TypeOK, NEW a \in Notes, NEW b \in Notes, append_two(a, b)
    PROVE  leaves' \in Seq(Notes) /\ leafCount' \in Nat /\ knownRoots' \subseteq Seq(Notes)
<1>1. Append(leaves, a) \in Seq(Notes)  BY DEF TypeOK
<1>2. Append(Append(leaves, a), b) \in Seq(Notes)  BY <1>1
<1>3. leaves' \in Seq(Notes) /\ leafCount' \in Nat  BY <1>2 DEF TypeOK, append_two
<1>4. knownRoots' \subseteq Seq(Notes)
  <2>1. knownRoots' = knownRoots \union {Append(leaves, a), Append(Append(leaves, a), b)}
    BY DEF append_two
  <2> QED  BY <1>1, <1>2, <2>1, Zenon DEF TypeOK
<1> QED  BY <1>3, <1>4

\* adjust_note_supply keeps every supply a natural number.
LEMMA SupplyType ==
    ASSUME TypeOK, NEW a \in Assets, NEW delta \in Int, adjust_note_supply(a, delta)
    PROVE  noteSupply' \in [Assets -> Nat]
BY DEF TypeOK, adjust_note_supply

\* A token transfer out of the pool keeps balances natural.
LEMMA PayType ==
    ASSUME TypeOK, NEW a \in Assets, NEW amount \in Nat, pay(a, amount)
    PROVE  balance' \in [Assets -> Nat]
BY DEF TypeOK, pay

\* Recording a spend keeps the two history functions typed.
LEMMA SpentType ==
    ASSUME TypeOK, NEW n \in Notes, NEW value \in Nat, Spent(n, value)
    PROVE  released' \in [Notes -> Nat] /\ claims' \in [Assets -> Int]
<1>1. AssetOf[n] \in Assets /\ ValueOf[n] \in Nat  BY ConstantsAssumption
<1>2. released' \in [Notes -> Nat]  BY DEF TypeOK, Spent
<1>3. claims' \in [Assets -> Int]  BY <1>1, SMTT(60) DEF TypeOK, Spent
<1> QED  BY <1>2, <1>3

\* spend keeps the registry typed.
LEMMA RegistryType ==
    ASSUME TypeOK, NEW n \in Notes, Registry!Spend(Pool, NulOf[n])
    PROVE  Registry!RegTypeOK'
BY DEF TypeOK, Registry!RegTypeOK, Registry!Spend, Registry!CanSpend, Nullifiers

\* Two spends in a row do too.
LEMMA RegistryBothType ==
    ASSUME TypeOK, NEW n \in Notes, NEW m \in Notes, Registry!SpendBoth(Pool, NulOf[n], NulOf[m])
    PROVE  Registry!RegTypeOK'
BY DEF TypeOK, Registry!RegTypeOK, Registry!SpendBoth, Nullifiers

-----------------------------------------------------------------------------
(* Notes and nullifiers *)

\* A note that a proof opens under a known root is a leaf of the current tree.
LEMMA SpendableIsLeaf ==
    ASSUME TypeOK, RootsAreHistory, NEW n, NEW root, Spendable(n, root)
    PROVE  n \in Notes /\ n \in LeavesOf(leaves)
<1>1. root \in knownRoots /\ root \in Seq(Notes)  BY DEF Spendable, TypeOK
<1>2. PICK i \in DOMAIN root : n = root[i]  BY DEF Spendable, LeavesOf
<1>3. i \in 1..Len(root)  BY <1>1, <1>2
<1>4. root[i] = leaves[i] /\ i \in 1..Len(leaves)
  BY <1>1, <1>3 DEF RootsAreHistory, TypeOK
<1> QED  BY <1>1, <1>2, <1>3, <1>4 DEF LeavesOf, TypeOK

\* Spending a nullifier for at most the note's value: the note was unspent, and
\* so was every note that shares its nullifier.
LEMMA SpendKeeps ==
    ASSUME TypeOK, UnspentReleasedNothing, NoDoubleSpend,
           NEW n \in Notes, NEW value \in Nat, value <= ValueOf[n],
           Registry!Spend(Pool, NulOf[n]),
           released' = [released EXCEPT ![n] = @ + value]
    PROVE  UnspentReleasedNothing' /\ NoDoubleSpend'
<1>1. spent' = spent \union {NulOf[n]} /\ NulOf[n] \notin spent
  BY DEF Registry!Spend, Registry!CanSpend
<1>2. released[n] = 0 /\ \A m \in Notes : NulOf[m] = NulOf[n] => released[m] = 0
  BY <1>1 DEF UnspentReleasedNothing
<1>3. released'[n] = value /\ \A m \in Notes \ {n} : released'[m] = released[m]
  BY <1>2 DEF TypeOK
<1>4. UnspentReleasedNothing'  BY <1>1, <1>3 DEF UnspentReleasedNothing
<1>5. NoDoubleSpend'  BY <1>2, <1>3 DEF NoDoubleSpend
<1> QED  BY <1>4, <1>5

\* The two nullifiers of a committee settlement differ: the second spend would
\* otherwise fail.
LEMMA SpendBothKeeps ==
    ASSUME TypeOK, UnspentReleasedNothing, NoDoubleSpend,
           NEW nA \in Notes, NEW nB \in Notes, NEW vA \in Nat, NEW vB \in Nat,
           vA <= ValueOf[nA], vB <= ValueOf[nB],
           Registry!SpendBoth(Pool, NulOf[nA], NulOf[nB]),
           released' = [released EXCEPT ![nA] = @ + vA, ![nB] = @ + vB]
    PROVE  UnspentReleasedNothing' /\ NoDoubleSpend' /\ released' \in [Notes -> Nat]
<1>1. /\ spent' = spent \union {NulOf[nA], NulOf[nB]}
      /\ NulOf[nA] \notin spent /\ NulOf[nB] \notin spent /\ NulOf[nA] # NulOf[nB]
  BY DEF Registry!SpendBoth, Registry!CanSpend
<1>2. \A m \in Notes : NulOf[m] \in {NulOf[nA], NulOf[nB]} => released[m] = 0
  BY <1>1 DEF UnspentReleasedNothing
<1>3. /\ released'[nA] = vA /\ released'[nB] = vB
      /\ \A m \in Notes \ {nA, nB} : released'[m] = released[m]
  BY <1>1, <1>2 DEF TypeOK
<1>4. UnspentReleasedNothing'  BY <1>1, <1>3, Zenon DEF UnspentReleasedNothing
<1>5. NoDoubleSpend'  BY <1>1, <1>2, <1>3, Zenon DEF NoDoubleSpend
<1>6. released' \in [Notes -> Nat]  BY DEF TypeOK
<1> QED  BY <1>4, <1>5, <1>6

-----------------------------------------------------------------------------
(* The tree *)

\* Appending to a sequence keeps every prefix.
LEMMA AppendKeeps ==
    ASSUME TypeOK, RootsAreHistory, NEW n \in Notes, append_leaf(n), Capacity \in Nat
    PROVE  RootsAreHistory' /\ LeavesOf(leaves) \subseteq LeavesOf(leaves)'
<1>1. /\ leaves \in Seq(Notes) /\ leaves' = Append(leaves, n) /\ leaves' \in Seq(Notes)
      /\ Len(leaves') = Len(leaves) + 1
      /\ \A i \in 1..Len(leaves) : leaves'[i] = leaves[i]
  BY DEF TypeOK, append_leaf
<1>2. /\ knownRoots' = knownRoots \union {leaves'}
      /\ leafCount' = leafCount + 1 /\ Len(leaves) < Capacity
  BY DEF append_leaf
<1>3. ASSUME NEW root \in knownRoots'
      PROVE  Len(root) <= Len(leaves') /\ \A i \in 1..Len(root) : root[i] = leaves'[i]
  <2>1. CASE root \in knownRoots
    <3>1. /\ root \in Seq(Notes) /\ Len(root) <= Len(leaves)
          /\ \A i \in 1..Len(root) : root[i] = leaves[i]
      BY <2>1 DEF RootsAreHistory, TypeOK
    <3> QED  BY <3>1, <1>1
  <2>2. CASE root = leaves'
    BY <2>2, <1>1
  <2> QED  BY <2>1, <2>2, <1>2
<1>4. RootsAreHistory'
  BY <1>1, <1>2, <1>3 DEF RootsAreHistory, TypeOK
<1>5. LeavesOf(leaves) \subseteq LeavesOf(leaves')
  BY <1>1 DEF LeavesOf
<1> QED  BY <1>4, <1>5 DEF LeavesOf

\* append_two preserves the history of roots, like append_leaf.
LEMMA AppendTwoKeeps ==
    ASSUME TypeOK, RootsAreHistory, NEW a \in Notes, NEW b \in Notes, append_two(a, b),
           Capacity \in Nat
    PROVE  RootsAreHistory' /\ LeavesOf(leaves) \subseteq LeavesOf(leaves)'
<1> DEFINE mid == Append(leaves, a)
<1>1. /\ leaves \in Seq(Notes) /\ mid \in Seq(Notes)
      /\ Len(mid) = Len(leaves) + 1
      /\ \A i \in 1..Len(leaves) : mid[i] = leaves[i]
  BY DEF TypeOK
<1>2. leaves' = Append(mid, b)  BY DEF append_two
<1> HIDE DEF mid
<1>3. /\ leaves' \in Seq(Notes) /\ Len(leaves') = Len(leaves) + 2
      /\ \A i \in 1..Len(mid) : leaves'[i] = mid[i]
      /\ \A i \in 1..Len(leaves) : leaves'[i] = leaves[i]
  BY <1>1, <1>2
<1>4. /\ knownRoots' = knownRoots \union {mid, leaves'}
      /\ leafCount' = leafCount + 2 /\ Len(leaves) + 1 < Capacity
  BY DEF append_two, mid
<1>5. ASSUME NEW root \in knownRoots'
      PROVE  Len(root) <= Len(leaves') /\ \A i \in 1..Len(root) : root[i] = leaves'[i]
  <2>1. CASE root \in knownRoots
    <3>1. /\ root \in Seq(Notes) /\ Len(root) <= Len(leaves)
          /\ \A i \in 1..Len(root) : root[i] = leaves[i]
      BY <2>1 DEF RootsAreHistory, TypeOK
    <3> QED  BY <3>1, <1>1, <1>3
  <2>2. CASE root = mid
    BY <2>2, <1>1, <1>3
  <2>3. CASE root = leaves'
    BY <2>3, <1>3
  <2> QED  BY <2>1, <2>2, <2>3, <1>4
<1>6. RootsAreHistory'
  BY <1>1, <1>3, <1>4, <1>5 DEF RootsAreHistory, TypeOK
<1>7. LeavesOf(leaves) \subseteq LeavesOf(leaves')
  BY <1>1, <1>3 DEF LeavesOf
<1> QED  BY <1>6, <1>7 DEF LeavesOf

-----------------------------------------------------------------------------
(* One lemma per operation: it keeps the inductive invariant *)

\* The conjuncts of the invariant that a step leaves alone when it leaves their
\* variables alone.
LEMMA FrameSpends ==
    ASSUME UnspentReleasedNothing, NoDoubleSpend, spent' = spent, released' = released
    PROVE  UnspentReleasedNothing' /\ NoDoubleSpend'
<1>1. UnspentReleasedNothing'  BY Zenon DEF UnspentReleasedNothing
<1>2. NoDoubleSpend'  BY Zenon DEF NoDoubleSpend
<1> QED  BY <1>1, <1>2

\* The tree's history depends on the tree only.
LEMMA FrameTree ==
    ASSUME RootsAreHistory, UNCHANGED treeVars
    PROVE  RootsAreHistory' /\ LeavesOf(leaves)' = LeavesOf(leaves)
<1>1. leaves' = leaves /\ leafCount' = leafCount /\ knownRoots' = knownRoots
  BY DEF treeVars
<1>2. RootsAreHistory'  BY <1>1, Zenon DEF RootsAreHistory
<1>3. LeavesOf(leaves)' = LeavesOf(leaves)  BY <1>1, Zenon DEF LeavesOf
<1> QED  BY <1>2, <1>3

\* Spending notes that are leaves, while the tree keeps its leaves.
LEMMA InsertedKeeps ==
    ASSUME SpentWasInserted, LeavesOf(leaves) \subseteq LeavesOf(leaves)',
           NEW N \in SUBSET LeavesOf(leaves), spent' = spent \union {NulOf[n] : n \in N}
    PROVE  SpentWasInserted'
<1>1. SUFFICES ASSUME NEW nf \in spent'
               PROVE  \E n \in LeavesOf(leaves)' : NulOf[n] = nf
  BY Zenon DEF SpentWasInserted
<1>2. \E n \in LeavesOf(leaves) : NulOf[n] = nf
  BY <1>1 DEF SpentWasInserted
<1> QED  BY <1>2

\* Supplies, registrations and deposits.
LEMMA FrameSupply ==
    ASSUME UnregisteredHasNoSupply, noteSupply' = noteSupply, registered' = registered
    PROVE  UnregisteredHasNoSupply'
BY Zenon DEF UnregisteredHasNoSupply

\* The reserve bound depends on supply, vault and drained amounts only.
LEMMA FrameShortfall ==
    ASSUME ShortfallIsDrained, noteSupply' = noteSupply, balance' = balance, drained' = drained
    PROVE  ShortfallIsDrained'
BY Zenon DEF ShortfallIsDrained

\* The claims bound depends on supply and claims only.
LEMMA FrameClaims ==
    ASSUME SupplyCoversClaims, noteSupply' = noteSupply, claims' = claims
    PROVE  SupplyCoversClaims'
BY Zenon DEF SupplyCoversClaims

\* The nonce count depends on the deposits only.
LEMMA FrameNonces ==
    ASSUME NonceCreditedOnce, deposits' = deposits, credited' = credited
    PROVE  NonceCreditedOnce'
BY Zenon DEF NonceCreditedOnce

\* Adding to one entry of a table of integers.
LEMMA AddAt ==
    ASSUME NEW S, NEW f \in [S -> Int], NEW a \in S, NEW d \in Int, NEW g,
           g = [f EXCEPT ![a] = @ + d]
    PROVE  g \in [S -> Int] /\ \A b \in S : g[b] = IF b = a THEN f[b] + d ELSE f[b]
OBVIOUS

\* Adding a natural number to one entry of a table of naturals.
LEMMA GrowAt ==
    ASSUME NEW S, NEW f \in [S -> Nat], NEW a \in S, NEW d \in Nat, NEW g,
           g = [f EXCEPT ![a] = @ + d]
    PROVE  g \in [S -> Nat] /\ \A b \in S : g[b] = IF b = a THEN f[b] + d ELSE f[b]
OBVIOUS

\* Subtracting from one entry of a table of integers.
LEMMA TakeAt ==
    ASSUME NEW S, NEW f \in [S -> Int], NEW a \in S, NEW d \in Int, NEW g,
           g = [f EXCEPT ![a] = @ - d]
    PROVE  g \in [S -> Int] /\ \A b \in S : g[b] = IF b = a THEN f[b] - d ELSE f[b]
OBVIOUS

\* What the arithmetic steps use of the inductive invariant: the types of the
\* tables, and the bounds entry by entry.
LEMMA Tables ==
    ASSUME IInv
    PROVE  /\ balance \in [Assets -> Int] /\ noteSupply \in [Assets -> Int]
           /\ drained \in [Assets -> Int] /\ claims \in [Assets -> Int]
           /\ drained \in [Assets -> Nat] /\ released \in [Notes -> Nat]
BY DEF IInv, TypeOK

\* The entries of those tables.
LEMMA Ledgers ==
    ASSUME IInv
    PROVE  \A b \in Assets : /\ balance[b] \in Nat /\ noteSupply[b] \in Nat
                             /\ drained[b] \in Nat /\ claims[b] \in Int
                             /\ noteSupply[b] <= balance[b] + drained[b]
                             /\ claims[b] <= noteSupply[b]
                             /\ b \notin registered => noteSupply[b] = 0
BY DEF IInv, TypeOK, ShortfallIsDrained, SupplyCoversClaims, UnregisteredHasNoSupply

\* Spending one note of an unchanged tree.
LEMMA SpendNoteKeeps ==
    ASSUME IInv, NEW n \in Notes, n \in LeavesOf(leaves), NEW value \in Nat,
           value <= ValueOf[n], Registry!Spend(Pool, NulOf[n]),
           released' = [released EXCEPT ![n] = @ + value],
           UNCHANGED treeVars
    PROVE  UnspentReleasedNothing' /\ NoDoubleSpend' /\ SpentWasInserted'
<1>1. UnspentReleasedNothing' /\ NoDoubleSpend'  BY SpendKeeps, Zenon DEF IInv
<1>2. spent' = spent \union {NulOf[m] : m \in {n}}  BY Zenon DEF Registry!Spend
<1>3. LeavesOf(leaves) \subseteq LeavesOf(leaves)'  BY FrameTree, Zenon DEF IInv
<1>4. {n} \in SUBSET LeavesOf(leaves)  BY Zenon
<1>5. SpentWasInserted'  BY <1>2, <1>3, <1>4, InsertedKeeps, Zenon DEF IInv
<1> QED  BY <1>1, <1>5

\* A spend takes the whole value of the note off the claims on its asset.
LEMMA ClaimsAfterSpend ==
    ASSUME IInv, NEW n, AssetOf[n] \in Assets, ValueOf[n] \in Nat, NEW value, Spent(n, value)
    PROVE  /\ claims' \in [Assets -> Int]
           /\ \A b \in Assets :
                 claims'[b] = IF b = AssetOf[n] THEN claims[b] - ValueOf[n] ELSE claims[b]
<1>1. claims' = [claims EXCEPT ![AssetOf[n]] = @ - ValueOf[n]]  BY Zenon DEF Spent
<1>2. ValueOf[n] \in Int  OBVIOUS
<1> QED  BY <1>1, <1>2, Tables, TakeAt

\* receive_cctp_deposit preserves the inductive invariant.
LEMMA DepositKeeps ==
    ASSUME IInv, NEW by \in Principals, NEW nonce \in Nonces, NEW n \in Notes,
           NEW amount \in 1..MaxAmount, receive_cctp_deposit(by, nonce, n, amount)
    PROVE  IInv'
<1> DEFINE a == AssetOf[n]
<1>1. a \in Assets /\ ValueOf[n] \in Nat /\ amount \in Nat /\ Capacity \in Nat
      /\ MaxAmount \in Nat
  BY ConstantsAssumption
<1>2. append_leaf(n) /\ adjust_note_supply(a, amount)  BY Zenon DEF receive_cctp_deposit
<1>3. deposits' = deposits \union {nonce} /\ nonce \notin deposits /\ ValueOf[n] <= amount
  BY Zenon DEF receive_cctp_deposit, FreshNonce, DepositProof
<1>4. claims' = [claims EXCEPT ![a] = @ + ValueOf[n]]  BY Zenon DEF receive_cctp_deposit
<1>5. credited' = [credited EXCEPT ![nonce] = @ + 1]  BY Zenon DEF receive_cctp_deposit
<1>6. UNCHANGED <<balance, configVars, regVars, ledger, released, drained>>
  BY Zenon DEF receive_cctp_deposit
<1>7. /\ balance' = balance /\ drained' = drained /\ registered' = registered
      /\ spent' = spent /\ released' = released
  BY <1>6, Zenon DEF configVars, regVars
<1> HIDE DEF a
<1>8. \A b \in Assets : claims'[b] = IF b = a THEN claims[b] + ValueOf[n] ELSE claims[b]
  <2>1. ValueOf[n] \in Int  BY <1>1
  <2> QED  BY <1>1, <1>4, <2>1, Tables, AddAt
<1>9. /\ a \in registered /\ noteSupply[a] + amount <= balance[a]
      /\ noteSupply' = [noteSupply EXCEPT ![a] = @ + amount]
  BY <1>2, <1>7, Zenon DEF adjust_note_supply
<1>10. \A b \in Assets :
         noteSupply'[b] = IF b = a THEN noteSupply[b] + amount ELSE noteSupply[b]
  <2>1. amount \in Int  BY <1>1
  <2> QED  BY <1>1, <1>9, <2>1, Tables, AddAt
<1>11. TypeOK'
  <2>1. leaves' \in Seq(Notes) /\ leafCount' \in Nat /\ knownRoots' \subseteq Seq(Notes)
    BY <1>2, AppendType, Zenon DEF IInv
  <2>2. amount \in Int  BY <1>1
  <2>3. noteSupply' \in [Assets -> Nat]  BY <1>1, <1>2, <2>2, SupplyType, Zenon DEF IInv
  <2>4. claims' \in [Assets -> Int]  BY <1>1, <1>4, Tables
  <2>5. credited \in [Nonces -> Nat]  BY Zenon DEF IInv, TypeOK
  <2>6. credited' \in [Nonces -> Nat]  BY <1>5, <2>5
  <2>7. deposits' \subseteq Nonces  BY <1>3, Zenon DEF IInv, TypeOK
  <2> QED
    BY <1>6, <2>1, <2>3, <2>4, <2>6, <2>7, Zenon
       DEF IInv, TypeOK, configVars, regVars, Registry!RegTypeOK
<1>12. RootsAreHistory' /\ LeavesOf(leaves) \subseteq LeavesOf(leaves)'
  BY <1>1, <1>2, AppendKeeps, Zenon DEF IInv
<1>13. SpentWasInserted'  BY <1>7, <1>12, Zenon DEF IInv, SpentWasInserted
<1>14. UnspentReleasedNothing' /\ NoDoubleSpend'  BY <1>7, FrameSpends, Zenon DEF IInv
<1>15. UnregisteredHasNoSupply'
  BY <1>7, <1>9, <1>10, Ledgers, Zenon DEF UnregisteredHasNoSupply
<1>16. SupplyCoversClaims'
  BY <1>1, <1>3, <1>8, <1>10, Ledgers DEF SupplyCoversClaims
<1>17. ShortfallIsDrained'
  BY <1>1, <1>7, <1>9, <1>10, Ledgers DEF ShortfallIsDrained
<1>18. NonceCreditedOnce'
  <2>1. credited \in [Nonces -> Nat]  BY Zenon DEF IInv, TypeOK
  <2>2. \A x \in Nonces : credited[x] = IF x \in deposits THEN 1 ELSE 0
    BY Zenon DEF IInv, NonceCreditedOnce
  <2> QED  BY <1>3, <1>5, <2>1, <2>2 DEF NonceCreditedOnce
<1> QED
  BY <1>11, <1>12, <1>13, <1>14, <1>15, <1>16, <1>17, <1>18, Zenon DEF IInv

\* withdraw and withdraw_cctp: the exit pays at most what it takes off the supply.
LEMMA ExitKeeps ==
    ASSUME IInv, NEW n, NEW root, NEW value, NEW fee, NEW deadline,
           withdraw(n, root, value, fee, deadline) \/ withdraw_cctp(n, root, value, fee, deadline)
    PROVE  IInv'
<1> DEFINE a == AssetOf[n]
<1>1. WithdrawProof(n, root, value, fee, deadline)  BY Zenon DEF withdraw, withdraw_cctp
<1>2. n \in Notes /\ n \in LeavesOf(leaves)
  BY <1>1, SpendableIsLeaf, Zenon DEF IInv, WithdrawProof
<1>3. /\ a \in Assets /\ ValueOf[n] \in Nat /\ value \in Nat /\ fee \in Nat
      /\ fee <= value /\ value <= ValueOf[n]
  <2>1. a \in Assets /\ ValueOf[n] \in Nat  BY <1>2, ConstantsAssumption, Zenon
  <2>2. value \in 1..ValueOf[n] /\ fee \in 0..value  BY <1>1, Zenon DEF WithdrawProof
  <2> QED  BY <2>1, <2>2
<1>4. PICK paid \in {value, value - fee} : pay(a, paid)
  BY Zenon DEF withdraw, withdraw_cctp
<1>5. paid \in Nat  BY <1>3, <1>4
<1>6. adjust_note_supply(a, -value)  BY Zenon DEF withdraw, withdraw_cctp
<1>7. Spent(n, value) /\ Registry!Spend(Pool, NulOf[n])  BY Zenon DEF withdraw, withdraw_cctp
<1>8. UNCHANGED <<configVars, treeVars, deposits, ledger, drained, credited>>
  BY Zenon DEF withdraw, withdraw_cctp
<1>9. UNCHANGED treeVars /\ deposits' = deposits /\ drained' = drained /\ credited' = credited
      /\ registered' = registered
  BY <1>8, Zenon DEF configVars
<1> HIDE DEF a
<1>10. TypeOK'
  <2>1. balance' \in [Assets -> Nat]  BY <1>3, <1>4, <1>5, PayType, Zenon DEF IInv
  <2>2. -value \in Int  BY <1>3
  <2>3. noteSupply' \in [Assets -> Nat]  BY <1>3, <1>6, <2>2, SupplyType, Zenon DEF IInv
  <2>4. released' \in [Notes -> Nat] /\ claims' \in [Assets -> Int]
    BY <1>2, <1>3, <1>7, SpentType, Zenon DEF IInv
  <2>5. Registry!RegTypeOK'  BY <1>2, <1>7, RegistryType, Zenon DEF IInv
  <2> QED  BY <1>8, <2>1, <2>3, <2>4, <2>5, Zenon DEF IInv, TypeOK, configVars, treeVars
<1>11. UnspentReleasedNothing' /\ NoDoubleSpend' /\ SpentWasInserted'
  BY <1>2, <1>3, <1>7, <1>9, SpendNoteKeeps, Zenon DEF Spent
<1>12. /\ a \in registered /\ noteSupply[a] + (-value) <= balance'[a]
       /\ noteSupply' = [noteSupply EXCEPT ![a] = @ + (-value)]
  BY <1>6, Zenon DEF adjust_note_supply
<1>13. \A b \in Assets : noteSupply'[b] = IF b = a THEN noteSupply[b] + (-value) ELSE noteSupply[b]
  <2>1. -value \in Int  BY <1>3
  <2> QED  BY <1>3, <1>12, <2>1, Tables, AddAt, Zenon
<1>14. \A b \in Assets : claims'[b] = IF b = a THEN claims[b] - ValueOf[n] ELSE claims[b]
  BY <1>3, <1>7, ClaimsAfterSpend, Zenon DEF a
<1>15. \A b \in Assets : b # a => balance'[b] = balance[b]
  BY <1>3, <1>4, Tables, Zenon DEF pay
<1>16. UnregisteredHasNoSupply'
  BY <1>9, <1>12, <1>13, Ledgers, Zenon DEF UnregisteredHasNoSupply
<1>17. SupplyCoversClaims'
  BY <1>3, <1>13, <1>14, Ledgers DEF SupplyCoversClaims
<1>18. ShortfallIsDrained'
  <2>1. SUFFICES ASSUME NEW b \in Assets
                 PROVE  noteSupply'[b] <= balance'[b] + drained'[b]
    BY Zenon DEF ShortfallIsDrained
  <2>2. drained'[b] = drained[b] /\ balance'[b] \in Nat /\ noteSupply'[b] \in Nat
    BY <1>9, <1>10, Zenon DEF TypeOK
  <2>3. CASE b = a
    <3>1. noteSupply'[b] <= balance'[b]  BY <1>3, <1>12, <1>13, <2>3, Zenon
    <3> QED  BY <2>2, <3>1, Ledgers
  <2>4. CASE b # a
    <3>1. noteSupply'[b] = noteSupply[b] /\ balance'[b] = balance[b]
      BY <1>13, <1>15, <2>4, Zenon
    <3> QED  BY <2>2, <3>1, Ledgers
  <2> QED  BY <2>3, <2>4, Zenon
<1>19. RootsAreHistory' /\ NonceCreditedOnce'
  BY <1>9, FrameTree, FrameNonces, Zenon DEF IInv
<1> QED  BY <1>10, <1>11, <1>16, <1>17, <1>18, <1>19, Zenon DEF IInv

\* rfq_settle leaves the supply alone; what it pays is counted as drained.
LEMMA RfqSettleKeeps ==
    ASSUME IInv, NEW solver, NEW n, NEW root, NEW credit, NEW fee, NEW deadline,
           rfq_settle(solver, n, root, credit, fee, deadline)
    PROVE  IInv'
<1>1. WithdrawProof(n, root, credit, fee, deadline)  BY Zenon DEF rfq_settle
<1>2. n \in Notes /\ n \in LeavesOf(leaves)
  BY <1>1, SpendableIsLeaf, Zenon DEF IInv, WithdrawProof
<1>3. /\ AssetOf[n] \in Assets /\ USDC \in Assets /\ ValueOf[n] \in Nat /\ credit \in Nat
      /\ credit <= ValueOf[n]
  <2>1. AssetOf[n] \in Assets /\ USDC \in Assets /\ ValueOf[n] \in Nat
    BY <1>2, ConstantsAssumption, Zenon
  <2>2. credit \in 1..ValueOf[n]  BY <1>1, Zenon DEF WithdrawProof
  <2> QED  BY <2>1, <2>2
<1>4. pay(USDC, credit) /\ Spent(n, credit) /\ Registry!Spend(Pool, NulOf[n])
  BY Zenon DEF rfq_settle
<1>5. drained' = [drained EXCEPT ![USDC] = @ + credit]  BY Zenon DEF rfq_settle
<1>6. UNCHANGED <<configVars, treeVars, supplyVars, ledger, credited>>  BY Zenon DEF rfq_settle
<1>7. /\ UNCHANGED treeVars /\ noteSupply' = noteSupply /\ deposits' = deposits
      /\ credited' = credited /\ registered' = registered
  BY <1>6, Zenon DEF configVars, supplyVars
<1>8. drained' \in [Assets -> Nat] /\ \A b \in Assets :
         drained'[b] = IF b = USDC THEN drained[b] + credit ELSE drained[b]
  BY <1>3, <1>5, Tables, GrowAt
<1>9. TypeOK'
  <2>1. balance' \in [Assets -> Nat]  BY <1>3, <1>4, PayType, Zenon DEF IInv
  <2>2. released' \in [Notes -> Nat] /\ claims' \in [Assets -> Int]
    BY <1>2, <1>3, <1>4, SpentType, Zenon DEF IInv
  <2>3. Registry!RegTypeOK'  BY <1>2, <1>4, RegistryType, Zenon DEF IInv
  <2> QED
    BY <1>6, <1>8, <2>1, <2>2, <2>3, Zenon DEF IInv, TypeOK, configVars, treeVars, supplyVars
<1>10. UnspentReleasedNothing' /\ NoDoubleSpend' /\ SpentWasInserted'
  BY <1>2, <1>3, <1>4, <1>7, SpendNoteKeeps, Zenon DEF Spent
<1>11. SupplyCoversClaims'
  <2>1. \A b \in Assets :
          claims'[b] = IF b = AssetOf[n] THEN claims[b] - ValueOf[n] ELSE claims[b]
    BY <1>3, <1>4, ClaimsAfterSpend, Zenon
  <2> QED  BY <1>3, <1>7, <2>1, Ledgers, SMTT(60) DEF SupplyCoversClaims
<1>12. ShortfallIsDrained'
  <2>1. balance' = [balance EXCEPT ![USDC] = @ - credit]  BY <1>4, Zenon DEF pay
  <2>2. credit \in Int  BY <1>3
  <2>3. \A b \in Assets : balance'[b] = IF b = USDC THEN balance[b] - credit ELSE balance[b]
    BY <1>3, <2>1, <2>2, Tables, TakeAt, Zenon
  <2> QED  BY <1>3, <1>7, <1>8, <2>3, Ledgers DEF ShortfallIsDrained
<1>13. UnregisteredHasNoSupply' /\ RootsAreHistory' /\ NonceCreditedOnce'
  BY <1>7, FrameSupply, FrameTree, FrameNonces, Zenon DEF IInv
<1> QED  BY <1>9, <1>10, <1>11, <1>12, <1>13, Zenon DEF IInv

\* A swap pays out of two entries of the balance table.
LEMMA TakeTwo ==
    ASSUME NEW S, NEW f \in [S -> Int], NEW a \in S, NEW b \in S, a # b,
           NEW d \in Int, NEW e \in Int, NEW g,
           g = [f EXCEPT ![a] = @ - d, ![b] = @ - e]
    PROVE  /\ g \in [S -> Int] /\ g[a] = f[a] - d /\ g[b] = f[b] - e
           /\ \A c \in S \ {a, b} : g[c] = f[c]
OBVIOUS

\* The swap debits the input asset and drains the output asset.
LEMMA SwapKeeps ==
    ASSUME IInv, NEW solver, NEW n, NEW root, NEW value, NEW fee, NEW deadline,
           NEW out \in Assets, NEW price \in Prices,
           rfq_settle_atomic_swap(solver, n, root, value, fee, deadline, out, price)
    PROVE  IInv'
<1> DEFINE a == AssetOf[n]
           quoted == QuotedOutput(value, price)
<1>1. WithdrawProof(n, root, value, fee, deadline)  BY Zenon DEF rfq_settle_atomic_swap
<1>2. n \in Notes /\ n \in LeavesOf(leaves)
  BY <1>1, SpendableIsLeaf, Zenon DEF IInv, WithdrawProof
<1>3. /\ a \in Assets /\ ValueOf[n] \in Nat /\ value \in Nat /\ value <= ValueOf[n]
      /\ fee \in Nat /\ fee <= value /\ value - fee \in Nat /\ -value \in Int
  <2>1. a \in Assets /\ ValueOf[n] \in Nat  BY <1>2, ConstantsAssumption, Zenon
  <2>2. value \in 1..ValueOf[n] /\ fee \in 0..value  BY <1>1, Zenon DEF WithdrawProof
  <2> QED  BY <2>1, <2>2
<1>4. quoted \in Nat /\ quoted \in Int
  <2>1. price \in Nat /\ PriceScale \in Nat \ {0}  BY ConstantsAssumption
  <2>2. value * price \in Nat  BY <1>3, <2>1
  <2> QED  BY <2>1, <2>2 DEF QuotedOutput
<1>5. Spent(n, value) /\ Registry!Spend(Pool, NulOf[n]) /\ adjust_note_supply(a, -value)
  BY Zenon DEF rfq_settle_atomic_swap
<1>6. out # a /\ balance[out] >= quoted /\ balance[a] >= value - fee
  BY Zenon DEF rfq_settle_atomic_swap
<1>7. balance' = [balance EXCEPT ![out] = @ - quoted, ![a] = @ - (value - fee)]
  BY Zenon DEF rfq_settle_atomic_swap
<1>8. drained' = [drained EXCEPT ![out] = @ + quoted]  BY Zenon DEF rfq_settle_atomic_swap
<1>9. UNCHANGED <<configVars, treeVars, deposits, ledger, credited>>
  BY Zenon DEF rfq_settle_atomic_swap
<1>10. UNCHANGED treeVars /\ deposits' = deposits /\ credited' = credited
       /\ registered' = registered
  BY <1>9, Zenon DEF configVars
<1>11. \A b \in Assets :
         claims'[b] = IF b = a THEN claims[b] - ValueOf[n] ELSE claims[b]
  BY <1>3, <1>5, ClaimsAfterSpend, Zenon
<1> HIDE DEF quoted, a
<1>12. /\ a \in registered /\ noteSupply[a] + (-value) <= balance'[a]
       /\ noteSupply' = [noteSupply EXCEPT ![a] = @ + (-value)]
  BY <1>5, Zenon DEF adjust_note_supply
<1>13. \A b \in Assets :
         noteSupply'[b] = IF b = a THEN noteSupply[b] + (-value) ELSE noteSupply[b]
  BY <1>3, <1>12, Tables, AddAt, Zenon
<1>14. drained' \in [Assets -> Nat] /\ \A b \in Assets :
         drained'[b] = IF b = out THEN drained[b] + quoted ELSE drained[b]
  BY <1>4, <1>8, Tables, GrowAt
<1>15. /\ balance' \in [Assets -> Int] /\ balance'[out] = balance[out] - quoted
       /\ balance'[a] = balance[a] - (value - fee)
       /\ \A b \in Assets \ {out, a} : balance'[b] = balance[b]
  <2>1. value - fee \in Int  BY <1>3
  <2> QED  BY <1>3, <1>4, <1>6, <1>7, <2>1, Tables, TakeTwo, SMTT(60)
<1>16. balance' \in [Assets -> Nat]
  <2>1. balance'[out] \in Nat  BY <1>4, <1>6, <1>15, Ledgers, SMTT(60)
  <2>2. balance'[a] \in Nat  BY <1>3, <1>6, <1>15, Ledgers
  <2>3. \A b \in Assets : balance'[b] \in Nat  BY <1>15, <2>1, <2>2, Ledgers, Zenon
  <2> QED  BY <1>15, <2>3
<1>17. TypeOK'
  <2>1. noteSupply' \in [Assets -> Nat]  BY <1>3, <1>5, SupplyType, Zenon DEF IInv
  <2>2. released' \in [Notes -> Nat] /\ claims' \in [Assets -> Int]
    BY <1>2, <1>3, <1>5, SpentType, Zenon DEF IInv
  <2>3. Registry!RegTypeOK'  BY <1>2, <1>5, RegistryType, Zenon DEF IInv
  <2> QED
    BY <1>9, <1>14, <1>16, <2>1, <2>2, <2>3, Zenon DEF IInv, TypeOK, configVars, treeVars
<1>18. UnspentReleasedNothing' /\ NoDoubleSpend' /\ SpentWasInserted'
  BY <1>2, <1>3, <1>5, <1>10, SpendNoteKeeps, Zenon DEF Spent
<1>19. UnregisteredHasNoSupply'
  BY <1>10, <1>12, <1>13, Ledgers, Zenon DEF UnregisteredHasNoSupply
<1>20. SupplyCoversClaims'
  BY <1>3, <1>11, <1>13, Ledgers, SMTT(60) DEF SupplyCoversClaims
<1>21. ShortfallIsDrained'
  <2>1. SUFFICES ASSUME NEW b \in Assets
                 PROVE  noteSupply'[b] <= balance'[b] + drained'[b]
    BY Zenon DEF ShortfallIsDrained
  <2>2. /\ noteSupply[b] \in Nat /\ balance[b] \in Nat /\ drained[b] \in Nat
        /\ noteSupply[b] <= balance[b] + drained[b]
    BY Ledgers, Zenon
  <2>3. noteSupply'[b] \in Nat /\ balance'[b] \in Nat /\ drained'[b] \in Nat
    BY <1>17, Zenon DEF TypeOK
  <2>4. CASE b = a
    <3>1. noteSupply'[b] <= balance'[b]  BY <1>12, <1>13, <2>4, Zenon
    <3> QED  BY <2>3, <3>1
  <2>5. CASE b = out
    <3>1. /\ noteSupply'[b] = noteSupply[b] /\ balance'[b] = balance[b] - quoted
          /\ drained'[b] = drained[b] + quoted
      BY <1>6, <1>13, <1>14, <1>15, <2>5, Zenon
    <3> QED  BY <1>4, <2>2, <3>1, SMTT(60)
  <2>6. CASE b # a /\ b # out
    <3>1. noteSupply'[b] = noteSupply[b] /\ drained'[b] = drained[b] /\ balance'[b] = balance[b]
      BY <1>13, <1>14, <1>15, <2>6, Zenon
    <3> QED  BY <2>2, <3>1, Zenon
  <2> QED  BY <2>4, <2>5, <2>6, Zenon
<1>22. RootsAreHistory' /\ NonceCreditedOnce'
  BY <1>10, FrameTree, FrameNonces, Zenon DEF IInv
<1> QED  BY <1>17, <1>18, <1>19, <1>20, <1>21, <1>22, Zenon DEF IInv

\* Claims that do not grow stay covered by an unchanged supply.
LEMMA LowerClaims ==
    ASSUME IInv, claims' \in [Assets -> Int], \A a \in Assets : claims'[a] <= claims[a],
           noteSupply' = noteSupply
    PROVE  SupplyCoversClaims'
BY Ledgers DEF SupplyCoversClaims

\* private_transfer_settle preserves the inductive invariant.
LEMMA TransferKeeps ==
    ASSUME IInv, NEW by, NEW n, NEW root, NEW out \in Notes,
           private_transfer_settle(by, n, root, out)
    PROVE  IInv'
<1> DEFINE a == AssetOf[n]
<1>1. TransferProof(n, root, out)  BY Zenon DEF private_transfer_settle
<1>2. n \in Notes /\ n \in LeavesOf(leaves)
  BY <1>1, SpendableIsLeaf, Zenon DEF IInv, TransferProof
<1>3. /\ a \in Assets /\ ValueOf[n] \in Nat /\ ValueOf[out] \in Nat /\ Capacity \in Nat
      /\ ValueOf[out] <= ValueOf[n]
  BY <1>1, <1>2, ConstantsAssumption, Zenon DEF TransferProof
<1>4. Registry!Spend(Pool, NulOf[n]) /\ append_leaf(out)  BY Zenon DEF private_transfer_settle
<1>5. released' = [released EXCEPT ![n] = @ + ValueOf[n]]  BY Zenon DEF private_transfer_settle
<1>6. claims' = [claims EXCEPT ![a] = @ - ValueOf[n] + ValueOf[out]]
  BY Zenon DEF private_transfer_settle
<1>7. UNCHANGED <<configVars, supplyVars, balance, ledger, drained, credited>>
  BY Zenon DEF private_transfer_settle
<1>8. /\ noteSupply' = noteSupply /\ deposits' = deposits /\ credited' = credited
      /\ registered' = registered /\ balance' = balance /\ drained' = drained
  BY <1>7, Zenon DEF configVars, supplyVars
<1> HIDE DEF a
<1>9. claims' \in [Assets -> Int] /\ \A b \in Assets : claims'[b] <= claims[b]
  BY <1>3, <1>6, Tables
<1>10. TypeOK'
  <2>1. leaves' \in Seq(Notes) /\ leafCount' \in Nat /\ knownRoots' \subseteq Seq(Notes)
    BY <1>4, AppendType, Zenon DEF IInv
  <2>2. released' \in [Notes -> Nat]  BY <1>2, <1>3, <1>5, Tables
  <2>3. Registry!RegTypeOK'  BY <1>2, <1>4, RegistryType, Zenon DEF IInv
  <2> QED  BY <1>7, <1>9, <2>1, <2>2, <2>3, Zenon DEF IInv, TypeOK, configVars, supplyVars
<1>11. UnspentReleasedNothing' /\ NoDoubleSpend'
  <2>1. ValueOf[n] <= ValueOf[n]  BY <1>3
  <2> QED  BY <1>2, <1>3, <1>4, <1>5, <2>1, SpendKeeps, Zenon DEF IInv
<1>12. RootsAreHistory' /\ LeavesOf(leaves) \subseteq LeavesOf(leaves)'
  BY <1>3, <1>4, AppendKeeps, Zenon DEF IInv
<1>13. SpentWasInserted'
  <2>1. spent' = spent \union {NulOf[n]}  BY <1>4, Zenon DEF Registry!Spend
  <2> QED  BY <1>2, <1>12, <2>1, Zenon DEF IInv, SpentWasInserted
<1>14. SupplyCoversClaims'  BY <1>8, <1>9, LowerClaims, Zenon
<1>15. UnregisteredHasNoSupply' /\ ShortfallIsDrained' /\ NonceCreditedOnce'
  BY <1>8, FrameSupply, FrameShortfall, FrameNonces, Zenon DEF IInv
<1> QED  BY <1>10, <1>11, <1>12, <1>13, <1>14, <1>15, Zenon DEF IInv

\* Both committee settlements: two notes are spent for at most their values, two
\* are created, and no asset's claims grow.
LEMMA CrossingKeeps ==
    ASSUME IInv, NEW root, NEW nA, NEW nB, NEW outA \in Notes, NEW outB \in Notes,
           NEW vA \in Nat, NEW vB \in Nat,
           Spendable(nA, root), Spendable(nB, root),
           vA <= ValueOf[nA], vB <= ValueOf[nB],
           Registry!SpendBoth(Pool, NulOf[nA], NulOf[nB]),
           append_two(outA, outB),
           released' = [released EXCEPT ![nA] = @ + vA, ![nB] = @ + vB],
           claims' \in [Assets -> Int],
           \A a \in Assets : claims'[a] <= claims[a],
           UNCHANGED <<configVars, supplyVars, balance, ledger, drained, credited>>
    PROVE  IInv'
<1>1. nA \in Notes /\ nB \in Notes /\ nA \in LeavesOf(leaves) /\ nB \in LeavesOf(leaves)
  BY SpendableIsLeaf, Zenon DEF IInv
<1>2. UnspentReleasedNothing' /\ NoDoubleSpend' /\ released' \in [Notes -> Nat]
  BY <1>1, SpendBothKeeps, Zenon DEF IInv
<1>3. RootsAreHistory' /\ LeavesOf(leaves) \subseteq LeavesOf(leaves)'
  BY AppendTwoKeeps, ConstantsAssumption, Zenon DEF IInv
<1>4. TypeOK'
  <2>1. leaves' \in Seq(Notes) /\ leafCount' \in Nat /\ knownRoots' \subseteq Seq(Notes)
    BY AppendTwoType, Zenon DEF IInv
  <2>2. Registry!RegTypeOK'  BY <1>1, RegistryBothType, Zenon DEF IInv
  <2> QED  BY <1>2, <2>1, <2>2, Zenon DEF IInv, TypeOK, configVars, supplyVars
<1>5. SpentWasInserted'
  <2>1. spent' = spent \union {NulOf[nA], NulOf[nB]}  BY Zenon DEF Registry!SpendBoth
  <2>2. ASSUME NEW nf \in spent' PROVE \E n \in LeavesOf(leaves) : NulOf[n] = nf
    BY <1>1, <2>1, Zenon DEF IInv, SpentWasInserted
  <2> QED  BY <1>3, <2>2, Zenon DEF SpentWasInserted
<1>6. SupplyCoversClaims'
  <2>1. noteSupply' = noteSupply  BY Zenon DEF supplyVars
  <2> QED  BY <2>1, LowerClaims, Zenon
<1>7. UnregisteredHasNoSupply' /\ ShortfallIsDrained' /\ NonceCreditedOnce'
  BY FrameSupply, FrameShortfall, FrameNonces, Zenon DEF IInv, configVars, supplyVars
<1> QED  BY <1>2, <1>3, <1>4, <1>5, <1>6, <1>7, Zenon DEF IInv

\* mpc_settle preserves the inductive invariant: the circuit conserves value.
LEMMA MpcSettleKeeps ==
    ASSUME IInv, NEW signed, NEW nA, NEW nB, NEW root, NEW outA \in Notes,
           NEW outB \in Notes, NEW matched \in Nat, NEW deadline,
           mpc_settle(signed, nA, nB, root, outA, outB, matched, deadline)
    PROVE  IInv'
<1>1. MpcProof(nA, nB, root, outA, outB, matched)  BY Zenon DEF mpc_settle
<1>2. nA \in Notes /\ nB \in Notes  BY <1>1, SpendableIsLeaf DEF IInv, MpcProof
<1> DEFINE a == AssetOf[nA]
           change == ValueOf[outA] + ValueOf[outB] - ValueOf[nA] - ValueOf[nB]
<1>3. /\ a \in Assets /\ ValueOf[nA] \in Nat /\ ValueOf[nB] \in Nat
      /\ ValueOf[outA] \in Nat /\ ValueOf[outB] \in Nat
  BY <1>2, ConstantsAssumption, Zenon
<1>4. change \in Int /\ change <= 0  BY <1>1, <1>3 DEF MpcProof
<1>5. claims' = [claims EXCEPT ![a] =
                    @ - ValueOf[nA] - ValueOf[nB] + ValueOf[outA] + ValueOf[outB]]
  BY Zenon DEF mpc_settle
<1>6. claims \in [Assets -> Int]  BY DEF IInv, TypeOK
<1>7. claims' \in [Assets -> Int] /\ \A b \in Assets : claims'[b] <= claims[b]
  <2>1. claims'[a] = claims[a] + change  BY <1>3, <1>5, <1>6, SMTT(60)
  <2>2. \A b \in Assets \ {a} : claims'[b] = claims[b]  BY <1>5, <1>6, SMTT(60)
  <2> HIDE DEF change, a
  <2>3. \A b \in Assets : claims'[b] \in Int /\ claims'[b] <= claims[b]
    BY <1>3, <1>4, <1>6, <2>1, <2>2
  <2>4. claims' = [b \in Assets |-> claims'[b]]  BY <1>5, <1>6, Zenon
  <2> QED  BY <2>3, <2>4, Zenon
<1>8. Spendable(nA, root) /\ Spendable(nB, root)
      /\ matched <= ValueOf[nA] /\ matched <= ValueOf[nB]
  BY <1>1, SMTT(60) DEF MpcProof
<1> QED  BY <1>7, <1>8, CrossingKeeps, Zenon DEF mpc_settle

\* mpc_settle_priced preserves the inductive invariant: each asset changes hands.
LEMMA MpcSettlePricedKeeps ==
    ASSUME IInv, NEW signed, NEW nA, NEW nB, NEW root, NEW outA \in Notes,
           NEW outB \in Notes, NEW price, NEW deadline,
           mpc_settle_priced(signed, nA, nB, root, outA, outB, price, deadline)
    PROVE  IInv'
<1>1. PricedProof(nA, nB, root, outA, outB, price)  BY Zenon DEF mpc_settle_priced
<1>2. nA \in Notes /\ nB \in Notes  BY <1>1, SpendableIsLeaf DEF IInv, PricedProof
<1>3. ValueOf[nA] \in Nat /\ ValueOf[nB] \in Nat  BY <1>2, ConstantsAssumption
<1>4. claims' \in [Assets -> Int] /\ \A b \in Assets : claims'[b] <= claims[b]
  <2>1. claims \in [Assets -> Int]  BY DEF IInv, TypeOK
  <2>2. claims' = claims  BY Zenon DEF mpc_settle_priced
  <2>3. \A b \in Assets : claims[b] \in Int /\ claims[b] <= claims[b]  BY <2>1
  <2> QED  BY <2>1, <2>2, <2>3
<1>5. Spendable(nA, root) /\ Spendable(nB, root)  BY <1>1, Zenon DEF PricedProof
<1>6. /\ Registry!SpendBoth(Pool, NulOf[nA], NulOf[nB]) /\ append_two(outA, outB)
      /\ released' = [released EXCEPT ![nA] = @ + ValueOf[nA], ![nB] = @ + ValueOf[nB]]
      /\ UNCHANGED <<configVars, supplyVars, balance, ledger, drained, credited>>
  BY Zenon DEF mpc_settle_priced
<1>7. ValueOf[nA] <= ValueOf[nA] /\ ValueOf[nB] <= ValueOf[nB]  BY <1>3
<1> QED  BY <1>3, <1>4, <1>5, <1>6, <1>7, CrossingKeeps, Zenon

\* Administration moves no note, nullifier or token, and registers an asset only
\* with the supply it already has.
LEMMA AdministerKeeps ==
    ASSUME IInv, Administer
    PROVE  IInv'
<1>1. PICK by \in Principals :
        \/ \E part \in Parts : set_part(by, part)
        \/ \E labels \in SUBSET Notes : set_association_root(by, labels)
        \/ \E solver \in Solvers, allowed \in BOOLEAN : set_authorized_solver(by, solver, allowed)
        \/ \E keys \in SUBSET Signers : set_committee(by, keys)
        \/ \E a \in Assets : register_asset(by, a)
        \/ pause(by)
        \/ unpause(by)
        \/ \E new \in Principals : transfer_admin(by, new)
  BY Zenon DEF Administer
<1>2. /\ UNCHANGED <<treeVars, deposits, regVars, balance, ledger, historyVars>>
      /\ noteSupply' = noteSupply
      /\ registered \subseteq registered'
  <2>1. ASSUME NEW a \in Assets, register_asset(by, a)
        PROVE  noteSupply' = noteSupply
    <3>1. a \notin registered /\ noteSupply' = [noteSupply EXCEPT ![a] = 0]
      BY <2>1, Zenon DEF register_asset
    <3> QED  BY <3>1, Tables, Ledgers
  <2> QED
    BY <1>1, <2>1, Zenon DEF set_part, set_association_root, set_authorized_solver, set_committee,
         register_asset, pause, unpause, transfer_admin, poolStateVars, supplyVars
<1>3. /\ admin' \in Principals /\ paused' \in BOOLEAN /\ wired' \subseteq Parts
      /\ assoc' \subseteq Notes /\ solvers' \subseteq Solvers
      /\ committee' \subseteq Signers /\ registered' \subseteq Assets
  BY <1>1, Zenon DEF IInv, TypeOK, set_part, set_association_root, set_authorized_solver,
       set_committee, register_asset, pause, unpause, transfer_admin
<1>4. TypeOK'
  BY <1>2, <1>3, Zenon DEF IInv, TypeOK, treeVars, regVars, historyVars, Registry!RegTypeOK
<1>5. UnregisteredHasNoSupply'
  BY <1>2, <1>3 DEF IInv, UnregisteredHasNoSupply
<1>6. UnspentReleasedNothing' /\ NoDoubleSpend' /\ SpentWasInserted' /\ RootsAreHistory'
  BY <1>2, Zenon DEF IInv, UnspentReleasedNothing, NoDoubleSpend, SpentWasInserted,
       RootsAreHistory, treeVars, regVars, historyVars
<1>7. SupplyCoversClaims' /\ ShortfallIsDrained' /\ NonceCreditedOnce'
  BY <1>2, Zenon DEF IInv, SupplyCoversClaims, ShortfallIsDrained, NonceCreditedOnce, historyVars
<1> QED  BY <1>4, <1>5, <1>6, <1>7 DEF IInv

\* Token transfers, ledgers and the registry's own administration preserve it.
LEMMA EnvironmentKeeps ==
    ASSUME IInv, Environment
    PROVE  IInv'
<1>1. CASE RegistryAdmin
  <2>1. UNCHANGED <<configVars, treeVars, supplyVars, balance, ledger, historyVars, spent>>
    BY <1>1, SMTT(60) DEF RegistryAdmin, Registry!SetAuthorizedSpender, Registry!RegPause, Registry!RegUnpause
  <2>2. spenders' \subseteq Spenders /\ regPaused' \in BOOLEAN
    BY <1>1, Zenon DEF IInv, TypeOK, RegistryAdmin, Registry!SetAuthorizedSpender, Registry!RegPause,
         Registry!RegUnpause, Registry!RegTypeOK, Spenders
  <2>3. TypeOK'
    BY <2>1, <2>2, Zenon DEF IInv, TypeOK, configVars, treeVars, supplyVars, historyVars, Registry!RegTypeOK
  <2>4. SpentWasInserted'  BY <2>1, FrameTree, Zenon DEF IInv, SpentWasInserted
  <2> QED
    BY <2>1, <2>3, <2>4, FrameSpends, FrameTree, FrameSupply, FrameShortfall, FrameClaims,
       FrameNonces, Zenon DEF IInv, configVars, supplyVars, historyVars
<1>2. ASSUME NEW a \in Assets, NEW amount \in 1..MaxAmount, TokensArrive(a, amount)
      PROVE  IInv'
  <2>1. /\ UNCHANGED <<configVars, treeVars, supplyVars, regVars, ledger, historyVars>>
        /\ balance' = [balance EXCEPT ![a] = @ + amount] /\ amount \in Nat
    BY <1>2, ConstantsAssumption, SMTT(60) DEF TokensArrive
  <2>2. balance' \in [Assets -> Nat] /\ \A b \in Assets : balance'[b] >= balance[b]
    BY <2>1, SMTT(60) DEF IInv, TypeOK
  <2>3. TypeOK'
    BY <2>1, <2>2, Zenon DEF IInv, TypeOK, configVars, treeVars, supplyVars, regVars, historyVars,
         Registry!RegTypeOK
  <2>4. ShortfallIsDrained'
    BY <2>1, <2>2, Ledgers DEF ShortfallIsDrained, supplyVars, historyVars
  <2>5. SpentWasInserted'  BY <2>1, FrameTree, Zenon DEF IInv, SpentWasInserted, regVars
  <2> QED
    BY <2>1, <2>3, <2>4, <2>5, FrameSpends, FrameTree, FrameSupply, FrameClaims, FrameNonces, Zenon
       DEF IInv, configVars, supplyVars, regVars, historyVars
<1>3. CASE LedgerCloses
  <2>1. /\ UNCHANGED <<configVars, treeVars, supplyVars, regVars, balance, historyVars>>
        /\ ledger' = ledger + 1
    BY <1>3, Zenon DEF LedgerCloses
  <2>2. TypeOK'
    BY <2>1 DEF IInv, TypeOK, configVars, treeVars, supplyVars, regVars, historyVars,
         Registry!RegTypeOK
  <2>3. SpentWasInserted'  BY <2>1, FrameTree DEF IInv, SpentWasInserted, regVars
  <2> QED
    BY <2>1, <2>2, <2>3, FrameSpends, FrameTree, FrameSupply, FrameShortfall, FrameClaims,
       FrameNonces, SMTT(60) DEF IInv, configVars, supplyVars, regVars, historyVars
<1> QED  BY <1>1, <1>2, <1>3, Zenon DEF Environment

-----------------------------------------------------------------------------
(* The theorems *)

\* The constructor establishes the inductive invariant.
LEMMA InitIInv == Init => IInv
<1> SUFFICES ASSUME Init PROVE IInv
  OBVIOUS
<1>1. TypeOK
  <2>1. leaves \in Seq(Notes) /\ knownRoots \subseteq Seq(Notes)  BY DEF Init
  <2>2. Registry!RegTypeOK  BY Zenon DEF Init, Registry!RegInit, Registry!RegTypeOK
  <2>3. /\ admin \in Principals /\ paused \in BOOLEAN /\ wired \subseteq Parts
        /\ assoc \subseteq Notes /\ solvers \subseteq Solvers /\ committee \subseteq Signers
        /\ registered \subseteq Assets /\ deposits \subseteq Nonces
    BY ConstantsAssumption, Zenon DEF Init
  <2>4. /\ noteSupply \in [Assets -> Nat] /\ balance \in [Assets -> Nat]
        /\ drained \in [Assets -> Nat] /\ claims \in [Assets -> Int]
        /\ released \in [Notes -> Nat] /\ credited \in [Nonces -> Nat]
        /\ leafCount \in Nat /\ ledger \in Nat
    BY DEF Init
  <2> QED  BY <2>1, <2>2, <2>3, <2>4 DEF TypeOK
<1>2. UnspentReleasedNothing /\ NoDoubleSpend
  BY ConstantsAssumption DEF Init, UnspentReleasedNothing, NoDoubleSpend
<1>3. UnregisteredHasNoSupply /\ SupplyCoversClaims /\ ShortfallIsDrained
  BY DEF Init, UnregisteredHasNoSupply, SupplyCoversClaims, ShortfallIsDrained
<1>4. RootsAreHistory
  <2>1. leaves = <<>> /\ knownRoots = {<<>>} /\ leafCount = 0 /\ Capacity \in Nat
    BY ConstantsAssumption DEF Init
  <2>2. Len(leaves) = 0 /\ 1..Len(leaves) = {}  BY <2>1
  <2> QED  BY <2>1, <2>2 DEF RootsAreHistory
<1>5. SpentWasInserted /\ NonceCreditedOnce
  BY DEF Init, SpentWasInserted, NonceCreditedOnce, Registry!RegInit
<1> QED  BY <1>1, <1>2, <1>3, <1>4, <1>5 DEF IInv

\* Every operation that pays out of the pool preserves the inductive invariant.
LEMMA WithdrawFamilyKeeps ==
    ASSUME IInv, WithdrawFamily
    PROVE  IInv'
<1>1. PICK root, n, value, fee, deadline : SpendNote(n, root, value, fee, deadline)
  BY DEF WithdrawFamily
<1>4. CASE withdraw(n, root, value, fee, deadline)
  BY <1>4, ExitKeeps, Zenon
<1>5. CASE withdraw_cctp(n, root, value, fee, deadline)
  BY <1>5, ExitKeeps, Zenon
<1>6. ASSUME NEW solver \in Solvers, rfq_settle(solver, n, root, value, fee, deadline)
      PROVE  IInv'
  BY <1>6, RfqSettleKeeps
<1>7. ASSUME NEW solver \in Solvers, NEW out \in Assets, NEW price \in Prices,
             rfq_settle_atomic_swap(solver, n, root, value, fee, deadline, out, price)
      PROVE  IInv'
  BY <1>7, SwapKeeps, Zenon
<1> QED  BY <1>1, <1>4, <1>5, <1>6, <1>7 DEF SpendNote

\* Both committee settlements preserve the inductive invariant.
LEMMA CommitteeKeeps ==
    ASSUME IInv, MpcSettle
    PROVE  IInv'
<1>1. PICK signed \in SUBSET Signers, root \in knownRoots, deadline \in Deadlines,
           outA \in Notes, outB \in Notes :
        \E nA, nB \in LeavesOf(root) :
            \/ \E matched \in 0..ValueOf[nA] :
                  mpc_settle(signed, nA, nB, root, outA, outB, matched, deadline)
            \/ \E price \in Prices :
                  mpc_settle_priced(signed, nA, nB, root, outA, outB, price, deadline)
  BY Zenon DEF MpcSettle
<1>2. PICK nA \in LeavesOf(root), nB \in LeavesOf(root) :
            \/ \E matched \in 0..ValueOf[nA] :
                  mpc_settle(signed, nA, nB, root, outA, outB, matched, deadline)
            \/ \E price \in Prices :
                  mpc_settle_priced(signed, nA, nB, root, outA, outB, price, deadline)
  BY <1>1
<1>3. ASSUME NEW matched \in 0..ValueOf[nA],
             mpc_settle(signed, nA, nB, root, outA, outB, matched, deadline)
      PROVE  IInv'
  BY <1>3, MpcSettleKeeps
<1>4. ASSUME NEW price \in Prices,
             mpc_settle_priced(signed, nA, nB, root, outA, outB, price, deadline)
      PROVE  IInv'
  BY <1>4, MpcSettlePricedKeeps
<1> QED  BY <1>2, <1>3, <1>4

\* Every transaction preserves the inductive invariant.
LEMMA NextIInv == IInv /\ [Next]_vars => IInv'
<1> SUFFICES ASSUME IInv, [Next]_vars PROVE IInv'
  OBVIOUS
<1>1. CASE Deposit  BY <1>1, DepositKeeps DEF Deposit
<1>2. CASE WithdrawFamily  BY <1>2, WithdrawFamilyKeeps
<1>3. CASE Transfer  BY <1>3, TransferKeeps DEF Transfer
<1>4. CASE MpcSettle  BY <1>4, CommitteeKeeps
<1>5. CASE Administer  BY <1>5, AdministerKeeps
<1>6. CASE Environment  BY <1>6, EnvironmentKeeps
<1>7. CASE UNCHANGED vars
  BY <1>7, Zenon DEF vars, configVars, treeVars, supplyVars, regVars, historyVars, IInv, TypeOK,
       Registry!RegTypeOK, UnspentReleasedNothing, NoDoubleSpend, UnregisteredHasNoSupply,
       SupplyCoversClaims, ShortfallIsDrained, RootsAreHistory, SpentWasInserted,
       NonceCreditedOnce
<1> QED  BY <1>1, <1>2, <1>3, <1>4, <1>5, <1>6, <1>7 DEF Next

\* The inductive invariant holds of every pool, whatever its notes, assets,
\* committee, solvers and tree capacity.
THEOREM PoolInvariant == Spec => []IInv
BY InitIInv, NextIInv, PTL DEF Spec

\* Every value the contract stores keeps its type; in particular no supply and
\* no balance is ever negative.
THEOREM PoolTypeCorrect == Spec => []TypeOK
<1>1. IInv => TypeOK  BY DEF IInv
<1> QED  BY <1>1, PoolInvariant, PTL

\* No note is spent for more than its value, through whichever of the seven
\* spending operations, in whatever order.
THEOREM PoolNoDoubleSpend == Spec => []NoDoubleSpend
<1>1. IInv => NoDoubleSpend  BY DEF IInv
<1> QED  BY <1>1, PoolInvariant, PTL

\* noteSupply is at least the value created and not yet spent, so a debit for an
\* unspent note cannot underflow.
THEOREM PoolSupplyCoversClaims == Spec => []SupplyCoversClaims
<1>1. IInv => SupplyCoversClaims  BY DEF IInv
<1> QED  BY <1>1, PoolInvariant, PTL

\* The vault falls short of noteSupply by no more than RFQ settlement paid out.
THEOREM PoolShortfallIsDrained == Spec => []ShortfallIsDrained
<1>1. IInv => ShortfallIsDrained  BY DEF IInv
<1> QED  BY <1>1, PoolInvariant, PTL

\* Known roots are exactly earlier roots of this tree, and only nullifiers of
\* notes that were inserted are spent.
THEOREM PoolTreeIntegrity == Spec => [](RootsAreHistory /\ SpentWasInserted)
<1>1. IInv => RootsAreHistory /\ SpentWasInserted  BY DEF IInv
<1> QED  BY <1>1, PoolInvariant, PTL

\* A CCTP nonce registers at most one note.
THEOREM PoolNonceCreditedOnce == Spec => []NonceCreditedOnce
<1>1. IInv => NonceCreditedOnce  BY DEF IInv
<1> QED  BY <1>1, PoolInvariant, PTL

-----------------------------------------------------------------------------
(* Sums of values. Total adds the values of a set up in an order CHOOSE picks; *)
(* that the order does not matter, and that a larger set is worth no less, is  *)
(* an induction on finite sets. It rests on the smallest size of a             *)
(* counterexample, which exists because the naturals are well founded.         *)

INSTANCE FiniteSetTheorems

\* Numbers are well founded: every set of them has a smallest.
LEMMA SmallestOfSet ==
    ASSUME NEW T, T \subseteq Nat, T # {}
    PROVE  \E m \in T : \A k \in T : m <= k
<1> DEFINE R == {ss \in Nat \X Nat : ss[1] < ss[2]}
<1>1. IsWellFoundedOn(R, Nat)  BY NatLessThanWellFounded DEF OpToRel
<1>2. PICK x \in T : \A y \in T : ~(<<y, x>> \in R)
  <2> HIDE DEF R
  <2> QED  BY <1>1, WFMin, Zenon
<1>3. ASSUME NEW y \in T PROVE x <= y
  <2>1. ~(<<y, x>> \in R)  BY <1>2
  <2>2. y \in Nat /\ x \in Nat  OBVIOUS
  <2>3. ~(y < x)  BY <2>1, <2>2
  <2> QED  BY <2>2, <2>3
<1> QED  BY <1>3

\* What holds of the empty set, and of a set if it holds of the set without any
\* one of its elements, holds of every finite set.
LEMMA FiniteInduction ==
    ASSUME NEW S, IsFiniteSet(S), NEW Z, {} \in Z,
           \A s \in SUBSET S : s # {} /\ (\A x \in s : s \ {x} \in Z) => s \in Z
    PROVE  SUBSET S \subseteq Z
<1>1. \A s \in SUBSET S : IsFiniteSet(s) /\ Cardinality(s) \in Nat
  BY FS_Subset, FS_CardinalityType
<1> SUFFICES ASSUME NEW s0 \in SUBSET S, s0 \notin Z PROVE FALSE
  OBVIOUS
<1> DEFINE T == {Cardinality(s) : s \in (SUBSET S) \ Z}
<1>2. T \subseteq Nat /\ T # {}  BY <1>1
<1>3. PICK m \in T : \A k \in T : m <= k
  <2> HIDE DEF T
  <2> QED  BY <1>2, SmallestOfSet, Zenon
<1>4. PICK s \in (SUBSET S) \ Z : Cardinality(s) = m  BY <1>3
<1>5. s # {}  BY <1>4, Zenon
<1>6. ASSUME NEW x \in s PROVE s \ {x} \in Z
  <2>1. Cardinality(s \ {x}) = Cardinality(s) - 1  BY <1>1, <1>4, FS_RemoveElement
  <2>2. s \ {x} \in SUBSET S  BY <1>4
  <2>3. CASE s \ {x} \notin Z
    <3>1. Cardinality(s \ {x}) \in T  BY <2>2, <2>3
    <3>2. Cardinality(s) \in Nat /\ m = Cardinality(s)  BY <1>1, <1>4
    <3> HIDE DEF T
    <3> QED  BY <1>3, <2>1, <3>1, <3>2
  <2> QED  BY <2>3
<1> QED  BY <1>4, <1>5, <1>6

\* The element of s that is added first.
First(s) == CHOOSE x \in s : TRUE

LEMMA FirstIsElement == ASSUME NEW s, s # {} PROVE First(s) \in s
BY DEF First

\* g adds up the values of every set in D.
Adds(g, D) ==
    g = [s \in D |-> IF s = {} THEN 0
                     ELSE ValueOf[First(s)] + g[s \ {First(s)}]]

\* What such a function is at one set
LEMMA AddsAt ==
    ASSUME NEW g, NEW D, Adds(g, D), NEW s \in D
    PROVE  /\ s = {} => g[s] = 0
           /\ s # {} => g[s] = ValueOf[First(s)] + g[s \ {First(s)}]
<1>1. PICK G : G = [t \in D |-> IF t = {} THEN 0
                     ELSE ValueOf[First(t)] + g[t \ {First(t)}]]
  BY Zenon
<1>2. g = G  BY <1>1, Zenon DEF Adds
<1>3. G[s] = IF s = {} THEN 0 ELSE ValueOf[First(s)] + g[s \ {First(s)}]  BY <1>1
<1> QED  BY <1>2, <1>3

\* The recursion that defines the sum has a solution, built up by size.
LEMMA AddsExists ==
    ASSUME NEW S, IsFiniteSet(S)
    PROVE  \E g : Adds(g, SUBSET S)
<1> DEFINE Level(s) == {t \in SUBSET S : Cardinality(t) <= Cardinality(s)}
<1> DEFINE Z == {s \in SUBSET S : \E g : Adds(g, Level(s))}
<1>0. \A s \in SUBSET S : IsFiniteSet(s) /\ Cardinality(s) \in Nat
  BY FS_Subset, FS_CardinalityType
<1>1. {} \in Z
  <2>1. PICK g : g = [t \in Level({}) |-> 0]  BY Zenon
  <2>2. ASSUME NEW t \in Level({}) PROVE t = {}
    BY <1>0, FS_EmptySet
  <2>3. PICK h : h = [s \in Level({}) |-> IF s = {} THEN 0
                     ELSE ValueOf[First(s)] + g[s \ {First(s)}]]
    BY Zenon
  <2>4. g = h
    <3> HIDE DEF Level
    <3> QED  BY <2>1, <2>2, <2>3
  <2>5. Adds(g, Level({}))  BY <2>3, <2>4, Zenon DEF Adds
  <2> QED  BY <2>5, Zenon
<1>2. ASSUME NEW s \in SUBSET S, s # {}, \A x \in s : s \ {x} \in Z PROVE s \in Z
  <2>1. PICK y \in s : TRUE  BY <1>2
  <2>2. PICK r : r = s \ {y}  BY Zenon
  <2>3. r \in Z  BY <1>2, <2>2, Zenon
  <2>4. PICK g : Adds(g, Level(r))  BY <2>3
  <2>5. Cardinality(r) = Cardinality(s) - 1 /\ r \in SUBSET S
    BY <1>0, <2>2, FS_RemoveElement
  <2>6. PICK h : h = [t \in Level(s) |-> IF t = {} THEN 0
                     ELSE ValueOf[First(t)] + g[t \ {First(t)}]]
    BY Zenon
  <2>7. ASSUME NEW t \in Level(r) PROVE t \in Level(s) /\ h[t] = g[t]
    <3>1. t \in Level(s)  BY <1>0, <2>5
    <3>2. PICK c : c = First(t)  OBVIOUS
    <3>3. h[t] = IF t = {} THEN 0 ELSE ValueOf[c] + g[t \ {c}]
      <4> HIDE DEF Level
      <4> QED  BY <2>6, <3>1, <3>2
    <3>4. /\ t = {} => g[t] = 0
          /\ t # {} => g[t] = ValueOf[c] + g[t \ {c}]
      <4>1. PICK D : D = Level(r)  BY Zenon
      <4>2. Adds(g, D) /\ t \in D  BY <2>4, <4>1
      <4> QED  BY <3>2, <4>2, AddsAt, SMTT(60)
    <3> QED  BY <3>1, <3>3, <3>4, SMTT(60)
  <2>8. ASSUME NEW t \in Level(s), t # {}, NEW c \in t PROVE t \ {c} \in Level(r)
    <3>1. Cardinality(t \ {c}) = Cardinality(t) - 1  BY <1>0, FS_RemoveElement
    <3>2. t \ {c} \in SUBSET S  OBVIOUS
    <3>3. Cardinality(t) <= Cardinality(s) /\ Cardinality(t) \in Nat /\ Cardinality(s) \in Nat
      BY <1>0
    <3> QED  BY <2>5, <3>1, <3>2, <3>3
  <2>9. PICK H : H = [t \in Level(s) |-> IF t = {} THEN 0
                     ELSE ValueOf[First(t)] + h[t \ {First(t)}]]
    BY Zenon
  <2>10. ASSUME NEW t \in Level(s) PROVE h[t] = H[t]
    <3> HIDE DEF Level
    <3>1. PICK c : c = First(t)  OBVIOUS
    <3>2. /\ h[t] = IF t = {} THEN 0 ELSE ValueOf[c] + g[t \ {c}]
          /\ H[t] = IF t = {} THEN 0 ELSE ValueOf[c] + h[t \ {c}]
      BY <2>6, <2>9, <3>1
    <3>3. t # {} => c \in t  BY <3>1, FirstIsElement
    <3>4. t # {} => h[t \ {c}] = g[t \ {c}]  BY <2>7, <2>8, <3>3
    <3> QED  BY <3>2, <3>4
  <2>11. h = H
    <3> HIDE DEF Level
    <3> QED  BY <2>6, <2>9, <2>10, Zenon
  <2>12. Adds(h, Level(s))  BY <2>9, <2>11, Zenon DEF Adds
  <2> QED  BY <2>12
<1>3. S \in Z
  <2> HIDE DEF Z
  <2> QED  BY <1>1, <1>2, FiniteInduction, SMTT(60)
<1>4. Level(S) = SUBSET S  BY FS_Subset
<1> QED  BY <1>3, <1>4, Zenon

\* Any element may be added first.
LEMMA AddsAny ==
    ASSUME NEW S, IsFiniteSet(S), S \subseteq Notes,
           NEW D, D = SUBSET S, NEW g, Adds(g, D)
    PROVE  \A s \in SUBSET S : /\ g[s] \in Nat
                               /\ \A x \in s : g[s] = ValueOf[x] + g[s \ {x}]
<1> DEFINE Good(s) ==
              g[s] \in Nat /\ \A x \in s : g[s \ {x}] \in Nat /\ g[s] = ValueOf[x] + g[s \ {x}]
<1> DEFINE Z == {s \in SUBSET S : Good(s)}
<1>1. {} \in Z
  <2>1. {} \in D  OBVIOUS
  <2>2. g[{}] = 0  BY <2>1, AddsAt, Zenon
  <2> QED  BY <2>2
<1>2. ASSUME NEW s \in SUBSET S, s # {}, \A x \in s : s \ {x} \in Z PROVE s \in Z
  <2>1. PICK c \in s : g[s] = ValueOf[c] + g[s \ {c}]
    <3>1. s \in D  OBVIOUS
    <3>2. g[s] = ValueOf[First(s)] + g[s \ {First(s)}]  BY <1>2, <3>1, AddsAt, SMTT(60)
    <3>3. First(s) \in s  BY <1>2, FirstIsElement, SMTT(60)
    <3> QED  BY <3>2, <3>3, Zenon
  <2>2. \A x \in s : g[s \ {x}] \in Nat /\ ValueOf[x] \in Nat  BY <1>2, ConstantsAssumption, SMTT(60)
  <2>3. ASSUME NEW x \in s, x # c PROVE g[s] = ValueOf[x] + g[s \ {x}]
    <3>1. g[s \ {c}] = ValueOf[x] + g[(s \ {c}) \ {x}]  BY <1>2, <2>3, SMTT(60)
    <3>2. g[s \ {x}] = ValueOf[c] + g[(s \ {x}) \ {c}]  BY <1>2, <2>3, SMTT(60)
    <3>3. PICK t : t = (s \ {c}) \ {x}  BY Zenon
    <3>4. (s \ {x}) \ {c} = t  BY <3>3
    <3>5. g[t] \in Nat  BY <1>2, <2>3, <3>3, Zenon
    <3>6. g[s \ {c}] = ValueOf[x] + g[t] /\ g[s \ {x}] = ValueOf[c] + g[t]
      BY <3>1, <3>2, <3>3, <3>4, Zenon
    <3>7. PICK v \in Nat, w \in Nat, u \in Nat : v = ValueOf[x] /\ w = ValueOf[c] /\ u = g[t]
      BY <2>2, <3>5, Zenon
    <3>8. g[s] = w + (v + u) /\ g[s \ {x}] = w + u  BY <2>1, <3>6, <3>7, SMTT(60)
    <3>9. w + (v + u) = v + (w + u)  BY <3>7
    <3> QED  BY <3>7, <3>8, <3>9, SMTT(60)
  <2>4. g[s] \in Nat  BY <2>1, <2>2, SMTT(60)
  <2> QED  BY <2>1, <2>2, <2>3, <2>4, Zenon
<1>3. SUBSET S \subseteq Z
  <2> HIDE DEF Z
  <2> QED  BY <1>1, <1>2, FiniteInduction, Zenon
<1> QED  BY <1>3

\* Two such functions agree where both are defined.
LEMMA AddsUnique ==
    ASSUME NEW S, IsFiniteSet(S), NEW T, S \subseteq T,
           NEW D, D = SUBSET S, NEW g, Adds(g, D),
           NEW E, E = SUBSET T, NEW h, Adds(h, E)
    PROVE  \A s \in SUBSET S : g[s] = h[s]
<1> DEFINE Z == {s \in SUBSET S : g[s] = h[s]}
<1>3. {} \in Z
  <2>1. {} \in D /\ {} \in E  OBVIOUS
  <2>2. g[{}] = 0 /\ h[{}] = 0  BY <2>1, AddsAt, Zenon
  <2> QED  BY <2>2
<1>4. ASSUME NEW s \in SUBSET S, s # {}, \A x \in s : s \ {x} \in Z PROVE s \in Z
  <2>1. s \in D /\ s \in E  OBVIOUS
  <2>2. PICK c : c = First(s)  OBVIOUS
  <2>3. g[s] = ValueOf[c] + g[s \ {c}] /\ h[s] = ValueOf[c] + h[s \ {c}]
    BY <1>4, <2>1, <2>2, AddsAt, SMTT(60)
  <2>4. g[s \ {c}] = h[s \ {c}]  BY <1>4, <2>2, FirstIsElement, SMTT(60)
  <2> QED  BY <2>3, <2>4, SMTT(60)
<1>5. SUBSET S \subseteq Z
  <2> HIDE DEF Z
  <2> QED  BY <1>3, <1>4, FiniteInduction, Zenon
<1> QED  BY <1>5, SMTT(60)

\* Total is the value of such a function at the whole set.
LEMMA TotalIs ==
    ASSUME NEW S, IsFiniteSet(S)
    PROVE  \E g, D : D = SUBSET S /\ Adds(g, D) /\ Total(S) = g[S]
<1>1. PICK g : g = CHOOSE f : Adds(f, SUBSET S)  OBVIOUS
<1>2. Adds(g, SUBSET S)  BY <1>1, AddsExists, Zenon
<1>3. Total(S) = (CHOOSE f : Adds(f, SUBSET S))[S]
  BY DEF Total, MapThenSumSet, MapThenFoldSet, Adds, First
<1> QED  BY <1>1, <1>2, <1>3, Zenon

\* No notes are worth nothing.
LEMMA TotalEmpty == Total({}) = 0
<1>1. PICK g, D : D = SUBSET {} /\ Adds(g, D) /\ Total({}) = g[{}]  BY FS_EmptySet, TotalIs, SMTT(60)
<1>2. {} \in D  BY <1>1, SMTT(60)
<1> QED  BY <1>1, <1>2, AddsAt, Zenon

\* A set is worth any one of its notes and the rest.
LEMMA TotalDrop ==
    ASSUME NEW S, IsFiniteSet(S), S \subseteq Notes
    PROVE  /\ Total(S) \in Nat
           /\ \A x \in S : Total(S) = ValueOf[x] + Total(S \ {x})
<1>1. PICK g, D : D = SUBSET S /\ Adds(g, D) /\ Total(S) = g[S]  BY TotalIs
<1>2. g[S] \in Nat /\ \A x \in S : g[S] = ValueOf[x] + g[S \ {x}]
  <2>1. \A s \in SUBSET S : g[s] \in Nat /\ \A x \in s : g[s] = ValueOf[x] + g[s \ {x}]
    BY <1>1, AddsAny, SMTT(60)
  <2> QED  BY <2>1
<1>3. ASSUME NEW x \in S PROVE Total(S \ {x}) = g[S \ {x}]
  <2>1. PICK R : R = S \ {x}  BY Zenon
  <2>2. IsFiniteSet(R) /\ R \subseteq S  BY <2>1, FS_RemoveElement
  <2>3. PICK h, E : E = SUBSET R /\ Adds(h, E) /\ Total(R) = h[R]  BY <2>2, TotalIs, SMTT(60)
  <2>4. h[R] = g[R]
    <3>1. \A s \in SUBSET R : h[s] = g[s]  BY <1>1, <2>2, <2>3, AddsUnique, SMTT(60)
    <3> QED  BY <3>1, SMTT(60)
  <2> QED  BY <2>1, <2>3, <2>4
<1> QED  BY <1>1, <1>2, <1>3, SMTT(60)

\* Adding a note adds its value at most.
LEMMA TotalPut ==
    ASSUME NEW S, IsFiniteSet(S), S \subseteq Notes, NEW x \in Notes
    PROVE  /\ IsFiniteSet(S \union {x})
           /\ Total(S \union {x}) \in Nat
           /\ Total(S \union {x}) <= Total(S) + ValueOf[x]
<1>1. PICK T : T = S \union {x}  BY Zenon
<1>2. IsFiniteSet(T) /\ T \subseteq Notes  BY <1>1, FS_AddElement
<1>3. Total(S) \in Nat /\ Total(T) \in Nat /\ ValueOf[x] \in Nat  BY <1>2, TotalDrop, ConstantsAssumption, SMTT(60)
<1>4. CASE x \in S
  <2>1. T = S  BY <1>1, <1>4
  <2> QED  BY <1>1, <1>2, <1>3, <2>1, SMTT(60)
<1>5. CASE x \notin S
  <2>1. x \in T /\ T \ {x} = S  BY <1>1, <1>5
  <2>2. Total(T) = ValueOf[x] + Total(S)  BY <1>2, <2>1, TotalDrop
  <2> QED  BY <1>1, <1>2, <1>3, <2>2
<1> QED  BY <1>4, <1>5, SMTT(60)

\* A subset is worth no more.
LEMMA TotalGrows ==
    ASSUME NEW T, IsFiniteSet(T), T \subseteq Notes, NEW S, S \subseteq T
    PROVE  Total(S) \in Nat /\ Total(S) <= Total(T)
<1> DEFINE Z == {t \in SUBSET T : \A s \in SUBSET t : Total(s) <= Total(t)}
<1>1. \A t \in SUBSET T : IsFiniteSet(t) /\ Total(t) \in Nat
  <2> SUFFICES ASSUME NEW t \in SUBSET T PROVE IsFiniteSet(t) /\ Total(t) \in Nat
    OBVIOUS
  <2>1. IsFiniteSet(t) /\ t \subseteq Notes  BY FS_Subset
  <2> QED  BY <2>1, TotalDrop
<1>2. {} \in Z  BY TotalEmpty
<1>3. ASSUME NEW t \in SUBSET T, t # {}, \A x \in t : t \ {x} \in Z PROVE t \in Z
  <2>1. ASSUME NEW s \in SUBSET t PROVE Total(s) <= Total(t)
    <3>1. s \in SUBSET T  OBVIOUS
    <3>2. CASE s = t  BY <1>1, <3>2
    <3>3. CASE s # t
      <4>1. PICK x \in t : x \notin s  BY <3>3
      <4>2. s \in SUBSET (t \ {x}) /\ t \ {x} \in SUBSET T  BY <4>1
      <4>3. Total(s) <= Total(t \ {x})  BY <1>3, <4>2
      <4>4. Total(t) = ValueOf[x] + Total(t \ {x}) /\ ValueOf[x] \in Nat
        BY <1>1, TotalDrop, ConstantsAssumption
      <4>5. Total(s) \in Nat /\ Total(t \ {x}) \in Nat  BY <1>1, <3>1, <4>2
      <4> QED  BY <4>3, <4>4, <4>5
    <3> QED  BY <3>2, <3>3
  <2> QED  BY <2>1
<1>4. SUBSET T \subseteq Z
  <2> HIDE DEF Z
  <2> QED  BY <1>2, <1>3, FiniteInduction, SMTT(60)
<1>5. T \in Z  BY <1>4
<1> QED  BY <1>1, <1>5

-----------------------------------------------------------------------------
(* The notes that can still be spent. What was created and not spent covers    *)
(* them: an operation that spends a note takes its value from both, and one    *)
(* that inserts a note adds its value to the claims and no more to the notes.  *)

\* Part of the inductive invariant; with SupplyCoversClaims it gives
\* LiveNotesCovered.
LiveInv == \A a \in Assets : Total(Live(a)) <= claims[a]

\* What note n counts for in asset a
Worth(n, a) == IF AssetOf[n] = a THEN ValueOf[n] ELSE 0

\* S is a finite set of notes of asset a.
NotesOf(S, a) == IsFiniteSet(S) /\ S \subseteq Notes /\ \A n \in S : AssetOf[n] = a

LEMMA WorthType == ASSUME NEW n \in Notes, NEW a PROVE Worth(n, a) \in Nat
BY ConstantsAssumption DEF Worth

\* The leaves are finitely many.
LEMMA LiveIsFinite ==
    ASSUME TypeOK, NEW a
    PROVE  NotesOf(Live(a), a)
<1>1. leaves \in Seq(Notes) /\ DOMAIN leaves = 1..Len(leaves) /\ Len(leaves) \in Nat
  BY SMTT(60) DEF TypeOK
<1>2. leaves \in Surjection(1..Len(leaves), LeavesOf(leaves))
  <2>1. leaves \in [1..Len(leaves) -> LeavesOf(leaves)]  BY <1>1 DEF LeavesOf
  <2> QED  BY <1>1, <2>1 DEF Surjection, LeavesOf
<1>3. IsFiniteSet(1..Len(leaves))  BY <1>1, FS_Interval
<1>4. IsFiniteSet(LeavesOf(leaves))  BY <1>2, <1>3, FS_Surjection
<1>5. Live(a) \in SUBSET LeavesOf(leaves)  BY Zenon DEF Live
<1>6. IsFiniteSet(Live(a))  BY <1>4, <1>5, FS_Subset
<1>7. LeavesOf(leaves) \subseteq Notes  BY <1>1, SMTT(60) DEF LeavesOf
<1> QED  BY <1>5, <1>6, <1>7, Zenon DEF NotesOf, Live

\* Taking a note out of a set, if it is of the asset.
LEMMA TakeNote ==
    ASSUME NEW a, NEW S, NotesOf(S, a), NEW n \in Notes, AssetOf[n] = a => n \in S
    PROVE  /\ NotesOf(S \ {n}, a) /\ Total(S) \in Nat /\ Total(S \ {n}) \in Nat
           /\ Total(S \ {n}) = Total(S) - Worth(n, a)
<1>1. IsFiniteSet(S) /\ S \subseteq Notes  BY DEF NotesOf
<1>2. IsFiniteSet(S \ {n}) /\ S \ {n} \subseteq Notes  BY <1>1, FS_RemoveElement, Zenon
<1>3. NotesOf(S \ {n}, a)  BY <1>2 DEF NotesOf
<1>4. Total(S) \in Nat /\ Total(S \ {n}) \in Nat  BY <1>1, <1>2, TotalDrop, Zenon
<1>5. CASE AssetOf[n] = a
  <2>1. Total(S) = ValueOf[n] + Total(S \ {n})  BY <1>1, <1>5, TotalDrop, Zenon
  <2>2. ValueOf[n] \in Nat  BY ConstantsAssumption
  <2> QED  BY <1>3, <1>4, <1>5, <2>1, <2>2, SMTT(60) DEF Worth
<1>6. CASE AssetOf[n] # a
  <2>1. S \ {n} = S
    <3>1. n \notin S  BY <1>6 DEF NotesOf
    <3> QED  BY <3>1
  <2>2. Total(S \ {n}) = Total(S)  BY <2>1
  <2>3. Worth(n, a) = 0  BY <1>6 DEF Worth
  <2> QED  BY <1>3, <1>4, <2>2, <2>3
<1> QED  BY <1>5, <1>6, Zenon

\* Putting a note into a set, if it is of the asset.
LEMMA PutNote ==
    ASSUME NEW a, NEW S, NotesOf(S, a), NEW n \in Notes
    PROVE  \E T : /\ NotesOf(T, a) /\ Total(T) \in Nat /\ Total(S) \in Nat
                  /\ Total(T) <= Total(S) + Worth(n, a)
                  /\ S \subseteq T
                  /\ AssetOf[n] = a => n \in T
<1>1. IsFiniteSet(S) /\ S \subseteq Notes  BY DEF NotesOf
<1>2. Total(S) \in Nat  BY <1>1, TotalDrop
<1>3. CASE AssetOf[n] = a
  <2>1. PICK T : T = S \union {n}  BY Zenon
  <2>2. IsFiniteSet(T) /\ Total(T) \in Nat /\ Total(T) <= Total(S) + ValueOf[n]
    BY <1>1, <2>1, TotalPut, Zenon
  <2>3. NotesOf(T, a)  BY <1>3, <2>1, <2>2, Zenon DEF NotesOf
  <2>4. Worth(n, a) = ValueOf[n]  BY <1>3 DEF Worth
  <2>5. S \subseteq T /\ n \in T  BY <2>1
  <2> QED  BY <1>2, <2>2, <2>3, <2>4, <2>5, Zenon
<1>4. CASE AssetOf[n] # a
  <2>1. Worth(n, a) = 0  BY <1>4 DEF Worth
  <2>2. Total(S) <= Total(S) + Worth(n, a)  BY <1>2, <2>1
  <2> QED  BY <1>2, <1>4, <2>2
<1> QED  BY <1>3, <1>4, Zenon

\* What the notes of an asset may be worth after a step, if they are among T.
LEMMA LiveBound ==
    ASSUME NEW a, NEW T, NotesOf(T, a), NEW L, L \subseteq T
    PROVE  Total(L) \in Nat /\ Total(T) \in Nat /\ Total(L) <= Total(T)
<1>1. IsFiniteSet(T) /\ T \subseteq Notes  BY DEF NotesOf
<1> QED  BY <1>1, TotalGrows, TotalDrop

\* The leaves after an insertion
LEMMA LeavesAfterAppend ==
    ASSUME TypeOK, NEW n \in Notes, leaves' = Append(leaves, n)
    PROVE  LeavesOf(leaves)' = LeavesOf(leaves) \union {n}
<1>1. /\ leaves \in Seq(Notes) /\ Len(leaves) \in Nat /\ DOMAIN leaves = 1..Len(leaves)
      /\ leaves' \in Seq(Notes) /\ DOMAIN leaves' = 1..(Len(leaves) + 1)
      /\ leaves'[Len(leaves) + 1] = n
      /\ \A i \in 1..Len(leaves) : leaves'[i] = leaves[i]
  BY SMTT(60) DEF TypeOK
<1>2. ASSUME NEW y \in LeavesOf(leaves)' PROVE y \in LeavesOf(leaves) \union {n}
  <2>1. PICK i \in DOMAIN leaves' : y = leaves'[i]  BY DEF LeavesOf
  <2> QED  BY <1>1, <2>1 DEF LeavesOf
<1>3. ASSUME NEW y \in LeavesOf(leaves) \union {n} PROVE y \in LeavesOf(leaves)'
  <2>1. PICK i \in DOMAIN leaves' : y = leaves'[i]
    <3>1. CASE y = n  BY <1>1, <3>1, SMTT(60)
    <3>2. CASE y \in LeavesOf(leaves)
      <4>1. PICK i \in DOMAIN leaves : y = leaves[i]  BY <3>2, Zenon DEF LeavesOf
      <4> QED  BY <1>1, <4>1, SMTT(60)
    <3> QED  BY <3>1, <3>2
  <2> QED  BY <2>1 DEF LeavesOf
<1> QED  BY <1>2, <1>3

\* Spending a note of the tree, and inserting none.
LEMMA SpendLive ==
    ASSUME TypeOK, LiveInv, NEW n \in Notes, n \in LeavesOf(leaves), NulOf[n] \notin spent,
           spent' = spent \union {NulOf[n]}, LeavesOf(leaves)' = LeavesOf(leaves),
           \A a \in Assets : claims[a] \in Int /\ claims'[a] = claims[a] - Worth(n, a)
    PROVE  LiveInv'
<1> SUFFICES ASSUME NEW a \in Assets PROVE Total(Live(a))' <= claims'[a]
  BY Zenon DEF LiveInv
<1>1. PICK S, L : S = Live(a) /\ L = Live(a)'  OBVIOUS
<1>2. NotesOf(S, a) /\ (AssetOf[n] = a => n \in S)
  BY <1>1, LiveIsFinite, Zenon DEF Live
<1>3. L \subseteq S \ {n}  BY <1>1, Zenon DEF Live
<1>4. /\ NotesOf(S \ {n}, a) /\ Total(S) \in Nat
      /\ Total(S \ {n}) = Total(S) - Worth(n, a)
  BY <1>2, TakeNote, Zenon
<1>5. Total(L) \in Nat /\ Total(S \ {n}) \in Nat /\ Total(L) <= Total(S \ {n})
  BY <1>3, <1>4, LiveBound, Zenon
<1>6. Total(S) <= claims[a]  BY <1>1, Zenon DEF LiveInv
<1>7. Worth(n, a) \in Nat /\ claims[a] \in Int  BY WorthType, Zenon
<1>8. Total(L) <= claims'[a]
  <2>1. Total(S \ {n}) <= claims[a] - Worth(n, a) /\ claims[a] - Worth(n, a) \in Int
    BY <1>4, <1>6, <1>7, BothLess, Zenon
  <2> QED  BY <1>5, <2>1, AtMost, Zenon
<1>9. Total(Live(a))' = Total(L)  BY <1>1, Zenon
<1> QED  BY <1>8, <1>9, Zenon

\* A deposit
LEMMA InsertLive ==
    ASSUME TypeOK, LiveInv, NEW n \in Notes, spent' = spent,
           LeavesOf(leaves)' = LeavesOf(leaves) \union {n},
           \A a \in Assets : claims[a] \in Int /\ claims'[a] = claims[a] + Worth(n, a)
    PROVE  LiveInv'
<1> SUFFICES ASSUME NEW a \in Assets PROVE Total(Live(a))' <= claims'[a]
  BY Zenon DEF LiveInv
<1>1. PICK S, L : S = Live(a) /\ L = Live(a)'  OBVIOUS
<1>2. NotesOf(S, a)  BY <1>1, LiveIsFinite, Zenon
<1>3. PICK T : /\ NotesOf(T, a) /\ Total(T) \in Nat /\ Total(S) \in Nat
               /\ Total(T) <= Total(S) + Worth(n, a)
               /\ S \subseteq T
               /\ AssetOf[n] = a => n \in T
  BY <1>2, PutNote, Zenon
<1>4. L \subseteq T  BY <1>1, <1>3, Zenon DEF Live
<1>5. Total(L) \in Nat /\ Total(L) <= Total(T)  BY <1>3, <1>4, LiveBound, Zenon
<1>6. Total(S) <= claims[a]  BY <1>1, Zenon DEF LiveInv
<1>7. Worth(n, a) \in Nat /\ claims[a] \in Int  BY WorthType
<1>8. Total(L) <= claims'[a]
  <2>1. Total(T) <= claims[a] + Worth(n, a) /\ claims[a] + Worth(n, a) \in Int
    BY <1>3, <1>6, <1>7, BothMore, Zenon
  <2> QED  BY <1>3, <1>5, <2>1, AtMost, Zenon
<1>9. Total(Live(a))' = Total(L)  BY <1>1, Zenon
<1> QED  BY <1>8, <1>9, Zenon

\* A transfer spends one note and inserts one.
LEMMA MoveLive ==
    ASSUME TypeOK, LiveInv, NEW n \in Notes, n \in LeavesOf(leaves), NulOf[n] \notin spent,
           NEW out \in Notes, spent' = spent \union {NulOf[n]},
           LeavesOf(leaves)' = LeavesOf(leaves) \union {out},
           \A a \in Assets : /\ claims[a] \in Int
                             /\ claims'[a] = claims[a] - Worth(n, a) + Worth(out, a)
    PROVE  LiveInv'
<1> SUFFICES ASSUME NEW a \in Assets PROVE Total(Live(a))' <= claims'[a]
  BY Zenon DEF LiveInv
<1>1. PICK S, L : S = Live(a) /\ L = Live(a)'  OBVIOUS
<1>2. NotesOf(S, a) /\ (AssetOf[n] = a => n \in S)
  BY <1>1, LiveIsFinite, Zenon DEF Live
<1>3. PICK R : R = S \ {n}  BY Zenon
<1>4. NotesOf(R, a) /\ Total(S) \in Nat /\ Total(R) = Total(S) - Worth(n, a)
  BY <1>2, <1>3, TakeNote, Zenon
<1>5. PICK T : /\ NotesOf(T, a) /\ Total(T) \in Nat /\ Total(R) \in Nat
               /\ Total(T) <= Total(R) + Worth(out, a)
               /\ R \subseteq T
               /\ AssetOf[out] = a => out \in T
  BY <1>4, PutNote, SMTT(60)
<1>6. L \subseteq T
  <2>1. L \subseteq R \union {out}  BY <1>1, <1>3, Zenon DEF Live
  <2>2. out \in L => AssetOf[out] = a  BY <1>1, Zenon DEF Live
  <2> QED  BY <1>5, <2>1, <2>2, Zenon
<1>7. Total(L) \in Nat /\ Total(L) <= Total(T)  BY <1>5, <1>6, LiveBound, Zenon
<1>8. Total(S) <= claims[a]  BY <1>1, Zenon DEF LiveInv
<1>9. Worth(n, a) \in Nat /\ Worth(out, a) \in Nat /\ claims[a] \in Int  BY WorthType, Zenon
<1>10. Total(L) <= claims'[a]
  <2> DEFINE c1 == claims[a] - Worth(n, a)
             c2 == c1 + Worth(out, a)
  <2>1. claims'[a] = c2  BY Zenon
  <2>2. c1 \in Int /\ Total(R) <= c1  BY <1>4, <1>8, <1>9, BothLess, Zenon
  <2> HIDE DEF c1
  <2>3. c2 \in Int /\ Total(T) <= c2  BY <1>5, <1>9, <2>2, BothMore, Zenon
  <2> HIDE DEF c2
  <2> QED  BY <1>5, <1>7, <2>1, <2>3, AtMost, Zenon
<1>11. Total(Live(a))' = Total(L)  BY <1>1, Zenon
<1> QED  BY <1>10, <1>11, Zenon

\* The claims on every asset change by what two notes that go and two that come
\* are worth in it.
Exchanged(nA, nB, outA, outB) ==
    \A a \in Assets :
        /\ claims[a] \in Int /\ claims'[a] \in Int
        /\ claims'[a] = claims[a] - Worth(nA, a) - Worth(nB, a)
                                  + Worth(outA, a) + Worth(outB, a)

\* A committee settlement spends two and inserts two.
LEMMA CrossLive ==
    ASSUME TypeOK, LiveInv, NEW nA \in Notes, NEW nB \in Notes,
           nA \in LeavesOf(leaves), nB \in LeavesOf(leaves),
           Registry!SpendBoth(Pool, NulOf[nA], NulOf[nB]),
           NEW outA \in Notes, NEW outB \in Notes,
           LeavesOf(leaves)' = LeavesOf(leaves) \union {outA, outB},
           Exchanged(nA, nB, outA, outB)
    PROVE  LiveInv'
<1>0. \A a \in Assets :
          /\ claims[a] \in Int /\ claims'[a] \in Int
          /\ claims'[a] = claims[a] - Worth(nA, a) - Worth(nB, a)
                                    + Worth(outA, a) + Worth(outB, a)
  BY Zenon DEF Exchanged
<1> SUFFICES ASSUME NEW a \in Assets PROVE Total(Live(a))' <= claims'[a]
  BY Zenon DEF LiveInv
<1>1. PICK S, L : S = Live(a) /\ L = Live(a)'  OBVIOUS
<1>2. /\ spent' = spent \union {NulOf[nA], NulOf[nB]} /\ NulOf[nA] # NulOf[nB]
      /\ NulOf[nA] \notin spent /\ NulOf[nB] \notin spent
  BY Zenon DEF Registry!SpendBoth, Registry!CanSpend
<1>3. NotesOf(S, a) /\ (AssetOf[nA] = a => nA \in S) /\ (AssetOf[nB] = a => nB \in S)
  BY <1>1, <1>2, LiveIsFinite, Zenon DEF Live
<1>4. PICK Q, R : Q = S \ {nA} /\ R = Q \ {nB}  BY Zenon
<1>5. NotesOf(Q, a) /\ Total(S) \in Nat /\ Total(Q) = Total(S) - Worth(nA, a)
  BY <1>3, <1>4, TakeNote, Zenon
<1>6. AssetOf[nB] = a => nB \in Q  BY <1>2, <1>3, <1>4, Zenon
<1>7. NotesOf(R, a) /\ Total(Q) \in Nat /\ Total(R) = Total(Q) - Worth(nB, a)
  BY <1>4, <1>5, <1>6, TakeNote, Zenon
<1>8. PICK T : /\ NotesOf(T, a) /\ Total(T) \in Nat /\ Total(R) \in Nat
               /\ Total(T) <= Total(R) + Worth(outA, a)
               /\ R \subseteq T
               /\ AssetOf[outA] = a => outA \in T
  BY <1>7, PutNote, Zenon
<1>9. PICK U : /\ NotesOf(U, a) /\ Total(U) \in Nat
               /\ Total(U) <= Total(T) + Worth(outB, a)
               /\ T \subseteq U
               /\ AssetOf[outB] = a => outB \in U
  BY <1>8, PutNote, Zenon
<1>10. L \subseteq U
  <2>1. L \subseteq R \union {outA, outB}  BY <1>1, <1>2, <1>4, Zenon DEF Live
  <2>2. /\ outA \in L => AssetOf[outA] = a
        /\ outB \in L => AssetOf[outB] = a
    BY <1>1, Zenon DEF Live
  <2> QED  BY <1>8, <1>9, <2>1, <2>2, AllButTwo, Zenon
<1>11. Total(L) \in Nat /\ Total(L) <= Total(U)  BY <1>9, <1>10, LiveBound, Zenon
<1>12. Total(S) <= claims[a]  BY <1>1, Zenon DEF LiveInv
<1>13. /\ Worth(nA, a) \in Nat /\ Worth(nB, a) \in Nat
       /\ Worth(outA, a) \in Nat /\ Worth(outB, a) \in Nat
  BY WorthType, Zenon
<1>14. Total(L) <= claims'[a]
  <2>1. /\ claims[a] \in Int
        /\ claims'[a] = claims[a] - Worth(nA, a) - Worth(nB, a)
                                  + Worth(outA, a) + Worth(outB, a)
    BY <1>0, Zenon
  <2> DEFINE c1 == claims[a] - Worth(nA, a)
             c2 == c1 - Worth(nB, a)
             c3 == c2 + Worth(outA, a)
             c4 == c3 + Worth(outB, a)
  <2>2. claims'[a] = c4  BY <2>1, Zenon
  <2>3. c1 \in Int /\ Total(Q) <= c1  BY <1>5, <1>12, <1>13, <2>1, BothLess, Zenon
  <2> HIDE DEF c1
  <2>4. c2 \in Int /\ Total(R) <= c2  BY <1>7, <1>13, <2>3, BothLess, Zenon
  <2> HIDE DEF c2
  <2>5. c3 \in Int /\ Total(T) <= c3  BY <1>8, <1>13, <2>4, BothMore, Zenon
  <2> HIDE DEF c3
  <2>6. c4 \in Int /\ Total(U) <= c4  BY <1>8, <1>9, <1>13, <2>5, BothMore, Zenon
  <2> HIDE DEF c4
  <2> QED  BY <1>9, <1>11, <2>2, <2>6, AtMost, Zenon
<1>15. Total(Live(a))' = Total(L)  BY <1>1, Zenon
<1> QED  BY <1>14, <1>15, Zenon

\* The notes and claims depend on the leaves, the nullifiers and the claims.
LEMMA FrameLive ==
    ASSUME LiveInv, leaves' = leaves, spent' = spent, claims' = claims
    PROVE  LiveInv'
<1> SUFFICES ASSUME NEW a \in Assets PROVE Total(Live(a))' <= claims'[a]
  BY DEF LiveInv
<1>1. Live(a)' = Live(a)  BY DEF Live, LeavesOf
<1>2. Total(Live(a))' = Total(Live(a))  BY <1>1
<1> QED  BY <1>2 DEF LiveInv

\* withdraw, withdraw_cctp, rfq_settle and rfq_settle_atomic_swap
LEMMA WithdrawLive ==
    ASSUME IInv, LiveInv, WithdrawFamily
    PROVE  LiveInv'
<1>1. PICK root, n, value, fee, deadline : SpendNote(n, root, value, fee, deadline)
  BY Zenon DEF WithdrawFamily
<1>2. /\ WithdrawProof(n, root, value, fee, deadline) /\ Registry!Spend(Pool, NulOf[n])
      /\ Spent(n, value) /\ UNCHANGED treeVars
  BY <1>1, Zenon DEF SpendNote, withdraw, withdraw_cctp, rfq_settle, rfq_settle_atomic_swap
<1>3. n \in Notes /\ n \in LeavesOf(leaves)
  BY <1>2, SpendableIsLeaf, Zenon DEF IInv, WithdrawProof
<1>4. AssetOf[n] \in Assets /\ ValueOf[n] \in Nat  BY <1>3, ConstantsAssumption, Zenon
<1>5. \A a \in Assets :
          claims'[a] = IF a = AssetOf[n] THEN claims[a] - ValueOf[n] ELSE claims[a]
  BY <1>2, <1>4, ClaimsAfterSpend, Zenon
<1>6. \A a \in Assets : claims[a] \in Int  BY Ledgers
<1>7. \A a \in Assets : claims[a] \in Int /\ claims'[a] = claims[a] - Worth(n, a)
  BY <1>5, <1>6 DEF Worth
<1>8. spent' = spent \union {NulOf[n]} /\ NulOf[n] \notin spent
  BY <1>2 DEF Registry!Spend, Registry!CanSpend
<1>9. LeavesOf(leaves)' = LeavesOf(leaves)  BY <1>2, Zenon DEF treeVars, LeavesOf
<1> QED  BY <1>3, <1>7, <1>8, <1>9, SpendLive, Zenon DEF IInv

LEMMA DepositLive ==
    ASSUME IInv, LiveInv, Deposit
    PROVE  LiveInv'
<1>1. PICK by \in Principals, nonce \in Nonces, n \in Notes, amount \in 1..MaxAmount :
          receive_cctp_deposit(by, nonce, n, amount)
  BY Zenon DEF Deposit
<1>2. /\ leaves' = Append(leaves, n) /\ spent' = spent
      /\ claims' = [claims EXCEPT ![AssetOf[n]] = @ + ValueOf[n]]
  BY <1>1, Zenon DEF receive_cctp_deposit, append_leaf, regVars
<1>3. LeavesOf(leaves)' = LeavesOf(leaves) \union {n}  BY <1>2, LeavesAfterAppend, Zenon DEF IInv
<1>4. AssetOf[n] \in Assets /\ ValueOf[n] \in Int /\ claims \in [Assets -> Int]
  BY ConstantsAssumption, Tables, SMTT(60)
<1>5. \A a \in Assets :
          claims'[a] = IF a = AssetOf[n] THEN claims[a] + ValueOf[n] ELSE claims[a]
  BY <1>2, <1>4, AddAt, Zenon
<1>6. ASSUME NEW a \in Assets
      PROVE  claims[a] \in Int /\ claims'[a] = claims[a] + Worth(n, a)
  <2>1. claims[a] \in Int  BY <1>4, Zenon
  <2>2. CASE a = AssetOf[n]
    <3>1. Worth(n, a) = ValueOf[n]  BY <2>2, Zenon DEF Worth
    <3>2. claims'[a] = claims[a] + ValueOf[n]  BY <1>5, <2>2, Zenon
    <3> QED  BY <2>1, <3>1, <3>2, Zenon
  <2>3. CASE a # AssetOf[n]
    <3>1. Worth(n, a) = 0  BY <2>3, Zenon DEF Worth
    <3>2. claims'[a] = claims[a]  BY <1>5, <2>3, Zenon
    <3>3. claims[a] = claims[a] + 0  BY <2>1, SMTT(60)
    <3> QED  BY <2>1, <3>1, <3>2, <3>3, Zenon
  <2> QED  BY <2>2, <2>3, Zenon
<1> QED  BY <1>2, <1>3, <1>6, InsertLive, Zenon DEF IInv

LEMMA TransferLive ==
    ASSUME IInv, LiveInv, Transfer
    PROVE  LiveInv'
<1>1. PICK by \in Principals, root \in knownRoots, n \in Notes, out \in Notes :
          private_transfer_settle(by, n, root, out)
  BY Zenon DEF Transfer
<1>2. /\ leaves' = Append(leaves, out) /\ TransferProof(n, root, out)
      /\ Registry!Spend(Pool, NulOf[n])
      /\ claims' = [claims EXCEPT ![AssetOf[n]] = @ - ValueOf[n] + ValueOf[out]]
  BY <1>1, Zenon DEF private_transfer_settle, append_leaf
<1>3. n \in LeavesOf(leaves)
  BY <1>2, SpendableIsLeaf, Zenon DEF IInv, TransferProof
<1>4. LeavesOf(leaves)' = LeavesOf(leaves) \union {out}
  BY <1>2, LeavesAfterAppend, Zenon DEF IInv
<1>5. spent' = spent \union {NulOf[n]} /\ NulOf[n] \notin spent
  BY <1>2, Zenon DEF Registry!Spend, Registry!CanSpend
<1>6. /\ AssetOf[n] \in Assets /\ ValueOf[n] \in Int /\ ValueOf[out] \in Int
      /\ AssetOf[out] = AssetOf[n] /\ claims \in [Assets -> Int]
  BY <1>2, ConstantsAssumption, Tables, SMTT(60) DEF TransferProof
<1>7. \A a \in Assets : claims'[a] = IF a = AssetOf[n] THEN claims[a] - ValueOf[n] + ValueOf[out]
                                     ELSE claims[a]
  BY <1>2, <1>6, Zenon
<1>8. \A a \in Assets : /\ claims[a] \in Int
                        /\ claims'[a] = claims[a] - Worth(n, a) + Worth(out, a)
  BY <1>6, <1>7, SMTT(60) DEF Worth
<1> QED  BY <1>3, <1>4, <1>5, <1>8, MoveLive, Zenon DEF IInv

\* The leaves after the two insertions of a committee settlement
LEMMA LeavesAfterTwo ==
    ASSUME TypeOK, NEW a \in Notes, NEW b \in Notes, append_two(a, b)
    PROVE  LeavesOf(leaves)' = LeavesOf(leaves) \union {a, b}
<1>1. PICK n, u : n = Len(leaves) /\ u = leaves'  BY Zenon
<1>2. /\ n \in Nat /\ DOMAIN leaves = 1..n /\ leaves \in Seq(Notes)
  BY <1>1, SMTT(60) DEF TypeOK
<1>3. PICK m : m = Append(leaves, a)  BY Zenon
<1>4. /\ m \in Seq(Notes) /\ Len(m) = n + 1 /\ m[n + 1] = a
      /\ \A i \in 1..n : m[i] = leaves[i]
  BY <1>1, <1>2, <1>3
<1>5. u = Append(m, b)  BY <1>1, <1>3, Zenon DEF append_two
<1>6. /\ u \in Seq(Notes) /\ Len(u) = n + 2 /\ u[n + 2] = b
      /\ \A i \in 1..(n + 1) : u[i] = m[i]
  BY <1>2, <1>4, <1>5, SMTT(60)
<1>7. /\ DOMAIN u = 1..(n + 2) /\ u[n + 1] = a /\ u[n + 2] = b
      /\ \A i \in 1..n : u[i] = leaves[i]
  BY <1>2, <1>4, <1>6, SMTT(60)
<1>8. {u[i] : i \in DOMAIN u} = {leaves[i] : i \in DOMAIN leaves} \union {a, b}
  <2>1. ASSUME NEW i \in DOMAIN u PROVE u[i] \in {leaves[j] : j \in DOMAIN leaves} \union {a, b}
    <3>1. i \in 1..n \/ i = n + 1 \/ i = n + 2  BY <1>2, <1>7, SMTT(60)
    <3> QED  BY <1>2, <1>7, <3>1, Zenon
  <2>2. ASSUME NEW j \in DOMAIN leaves PROVE leaves[j] \in {u[i] : i \in DOMAIN u}
    <3>1. j \in DOMAIN u /\ u[j] = leaves[j]  BY <1>2, <1>7, SMTT(60)
    <3> QED  BY <3>1, Zenon
  <2>3. n + 1 \in DOMAIN u /\ n + 2 \in DOMAIN u  BY <1>2, <1>7, SMTT(60)
  <2>4. a \in {u[i] : i \in DOMAIN u} /\ b \in {u[i] : i \in DOMAIN u}  BY <1>7, <2>3, Zenon
  <2> QED  BY <2>1, <2>2, <2>4, Zenon
<1> QED  BY <1>1, <1>8, Zenon DEF LeavesOf

LEMMA MpcLive ==
    ASSUME IInv, LiveInv, MpcSettle
    PROVE  LiveInv'
<1>0. PICK signed \in SUBSET Signers, root \in knownRoots, deadline \in Deadlines,
           outA \in Notes, outB \in Notes :
        \E nA, nB \in LeavesOf(root) :
            \/ \E matched \in 0..ValueOf[nA] :
                  mpc_settle(signed, nA, nB, root, outA, outB, matched, deadline)
            \/ \E price \in Prices :
                  mpc_settle_priced(signed, nA, nB, root, outA, outB, price, deadline)
  BY Zenon DEF MpcSettle
<1>1. PICK nA \in LeavesOf(root), nB \in LeavesOf(root) :
            \/ \E matched \in 0..ValueOf[nA] :
                  mpc_settle(signed, nA, nB, root, outA, outB, matched, deadline)
            \/ \E price \in Prices :
                  mpc_settle_priced(signed, nA, nB, root, outA, outB, price, deadline)
  BY <1>0, Zenon
<1>2. /\ Spendable(nA, root) /\ Spendable(nB, root)
      /\ Registry!SpendBoth(Pool, NulOf[nA], NulOf[nB]) /\ append_two(outA, outB)
  BY <1>1, Zenon DEF mpc_settle, mpc_settle_priced, MpcProof, PricedProof
<1>3. nA \in Notes /\ nB \in Notes /\ nA \in LeavesOf(leaves) /\ nB \in LeavesOf(leaves)
  BY <1>2, SpendableIsLeaf, Zenon DEF IInv
<1>4. LeavesOf(leaves)' = LeavesOf(leaves) \union {outA, outB}
  BY <1>2, LeavesAfterTwo, Zenon DEF IInv
<1>5. /\ claims \in [Assets -> Int] /\ AssetOf[nA] \in Assets
      /\ \A n \in Notes : ValueOf[n] \in Nat
  BY <1>3, ConstantsAssumption, Tables, Zenon
<1>6. /\ ValueOf[nA] \in Nat /\ ValueOf[nB] \in Nat /\ ValueOf[outA] \in Nat
      /\ ValueOf[outB] \in Nat
  BY <1>3, <1>5, Zenon
<1>7. \A a \in Assets :
          /\ claims[a] \in Int /\ claims'[a] \in Int
          /\ claims'[a] = claims[a] - Worth(nA, a) - Worth(nB, a)
                                    + Worth(outA, a) + Worth(outB, a)
  <2> SUFFICES ASSUME NEW a \in Assets
               PROVE  /\ claims[a] \in Int /\ claims'[a] \in Int
                      /\ claims'[a] = claims[a] - Worth(nA, a) - Worth(nB, a)
                                                + Worth(outA, a) + Worth(outB, a)
    BY Zenon
  <2>1. claims[a] \in Int  BY <1>5
  <2>2. CASE \E matched \in 0..ValueOf[nA] :
                mpc_settle(signed, nA, nB, root, outA, outB, matched, deadline)
    <3>1. /\ AssetOf[nB] = AssetOf[nA] /\ AssetOf[outA] = AssetOf[nA]
          /\ AssetOf[outB] = AssetOf[nA]
          /\ claims' = [claims EXCEPT ![AssetOf[nA]] =
                           @ - ValueOf[nA] - ValueOf[nB] + ValueOf[outA] + ValueOf[outB]]
      BY <2>2, Zenon DEF mpc_settle, MpcProof
    <3>2. claims'[a] = IF a = AssetOf[nA]
                       THEN claims[a] - ValueOf[nA] - ValueOf[nB] + ValueOf[outA] + ValueOf[outB]
                       ELSE claims[a]
      BY <1>5, <3>1, Zenon
    <3> QED  BY <1>6, <2>1, <3>1, <3>2, SMTT(60) DEF Worth
  <2>3. CASE \E price \in Prices :
                mpc_settle_priced(signed, nA, nB, root, outA, outB, price, deadline)
    <3>1. /\ AssetOf[outA] = AssetOf[nB] /\ AssetOf[outB] = AssetOf[nA] /\ claims' = claims
          /\ ValueOf[outA] = ValueOf[nB] /\ ValueOf[outB] = ValueOf[nA]
      BY <2>3, Zenon DEF mpc_settle_priced, PricedProof
    <3>2. Worth(outA, a) = Worth(nB, a) /\ Worth(outB, a) = Worth(nA, a)
      BY <3>1, Zenon DEF Worth
    <3>3. Worth(nA, a) \in Nat /\ Worth(nB, a) \in Nat  BY <1>3, WorthType, Zenon
    <3> QED  BY <2>1, <3>1, <3>2, <3>3, SMTT(60)
  <2> QED  BY <1>1, <2>2, <2>3, Zenon
<1>8. TypeOK  BY Zenon DEF IInv
<1>9. Exchanged(nA, nB, outA, outB)  BY <1>7, Zenon DEF Exchanged
<1> QED  BY <1>2, <1>3, <1>4, <1>8, <1>9, CrossLive, Zenon

LEMMA NextLive == IInv /\ LiveInv /\ [Next]_vars => LiveInv'
<1> SUFFICES ASSUME IInv, LiveInv, [Next]_vars PROVE LiveInv'
  OBVIOUS
<1>1. CASE Administer
  <2>1. UNCHANGED <<leaves, spent, claims>>
    BY <1>1, Zenon DEF Administer, set_part, set_association_root, set_authorized_solver,
         set_committee, register_asset, pause, unpause, transfer_admin, poolStateVars,
         treeVars, regVars, historyVars
  <2> QED  BY <2>1, FrameLive
<1>2. CASE Environment
  <2>1. UNCHANGED <<leaves, spent, claims>>
    BY <1>2, Zenon DEF Environment, RegistryAdmin, TokensArrive, LedgerCloses,
         Registry!SetAuthorizedSpender, Registry!RegPause, Registry!RegUnpause,
         treeVars, regVars, historyVars
  <2> QED  BY <2>1, FrameLive
<1>3. CASE UNCHANGED vars
  <2>1. UNCHANGED <<leaves, spent, claims>>
    BY <1>3, Zenon DEF vars, treeVars, regVars, historyVars
  <2> QED  BY <2>1, FrameLive
<1> QED
  BY <1>1, <1>2, <1>3, DepositLive, WithdrawLive, TransferLive, MpcLive, Zenon DEF Next

\* The holders of all the notes that can still be spent are covered by
\* note_supply, asset by asset, for any notes and however many of them share a
\* nullifier.
THEOREM PoolLiveNotesCovered == Spec => []LiveNotesCovered
<1>1. Init => LiveInv
  <2> SUFFICES ASSUME Init, NEW a \in Assets PROVE Total(Live(a)) <= claims[a]
    BY DEF LiveInv
  <2>1. Live(a) = {}  BY SMTT(60) DEF Init, Live, LeavesOf
  <2>2. claims[a] = 0  BY DEF Init
  <2> QED  BY <2>1, <2>2, TotalEmpty, SMTT(60)
<1>2. IInv /\ LiveInv => LiveNotesCovered
  <2> SUFFICES ASSUME IInv, LiveInv, NEW a \in Assets PROVE Total(Live(a)) <= noteSupply[a]
    BY Zenon DEF LiveNotesCovered
  <2>1. Total(Live(a)) <= claims[a] /\ claims[a] <= noteSupply[a]
    BY Ledgers, Zenon DEF LiveInv
  <2>2. claims[a] \in Int /\ noteSupply[a] \in Int  BY Ledgers, SMTT(60)
  <2>3. NotesOf(Live(a), a)  BY LiveIsFinite DEF IInv
  <2>4. Total(Live(a)) \in Nat  BY <2>3, LiveBound
  <2> QED  BY <2>1, <2>2, <2>4
<1> QED  BY <1>1, <1>2, NextLive, PoolInvariant, PTL DEF Spec
=============================================================================
