-------------------------- MODULE OperationsProofs --------------------------
(***************************************************************************)
(* What operators and their processes rely on, whatever the bounds, the    *)
(* accounts are: the guardians' quorum and timelock, the root auditor's    *)
(* verdict, and the flags the deployment scripts record.  The parts share  *)
(* nothing; a variable belongs to the part that has one of its name.       *)
(***************************************************************************)
EXTENDS GovernanceGuardian, TLAPS

\* Proposal ids are handed out in order, and a proposal that does not exist yet
\* has installed nothing.
GInv ==
    /\ nextId \in Nat
    /\ DOMAIN upgrades \subseteq 0..(nextId - 1)
    /\ DOMAIN upgrades \subseteq Ids
    /\ \A id \in DOMAIN upgrades : upgrades[id] \in UpgradeProposal
    /\ installs \in [Ids -> Nat]
    /\ \A id \in Ids \ DOMAIN upgrades : installs[id] = 0
    /\ CancelledNeverInstalled

\* Storing a proposal that has not been executed, under a fresh id or over one
\* that was neither executed nor cancelled.
LEMMA StoreKeeps ==
    ASSUME GInv, NEW id \in Ids, NEW p \in UpgradeProposal, ~p.executed,
           id \in DOMAIN upgrades => ~upgrades[id].executed,
           NEW n \in Nat, nextId' = n, nextId <= n, id < n,
           upgrades' = Store(upgrades, id, p), installs' = installs
    PROVE  GInv'
<1>1. DOMAIN upgrades' = DOMAIN upgrades \union {id}  BY DEF Store
<1>2. upgrades'[id] = p /\ \A x \in DOMAIN upgrades \ {id} : upgrades'[x] = upgrades[x]
  BY DEF Store
<1>3. DOMAIN upgrades \subseteq 0..(nextId - 1) /\ nextId \in Nat  BY DEF GInv
<1>4. nextId' \in Nat /\ DOMAIN upgrades' \subseteq 0..(nextId' - 1)
  BY <1>1, <1>3 DEF Ids
<1>5. \A x \in DOMAIN upgrades' : upgrades'[x] \in UpgradeProposal
  BY <1>1, <1>2, Zenon DEF GInv
<1>6. installs[id] = 0
  <2>1. CASE id \in DOMAIN upgrades
    BY <2>1, Zenon DEF GInv, CancelledNeverInstalled
  <2>2. CASE id \notin DOMAIN upgrades
    BY <2>2, Zenon DEF GInv
  <2> QED  BY <2>1, <2>2
<1>7. CancelledNeverInstalled'
  BY <1>1, <1>2, <1>6, Zenon DEF GInv, CancelledNeverInstalled
<1>8. /\ installs' \in [Ids -> Nat] /\ \A x \in Ids \ DOMAIN upgrades' : installs'[x] = 0
      /\ DOMAIN upgrades' \subseteq Ids
  BY <1>1, Zenon DEF GInv
<1> QED  BY <1>4, <1>5, <1>7, <1>8 DEF GInv

\* What check_upgrade_quorum stores is the proposal, with or without a quorum.
LEMMA QuorumStores ==
    ASSUME NEW id, NEW p \in UpgradeProposal, ~p.executed, ledger \in Nat,
           check_upgrade_quorum(id, p)
    PROVE  \E q \in UpgradeProposal :
              /\ ~q.executed /\ upgrades' = Store(upgrades, id, q)
              /\ p.quorum_at_ledger # None => q.quorum_at_ledger = p.quorum_at_ledger
<1>1. [p EXCEPT !.quorum_at_ledger = ledger] \in UpgradeProposal
      /\ ~[p EXCEPT !.quorum_at_ledger = ledger].executed
  BY DEF UpgradeProposal
<1> QED  BY <1>1, Zenon DEF check_upgrade_quorum

-----------------------------------------------------------------------------
\* Ledger numbers are typed; nothing else is needed of them.
LInv == ledger \in Nat

\* propose_upgrade stores a fresh proposal.
LEMMA ProposeKeeps ==
    ASSUME GInv, LInv, NEW g \in Accounts, NEW t \in Targets, NEW wasm \in Wasms,
           propose_upgrade(g, t, wasm)
    PROVE  GInv'
<1> DEFINE p == [contract_id |-> t, new_wasm_hash |-> wasm, approvals |-> <<g>>,
                 quorum_at_ledger |-> None, executed |-> FALSE, cancelled |-> FALSE]
<1>1. /\ nextId < MaxProposals /\ nextId' = nextId + 1 /\ installs' = installs
      /\ check_upgrade_quorum(nextId, p)
  BY Zenon DEF propose_upgrade
<1>2. p \in UpgradeProposal /\ ~p.executed  BY DEF UpgradeProposal, None
<1> HIDE DEF p
<1>3. PICK q \in UpgradeProposal : ~q.executed /\ upgrades' = Store(upgrades, nextId, q)
  BY <1>1, <1>2, QuorumStores, Zenon DEF LInv
<1>4. nextId \in Nat /\ DOMAIN upgrades \subseteq 0..(nextId - 1)  BY Zenon DEF GInv
<1>5. /\ nextId \in Ids /\ nextId \notin DOMAIN upgrades /\ nextId + 1 \in Nat
      /\ nextId <= nextId + 1 /\ nextId < nextId + 1
  BY <1>1, <1>4, GuardianAssumption DEF Ids
<1> QED  BY <1>1, <1>3, <1>5, StoreKeeps, Zenon

\* approve_upgrade adds an approval to a proposal that is still open.
LEMMA ApproveKeeps ==
    ASSUME GInv, LInv, NEW g \in Accounts, NEW id \in Ids, approve_upgrade(g, id)
    PROVE  GInv'
<1> DEFINE p == [upgrades[id] EXCEPT !.approvals = Append(@, g)]
<1>1. /\ id \in DOMAIN upgrades /\ ~upgrades[id].executed
      /\ check_upgrade_quorum(id, p)
      /\ nextId' = nextId /\ installs' = installs
  BY Zenon DEF approve_upgrade
<1>2. upgrades[id] \in UpgradeProposal  BY <1>1, Zenon DEF GInv
<1>3. p \in UpgradeProposal /\ ~p.executed  BY <1>1, <1>2 DEF UpgradeProposal
<1> HIDE DEF p
<1>4. PICK q \in UpgradeProposal : ~q.executed /\ upgrades' = Store(upgrades, id, q)
  BY <1>1, <1>3, QuorumStores, Zenon DEF LInv
<1>5. nextId \in Nat /\ nextId <= nextId /\ id < nextId
  BY <1>1 DEF GInv, Ids
<1> QED  BY <1>1, <1>4, <1>5, StoreKeeps, Zenon

\* cancel_upgrade marks a proposal that has not been executed.
LEMMA CancelKeeps ==
    ASSUME GInv, NEW g, NEW id \in Ids, cancel_upgrade(g, id)
    PROVE  GInv'
<1> DEFINE p == [upgrades[id] EXCEPT !.cancelled = TRUE]
<1>1. /\ id \in DOMAIN upgrades /\ ~upgrades[id].executed
      /\ nextId' = nextId /\ installs' = installs
      /\ upgrades' = [upgrades EXCEPT ![id].cancelled = TRUE]
  BY Zenon DEF cancel_upgrade
<1>2. upgrades[id] \in UpgradeProposal  BY <1>1, Zenon DEF GInv
<1>3. p \in UpgradeProposal /\ ~p.executed  BY <1>1, <1>2 DEF UpgradeProposal
<1>4. upgrades' = [upgrades EXCEPT ![id] = p]  BY <1>1
<1> HIDE DEF p
<1>5. upgrades' = Store(upgrades, id, p)
  <2>1. DOMAIN upgrades = DOMAIN upgrades \union {id}  BY <1>1
  <2> QED  BY <1>1, <1>4, <2>1 DEF Store
<1>6. nextId \in Nat /\ nextId <= nextId /\ id < nextId
  BY <1>1 DEF GInv, Ids
<1> QED  BY <1>1, <1>3, <1>5, <1>6, StoreKeeps, Zenon

\* execute_upgrade installs a proposal that was neither executed nor cancelled.
LEMMA ExecuteKeeps ==
    ASSUME GInv, NEW id \in Ids, execute_upgrade(id)
    PROVE  GInv'
<1>1. /\ id \in DOMAIN upgrades /\ ~upgrades[id].executed /\ ~upgrades[id].cancelled
      /\ nextId' = nextId
  BY Zenon DEF execute_upgrade
<1>2. upgrades' = [upgrades EXCEPT ![id].executed = TRUE]  BY Zenon DEF execute_upgrade
<1>3. installs' = [installs EXCEPT ![id] = @ + 1]  BY Zenon DEF execute_upgrade
<1>4. upgrades[id] \in UpgradeProposal /\ installs[id] = 0 /\ installs \in [Ids -> Nat]
  BY <1>1, Zenon DEF GInv, CancelledNeverInstalled
<1>5. /\ DOMAIN upgrades' = DOMAIN upgrades
      /\ upgrades'[id] = [upgrades[id] EXCEPT !.executed = TRUE]
      /\ \A x \in DOMAIN upgrades \ {id} : upgrades'[x] = upgrades[x]
  BY <1>1, <1>2
<1>6. /\ upgrades'[id] \in UpgradeProposal
      /\ upgrades'[id].executed /\ ~upgrades'[id].cancelled
  BY <1>1, <1>4, <1>5 DEF UpgradeProposal
<1>7. /\ installs' \in [Ids -> Nat] /\ installs'[id] = 1
      /\ \A x \in Ids \ {id} : installs'[x] = installs[x]
  BY <1>3, <1>4
<1>8. CancelledNeverInstalled'
  BY <1>5, <1>6, <1>7, Zenon DEF GInv, CancelledNeverInstalled
<1> QED  BY <1>1, <1>5, <1>6, <1>7, <1>8, Zenon DEF GInv

\* A step that touches neither the upgrade proposals nor their history.
LEMMA FrameUpgrades ==
    ASSUME GInv, upgrades' = upgrades, installs' = installs, nextId' \in {nextId, nextId + 1}
    PROVE  GInv'
<1>1. nextId \in Nat /\ DOMAIN upgrades \subseteq 0..(nextId - 1)  BY Zenon DEF GInv
<1>2. nextId' \in Nat /\ DOMAIN upgrades \subseteq 0..(nextId' - 1)  BY <1>1
<1> QED  BY <1>2, Zenon DEF GInv, CancelledNeverInstalled

-----------------------------------------------------------------------------
(* The theorems *)

\* What a step that is not one of the four upgrade operations leaves alone.
LEMMA OtherSteps ==
    ASSUME Next
    PROVE  \/ \E g \in Accounts, t \in Targets, wasm \in Wasms : propose_upgrade(g, t, wasm)
           \/ \E g \in Accounts, id \in Ids : approve_upgrade(g, id)
           \/ \E g \in Accounts, id \in Ids : cancel_upgrade(g, id)
           \/ \E id \in Ids : execute_upgrade(id)
           \/ /\ upgrades' = upgrades /\ installs' = installs /\ tWasm' = tWasm
              /\ nextId' \in {nextId, nextId + 1}
<1>1. CASE Administer
  BY <1>1, Zenon DEF Administer, add_guardian, remove_guardian, set_threshold, targetVars
<1>2. CASE GuardianActs
  <2>1. PICK g \in Accounts :
          \/ \E t \in Targets, unpause \in BOOLEAN : propose_pause(g, t, unpause)
          \/ \E id \in Ids : approve_pause(g, id)
          \/ \E t \in Targets, wasm \in Wasms : propose_upgrade(g, t, wasm)
          \/ \E id \in Ids : approve_upgrade(g, id)
          \/ \E id \in Ids : cancel_upgrade(g, id)
    BY <1>2, Zenon DEF GuardianActs
  <2>2. ASSUME NEW t, NEW unpause, propose_pause(g, t, unpause)
        PROVE  /\ upgrades' = upgrades /\ installs' = installs /\ tWasm' = tWasm
               /\ nextId' \in {nextId, nextId + 1}
    BY <2>2, Zenon DEF propose_pause
  <2>3. ASSUME NEW id, approve_pause(g, id)
        PROVE  /\ upgrades' = upgrades /\ installs' = installs /\ tWasm' = tWasm
               /\ nextId' \in {nextId, nextId + 1}
    BY <2>3, Zenon DEF approve_pause
  <2> QED  BY <2>1, <2>2, <2>3, Zenon
<1>3. CASE LedgerCloses
  BY <1>3, Zenon DEF LedgerCloses, targetVars
<1> QED  BY <1>1, <1>2, <1>3, Zenon DEF Next

\* The ledger only moves forward.
LEMMA NextLedger == LInv /\ [Next]_vars => LInv'
<1> SUFFICES ASSUME LInv, [Next]_vars PROVE LInv'
  OBVIOUS
<1>1. ledger' = ledger \/ ledger' = ledger + 1
  BY Zenon DEF Next, vars, Administer, GuardianActs, add_guardian, remove_guardian,
     set_threshold, propose_pause, approve_pause, propose_upgrade, approve_upgrade,
     cancel_upgrade, execute_upgrade, LedgerCloses
<1> QED  BY <1>1 DEF LInv

\* Every transaction preserves the inductive invariant.
LEMMA NextGInv == GInv /\ LInv /\ [Next]_vars => GInv'
<1> SUFFICES ASSUME GInv, LInv, [Next]_vars PROVE GInv'
  OBVIOUS
<1>1. CASE UNCHANGED vars
  <2>1. upgrades' = upgrades /\ installs' = installs /\ nextId' = nextId
    BY <1>1, Zenon DEF vars
  <2> QED  BY <2>1, FrameUpgrades, Zenon
<1>2. CASE Next
  BY <1>2, OtherSteps, ProposeKeeps, ApproveKeeps, CancelKeeps, ExecuteKeeps, FrameUpgrades,
     Zenon
<1> QED  BY <1>1, <1>2, Zenon

\* The inductive invariant holds of every guardian contract.
THEOREM GuardianInvariant == Spec => [](GInv /\ LInv)
<1>1. initialize => GInv /\ LInv
  <2> SUFFICES ASSUME initialize PROVE GInv /\ LInv
    OBVIOUS
  <2>1. DOMAIN upgrades = {}  BY DEF initialize
  <2>2. installs = [id \in Ids |-> 0] /\ nextId = 0 /\ ledger = 0  BY Zenon DEF initialize
  <2> QED  BY <2>1, <2>2 DEF GInv, LInv, CancelledNeverInstalled
<1>2. GInv /\ LInv /\ [Next]_vars => (GInv /\ LInv)'  BY NextGInv, NextLedger
<1> QED  BY <1>1, <1>2, PTL DEF Spec

\* A cancelled upgrade is never installed and no upgrade is installed twice,
\* whoever approves, cancels and executes and in whatever order.
THEOREM GuardianCancelIsFinal == Spec => []CancelledNeverInstalled
<1>1. GInv /\ LInv => CancelledNeverInstalled  BY DEF GInv
<1> QED  BY <1>1, GuardianInvariant, PTL

\* The code of a target changes only through a proposal whose timelock has run.
THEOREM GuardianUpgradeWaits == Spec => UpgradeWaits
<1> DEFINE Waits == \A t \in Targets : tWasm'[t] # tWasm[t] =>
                      \E id \in DOMAIN upgrades :
                          /\ upgrades[id].contract_id = t
                          /\ upgrades[id].new_wasm_hash = tWasm'[t]
                          /\ ~upgrades[id].cancelled
                          /\ upgrades[id].quorum_at_ledger # None
                          /\ ledger >= upgrades[id].quorum_at_ledger + Delay
<1>1. (tWasm \in [Targets -> Wasms \union {NoWasm}]) /\ GInv /\ [Next]_vars
        => [Waits]_vars /\ (tWasm \in [Targets -> Wasms \union {NoWasm}])'
  <2> SUFFICES ASSUME tWasm \in [Targets -> Wasms \union {NoWasm}], GInv, Next
               PROVE  Waits /\ (tWasm \in [Targets -> Wasms \union {NoWasm}])'
    BY Zenon DEF vars, targetVars
  <2>1. CASE tWasm' = tWasm  BY <2>1, Zenon
  <2>2. ASSUME NEW id \in Ids, execute_upgrade(id)
        PROVE  Waits /\ (tWasm \in [Targets -> Wasms \union {NoWasm}])'
    <3>1. /\ id \in DOMAIN upgrades /\ ~upgrades[id].cancelled
          /\ upgrades[id].quorum_at_ledger # None
          /\ ledger >= upgrades[id].quorum_at_ledger + Delay
          /\ tWasm' = [tWasm EXCEPT ![upgrades[id].contract_id] = upgrades[id].new_wasm_hash]
      BY <2>2, Zenon DEF execute_upgrade, TimelockElapsed
    <3>2. upgrades[id] \in UpgradeProposal  BY <3>1, Zenon DEF GInv
    <3>3. upgrades[id].contract_id \in Targets /\ upgrades[id].new_wasm_hash \in Wasms
      BY <3>2 DEF UpgradeProposal
    <3>4. \A t \in Targets : tWasm'[t] # tWasm[t] =>
              upgrades[id].contract_id = t /\ upgrades[id].new_wasm_hash = tWasm'[t]
      BY <3>1, <3>3, Zenon
    <3>5. (tWasm \in [Targets -> Wasms \union {NoWasm}])'  BY <3>1, <3>3
    <3> QED  BY <3>1, <3>4, <3>5, Zenon
  <2>3. \/ \E id \in Ids : execute_upgrade(id)
        \/ tWasm' = tWasm
    BY OtherSteps, Zenon DEF propose_upgrade, approve_upgrade, cancel_upgrade, targetVars
  <2> QED  BY <2>1, <2>2, <2>3, Zenon
<1>2. initialize => tWasm \in [Targets -> Wasms \union {NoWasm}]
  BY Zenon DEF initialize
<1> QED  BY <1>1, <1>2, GuardianInvariant, PTL DEF Spec, UpgradeWaits

\* The timelock runs from the first quorum, which no later step moves.
THEOREM GuardianTimelockIsFixed == Spec => TimelockIsFixed
<1> DEFINE Fixed == \A id \in DOMAIN upgrades :
                      upgrades[id].quorum_at_ledger # None =>
                          upgrades'[id].quorum_at_ledger = upgrades[id].quorum_at_ledger
<1>1. GInv /\ LInv /\ [Next]_vars => [Fixed]_vars
  <2> SUFFICES ASSUME GInv, LInv, Next PROVE Fixed
    OBVIOUS
  <2>1. ASSUME NEW g \in Accounts, NEW t \in Targets, NEW wasm \in Wasms,
               propose_upgrade(g, t, wasm)
        PROVE  Fixed
    <3>1. DOMAIN upgrades \subseteq 0..(nextId - 1) /\ nextId \in Nat  BY Zenon DEF GInv
    <3>2. nextId \notin DOMAIN upgrades  BY <3>1
    <3>3. \E q : upgrades' = Store(upgrades, nextId, q)
      BY <2>1, Zenon DEF propose_upgrade, check_upgrade_quorum
    <3> QED  BY <3>2, <3>3, Zenon DEF Store
  <2>2. ASSUME NEW g \in Accounts, NEW id \in Ids, approve_upgrade(g, id)
        PROVE  Fixed
    <3> DEFINE p == [upgrades[id] EXCEPT !.approvals = Append(@, g)]
    <3>1. id \in DOMAIN upgrades /\ ~upgrades[id].executed /\ check_upgrade_quorum(id, p)
      BY <2>2, Zenon DEF approve_upgrade
    <3>2. upgrades[id] \in UpgradeProposal  BY <3>1, Zenon DEF GInv
    <3>3. /\ p \in UpgradeProposal /\ ~p.executed
          /\ p.quorum_at_ledger = upgrades[id].quorum_at_ledger
      BY <3>1, <3>2 DEF UpgradeProposal
    <3> HIDE DEF p
    <3>4. PICK q \in UpgradeProposal :
              /\ upgrades' = Store(upgrades, id, q)
              /\ p.quorum_at_ledger # None => q.quorum_at_ledger = p.quorum_at_ledger
      BY <3>1, <3>3, QuorumStores, Zenon DEF LInv
    <3>5. upgrades'[id] = q /\ \A x \in DOMAIN upgrades \ {id} : upgrades'[x] = upgrades[x]
      BY <3>4 DEF Store
    <3> QED  BY <3>3, <3>4, <3>5, Zenon
  <2>3. ASSUME NEW id \in Ids, NEW u,
               u \in {[upgrades EXCEPT ![id].cancelled = TRUE],
                      [upgrades EXCEPT ![id].executed = TRUE]},
               upgrades' = u, id \in DOMAIN upgrades
        PROVE  Fixed
    <3>1. upgrades[id] \in UpgradeProposal  BY <2>3, Zenon DEF GInv
    <3>2. upgrades'[id].quorum_at_ledger = upgrades[id].quorum_at_ledger
      BY <2>3, <3>1 DEF UpgradeProposal
    <3>3. \A x \in DOMAIN upgrades \ {id} : upgrades'[x] = upgrades[x]  BY <2>3
    <3> QED  BY <3>2, <3>3, Zenon
  <2>4. ASSUME NEW g \in Accounts, NEW id \in Ids, cancel_upgrade(g, id)
        PROVE  Fixed
    BY <2>3, <2>4, Zenon DEF cancel_upgrade
  <2>5. ASSUME NEW id \in Ids, execute_upgrade(id)
        PROVE  Fixed
    BY <2>3, <2>5, Zenon DEF execute_upgrade
  <2>6. CASE upgrades' = upgrades  BY <2>6, Zenon
  <2> QED  BY <2>1, <2>2, <2>4, <2>5, <2>6, OtherSteps, Zenon
<1> QED  BY <1>1, GuardianInvariant, PTL DEF Spec, TimelockIsFixed

-----------------------------------------------------------------------------
(* Quorums. An account approves once, so the length of the vector of approvals *)
(* counts accounts; the threshold in force at the quorum was that length or    *)
(* less, and nothing shortens the vector.                                      *)

\* The approvals of a proposal, and the quorum it has reached
Counted(p, id, quorum) ==
    /\ IsFiniteSet(Range(p.approvals))
    /\ Cardinality(Range(p.approvals)) = Len(p.approvals)
    /\ Range(p.approvals) \subseteq everGuardian
    /\ quorum => needed[id] > 0 /\ needed[id] <= Len(p.approvals)

PausesInv ==
    /\ DOMAIN pauses \subseteq Ids \intersect 0..(nextId - 1)
    /\ DOMAIN pauses \intersect DOMAIN upgrades = {}
    /\ \A id \in DOMAIN pauses :
          pauses[id] \in PauseProposal /\ Counted(pauses[id], id, pauses[id].executed)

UpgradesInv ==
    \A id \in DOMAIN upgrades :
        Counted(upgrades[id], id, upgrades[id].quorum_at_ledger # None)

RolesInv ==
    /\ guardians \in Seq(Accounts)
    /\ Range(guardians) \subseteq everGuardian
    /\ threshold \in Nat \ {0}
    /\ needed \in [Ids -> Nat]

QInv == RolesInv /\ PausesInv /\ UpgradesInv

-----------------------------------------------------------------------------
(* What the loop of remove_guardian leaves, by induction on the vector.  The   *)
(* induction is over a set of numbers: the numbers are well founded, so a set  *)
(* of them that is not empty has a smallest one.                               *)

INSTANCE FiniteSetTheorems

LEMMA SmallestOfSet ==
    ASSUME NEW T, T \subseteq Nat, T # {}
    PROVE  \E m \in T : \A k \in T : m <= k
<1> DEFINE R == {ss \in Nat \X Nat : ss[1] < ss[2]}
<1>1. IsWellFoundedOn(R, Nat)  BY NatLessThanWellFounded DEF OpToRel
<1>2. PICK x \in T : \A y \in T : ~(<<y, x>> \in R)
  <2> HIDE DEF R
  <2> QED  BY <1>1, WFMin
<1>3. ASSUME NEW y \in T PROVE x <= y
  <2>1. ~(<<y, x>> \in R)  BY <1>2
  <2>2. y \in Nat /\ x \in Nat  OBVIOUS
  <2>3. ~(y < x)  BY <2>1, <2>2
  <2> QED  BY <2>2, <2>3
<1> QED  BY <1>3

LEMMA SetInduction ==
    ASSUME NEW S, 0 \in S, \A n \in Nat : n \in S => n + 1 \in S
    PROVE  Nat \subseteq S
<1> SUFFICES ASSUME Nat \ S # {} PROVE FALSE  OBVIOUS
<1>1. Nat \ S \subseteq Nat  OBVIOUS
<1>2. PICK m \in Nat \ S : \A k \in Nat \ S : m <= k  BY <1>1, SmallestOfSet
<1>3. m # 0 /\ m - 1 \in Nat /\ m - 1 < m  BY <1>2
<1>4. m - 1 \in S  BY <1>2, <1>3
<1>5. (m - 1) + 1 \in S  BY <1>3, <1>4
<1> QED  BY <1>2, <1>5

LEMMA AppendRange ==
    ASSUME NEW t \in Seq(Accounts), NEW x \in Accounts
    PROVE  Append(t, x) \in Seq(Accounts) /\ Range(Append(t, x)) = Range(t) \union {x}
<1>1. PICK u : u = Append(t, x)  OBVIOUS
<1>2. /\ u \in Seq(Accounts) /\ Len(u) = Len(t) + 1 /\ u[Len(t) + 1] = x
      /\ \A i \in 1..Len(t) : u[i] = t[i]
  BY <1>1
<1>3. /\ Len(t) \in Nat /\ DOMAIN t = 1..Len(t) /\ DOMAIN u = 1..(Len(t) + 1)
  BY <1>2
<1>4. ASSUME NEW y \in Range(u) PROVE y \in Range(t) \union {x}
  <2>1. PICK i \in DOMAIN u : y = u[i]  BY DEF Range
  <2> QED  BY <1>2, <1>3, <2>1 DEF Range
<1>5. ASSUME NEW y \in Range(t) \union {x} PROVE y \in Range(u)
  <2>1. PICK i \in DOMAIN u : y = u[i]  BY <1>2, <1>3 DEF Range
  <2> QED  BY <2>1 DEF Range
<1> QED  BY <1>1, <1>2, <1>4, <1>5

\* f has what the loop keeps of the first n entries of s.
IsKept(f, s, g, n) ==
    f = [i \in 0..n |-> IF i = 0 THEN << >>
                        ELSE IF s[i] = g THEN f[i - 1] ELSE Append(f[i - 1], s[i])]

LEMMA KeptExists ==
    ASSUME NEW s, NEW g, NEW N \in Nat
    PROVE  \E f : IsKept(f, s, g, N)
<1> DEFINE S == {n \in Nat : \E f : IsKept(f, s, g, n)}
<1>1. 0 \in S
  <2>1. PICK f : f = [i \in 0..0 |-> << >>]  OBVIOUS
  <2>2. IsKept(f, s, g, 0)  BY <2>1 DEF IsKept
  <2> QED  BY <2>2, Zenon
<1>2. ASSUME NEW n \in Nat, n \in S PROVE n + 1 \in S
  <2>1. PICK f : IsKept(f, s, g, n)  BY <1>2
  <2>2. PICK h : h = [i \in 0..(n + 1) |->
                        IF i = n + 1
                        THEN IF s[i] = g THEN f[i - 1] ELSE Append(f[i - 1], s[i])
                        ELSE f[i]]
    OBVIOUS
  <2>3. \A i \in 0..n : h[i] = f[i]  BY <2>2
  <2>4. \A i \in 0..n : f[i] = IF i = 0 THEN << >>
                               ELSE IF s[i] = g THEN f[i - 1] ELSE Append(f[i - 1], s[i])
    <3>1. PICK F : F = [i \in 0..n |-> IF i = 0 THEN << >>
                             ELSE IF s[i] = g THEN f[i - 1] ELSE Append(f[i - 1], s[i])]
      OBVIOUS
    <3>2. f = F  BY <2>1, <3>1 DEF IsKept
    <3> QED  BY <3>1, <3>2
  <2>5. ASSUME NEW i \in 0..(n + 1)
        PROVE  h[i] = IF i = 0 THEN << >>
                      ELSE IF s[i] = g THEN h[i - 1] ELSE Append(h[i - 1], s[i])
    <3>1. CASE i = n + 1
      <4>1. i # 0 /\ i - 1 \in 0..n  BY <3>1
      <4>2. h[i - 1] = f[i - 1]  BY <2>3, <4>1
      <4>3. h[i] = IF s[i] = g THEN f[i - 1] ELSE Append(f[i - 1], s[i])  BY <2>2, <3>1
      <4> QED  BY <4>1, <4>2, <4>3
    <3>2. CASE i \in 0..n /\ i # 0
      <4>1. i - 1 \in 0..n  BY <3>2
      <4>2. h[i - 1] = f[i - 1] /\ h[i] = f[i]  BY <2>3, <3>2, <4>1
      <4> QED  BY <2>4, <3>2, <4>2
    <3>3. CASE i = 0
      <4>1. 0 \in 0..n  OBVIOUS
      <4> QED  BY <2>3, <2>4, <3>3, <4>1
    <3> QED  BY <3>1, <3>2, <3>3
  <2>6. IsKept(h, s, g, n + 1)
    <3>1. PICK H : H = [i \in 0..(n + 1) |-> IF i = 0 THEN << >>
                          ELSE IF s[i] = g THEN h[i - 1] ELSE Append(h[i - 1], s[i])]
      OBVIOUS
    <3>2. \A i \in 0..(n + 1) : h[i] = H[i]  BY <2>5, <3>1
    <3>3. h = H  BY <2>2, <3>1, <3>2
    <3> QED  BY <3>1, <3>3 DEF IsKept
  <2> QED  BY <2>6
<1> HIDE DEF S
<1>3. N \in S  BY <1>1, <1>2, SetInduction
<1> QED  BY <1>3 DEF S

\* remove_guardian keeps every guardian but g, and adds none.
LEMMA WithoutRange ==
    ASSUME NEW s \in Seq(Accounts), NEW g
    PROVE  Without(s, g) \in Seq(Accounts) /\ Range(Without(s, g)) = Range(s) \ {g}
<1>1. PICK N \in Nat : N = Len(s)  OBVIOUS
<1>2. PICK f : IsKept(f, s, g, N) /\ Without(s, g) = f[N]
  <2> DEFINE k == CHOOSE k : IsKept(k, s, g, N)
  <2>1. IsKept(k, s, g, N)  BY KeptExists, Zenon
  <2>2. Without(s, g) = k[N]  BY <1>1 DEF Without, IsKept
  <2> QED  BY <2>1, <2>2, Zenon
<1>3. \A i \in 0..N : f[i] = IF i = 0 THEN << >>
                             ELSE IF s[i] = g THEN f[i - 1] ELSE Append(f[i - 1], s[i])
  <2>1. PICK F : F = [i \in 0..N |-> IF i = 0 THEN << >>
                           ELSE IF s[i] = g THEN f[i - 1] ELSE Append(f[i - 1], s[i])]
    OBVIOUS
  <2>2. f = F  BY <1>2, <2>1 DEF IsKept
  <2> QED  BY <2>1, <2>2
<1>4. \A i \in 1..N : s[i] \in Accounts  BY <1>1
<1> DEFINE S == {n \in Nat : n <= N => /\ f[n] \in Seq(Accounts)
                                       /\ Range(f[n]) = {s[j] : j \in 1..n} \ {g}}
<1>5. 0 \in S
  <2>1. f[0] = << >>
    <3>1. 0 \in 0..N  OBVIOUS
    <3> QED  BY <1>3, <3>1
  <2>2. Range(<< >>) = {} /\ {s[j] : j \in 1..0} = {} /\ << >> \in Seq(Accounts)  BY DEF Range
  <2>3. f[0] \in Seq(Accounts) /\ Range(f[0]) = {s[j] : j \in 1..0} \ {g}
    BY <2>1, <2>2
  <2> QED  BY <2>3
<1>6. ASSUME NEW n \in Nat, n \in S PROVE n + 1 \in S
  <2> SUFFICES ASSUME n + 1 <= N
               PROVE  /\ f[n + 1] \in Seq(Accounts)
                      /\ Range(f[n + 1]) = {s[j] : j \in 1..(n + 1)} \ {g}
    OBVIOUS
  <2>1. PICK t : t = f[n]  OBVIOUS
  <2>2. t \in Seq(Accounts) /\ Range(t) = {s[j] : j \in 1..n} \ {g}  BY <1>6, <2>1
  <2>3. PICK x \in Accounts : x = s[n + 1]  BY <1>4
  <2>4. f[n + 1] = IF x = g THEN t ELSE Append(t, x)
    <3>1. n + 1 \in 0..N /\ n + 1 # 0 /\ (n + 1) - 1 = n  OBVIOUS
    <3> QED  BY <1>3, <2>1, <2>3, <3>1
  <2>5. {s[j] : j \in 1..(n + 1)} = {s[j] : j \in 1..n} \union {x}  BY <2>3
  <2>6. Append(t, x) \in Seq(Accounts) /\ Range(Append(t, x)) = Range(t) \union {x}
    BY <2>2, AppendRange
  <2> QED  BY <2>2, <2>4, <2>5, <2>6
<1> HIDE DEF S
<1>7. N \in S  BY <1>5, <1>6, SetInduction
<1>8. Range(s) = {s[j] : j \in 1..N}  BY <1>1 DEF Range
<1> QED  BY <1>2, <1>7, <1>8 DEF S

-----------------------------------------------------------------------------
(* Approvals *)

\* The approval of whoever proposes
LEMMA FirstApproval ==
    ASSUME NEW g \in Accounts
    PROVE  /\ Range(<<g>>) = {g} /\ IsFiniteSet(Range(<<g>>))
           /\ Cardinality(Range(<<g>>)) = Len(<<g>>) /\ Len(<<g>>) = 1
<1>1. Range(<<g>>) = {g}  BY DEF Range
<1>2. IsFiniteSet({g}) /\ Cardinality({g}) = 1  BY FS_Singleton
<1> QED  BY <1>1, <1>2

\* The approval of an account that has not approved
LEMMA NextApproval ==
    ASSUME NEW t \in Seq(Accounts), NEW g \in Accounts, g \notin Range(t),
           IsFiniteSet(Range(t)), Cardinality(Range(t)) = Len(t)
    PROVE  /\ Append(t, g) \in Seq(Accounts) /\ Range(Append(t, g)) = Range(t) \union {g}
           /\ IsFiniteSet(Range(Append(t, g))) /\ Len(Append(t, g)) = Len(t) + 1
           /\ Cardinality(Range(Append(t, g))) = Len(Append(t, g))
<1>1. Append(t, g) \in Seq(Accounts) /\ Range(Append(t, g)) = Range(t) \union {g}
  BY AppendRange
<1>2. Len(Append(t, g)) = Len(t) + 1  OBVIOUS
<1>3. /\ IsFiniteSet(Range(t) \union {g})
      /\ Cardinality(Range(t) \union {g}) = IF g \in Range(t) THEN Cardinality(Range(t))
                                            ELSE Cardinality(Range(t)) + 1
  BY FS_AddElement, Zenon
<1> QED  BY <1>1, <1>2, <1>3

\* What was counted stays counted.
LEMMA CountedStays ==
    ASSUME NEW p, NEW id, NEW quorum, everGuardian \subseteq everGuardian',
           quorum => needed'[id] = needed[id], Counted(p, id, quorum)
    PROVE  Counted(p, id, quorum)'
BY DEF Counted

\* A pause proposal is stored under its id.
LEMMA PauseStored ==
    ASSUME GInv, QInv, RolesInv', NEW id \in Ids, id \notin DOMAIN upgrades,
           NEW p \in PauseProposal, Counted(p, id, p.executed)', pauses' = Store(pauses, id, p),
           upgrades' = upgrades, everGuardian' = everGuardian,
           \A x \in Ids \ {id} : needed'[x] = needed[x],
           nextId' \in Nat, nextId <= nextId', id < nextId'
    PROVE  QInv'
<1>1. /\ DOMAIN pauses' = DOMAIN pauses \union {id} /\ pauses'[id] = p
      /\ \A x \in DOMAIN pauses \ {id} : pauses'[x] = pauses[x]
  BY DEF Store
<1>2. /\ DOMAIN pauses \subseteq Ids \intersect 0..(nextId - 1)
      /\ DOMAIN pauses \intersect DOMAIN upgrades = {} /\ nextId \in Nat
  BY Zenon DEF QInv, PausesInv, GInv
<1>3. DOMAIN pauses' \subseteq Ids \intersect 0..(nextId' - 1)  BY <1>1, <1>2 DEF Ids
<1>4. DOMAIN pauses' \intersect DOMAIN upgrades' = {}  BY <1>1, <1>2
<1>5. ASSUME NEW x \in DOMAIN pauses'
      PROVE  pauses'[x] \in PauseProposal /\ Counted(pauses[x], x, pauses[x].executed)'
  <2>1. CASE x = id  BY <1>1, <2>1
  <2>2. CASE x # id
    <3>1. x \in DOMAIN pauses /\ pauses'[x] = pauses[x] /\ x \in Ids
      BY <1>1, <1>2, <1>5, <2>2, Zenon
    <3>2. PICK q : q = pauses[x]  OBVIOUS
    <3>3. q \in PauseProposal /\ Counted(q, x, q.executed)
      BY <3>1, <3>2 DEF QInv, PausesInv
    <3>4. needed'[x] = needed[x]  BY <2>2, <3>1
    <3>5. Counted(q, x, q.executed)'  BY <3>3, <3>4, CountedStays
    <3> QED  BY <3>1, <3>2, <3>3, <3>5
  <2> QED  BY <2>1, <2>2
<1>6. ASSUME NEW x \in DOMAIN upgrades
      PROVE  Counted(upgrades[x], x, upgrades[x].quorum_at_ledger # None)'
  <2>1. x # id /\ x \in Ids  BY <1>6, Zenon DEF GInv
  <2>2. PICK q : q = upgrades[x]  OBVIOUS
  <2>3. Counted(q, x, q.quorum_at_ledger # None)  BY <2>2 DEF QInv, UpgradesInv
  <2>4. needed'[x] = needed[x]  BY <2>1
  <2>5. Counted(q, x, q.quorum_at_ledger # None)'  BY <2>3, <2>4, CountedStays
  <2> QED  BY <2>2, <2>5
<1> QED  BY <1>3, <1>4, <1>5, <1>6, Zenon DEF QInv, PausesInv, UpgradesInv

\* An upgrade proposal is stored under its id.
LEMMA UpgradeStored ==
    ASSUME GInv, QInv, RolesInv', NEW id \in Ids, id \notin DOMAIN pauses,
           NEW p \in UpgradeProposal, Counted(p, id, p.quorum_at_ledger # None)',
           upgrades' = Store(upgrades, id, p),
           pauses' = pauses, everGuardian' = everGuardian,
           \A x \in Ids \ {id} : needed'[x] = needed[x], nextId' \in Nat, nextId <= nextId'
    PROVE  QInv'
<1>1. /\ DOMAIN upgrades' = DOMAIN upgrades \union {id} /\ upgrades'[id] = p
      /\ \A x \in DOMAIN upgrades \ {id} : upgrades'[x] = upgrades[x]
  BY DEF Store
<1>2. /\ DOMAIN pauses \subseteq Ids \intersect 0..(nextId - 1)
      /\ DOMAIN pauses \intersect DOMAIN upgrades = {} /\ nextId \in Nat
      /\ DOMAIN upgrades \subseteq Ids
  BY Zenon DEF QInv, PausesInv, GInv
<1>3. DOMAIN pauses' \subseteq Ids \intersect 0..(nextId' - 1)  BY <1>2
<1>4. DOMAIN pauses' \intersect DOMAIN upgrades' = {}  BY <1>1, <1>2
<1>5. ASSUME NEW x \in DOMAIN pauses
      PROVE  pauses'[x] \in PauseProposal /\ Counted(pauses[x], x, pauses[x].executed)'
  <2>1. x # id /\ x \in Ids  BY <1>2, <1>5
  <2>2. PICK q : q = pauses[x]  OBVIOUS
  <2>3. q \in PauseProposal /\ Counted(q, x, q.executed)  BY <2>2 DEF QInv, PausesInv
  <2>4. needed'[x] = needed[x]  BY <2>1
  <2>5. Counted(q, x, q.executed)'  BY <2>3, <2>4, CountedStays
  <2> QED  BY <2>2, <2>3, <2>5
<1>6. ASSUME NEW x \in DOMAIN upgrades'
      PROVE  Counted(upgrades[x], x, upgrades[x].quorum_at_ledger # None)'
  <2>1. CASE x = id  BY <1>1, <2>1
  <2>2. CASE x # id
    <3>1. x \in DOMAIN upgrades /\ upgrades'[x] = upgrades[x] /\ x \in Ids
      BY <1>1, <1>2, <1>6, <2>2, Zenon
    <3>2. PICK q : q = upgrades[x]  OBVIOUS
    <3>3. Counted(q, x, q.quorum_at_ledger # None)  BY <3>1, <3>2 DEF QInv, UpgradesInv
    <3>4. needed'[x] = needed[x]  BY <2>2, <3>1
    <3>5. Counted(q, x, q.quorum_at_ledger # None)'  BY <3>3, <3>4, CountedStays
    <3> QED  BY <3>1, <3>2, <3>5
  <2> QED  BY <2>1, <2>2
<1> QED  BY <1>3, <1>4, <1>5, <1>6, Zenon DEF QInv, PausesInv, UpgradesInv

\* try_execute_pause compares the count with the threshold in force.
LEMMA TryExecuteCounts ==
    ASSUME GInv, QInv, NEW id \in Ids, id \notin DOMAIN upgrades, NEW p \in PauseProposal,
           ~p.executed, Counted(p, id, FALSE), try_execute_pause(id, p),
           UNCHANGED <<guardians, threshold, everGuardian, upgrades>>,
           nextId' \in Nat, nextId <= nextId', id < nextId'
    PROVE  QInv'
<1>1. RolesInv  BY Zenon DEF QInv
<1>2. CASE /\ Len(p.approvals) < threshold /\ pauses' = Store(pauses, id, p)
           /\ UNCHANGED needed
  <2>1. RolesInv'  BY <1>1, <1>2 DEF RolesInv
  <2>2. p.executed = FALSE  BY DEF PauseProposal
  <2>3. Counted(p, id, FALSE)'  BY CountedStays
  <2>4. Counted(p, id, p.executed)'  BY <2>2, <2>3
  <2> QED  BY <1>2, <2>1, <2>4, PauseStored
<1>3. CASE /\ Len(p.approvals) >= threshold
           /\ pauses' = Store(pauses, id, [p EXCEPT !.executed = TRUE])
           /\ needed' = [needed EXCEPT ![id] = threshold]
  <2>1. PICK q : q = [p EXCEPT !.executed = TRUE]  OBVIOUS
  <2>2. q \in PauseProposal /\ q.executed = TRUE /\ q.approvals = p.approvals
    BY <2>1 DEF PauseProposal
  <2>3. threshold \in Nat \ {0} /\ needed \in [Ids -> Nat]  BY <1>1, Zenon DEF RolesInv
  <2>4. /\ needed' \in [Ids -> Nat] /\ needed'[id] = threshold
        /\ \A x \in Ids \ {id} : needed'[x] = needed[x]
    BY <1>3, <2>3
  <2>5. RolesInv'  BY <1>1, <2>4 DEF RolesInv
  <2>6. Counted(q, id, q.executed)'
    <3>1. needed'[id] > 0 /\ needed'[id] <= Len(p.approvals)
      <4>1. Len(p.approvals) \in Nat  BY DEF PauseProposal
      <4> QED  BY <1>3, <2>3, <2>4, <4>1
    <3>2. /\ IsFiniteSet(Range(p.approvals)) /\ Cardinality(Range(p.approvals)) = Len(p.approvals)
          /\ Range(p.approvals) \subseteq everGuardian'
      BY Zenon DEF Counted
    <3> QED  BY <2>2, <3>1, <3>2 DEF Counted
  <2>7. pauses' = Store(pauses, id, q)  BY <1>3, <2>1
  <2> QED  BY <2>2, <2>4, <2>5, <2>6, <2>7, PauseStored
<1> QED  BY <1>2, <1>3, Zenon DEF try_execute_pause

\* check_upgrade_quorum does so until the first quorum.
LEMMA CheckQuorumCounts ==
    ASSUME GInv, LInv, QInv, NEW id \in Ids, id \notin DOMAIN pauses, NEW p \in UpgradeProposal,
           Counted(p, id, p.quorum_at_ledger # None), check_upgrade_quorum(id, p),
           UNCHANGED <<guardians, threshold, everGuardian, pauses>>,
           nextId' \in Nat, nextId <= nextId'
    PROVE  QInv'
<1>1. RolesInv  BY Zenon DEF QInv
<1>2. CASE upgrades' = Store(upgrades, id, p) /\ UNCHANGED needed
  <2>1. RolesInv'  BY <1>1, <1>2 DEF RolesInv
  <2>2. Counted(p, id, p.quorum_at_ledger # None)'  BY <1>2, CountedStays
  <2> QED  BY <1>2, <2>1, <2>2, UpgradeStored
<1>3. CASE /\ Len(p.approvals) >= threshold
           /\ upgrades' = Store(upgrades, id, [p EXCEPT !.quorum_at_ledger = ledger])
           /\ needed' = [needed EXCEPT ![id] = threshold]
  <2>1. PICK q : q = [p EXCEPT !.quorum_at_ledger = ledger]  OBVIOUS
  <2>2. q \in UpgradeProposal /\ q.approvals = p.approvals
    BY <2>1 DEF UpgradeProposal, LInv
  <2>3. threshold \in Nat \ {0} /\ needed \in [Ids -> Nat]  BY <1>1, Zenon DEF RolesInv
  <2>4. /\ needed' \in [Ids -> Nat] /\ needed'[id] = threshold
        /\ \A x \in Ids \ {id} : needed'[x] = needed[x]
    BY <1>3, <2>3
  <2>5. RolesInv'  BY <1>1, <2>4 DEF RolesInv
  <2>6. Counted(q, id, q.quorum_at_ledger # None)'
    <3>1. needed'[id] > 0 /\ needed'[id] <= Len(p.approvals)
      <4>1. Len(p.approvals) \in Nat  BY DEF UpgradeProposal
      <4> QED  BY <1>3, <2>3, <2>4, <4>1
    <3>2. /\ IsFiniteSet(Range(p.approvals)) /\ Cardinality(Range(p.approvals)) = Len(p.approvals)
          /\ Range(p.approvals) \subseteq everGuardian'
      BY Zenon DEF Counted
    <3> QED  BY <2>2, <3>1, <3>2 DEF Counted
  <2>7. upgrades' = Store(upgrades, id, q)  BY <1>3, <2>1
  <2> QED  BY <2>2, <2>4, <2>5, <2>6, <2>7, UpgradeStored
<1> QED  BY <1>2, <1>3, Zenon DEF check_upgrade_quorum

LEMMA PauseCounts ==
    ASSUME GInv, QInv, NEW g \in Accounts, NEW t \in Targets, NEW unpause \in BOOLEAN,
           NEW id \in Ids, propose_pause(g, t, unpause) \/ approve_pause(g, id)
    PROVE  QInv'
<1>1. /\ nextId \in Nat /\ DOMAIN upgrades \subseteq 0..(nextId - 1)
      /\ DOMAIN pauses \subseteq 0..(nextId - 1) /\ DOMAIN pauses \intersect DOMAIN upgrades = {}
  BY DEF GInv, QInv, PausesInv
<1>2. g \in everGuardian
  BY DEF propose_pause, approve_pause, require_is_guardian, QInv, RolesInv
<1>3. UNCHANGED <<guardians, threshold, everGuardian, upgrades>>
  BY Zenon DEF propose_pause, approve_pause, roleVars
<1>4. CASE propose_pause(g, t, unpause)
  <2>1. PICK p : p = [contract_id |-> t, unpause |-> unpause, approvals |-> <<g>>,
                      executed |-> FALSE]
    OBVIOUS
  <2>2. nextId < MaxProposals /\ nextId' = nextId + 1 /\ try_execute_pause(nextId, p)
    BY <1>4, <2>1 DEF propose_pause
  <2>3. p \in PauseProposal /\ ~p.executed /\ p.approvals = <<g>>  BY <2>1 DEF PauseProposal
  <2>4. Counted(p, nextId, FALSE)
    <3>1. PICK a : a = <<g>>  OBVIOUS
    <3>2. Range(a) = {g} /\ IsFiniteSet(Range(a)) /\ Cardinality(Range(a)) = Len(a)
      BY <3>1, FirstApproval
    <3>3. p.approvals = a  BY <2>3, <3>1
    <3> QED  BY <1>2, <3>2, <3>3 DEF Counted
  <2>5. /\ nextId \in Ids /\ nextId \notin DOMAIN upgrades /\ nextId' \in Nat
        /\ nextId <= nextId' /\ nextId < nextId'
    BY <1>1, <2>2, GuardianAssumption DEF Ids
  <2> QED  BY <1>3, <2>2, <2>3, <2>4, <2>5, TryExecuteCounts
<1>5. CASE approve_pause(g, id)
  <2>1. PICK p : p = [pauses[id] EXCEPT !.approvals = Append(@, g)]  OBVIOUS
  <2>2. /\ id \in DOMAIN pauses /\ ~pauses[id].executed /\ g \notin Range(pauses[id].approvals)
        /\ try_execute_pause(id, p) /\ nextId' = nextId
    BY <1>5, <2>1 DEF approve_pause, NotYetApproved
  <2>3. PICK old : old = pauses[id]  OBVIOUS
  <2>4. old \in PauseProposal /\ Counted(old, id, old.executed)
    BY <2>2, <2>3 DEF QInv, PausesInv
  <2>5. /\ old.approvals \in Seq(Accounts) /\ IsFiniteSet(Range(old.approvals))
        /\ Cardinality(Range(old.approvals)) = Len(old.approvals)
        /\ Range(old.approvals) \subseteq everGuardian
    BY <2>4 DEF PauseProposal, Counted
  <2>6. PICK a : a = Append(old.approvals, g)  OBVIOUS
  <2>7. /\ a \in Seq(Accounts) /\ Range(a) = Range(old.approvals) \union {g}
        /\ IsFiniteSet(Range(a)) /\ Cardinality(Range(a)) = Len(a)
    BY <2>2, <2>3, <2>5, <2>6, NextApproval
  <2>8. p = [old EXCEPT !.approvals = a]  BY <2>1, <2>3, <2>6
  <2>9. p \in PauseProposal /\ ~p.executed /\ p.approvals = a
    BY <2>2, <2>3, <2>4, <2>7, <2>8 DEF PauseProposal
  <2>10. Counted(p, id, FALSE)  BY <1>2, <2>5, <2>7, <2>9 DEF Counted
  <2>11. id \notin DOMAIN upgrades /\ nextId' \in Nat /\ nextId <= nextId' /\ id < nextId'
    BY <1>1, <2>2
  <2> QED  BY <1>3, <2>2, <2>9, <2>10, <2>11, TryExecuteCounts
<1> QED  BY <1>4, <1>5

LEMMA UpgradeCounts ==
    ASSUME GInv, LInv, QInv, NEW g \in Accounts, NEW t \in Targets, NEW wasm \in Wasms,
           NEW id \in Ids, propose_upgrade(g, t, wasm) \/ approve_upgrade(g, id)
    PROVE  QInv'
<1>1. /\ nextId \in Nat /\ DOMAIN upgrades \subseteq 0..(nextId - 1)
      /\ DOMAIN pauses \subseteq 0..(nextId - 1) /\ DOMAIN pauses \intersect DOMAIN upgrades = {}
  BY DEF GInv, QInv, PausesInv
<1>2. g \in everGuardian
  BY DEF propose_upgrade, approve_upgrade, require_is_guardian, QInv, RolesInv
<1>3. UNCHANGED <<guardians, threshold, everGuardian, pauses>>
  BY Zenon DEF propose_upgrade, approve_upgrade, roleVars
<1>4. CASE propose_upgrade(g, t, wasm)
  <2>1. PICK p : p = [contract_id |-> t, new_wasm_hash |-> wasm, approvals |-> <<g>>,
                      quorum_at_ledger |-> None, executed |-> FALSE, cancelled |-> FALSE]
    OBVIOUS
  <2>2. nextId < MaxProposals /\ nextId' = nextId + 1 /\ check_upgrade_quorum(nextId, p)
    BY <1>4, <2>1 DEF propose_upgrade
  <2>3. p \in UpgradeProposal /\ p.quorum_at_ledger = None /\ p.approvals = <<g>>
    BY <2>1 DEF UpgradeProposal, None
  <2>4. Counted(p, nextId, p.quorum_at_ledger # None)
    <3>1. PICK a : a = <<g>>  OBVIOUS
    <3>2. Range(a) = {g} /\ IsFiniteSet(Range(a)) /\ Cardinality(Range(a)) = Len(a)
      BY <3>1, FirstApproval
    <3>3. p.approvals = a  BY <2>3, <3>1
    <3> QED  BY <1>2, <2>3, <3>2, <3>3 DEF Counted
  <2>5. /\ nextId \in Ids /\ nextId \notin DOMAIN pauses /\ nextId' \in Nat
        /\ nextId <= nextId'
    BY <1>1, <2>2, GuardianAssumption DEF Ids
  <2> QED  BY <1>3, <2>2, <2>3, <2>4, <2>5, CheckQuorumCounts
<1>5. CASE approve_upgrade(g, id)
  <2>1. PICK p : p = [upgrades[id] EXCEPT !.approvals = Append(@, g)]  OBVIOUS
  <2>2. /\ id \in DOMAIN upgrades /\ g \notin Range(upgrades[id].approvals)
        /\ check_upgrade_quorum(id, p) /\ nextId' = nextId
    BY <1>5, <2>1 DEF approve_upgrade, NotYetApproved
  <2>3. PICK old : old = upgrades[id]  OBVIOUS
  <2>4. old \in UpgradeProposal /\ Counted(old, id, old.quorum_at_ledger # None)
    BY <2>2, <2>3 DEF GInv, QInv, UpgradesInv
  <2>5. /\ old.approvals \in Seq(Accounts) /\ IsFiniteSet(Range(old.approvals))
        /\ Cardinality(Range(old.approvals)) = Len(old.approvals)
        /\ Range(old.approvals) \subseteq everGuardian
        /\ old.quorum_at_ledger # None => needed[id] > 0 /\ needed[id] <= Len(old.approvals)
    BY <2>4 DEF UpgradeProposal, Counted
  <2>6. PICK a : a = Append(old.approvals, g)  OBVIOUS
  <2>7. /\ a \in Seq(Accounts) /\ Range(a) = Range(old.approvals) \union {g}
        /\ IsFiniteSet(Range(a)) /\ Cardinality(Range(a)) = Len(a)
        /\ Len(a) = Len(old.approvals) + 1
    BY <2>2, <2>3, <2>5, <2>6, NextApproval
  <2>8. p = [old EXCEPT !.approvals = a]  BY <2>1, <2>3, <2>6
  <2>9. /\ p \in UpgradeProposal /\ p.approvals = a
        /\ p.quorum_at_ledger = old.quorum_at_ledger
    BY <2>4, <2>7, <2>8 DEF UpgradeProposal
  <2>10. Counted(p, id, p.quorum_at_ledger # None)
    <3>1. old.quorum_at_ledger # None => needed[id] > 0 /\ needed[id] <= Len(a)
      <4>1. Len(old.approvals) \in Nat /\ needed[id] \in Nat
        BY <2>5 DEF QInv, RolesInv
      <4> QED  BY <2>5, <2>7, <4>1
    <3>2. Range(a) \subseteq everGuardian  BY <1>2, <2>5, <2>7
    <3> QED  BY <2>7, <2>9, <3>1, <3>2 DEF Counted
  <2>11. id \notin DOMAIN pauses /\ nextId' \in Nat /\ nextId <= nextId'  BY <1>1, <2>2
  <2> QED  BY <1>3, <2>2, <2>9, <2>10, <2>11, CheckQuorumCounts
<1> QED  BY <1>4, <1>5

\* Cancelling and executing leave the approvals and the quorum alone.
LEMMA ClosingCounts ==
    ASSUME GInv, QInv, NEW g, NEW id \in Ids, cancel_upgrade(g, id) \/ execute_upgrade(id)
    PROVE  QInv'
<1>1. /\ id \in DOMAIN upgrades /\ nextId' = nextId
      /\ UNCHANGED <<guardians, threshold, everGuardian, pauses, needed>>
  BY Zenon DEF cancel_upgrade, execute_upgrade, roleVars
<1>2. PICK old : old = upgrades[id]  OBVIOUS
<1>3. old \in UpgradeProposal /\ Counted(old, id, old.quorum_at_ledger # None)
  BY <1>1, <1>2 DEF GInv, QInv, UpgradesInv
<1>4. PICK p : /\ p \in {[old EXCEPT !.cancelled = TRUE], [old EXCEPT !.executed = TRUE]}
               /\ upgrades' = [upgrades EXCEPT ![id] = p]
  BY <1>2 DEF cancel_upgrade, execute_upgrade
<1>5. /\ p \in UpgradeProposal /\ p.approvals = old.approvals
      /\ p.quorum_at_ledger = old.quorum_at_ledger
  BY <1>3, <1>4 DEF UpgradeProposal
<1>6. Counted(p, id, p.quorum_at_ledger # None)  BY <1>3, <1>5 DEF Counted
<1>7. Counted(p, id, p.quorum_at_ledger # None)'  BY <1>1, <1>6, CountedStays
<1>8. upgrades' = Store(upgrades, id, p)
  <2>1. DOMAIN upgrades = DOMAIN upgrades \union {id}  BY <1>1
  <2> QED  BY <1>1, <1>4, <2>1 DEF Store
<1>9. RolesInv'  BY <1>1 DEF QInv, RolesInv
<1>10. id \notin DOMAIN pauses /\ nextId' \in Nat /\ nextId <= nextId'
  BY <1>1 DEF QInv, PausesInv, GInv
<1> QED  BY <1>1, <1>5, <1>7, <1>8, <1>9, <1>10, UpgradeStored

\* The admin changes roles, and proposals keep what they have.
LEMMA RolesCount ==
    ASSUME QInv, RolesInv', UNCHANGED <<nextId, pauses, upgrades, needed>>,
           everGuardian \subseteq everGuardian'
    PROVE  QInv'
<1>1. ASSUME NEW x \in DOMAIN pauses PROVE Counted(pauses[x], x, pauses[x].executed)'
  <2>1. PICK q : q = pauses[x]  OBVIOUS
  <2>2. Counted(q, x, q.executed)  BY <2>1 DEF QInv, PausesInv
  <2>3. Counted(q, x, q.executed)'  BY <2>2, CountedStays
  <2> QED  BY <2>1, <2>3
<1>2. ASSUME NEW x \in DOMAIN upgrades
      PROVE  Counted(upgrades[x], x, upgrades[x].quorum_at_ledger # None)'
  <2>1. PICK q : q = upgrades[x]  OBVIOUS
  <2>2. Counted(q, x, q.quorum_at_ledger # None)  BY <2>1 DEF QInv, UpgradesInv
  <2>3. Counted(q, x, q.quorum_at_ledger # None)'  BY <2>2, CountedStays
  <2> QED  BY <2>1, <2>3
<1>3. /\ DOMAIN pauses \subseteq Ids \intersect 0..(nextId - 1)
      /\ DOMAIN pauses \intersect DOMAIN upgrades = {}
      /\ \A x \in DOMAIN pauses : pauses[x] \in PauseProposal
  BY Zenon DEF QInv, PausesInv
<1> QED  BY <1>1, <1>2, <1>3 DEF QInv, PausesInv, UpgradesInv

LEMMA AdminCounts ==
    ASSUME QInv, Administer
    PROVE  QInv'
<1>1. RolesInv /\ guardians \in Seq(Accounts) /\ Range(guardians) \subseteq everGuardian
  BY Zenon DEF QInv, RolesInv
<1>2. UNCHANGED <<nextId, pauses, upgrades, needed>>
  BY Zenon DEF Administer, add_guardian, remove_guardian, set_threshold
<1>3. ASSUME NEW g \in Accounts, add_guardian(g) PROVE QInv'
  <2>1. /\ guardians' = IF g \in Range(guardians) THEN guardians ELSE Append(guardians, g)
        /\ everGuardian' = everGuardian \union {g} /\ threshold' = threshold
    BY <1>3, Zenon DEF add_guardian
  <2>2. guardians' \in Seq(Accounts) /\ Range(guardians') \subseteq everGuardian'
    <3>1. CASE g \in Range(guardians)  BY <1>1, <2>1, <3>1
    <3>2. CASE g \notin Range(guardians)
      <4>1. guardians' = Append(guardians, g)  BY <2>1, <3>2
      <4>2. /\ Append(guardians, g) \in Seq(Accounts)
            /\ Range(Append(guardians, g)) = Range(guardians) \union {g}
        BY <1>1, AppendRange
      <4> QED  BY <1>1, <2>1, <4>1, <4>2
    <3> QED  BY <3>1, <3>2
  <2>3. RolesInv'  BY <1>1, <1>2, <2>1, <2>2 DEF RolesInv
  <2> QED  BY <1>2, <2>1, <2>3, RolesCount
<1>4. ASSUME NEW g \in Accounts, remove_guardian(g) PROVE QInv'
  <2>1. guardians' = Without(guardians, g) /\ UNCHANGED <<threshold, everGuardian>>
    BY <1>4, Zenon DEF remove_guardian
  <2>2. guardians' \in Seq(Accounts) /\ Range(guardians') \subseteq everGuardian'
    <3>1. /\ Without(guardians, g) \in Seq(Accounts)
          /\ Range(Without(guardians, g)) = Range(guardians) \ {g}
      BY <1>1, WithoutRange
    <3> QED  BY <1>1, <2>1, <3>1
  <2>3. RolesInv'  BY <1>1, <1>2, <2>1, <2>2 DEF RolesInv
  <2> QED  BY <1>2, <2>1, <2>3, RolesCount
<1>5. ASSUME NEW n \in 1..Len(guardians), set_threshold(n) PROVE QInv'
  <2>1. n \in Nat \ {0}  BY <1>1
  <2>2. threshold' = n /\ UNCHANGED <<guardians, everGuardian>>
    BY <1>5, Zenon DEF set_threshold
  <2>3. RolesInv'  BY <1>1, <1>2, <2>1, <2>2 DEF RolesInv
  <2> QED  BY <1>2, <2>2, <2>3, RolesCount
<1> QED  BY <1>3, <1>4, <1>5, Zenon DEF Administer

LEMMA NextQInv == GInv /\ LInv /\ QInv /\ [Next]_vars => QInv'
<1> SUFFICES ASSUME GInv, LInv, QInv, [Next]_vars PROVE QInv'
  OBVIOUS
<1>1. CASE UNCHANGED vars \/ LedgerCloses
  <2>1. UNCHANGED <<guardians, threshold, everGuardian, nextId, pauses, upgrades, needed>>
    BY <1>1, Zenon DEF vars, LedgerCloses, roleVars
  <2>2. RolesInv'  BY <2>1 DEF QInv, RolesInv
  <2> QED  BY <2>1, <2>2, RolesCount
<1>2. CASE Administer  BY <1>2, AdminCounts
<1>3. ASSUME NEW id \in Ids, execute_upgrade(id) PROVE QInv'  BY <1>3, ClosingCounts
<1>4. ASSUME NEW g \in Accounts, NEW t \in Targets, NEW unpause \in BOOLEAN,
             propose_pause(g, t, unpause)
      PROVE  QInv'
  <2>1. PICK id \in Ids : TRUE
    <3>1. nextId \in Ids
      BY <1>4, GuardianAssumption DEF propose_pause, GInv, Ids
    <3> QED  BY <3>1
  <2> QED  BY <1>4, <2>1, PauseCounts
<1>5. ASSUME NEW g \in Accounts, NEW id \in Ids, approve_pause(g, id)
      PROVE  QInv'
  <2>1. id \in DOMAIN pauses  BY <1>5, Zenon DEF approve_pause
  <2>2. pauses[id].contract_id \in Targets
    BY <2>1 DEF QInv, PausesInv, PauseProposal
  <2> QED  BY <1>5, <2>2, PauseCounts
<1>6. ASSUME NEW g \in Accounts, NEW t \in Targets, NEW wasm \in Wasms,
             propose_upgrade(g, t, wasm)
      PROVE  QInv'
  <2>1. nextId \in Ids
    BY <1>6, GuardianAssumption DEF propose_upgrade, GInv, Ids
  <2> QED  BY <1>6, <2>1, UpgradeCounts
<1>7. ASSUME NEW g \in Accounts, NEW id \in Ids, approve_upgrade(g, id)
      PROVE  QInv'
  <2>1. upgrades[id] \in UpgradeProposal
    BY <1>7, Zenon DEF approve_upgrade, GInv
  <2>2. upgrades[id].contract_id \in Targets /\ upgrades[id].new_wasm_hash \in Wasms
    BY <2>1 DEF UpgradeProposal
  <2> QED  BY <1>7, <2>2, UpgradeCounts
<1>8. ASSUME NEW g \in Accounts, NEW id \in Ids, cancel_upgrade(g, id)
      PROVE  QInv'
  BY <1>8, ClosingCounts
<1>9. CASE GuardianActs  BY <1>4, <1>5, <1>6, <1>7, <1>8, <1>9, Zenon DEF GuardianActs
<1> QED  BY <1>1, <1>2, <1>3, <1>9, Zenon DEF Next

\* A pause that was executed, and an upgrade whose timelock runs, has the
\* approvals of as many accounts as the threshold asked for, each of them a
\* guardian when it approved: whatever the admin does to the guardians and to
\* the threshold around the proposals.
THEOREM GuardianQuorumIsDistinct == Spec => []QuorumIsDistinctGuardians
<1>1. initialize => QInv
  <2> SUFFICES ASSUME initialize PROVE QInv
    OBVIOUS
  <2>1. DOMAIN pauses = {} /\ DOMAIN upgrades = {}  BY DEF initialize
  <2>2. /\ guardians = Founders /\ everGuardian = Range(Founders)
        /\ threshold \in 1..Len(Founders) /\ needed = [id \in Ids |-> 0]
    BY Zenon DEF initialize
  <2>3. RolesInv  BY <2>2, GuardianAssumption DEF RolesInv
  <2> QED  BY <2>1, <2>3 DEF QInv, PausesInv, UpgradesInv
<1>2. GInv /\ QInv => QuorumIsDistinctGuardians
  <2> SUFFICES ASSUME GInv, QInv PROVE QuorumIsDistinctGuardians
    OBVIOUS
  <2>1. ASSUME NEW p, NEW id \in Ids, NEW quorum \in BOOLEAN, Counted(p, id, quorum), quorum
        PROVE  /\ Cardinality(Range(p.approvals)) >= needed[id] /\ needed[id] > 0
               /\ Range(p.approvals) \subseteq everGuardian
    <3>1. needed[id] \in Nat  BY DEF QInv, RolesInv
    <3>2. needed[id] <= Cardinality(Range(p.approvals))  BY <2>1 DEF Counted
    <3>3. IsFiniteSet(Range(p.approvals))  BY <2>1 DEF Counted
    <3>4. Cardinality(Range(p.approvals)) \in Nat  BY <3>3, FS_CardinalityType
    <3> QED  BY <2>1, <3>1, <3>2, <3>4 DEF Counted
  <2>2. ASSUME NEW id \in DOMAIN pauses, pauses[id].executed
        PROVE  /\ Cardinality(Range(pauses[id].approvals)) >= needed[id] /\ needed[id] > 0
               /\ Range(pauses[id].approvals) \subseteq everGuardian
    <3>1. /\ id \in Ids /\ pauses[id] \in PauseProposal
          /\ Counted(pauses[id], id, pauses[id].executed)
      BY DEF QInv, PausesInv
    <3>2. pauses[id].executed \in BOOLEAN  BY <3>1 DEF PauseProposal
    <3> QED  BY <2>1, <2>2, <3>1, <3>2
  <2>3. ASSUME NEW id \in DOMAIN upgrades, upgrades[id].quorum_at_ledger # None
        PROVE  /\ Cardinality(Range(upgrades[id].approvals)) >= needed[id] /\ needed[id] > 0
               /\ Range(upgrades[id].approvals) \subseteq everGuardian
    <3>1. id \in Ids /\ Counted(upgrades[id], id, upgrades[id].quorum_at_ledger # None)
      BY DEF GInv, QInv, UpgradesInv
    <3> QED  BY <2>1, <2>3, <3>1
  <2> QED  BY <2>2, <2>3 DEF QuorumIsDistinctGuardians
<1> QED  BY <1>1, <1>2, NextQInv, GuardianInvariant, PTL DEF Spec

-----------------------------------------------------------------------------
(* The root auditor. *)

CONSTANTS MaxLeaves, Kinds, Wrong, MaxAged, MaxRuns

VARIABLES leaves, root, aged, dbRows, audit, runs, findings

Audit == INSTANCE RootAuditor

Leaf == [commitment : Nat, kind : Kinds]

\* The audit shows the pool the way it was read: only deposits, all served.
Whole == aged = 0 /\ \A k \in DOMAIN leaves : leaves[k].kind = "deposit"

\* What a result says when it can be relied on.
Exact(r) == r.still /\ r.complete => (r.status = "OK" <=> r.right \/ r.latest)

AuditTypeOK ==
    /\ leaves \in Seq(Leaf)
    /\ aged \in Nat /\ dbRows \subseteq DOMAIN leaves
    /\ "pc" \in DOMAIN audit /\ "still" \in DOMAIN audit

\* While nothing moves, what was read of a whole pool is its leaves; a result is
\* exact, and stays so when it is stored; what has a finding is not OK, and
\* neither is the run a finding is about to be stored for.
AuditInv ==
    /\ AuditTypeOK
    /\ audit.pc = "read" /\ audit.still /\ Whole => audit.read = Audit!CommitmentsOf(leaves)
    /\ audit.pc = "persist" => Exact(audit)
    /\ audit.pc = "finding" => runs # << >> /\ runs[Len(runs)].status # "OK"
    /\ \E S : runs \in Seq(S)
    /\ \A n \in DOMAIN runs : Exact(runs[n])
    /\ \A n \in findings : n \in DOMAIN runs /\ runs[n].status # "OK"

\* The number of elements is the library's, of which its theorems speak.
LEMMA AuditCardinality == \A S : Audit!Cardinality(S) = Cardinality(S)
BY Zenon DEF Audit!Cardinality, Cardinality, Audit!IsFiniteSet, IsFiniteSet

\* The leaves of all indices, in order, are the leaves.
LEMMA InOrderOfAll ==
    ASSUME leaves \in Seq(Leaf)
    PROVE  Audit!InOrder(DOMAIN leaves) = Audit!CommitmentsOf(leaves)
<1>1. DOMAIN leaves = 1 .. Len(leaves) /\ Len(leaves) \in Nat
    OBVIOUS
<1>2. ASSUME NEW k \in 0 .. Len(leaves) PROVE Audit!Cardinality(1 .. k) = k
    <2>1. 1 \in Int /\ k \in Int /\ k \in Nat
        BY <1>1
    <2>2. Audit!Cardinality(1 .. k) = IF 1 > k THEN 0 ELSE k - 1 + 1
        BY <2>1, FS_Interval, AuditCardinality, Zenon
    <2> QED BY <2>1, <2>2
<1>3. Audit!Cardinality(DOMAIN leaves) = Len(leaves)
    BY <1>1, <1>2
<1>4. ASSUME NEW n \in 1 .. Len(leaves) PROVE Audit!Nth(DOMAIN leaves, n) = n
    <2>1. ASSUME NEW k \in DOMAIN leaves PROVE Audit!Cardinality({m \in DOMAIN leaves : m <= k}) = k
        <3>1. {m \in DOMAIN leaves : m <= k} = 1 .. k
            BY <1>1
        <3>2. k \in 0 .. Len(leaves)
            BY <1>1
        <3> QED BY <1>2, <3>1, <3>2
    <2>2. \A k \in DOMAIN leaves : Audit!Cardinality({m \in DOMAIN leaves : m <= k}) = n <=> k = n
        BY <2>1
    <2>3. n \in DOMAIN leaves
        BY <1>1
    <2> QED BY <2>2, <2>3 DEF Audit!Nth
<1> QED BY <1>1, <1>3, <1>4 DEF Audit!InOrder, Audit!CommitmentsOf

\* Nothing is read or stored when the auditor starts.
LEMMA AuditInit == Audit!Init => AuditInv
<1> SUFFICES ASSUME Audit!Init PROVE AuditInv
    OBVIOUS
<1>1. leaves \in Seq(Leaf) /\ DOMAIN leaves = {}
    BY DEF Audit!Init
<1>2. runs \in Seq({}) /\ DOMAIN runs = {}
    BY DEF Audit!Init
<1>3. audit.pc = "idle" /\ "pc" \in DOMAIN audit /\ "still" \in DOMAIN audit
    BY DEF Audit!Init, Audit!Idle
<1> QED BY <1>1, <1>2, <1>3 DEF Audit!Init, AuditInv, AuditTypeOK

\* The pool moves: what was read of it is out of date, and says so.
LEMMA AuditPoolMoves ==
    ASSUME AuditInv, AuditTypeOK', audit' = [audit EXCEPT !.still = FALSE], UNCHANGED <<runs, findings>>
    PROVE  AuditInv'
<1>1. audit'.pc = audit.pc /\ audit'.still = FALSE
    BY DEF AuditInv, AuditTypeOK
<1> QED BY <1>1 DEF AuditInv, Exact

\* The steps of the pool: a leaf, a root that is not the tree's, an event the RPC
\* no longer serves, and a note the relayer records.
LEMMA AuditPool ==
    ASSUME AuditInv,
           \/ \E kind \in Kinds : Audit!append_leaf(kind)
           \/ Audit!wrong_root \/ Audit!event_ages \/ \E k \in DOMAIN leaves : Audit!note_recorded(k)
    PROVE  AuditInv'
<1>1. audit' = [audit EXCEPT !.still = FALSE] /\ UNCHANGED <<runs, findings>>
    BY DEF Audit!append_leaf, Audit!wrong_root, Audit!event_ages, Audit!note_recorded
<1>2. "pc" \in DOMAIN audit' /\ "still" \in DOMAIN audit'
    BY <1>1 DEF AuditInv, AuditTypeOK
<1>3. leaves \in Seq(Leaf) /\ aged \in Nat /\ dbRows \subseteq DOMAIN leaves
    BY DEF AuditInv, AuditTypeOK
<1>4. leaves' \in Seq(Leaf) /\ aged' \in Nat /\ dbRows' \subseteq DOMAIN leaves'
    <2>1. ASSUME NEW kind \in Kinds, Audit!append_leaf(kind) PROVE leaves' \in Seq(Leaf) /\ aged' \in Nat /\ dbRows' \subseteq DOMAIN leaves'
        <3>1. [commitment |-> Len(leaves) + 1, kind |-> kind] \in Leaf
            BY <1>3 DEF Leaf
        <3>2. leaves' = Append(leaves, [commitment |-> Len(leaves) + 1, kind |-> kind]) /\ UNCHANGED <<aged, dbRows>>
            BY <2>1 DEF Audit!append_leaf
        <3> QED BY <1>3, <3>1, <3>2
    <2>2. CASE Audit!wrong_root
        BY <1>3, <2>2 DEF Audit!wrong_root
    <2>3. CASE Audit!event_ages
        BY <1>3, <2>3 DEF Audit!event_ages
    <2>4. ASSUME NEW k \in DOMAIN leaves, Audit!note_recorded(k) PROVE leaves' \in Seq(Leaf) /\ aged' \in Nat /\ dbRows' \subseteq DOMAIN leaves'
        BY <1>3, <2>4 DEF Audit!note_recorded
    <2> QED BY <2>1, <2>2, <2>3, <2>4
<1> QED BY <1>1, <1>2, <1>4, AuditPoolMoves DEF AuditTypeOK

\* An audit starts: of a whole pool it reads all leaves, from the events, or, when
\* there are none, nothing.
LEMMA AuditReads ==
    ASSUME AuditInv, Audit!runAudit
    PROVE  AuditInv'
<1>1. PICK ks : /\ ks = (IF Audit!readDepositLeavesFromEvents # {} THEN Audit!readDepositLeavesFromEvents ELSE Audit!readLeavesFromDb)
                /\ audit' = [pc |-> "read", read |-> Audit!InOrder(ks), still |-> TRUE]
    BY DEF Audit!runAudit
<1>2. UNCHANGED <<Audit!pool, runs, findings>>
    BY DEF Audit!runAudit
<1>3. leaves \in Seq(Leaf) /\ aged \in Nat /\ dbRows \subseteq DOMAIN leaves
    BY DEF AuditInv, AuditTypeOK
<1>4. Whole => ks = DOMAIN leaves
    <2>1. Whole => Audit!readDepositLeavesFromEvents = DOMAIN leaves
        <3>1. \A k \in DOMAIN leaves : k > 0
            BY <1>3
        <3> QED BY <3>1 DEF Whole, Audit!readDepositLeavesFromEvents
    <2> QED BY <1>1, <1>3, <2>1 DEF Audit!readLeavesFromDb
<1>5. Whole => audit'.read = Audit!CommitmentsOf(leaves)
    BY <1>1, <1>3, <1>4, InOrderOfAll
<1>6. audit'.pc = "read" /\ "pc" \in DOMAIN audit' /\ "still" \in DOMAIN audit'
    BY <1>1
<1> QED BY <1>2, <1>5, <1>6 DEF AuditInv, AuditTypeOK, Whole, Audit!CommitmentsOf, Audit!pool

\* compareRoots of a whole pool's leaves is right.
LEMMA AuditCompares ==
    ASSUME AuditInv, Audit!readOnchainRoot
    PROVE  AuditInv'
<1>1. /\ audit' = [pc |-> "persist", status |-> Audit!compareRoots(audit.read, root), still |-> audit.still,
                   right |-> root = Audit!CommitmentsOf(leaves),
                   latest |-> leaves # << >> /\ root = <<leaves[Len(leaves)].commitment>>,
                   complete |-> Whole]
      /\ audit.pc = "read" /\ UNCHANGED <<Audit!pool, runs, findings>>
    BY DEF Audit!readOnchainRoot, Whole
<1>2. leaves \in Seq(Leaf) /\ (audit.still /\ Whole => audit.read = Audit!CommitmentsOf(leaves))
    BY <1>1 DEF AuditInv, AuditTypeOK
<1>3. leaves # << >> => Audit!CommitmentsOf(leaves)[Len(Audit!CommitmentsOf(leaves))] = leaves[Len(leaves)].commitment
    BY <1>2 DEF Audit!CommitmentsOf
<1>4. Audit!CommitmentsOf(leaves) # << >> <=> leaves # << >>
    BY <1>2 DEF Audit!CommitmentsOf
<1>5. ASSUME audit.still, Whole
      PROVE  Audit!compareRoots(audit.read, root) = "OK" <=>
             root = Audit!CommitmentsOf(leaves) \/ (leaves # << >> /\ root = <<leaves[Len(leaves)].commitment>>)
    BY <1>2, <1>3, <1>4, <1>5 DEF Audit!compareRoots
<1>6. /\ audit'.still = audit.still /\ audit'.complete = Whole /\ audit'.pc = "persist"
      /\ audit'.status = Audit!compareRoots(audit.read, root)
      /\ audit'.right = (root = Audit!CommitmentsOf(leaves))
      /\ audit'.latest = (leaves # << >> /\ root = <<leaves[Len(leaves)].commitment>>)
      /\ "pc" \in DOMAIN audit' /\ "still" \in DOMAIN audit'
    BY <1>1
<1>7. Exact(audit')
    BY <1>5, <1>6 DEF Exact
<1> QED BY <1>1, <1>6, <1>7 DEF AuditInv, AuditTypeOK, Audit!pool, Exact

\* What is stored is what was compared.
LEMMA AuditStores ==
    ASSUME AuditInv, Audit!persist_run
    PROVE  AuditInv'
<1>1. PICK S : runs \in Seq(S)
    BY DEF AuditInv
<1>2. runs' = Append(runs, audit) /\ audit.pc = "persist" /\ UNCHANGED <<Audit!pool, findings>>
    BY DEF Audit!persist_run
<1>3. runs \in Seq(S \cup {audit}) /\ audit \in S \cup {audit}
    BY <1>1
<1>4. /\ runs' \in Seq(S \cup {audit}) /\ Len(runs') = Len(runs) + 1 /\ DOMAIN runs' = 1 .. Len(runs) + 1
      /\ runs'[Len(runs) + 1] = audit /\ \A n \in DOMAIN runs : runs'[n] = runs[n]
    BY <1>2, <1>3
<1>5. Len(runs) \in Nat /\ DOMAIN runs = 1 .. Len(runs)
    BY <1>1
<1>6. CASE audit.status = "OK"
    <2>1. audit' = Audit!Idle
        BY <1>6 DEF Audit!persist_run
    <2>2. audit'.pc = "idle" /\ "pc" \in DOMAIN audit' /\ "still" \in DOMAIN audit'
        BY <2>1 DEF Audit!Idle
    <2> QED BY <1>2, <1>4, <1>5, <2>2 DEF AuditInv, AuditTypeOK, Audit!pool
<1>7. CASE audit.status # "OK"
    <2>1. audit' = [audit EXCEPT !.pc = "finding"]
        BY <1>7 DEF Audit!persist_run
    <2>2. audit'.pc = "finding" /\ "pc" \in DOMAIN audit' /\ "still" \in DOMAIN audit'
        BY <2>1 DEF AuditInv, AuditTypeOK
    <2>3. runs' # << >> /\ runs'[Len(runs')].status # "OK"
        BY <1>4, <1>5, <1>7
    <2> QED BY <1>2, <1>4, <1>5, <2>2, <2>3 DEF AuditInv, AuditTypeOK, Audit!pool
<1> QED BY <1>6, <1>7

\* A finding is stored for a run that is not OK, and an audit that stops stores
\* nothing more.
LEMMA AuditFinds ==
    ASSUME AuditInv, Audit!persist_finding \/ Audit!audit_stops
    PROVE  AuditInv'
<1>1. audit' = Audit!Idle /\ UNCHANGED <<Audit!pool, runs>>
    BY DEF Audit!persist_finding, Audit!audit_stops
<1>2. audit'.pc = "idle" /\ "pc" \in DOMAIN audit' /\ "still" \in DOMAIN audit'
    BY <1>1 DEF Audit!Idle
<1>3. \A n \in findings' : n \in findings \/ (n = Len(runs) /\ audit.pc = "finding")
    BY DEF Audit!persist_finding, Audit!audit_stops
<1>4. PICK S : runs \in Seq(S)
    BY DEF AuditInv
<1>5. audit.pc = "finding" => Len(runs) \in DOMAIN runs /\ runs[Len(runs)].status # "OK"
    BY <1>4 DEF AuditInv
<1> QED BY <1>1, <1>2, <1>3, <1>5 DEF AuditInv, AuditTypeOK, Audit!pool

\* Every step preserves it.
LEMMA AuditStep == AuditInv /\ [Audit!Next]_Audit!vars => AuditInv'
<1> SUFFICES ASSUME AuditInv, [Audit!Next]_Audit!vars PROVE AuditInv'
    OBVIOUS
<1>1. CASE UNCHANGED Audit!vars
    BY <1>1 DEF AuditInv, AuditTypeOK, Audit!vars, Audit!pool, Whole, Audit!CommitmentsOf
<1>2. CASE Audit!Next
    BY <1>2, AuditPool, AuditReads, AuditCompares, AuditStores, AuditFinds DEF Audit!Next
<1> QED BY <1>1, <1>2

\* Every stored audit is exact, and every finding is of a run that is not OK.
THEOREM AuditInvariant == Audit!Spec => []AuditInv
BY AuditInit, AuditStep, PTL DEF Audit!Spec

\* AuditIsExact for any number of leaves, audits and lost events: when nothing
\* moved while runAudit read a pool of deposits that the RPC serves whole, the run
\* it stores is OK exactly for a root that is right or that of the latest leaf
\* alone; a finding is of a stored run that is not OK.
THEOREM AuditIsExactAlways == Audit!Spec => []Audit!AuditIsExact
<1>1. AuditInv => Audit!AuditIsExact
    <2> SUFFICES ASSUME AuditInv PROVE Audit!AuditIsExact
        OBVIOUS
    <2>1. \A n \in DOMAIN runs : Exact(runs[n])
        BY DEF AuditInv
    <2>2. ~Audit!assertRootHealthy => \E n \in DOMAIN runs : n \in findings /\ runs[n].status # "OK"
        BY DEF AuditInv, Audit!assertRootHealthy
    <2> QED BY <2>1, <2>2 DEF Audit!AuditIsExact, Exact
<1> QED BY <1>1, AuditInvariant, PTL

-----------------------------------------------------------------------------
(* The deployment scripts. *)

CONSTANTS MaxFaults, MaxLaunches, XlmKnown, PricedBuilt

VARIABLES settings, file, flags, chain, spenders, script, passed, faults, launches

Deploy == INSTANCE Deployment

\* What only invokeOnce may flag: a contract whose recorded id is final.
Final == Deploy!Keys \ {"pool"}

\* Steps still to do: invokeOnce is only ever called for a final id.
Plan(todo) ==
    /\ \E S : todo \in Seq(S)
    /\ \A i \in DOMAIN todo : todo[i].op = "invokeOnce" => todo[i].key \in Final

\* The ledger has contracts, and the file their ids or zero.
Recorded ==
    /\ \E S : chain \in Seq(S)
    /\ \A i \in DOMAIN chain : "inited" \in DOMAIN chain[i]
    /\ DOMAIN file = Deploy!Keys /\ \A k \in Deploy!Keys : file[k] \in 0 .. Len(chain)

DeployInv ==
    /\ Recorded
    /\ "todo" \in DOMAIN script /\ Plan(script.todo)
    /\ flags \subseteq Final
    /\ \A k \in flags : file[k] # 0 /\ chain[file[k]].inited

\* Without steps to do nothing is planned.
LEMMA NothingPlanned == Plan(<< >>)
<1>1. << >> \in Seq({}) /\ DOMAIN << >> = {}
    OBVIOUS
<1> QED BY <1>1 DEF Plan

\* What is left of a plan is a plan.
LEMMA PlanTail ==
    ASSUME NEW todo, Plan(todo), todo # << >>
    PROVE  /\ Plan(Tail(todo))
           /\ Head(todo).op = "invokeOnce" => Head(todo).key \in Final
<1>1. PICK S : todo \in Seq(S)
    BY DEF Plan
<1>2. Tail(todo) \in Seq(S) /\ \A i \in DOMAIN Tail(todo) : i + 1 \in DOMAIN todo /\ Tail(todo)[i] = todo[i + 1]
    BY <1>1
<1>3. 1 \in DOMAIN todo /\ Head(todo) = todo[1]
    BY <1>1
<1> QED BY <1>2, <1>3 DEF Plan

\* A concatenation of plans is a plan.
LEMMA PlanConcat ==
    ASSUME NEW s, NEW t, Plan(s), Plan(t)
    PROVE  Plan(s \o t)
<1>1. PICK S : s \in Seq(S)
    BY DEF Plan
<1>2. PICK T : t \in Seq(T)
    BY DEF Plan
<1>3. s \in Seq(S \cup T) /\ t \in Seq(S \cup T)
    BY <1>1, <1>2
<1>4. /\ s \o t \in Seq(S \cup T)
      /\ \A i \in DOMAIN (s \o t) :
            \/ i \in DOMAIN s /\ (s \o t)[i] = s[i]
            \/ i - Len(s) \in DOMAIN t /\ (s \o t)[i] = t[i - Len(s)]
    BY <1>3
<1> QED BY <1>4 DEF Plan

\* So is a list of steps that are not invokeOnce.
LEMMA PlanOther ==
    ASSUME NEW s, NEW S, s \in Seq(S), \A i \in DOMAIN s : s[i].op # "invokeOnce"
    PROVE  Plan(s)
BY DEF Plan

\* Two such steps are a plan.
LEMMA PlanOfTwo ==
    ASSUME NEW a, NEW b, a.op # "invokeOnce", b.op # "invokeOnce"
    PROVE  Plan(<<a, b>>)
<1>1. <<a, b>> \in Seq({a, b}) /\ \A i \in DOMAIN <<a, b>> : <<a, b>>[i] \in {a, b}
    OBVIOUS
<1> QED BY <1>1, PlanOther

\* And so are four.
LEMMA PlanOfFour ==
    ASSUME NEW a, NEW b, NEW c, NEW d,
           a.op # "invokeOnce", b.op # "invokeOnce", c.op # "invokeOnce", d.op # "invokeOnce"
    PROVE  Plan(<<a, b, c, d>>)
<1>1. /\ <<a, b, c, d>> \in Seq({a, b, c, d})
      /\ \A i \in DOMAIN <<a, b, c, d>> : <<a, b, c, d>>[i] \in {a, b, c, d}
    OBVIOUS
<1> QED BY <1>1, PlanOther

\* The contracts init-stellar-contracts initialises do not include the pool.
LEMMA InitialisedAreFinal ==
    Len(Deploy!Initialised) = 6 /\ \A i \in 1 .. 6 : Deploy!Initialised[i] \in Final
<1>1. Len(Deploy!contracts) = 10
    BY DEF Deploy!contracts
<1>2. \E S : Deploy!contracts \in Seq(S)
    <2>1. Deploy!contracts \in Seq({Deploy!contracts[1], Deploy!contracts[2], Deploy!contracts[3], Deploy!contracts[4], Deploy!contracts[5], Deploy!contracts[6],
                             Deploy!contracts[7], Deploy!contracts[8], Deploy!contracts[9], Deploy!contracts[10]})
        BY DEF Deploy!contracts
    <2> QED BY <2>1
<1>3. Len(Deploy!Initialised) = 6 /\ \A i \in 1 .. 6 : Deploy!Initialised[i] = Deploy!contracts[i]
    BY <1>1, <1>2 DEF Deploy!Initialised
<1>4. \A i \in 1 .. 6 : Deploy!contracts[i] \in Deploy!Keys
    BY <1>1 DEF Deploy!Keys
<1>5. \A i \in 1 .. 6 : Deploy!contracts[i] # "pool"
    BY DEF Deploy!contracts
<1> QED BY <1>3, <1>4, <1>5 DEF Final

\* Every script is a plan.
LEMMA ScriptsArePlans ==
    ASSUME NEW n \in Deploy!Scripts
    PROVE  Plan(Deploy!Program(n))
<1>1. \A o, k : Deploy!Op(o, k).op = o /\ Deploy!Op(o, k).key = k
    BY DEF Deploy!Op
<1>2. ASSUME NEW o, NEW k, o # "invokeOnce" PROVE Plan(<<Deploy!Op(o, k)>>)
    <2>1. ASSUME NEW x PROVE <<x>> \in Seq({x}) /\ \A i \in DOMAIN <<x>> : <<x>>[i] = x
        OBVIOUS
    <2> QED BY <1>1, <1>2, <2>1, PlanOther
<1>3. ASSUME NEW o, NEW c, NEW m \in Nat, o # "invokeOnce" PROVE Plan([i \in 1 .. m |-> Deploy!Op(o, c[i])])
    <2>1. [i \in 1 .. m |-> Deploy!Op(o, c[i])] \in Seq({Deploy!Op(o, c[i]) : i \in 1 .. m})
        OBVIOUS
    <2> QED BY <1>1, <1>3, <2>1 DEF Plan
<1>4. Plan(Deploy!setup_env)
    <2>1. Plan([i \in 1 .. 4 |-> Deploy!Op("wallet", Deploy!stellarRoles[i])])
        BY <1>3
    <2> QED BY <1>2, <2>1, PlanConcat DEF Deploy!setup_env
<1>5. Plan(Deploy!deploy_stellar)
    <2>1. Len(Deploy!contracts) \in Nat
        BY DEF Deploy!contracts
    <2> QED BY <1>3, <2>1 DEF Deploy!deploy_stellar
<1>6. Plan(Deploy!init_stellar)
    <2>1. Plan([i \in 1 .. 6 |-> Deploy!Op("invokeOnce", Deploy!Initialised[i])])
        <3>1. [i \in 1 .. 6 |-> Deploy!Op("invokeOnce", Deploy!Initialised[i])] \in Seq({Deploy!Op("invokeOnce", Deploy!Initialised[i]) : i \in 1 .. 6})
            OBVIOUS
        <3>2. ASSUME NEW i \in 1 .. 6 PROVE Deploy!Op("invokeOnce", Deploy!Initialised[i]).key \in Final
            BY <1>1, InitialisedAreFinal
        <3> QED BY <3>1, <3>2 DEF Plan
    <2>2. Plan(<<Deploy!Op("asset_id", "USDC_SAC")>>)
        BY <1>2
    <2> QED BY <2>1, <2>2, PlanConcat, InitialisedAreFinal DEF Deploy!init_stellar
<1>7. Plan(Deploy!deploy_pool)
    <2>1. Len(Deploy!Wiring) \in Nat
        BY DEF Deploy!Wiring
    <2>2. Plan([i \in 1 .. Len(Deploy!Wiring) |-> Deploy!Op("invoke", Deploy!Wiring[i])])
        BY <1>3, <2>1
    <2>3. Plan(<<Deploy!Op("deploy", "verifier_withdraw"), Deploy!Op("deploy", "verifier_transfer"),
                 Deploy!Op("deploy", "verifier_mint"), Deploy!Op("deploy_pool", "pool")>>)
        BY <1>1, PlanOfFour
    <2> QED BY <2>2, <2>3, PlanConcat DEF Deploy!deploy_pool
<1>8. Plan(Deploy!deploy_mpc)
    <2>1. Plan(<<Deploy!Op("deploy", "verifier_mpc"), Deploy!Op("invoke", "verifier_mpc")>>)
        BY <1>1, PlanOfTwo
    <2>2. Plan(<<Deploy!Op("deploy", "verifier_priced"), Deploy!Op("invoke", "verifier_priced")>>)
        BY <1>1, PlanOfTwo
    <2> QED BY <2>1, <2>2, PlanConcat, NothingPlanned DEF Deploy!deploy_mpc
<1> QED BY <1>4, <1>5, <1>6, <1>7, <1>8 DEF Deploy!Scripts, Deploy!Program

\* Nothing is deployed, recorded or flagged at first.
LEMMA DeployInit == Deploy!Init => DeployInv
<1> SUFFICES ASSUME Deploy!Init PROVE DeployInv
    OBVIOUS
<1>1. chain \in Seq({}) /\ DOMAIN chain = {} /\ Len(chain) = 0
    BY DEF Deploy!Init
<1>2. DOMAIN file = Deploy!Keys /\ \A k \in Deploy!Keys : file[k] = 0
    BY DEF Deploy!Init
<1>3. script.todo = << >> /\ "todo" \in DOMAIN script /\ flags = {}
    BY DEF Deploy!Init, Deploy!Idle
<1> QED BY <1>1, <1>2, <1>3, NothingPlanned DEF DeployInv, Recorded

\* What a script goes on to do is a plan: the next steps, nothing, or a script.
Goes ==
    "todo" \in DOMAIN script' /\ Plan(script'.todo)

\* The ways a step leaves the script.
LEMMA DeployGoes ==
    ASSUME DeployInv
    PROVE  /\ script' = Deploy!Idle => Goes
           /\ script' = script => Goes
           /\ script.todo # << >> /\ script' = [script EXCEPT !.todo = Tail(@)] => Goes
           /\ script' = [script EXCEPT !.todo = << >>] => Goes
<1>1. "todo" \in DOMAIN script /\ Plan(script.todo)
    BY DEF DeployInv
<1>2. script' = Deploy!Idle => Goes
    BY NothingPlanned DEF Deploy!Idle, Goes
<1>3. script' = script => Goes
    BY <1>1 DEF Goes
<1>4. ASSUME script.todo # << >>, script' = [script EXCEPT !.todo = Tail(@)] PROVE Goes
    <2>1. "todo" \in DOMAIN script' /\ script'.todo = Tail(script.todo)
        BY <1>1, <1>4
    <2> QED BY <1>1, <1>4, <2>1, PlanTail DEF Goes
<1>5. ASSUME script' = [script EXCEPT !.todo = << >>] PROVE Goes
    <2>1. "todo" \in DOMAIN script' /\ script'.todo = << >>
        BY <1>1, <1>5
    <2> QED BY <2>1, NothingPlanned DEF Goes
<1> QED BY <1>2, <1>3, <1>4, <1>5

\* A step that leaves the ledger's contracts, their ids and the flags alone.
LEMMA DeployRests ==
    ASSUME DeployInv, Goes, UNCHANGED <<file, flags, chain>>
    PROVE  DeployInv'
BY DEF DeployInv, Recorded, Goes, Final

\* A contract is deployed, and its id recorded or not; no flagged id changes.
LEMMA DeployDeploys ==
    ASSUME DeployInv, Goes, NEW k, NEW c, k \notin flags, chain' = Deploy!Fresh(c), UNCHANGED flags,
           file' = file \/ file' = [file EXCEPT ![k] = Len(chain')]
    PROVE  DeployInv'
<1>1. PICK S : chain \in Seq(S)
    BY DEF DeployInv, Recorded
<1>2. PICK x : x = [crate |-> c, inited |-> FALSE, set |-> {}] /\ chain' = Append(chain, x)
    BY DEF Deploy!Fresh
<1>3. "inited" \in DOMAIN x
    BY <1>2
<1>4. chain \in Seq(S \cup {x}) /\ Len(chain) \in Nat
    BY <1>1
<1>5. /\ chain' \in Seq(S \cup {x}) /\ Len(chain') = Len(chain) + 1
      /\ \A i \in DOMAIN chain : i \in DOMAIN chain' /\ chain'[i] = chain[i]
      /\ \A i \in DOMAIN chain' : i \in DOMAIN chain \/ chain'[i] = x
    BY <1>2, <1>4
<1>6. DOMAIN file = Deploy!Keys /\ DOMAIN file' = Deploy!Keys /\ \A i \in Deploy!Keys : file[i] \in 0 .. Len(chain)
    BY DEF DeployInv, Recorded
<1>7. \A i \in Deploy!Keys : file'[i] \in 0 .. Len(chain') /\ (i # k => file'[i] = file[i])
    BY <1>4, <1>5, <1>6
<1>8. Recorded'
    BY <1>3, <1>5, <1>6, <1>7 DEF DeployInv, Recorded
<1>9. ASSUME NEW i \in flags PROVE file'[i] # 0 /\ chain'[file'[i]].inited
    <2>1. i \in Deploy!Keys /\ i # k /\ file[i] # 0 /\ chain[file[i]].inited
        BY DEF DeployInv, Final
    <2>2. file'[i] = file[i] /\ file[i] \in DOMAIN chain
        BY <1>4, <1>6, <1>7, <2>1
    <2> QED BY <1>5, <2>1, <2>2
<1> QED BY <1>8, <1>9 DEF DeployInv, Goes, Final

\* A recorded contract is changed, and does not stop being initialised.
LEMMA DeployChanges ==
    ASSUME DeployInv, Goes, NEW c, NEW x, UNCHANGED file,
           chain' = [chain EXCEPT ![c] = x],
           c \in DOMAIN chain => "inited" \in DOMAIN x /\ (chain[c].inited => x.inited),
           flags' \subseteq Final,
           \A k \in flags' : k \in flags \/ (file[k] = c /\ c # 0 /\ x.inited)
    PROVE  DeployInv'
<1>1. PICK S : chain \in Seq(S)
    BY DEF DeployInv, Recorded
<1>2. chain \in Seq(S \cup {x}) /\ Len(chain) \in Nat /\ DOMAIN chain = 1 .. Len(chain)
    BY <1>1
<1>3. chain' \in Seq(S \cup {x}) /\ Len(chain') = Len(chain) /\ DOMAIN chain' = DOMAIN chain
    <2>1. chain \in [1 .. Len(chain) -> S \cup {x}]
        BY <1>2
    <2>2. chain' \in [1 .. Len(chain) -> S \cup {x}]
        BY <2>1
    <2> QED BY <1>2, <2>2
<1>4. \A i \in DOMAIN chain : chain'[i] = IF i = c THEN x ELSE chain[i]
    BY <1>2
<1>5. Recorded'
    BY <1>3, <1>4 DEF DeployInv, Recorded
<1>6. ASSUME NEW k \in flags' PROVE file'[k] # 0 /\ chain'[file'[k]].inited
    <2>1. k \in Deploy!Keys /\ file[k] \in 0 .. Len(chain)
        BY DEF DeployInv, Recorded, Final
    <2>2. CASE k \in flags
        <3>1. file[k] # 0 /\ chain[file[k]].inited /\ file[k] \in DOMAIN chain
            BY <1>2, <2>1, <2>2 DEF DeployInv
        <3> QED BY <1>4, <3>1
    <2>3. CASE file[k] = c /\ c # 0 /\ x.inited
        <3>1. c \in DOMAIN chain
            BY <1>2, <2>1, <2>3
        <3> QED BY <1>4, <2>3, <3>1
    <2> QED BY <2>2, <2>3
<1> QED BY <1>5, <1>6 DEF DeployInv, Goes, Final

\* The steps that deploy: each records an id only where none was, or the pool's.
LEMMA DeployDeployers ==
    ASSUME DeployInv, Deploy!deployWithRetry \/ Deploy!deployVerifier \/ Deploy!deployPool
    PROVE  DeployInv'
<1>1. UNCHANGED flags /\ script.todo # << >>
    BY DEF Deploy!deployWithRetry, Deploy!deployVerifier, Deploy!deployPool, Deploy!At
<1>2. \A k \in flags : k # "pool" /\ file[k] # 0
    BY DEF DeployInv, Final
<1>3. CASE Deploy!deployWithRetry \/ Deploy!deployVerifier
    <2>1. Goes
        BY <1>1, <1>3, DeployGoes DEF Deploy!deployWithRetry, Deploy!deployVerifier, Deploy!Done
    <2>2. CASE UNCHANGED <<file, chain>>
        BY <1>1, <2>1, <2>2, DeployRests
    <2>3. CASE /\ file[Deploy!Key] = 0 /\ chain' = Deploy!Fresh(Deploy!Key)
               /\ file' = file \/ file' = [file EXCEPT ![Deploy!Key] = Len(chain')]
        <3>1. PICK k : k = Deploy!Key
            OBVIOUS
        <3>2. k \notin flags
            BY <1>2, <2>3, <3>1
        <3> QED BY <1>1, <2>1, <2>3, <3>1, <3>2, DeployDeploys
    <2> QED BY <1>3, <2>2, <2>3 DEF Deploy!deployWithRetry, Deploy!deployVerifier
<1>4. CASE Deploy!deployPool
    <2>1. Goes
        BY <1>1, <1>4, DeployGoes DEF Deploy!deployPool, Deploy!Done
    <2>2. CASE UNCHANGED <<file, chain>>
        BY <1>1, <2>1, <2>2, DeployRests
    <2>3. CASE /\ chain' = Deploy!Fresh("pool")
               /\ file' = file \/ file' = [file EXCEPT !["pool"] = Len(chain')]
        BY <1>1, <1>2, <2>1, <2>3, DeployDeploys
    <2> QED BY <1>4, <2>2, <2>3 DEF Deploy!deployPool
<1> QED BY <1>3, <1>4

\* A flag is set with the call made, and the contract called is the recorded one.
LEMMA DeployInitialises ==
    ASSUME DeployInv, Deploy!invokeOnce
    PROVE  DeployInv'
<1>1. script.todo # << >> /\ Head(script.todo).op = "invokeOnce" /\ UNCHANGED file
    BY DEF Deploy!invokeOnce, Deploy!At
<1>2. PICK k : k = Deploy!Key
    OBVIOUS
<1>3. k \in Final /\ file[k] # 0
    BY <1>1, <1>2, PlanTail DEF DeployInv, Deploy!invokeOnce, Deploy!Key
<1>4. Goes
    BY <1>1, DeployGoes DEF Deploy!invokeOnce, Deploy!Done
<1>5. CASE UNCHANGED <<flags, chain>>
    BY <1>1, <1>4, <1>5, DeployRests
<1>6. CASE Deploy!initialize(file[Deploy!Key]) /\ (flags' = flags \/ flags' = flags \cup {Deploy!Key})
    <2>1. PICK c, x : c = file[k] /\ x = [chain[c] EXCEPT !.inited = TRUE]
        OBVIOUS
    <2>2. chain' = [chain EXCEPT ![c] = x]
        BY <1>2, <1>6, <2>1 DEF Deploy!initialize
    <2>3. k \in Deploy!Keys /\ c \in 0 .. Len(chain) /\ (\E S : chain \in Seq(S)) /\ \A i \in DOMAIN chain : "inited" \in DOMAIN chain[i]
        BY <1>3, <2>1 DEF DeployInv, Recorded, Final
    <2>4. c # 0 /\ c \in DOMAIN chain
        BY <1>3, <2>1, <2>3
    <2>5. "inited" \in DOMAIN x /\ x.inited
        BY <2>1, <2>3, <2>4
    <2>6. flags' \subseteq Final /\ \A i \in flags' : i \in flags \/ (file[i] = c /\ c # 0 /\ x.inited)
        BY <1>2, <1>3, <1>6, <2>1, <2>4, <2>5 DEF DeployInv
    <2> QED BY <1>1, <1>4, <2>2, <2>5, <2>6, DeployChanges
<1> QED BY <1>5, <1>6 DEF Deploy!invokeOnce

\* A setter changes no contract's being initialised.
LEMMA DeploySets ==
    ASSUME DeployInv, Deploy!invoke
    PROVE  DeployInv'
<1>1. script.todo # << >> /\ UNCHANGED <<file, flags>>
    BY DEF Deploy!invoke, Deploy!At, Deploy!store
<1>2. Goes
    BY <1>1, DeployGoes DEF Deploy!invoke, Deploy!Done
<1>3. CASE UNCHANGED chain
    BY <1>1, <1>2, <1>3, DeployRests
<1>4. CASE chain' = [chain EXCEPT ![file["pool"]].set =
                        {w \in @ : w[1] # Deploy!Key} \cup {<<Deploy!Key, IF Deploy!Key \in Deploy!Keys THEN file[Deploy!Key] ELSE 0>>}]
    <2>1. PICK c, y : /\ c = file["pool"]
                      /\ y = {w \in chain[c].set : w[1] # Deploy!Key} \cup {<<Deploy!Key, IF Deploy!Key \in Deploy!Keys THEN file[Deploy!Key] ELSE 0>>}
        OBVIOUS
    <2>2. PICK x : x = [chain[c] EXCEPT !.set = y]
        OBVIOUS
    <2>3. chain' = [chain EXCEPT ![c] = x]
        BY <1>4, <2>1, <2>2
    <2>4. c \in DOMAIN chain => "inited" \in DOMAIN x /\ x.inited = chain[c].inited
        BY <2>2 DEF DeployInv, Recorded
    <2>5. flags' \subseteq Final
        BY <1>1 DEF DeployInv
    <2> QED BY <1>1, <1>2, <2>3, <2>4, <2>5, DeployChanges
<1> QED BY <1>3, <1>4 DEF Deploy!invoke

\* Every step of the scripts preserves it.
LEMMA DeployStep == DeployInv /\ [Deploy!Next]_Deploy!vars => DeployInv'
<1> SUFFICES ASSUME DeployInv, [Deploy!Next]_Deploy!vars PROVE DeployInv'
    OBVIOUS
<1>1. ASSUME NEW n \in Deploy!Scripts, NEW again \in BOOLEAN, Deploy!launch(n, again) PROVE DeployInv'
    <2>1. script'.todo = Deploy!Program(n) /\ "todo" \in DOMAIN script' /\ UNCHANGED <<file, flags, chain>>
        BY <1>1 DEF Deploy!launch, Deploy!store, Deploy!ledger
    <2>2. Goes
        BY <2>1, ScriptsArePlans DEF Goes
    <2> QED BY <2>1, <2>2, DeployRests
<1>2. CASE Deploy!exits \/ Deploy!pass \/ Deploy!contract_missing
    <2>1. script' = Deploy!Idle /\ UNCHANGED <<file, flags, chain>>
        BY <1>2 DEF Deploy!exits, Deploy!pass, Deploy!contract_missing, Deploy!store, Deploy!ledger
    <2> QED BY <2>1, DeployGoes, DeployRests
<1>3. CASE Deploy!wallet
    <2>1. script.todo # << >> /\ UNCHANGED <<file, flags, chain>>
        BY <1>3 DEF Deploy!wallet, Deploy!At, Deploy!store, Deploy!ledger
    <2>2. "todo" \in DOMAIN script /\ Plan(script.todo)
        BY DEF DeployInv
    <2>3. "todo" \in DOMAIN script' /\ script'.todo = Tail(script.todo)
        BY <1>3, <2>2 DEF Deploy!wallet
    <2>4. Goes
        BY <2>1, <2>2, <2>3, PlanTail DEF Goes
    <2> QED BY <2>1, <2>4, DeployRests
<1>4. CASE Deploy!writeEnvGenerated \/ Deploy!asset_id
    <2>1. script.todo # << >> /\ UNCHANGED <<file, flags, chain>>
        BY <1>4 DEF Deploy!writeEnvGenerated, Deploy!asset_id, Deploy!At, Deploy!ledger
    <2>2. Goes
        BY <1>4, <2>1, DeployGoes DEF Deploy!writeEnvGenerated, Deploy!asset_id, Deploy!Done
    <2> QED BY <2>1, <2>2, DeployRests
<1>5. CASE UNCHANGED Deploy!vars
    <2>1. script' = script /\ UNCHANGED <<file, flags, chain>>
        BY <1>5 DEF Deploy!vars
    <2> QED BY <2>1, DeployGoes, DeployRests
<1> QED BY <1>1, <1>2, <1>3, <1>4, <1>5, DeployDeployers, DeployInitialises, DeploySets DEF Deploy!Next

\* Only contracts with a final id are flagged, and those are initialised.
THEOREM DeployInvariant == Deploy!Spec => []DeployInv
BY DeployInit, DeployStep, PTL DEF Deploy!Spec

\* FlagMeansInitialised for any number of launches, faults and deployed
\* contracts: a flag the scripts have recorded is of the contract whose id is in
\* the file, and that contract is initialised.
THEOREM DeployFlagMeansInitialised == Deploy!Spec => []Deploy!FlagMeansInitialised
<1>1. DeployInv => Deploy!FlagMeansInitialised
    BY DEF DeployInv, Deploy!FlagMeansInitialised
<1> QED BY <1>1, DeployInvariant, PTL
=============================================================================
