------------------------ MODULE DepositPipelineProofs ------------------------
(***************************************************************************)
(* What holds of a deposit for every set of jobs, every amount and every   *)
(* number of attempts: a completed job has registered its note, a note is  *)
(* registered once, and, with one relayer, nothing is credited that was    *)
(* not minted.                                                             *)
(***************************************************************************)
EXTENDS DepositPipeline, FiniteSetTheorems, TLAPS

\* Every deposit commits to a note of its own.
OwnNotes == \A i, j \in Jobs : Note[i] = Note[j] => i = j

\* One process works the queue and sees the balances it asks for.
OneRelayer == Relayers = 1 /\ ~EmptyReads

AfterBurn == {"validate", "attest", "before", "mint", "after", "receive"}

\* What holds of job j when its row is x: it has a burn where it needs one, its
\* delta covers the note, and it is completed with the note in the tree.
JobOK(j, x) ==
    /\ x.status = "running" <=> x.pc # "none"
    /\ x.status = "queued" => x.attempts < MaxAttempts
    /\ j \in UserJobs /\ x.status # "none" => x.burn \in DOMAIN burns
    /\ x.pc \in AfterBurn => x.burn \in DOMAIN burns
    /\ x.pc = "receive" => 0 < x.amount7 /\ Value[Note[j]] <= x.amount7
    /\ j \in Witnessed /\ x.status = "ready" =>
           /\ x.burn \in DOMAIN burns
           /\ Note[j] \in Range(leaves)
           /\ credited[x.burn] >= Value[Note[j]]

JobInv == \A j \in Jobs : JobOK(j, job[j])

\* A fee is part of the amount, and only a burn that was made is credited.
BurnInv ==
    /\ \A b \in DOMAIN burns : burns[b].fee <= burns[b].amount
    /\ \A b \in Burns : credited[b] > 0 => b \in DOMAIN burns

\* The payload of a job whose note is in the tree was made before the note came
\* there, so its root matches no more.
LeafInv ==
    \A p \in DOMAIN leaves, j \in Jobs :
        leaves[p] = Note[j] => job[j].status # "none" /\ Len(job[j].base) < p

\* Between the two reads of a job the balance grows by its own mint only.
MintOK(x) ==
    /\ x.pc = "mint" => balance <= x.before
    /\ x.pc = "after" => burns[x.burn].minted /\ balance <= x.before + Minted7(x.burn)
    /\ x.pc = "receive" => burns[x.burn].minted /\ x.amount7 <= Minted7(x.burn)

MintInv ==
    /\ \A i, j \in Jobs : Running(i) /\ Running(j) => i = j
    /\ \A j \in Jobs : MintOK(job[j])
    /\ CreditBackedByMint

DInv ==
    /\ TypeOK /\ JobInv /\ BurnInv
    /\ OwnNotes => LeafInv /\ NoteRegisteredOnce
    /\ OneRelayer => MintInv

-----------------------------------------------------------------------------
(* Facts about the operators *)

LEMMA SeqWrite ==
    ASSUME NEW S, NEW s \in Seq(S), NEW k \in DOMAIN s, NEW x \in S
    PROVE  /\ [s EXCEPT ![k] = x] \in Seq(S)
           /\ Len([s EXCEPT ![k] = x]) = Len(s)
           /\ DOMAIN [s EXCEPT ![k] = x] = DOMAIN s
           /\ [s EXCEPT ![k] = x][k] = x
           /\ \A i \in DOMAIN s : i # k => [s EXCEPT ![k] = x][i] = s[i]
OBVIOUS

LEMMA SeqAdd ==
    ASSUME NEW S, NEW s \in Seq(S), NEW x \in S
    PROVE  /\ Append(s, x) \in Seq(S) /\ Len(Append(s, x)) = Len(s) + 1
           /\ DOMAIN Append(s, x) = DOMAIN s \union {Len(s) + 1} /\ Len(s) + 1 \notin DOMAIN s
           /\ Append(s, x)[Len(s) + 1] = x
           /\ \A k \in DOMAIN s : Append(s, x)[k] = s[k]
OBVIOUS

\* The register of a relayer is free only when nobody holds it.
LEMMA OneRuns ==
    ASSUME Relayers = 1, Cardinality({i \in Jobs : Running(i)}) < Relayers
    PROVE  \A i \in Jobs : ~Running(i)
<1> DEFINE R == {i \in Jobs : Running(i)}
<1>1. IsFiniteSet(R)
  <2>1. R \subseteq Jobs  OBVIOUS
  <2> HIDE DEF R
  <2> QED  BY <2>1, DepositAssumption, FS_Subset
<1> HIDE DEF R
<1>2. Cardinality(R) \in Nat  BY <1>1, FS_CardinalityType
<1>3. Cardinality(R) < Relayers  BY Zenon DEF R
<1>4. R = {}  BY <1>1, <1>2, <1>3, FS_EmptySet
<1> QED  BY <1>4 DEF R

LEMMA BurnsTyped ==
    ASSUME TypeOK, NEW b \in DOMAIN burns
    PROVE  /\ b \in Burns /\ b # None /\ credited[b] \in Nat
           /\ burns[b].amount \in Nat /\ burns[b].fee \in Nat /\ burns[b].minted \in BOOLEAN
<1>1. burns \in Seq(Burn) /\ Len(burns) <= MaxBurns /\ credited \in [Burns -> Nat]
  BY Zenon DEF TypeOK
<1>2. burns[b] \in Burn /\ b \in Burns /\ b # None  BY <1>1, DepositAssumption DEF Burns, None
<1> QED  BY <1>1, <1>2 DEF Burn

\* Burns are only added, and a mint is not undone.
BurnsGrow ==
    /\ DOMAIN burns \subseteq DOMAIN burns'
    /\ \A b \in DOMAIN burns :
          /\ burns'[b].amount = burns[b].amount /\ burns'[b].fee = burns[b].fee
          /\ burns[b].minted => burns'[b].minted

\* What was said of a row stays true of it while others go on.
LEMMA RowsStay ==
    ASSUME TypeOK, TypeOK', BurnsGrow, Range(leaves) \subseteq Range(leaves'),
           \A b \in Burns : credited[b] <= credited'[b],
           NEW j \in Jobs, NEW x \in JobState, JobOK(j, x)
    PROVE  /\ JobOK(j, x)'
           /\ MintOK(x) /\ balance' <= balance => MintOK(x)'
<1>1. \A b \in DOMAIN burns : b \in Burns /\ credited[b] \in Nat /\ credited'[b] \in Nat
  <2>1. credited' \in [Burns -> Nat]  BY Zenon DEF TypeOK
  <2> QED  BY <2>1, BurnsTyped
<1>2. Value[Note[j]] \in Nat  BY DepositAssumption
<1>3. JobOK(j, x)'
  <2>1. /\ j \in UserJobs /\ x.status # "none" => x.burn \in DOMAIN burns'
        /\ x.pc \in AfterBurn => x.burn \in DOMAIN burns'
    BY DEF JobOK, BurnsGrow
  <2>2. ASSUME j \in Witnessed, x.status = "ready"
        PROVE  /\ x.burn \in DOMAIN burns'
               /\ Note[j] \in Range(leaves')
               /\ credited'[x.burn] >= Value[Note[j]]
    <3>1. /\ x.burn \in DOMAIN burns /\ Note[j] \in Range(leaves)
          /\ credited[x.burn] >= Value[Note[j]]
      BY <2>2, Zenon DEF JobOK
    <3>2. credited[x.burn] <= credited'[x.burn]  BY <1>1, <3>1, Zenon
    <3>3. credited[x.burn] \in Nat /\ credited'[x.burn] \in Nat  BY <1>1, <3>1, Zenon
    <3>4. credited'[x.burn] >= Value[Note[j]]  BY <1>2, <3>1, <3>2, <3>3
    <3> QED  BY <3>1, <3>4 DEF BurnsGrow
  <2> QED  BY <2>1, <2>2, Zenon DEF JobOK
<1>4. ASSUME MintOK(x), balance' <= balance
      PROVE  MintOK(x)'
  <2>1. balance \in Nat /\ balance' \in Nat /\ x.before \in Int  BY DEF TypeOK, JobState
  <2>2. ASSUME x.burn \in DOMAIN burns
        PROVE  /\ Minted7(x.burn)' = Minted7(x.burn) /\ Minted7(x.burn) \in Int
               /\ burns[x.burn].minted => burns'[x.burn].minted
    <3>1. burns[x.burn].amount \in Int /\ burns[x.burn].fee \in Int  BY <2>2, BurnsTyped
    <3> QED  BY <2>2, <3>1 DEF BurnsGrow, Minted7, usdc6ToStellar7
  <2>3. x.pc = "mint" => balance' <= x.before  BY <1>4, <2>1 DEF MintOK
  <2>4. x.pc = "after" => burns'[x.burn].minted /\ balance' <= x.before + Minted7(x.burn)'
    BY <1>4, <2>1, <2>2 DEF MintOK, JobOK, AfterBurn
  <2>5. x.pc = "receive" => burns'[x.burn].minted /\ x.amount7 <= Minted7(x.burn)'
    BY <1>4, <2>2 DEF MintOK, JobOK, AfterBurn
  <2> QED  BY <2>3, <2>4, <2>5, Zenon DEF MintOK
<1> QED  BY <1>3, <1>4, Zenon

Statuses == {"none", "queued", "running", "ready", "failed", "lost"}

\* A row with some of its columns written
Goes(y, st, pc) == [y EXCEPT !.status = st, !.pc = pc]
Reads(y, be, am) == [y EXCEPT !.before = be, !.amount7 = am]

LEMMA RowGoes ==
    ASSUME NEW y \in JobState, NEW st \in Statuses, NEW pc \in Steps \union {"none"}
    PROVE  /\ Goes(y, st, pc) \in JobState
           /\ Goes(y, st, pc).status = st /\ Goes(y, st, pc).pc = pc
           /\ Goes(y, st, pc).attempts = y.attempts /\ Goes(y, st, pc).burn = y.burn
           /\ Goes(y, st, pc).base = y.base
BY DEF JobState, Statuses, Goes

LEMMA RowReads ==
    ASSUME NEW y \in JobState, NEW be \in Int, NEW am \in Int
    PROVE  /\ Reads(y, be, am) \in JobState
           /\ Reads(y, be, am).status = y.status /\ Reads(y, be, am).pc = y.pc
           /\ Reads(y, be, am).attempts = y.attempts /\ Reads(y, be, am).burn = y.burn
           /\ Reads(y, be, am).base = y.base /\ Reads(y, be, am).before = be
           /\ Reads(y, be, am).amount7 = am
BY DEF JobState, Reads

-----------------------------------------------------------------------------
(* Steps of one job that leave the chains alone *)

LEMMA JobMoves ==
    ASSUME DInv, NEW j \in Jobs, NEW x \in JobState,
           job' = [job EXCEPT ![j] = x],
           recorded' \in [Jobs -> Burns \union {None}],
           UNCHANGED <<burns, chain>>,
           JobOK(j, x),
           job[j].status # "none" => x.status # "none" /\ x.base = job[j].base,
           OneRelayer => MintOK(x),
           OneRelayer /\ x.status = "running" => Running(j) \/ \A i \in Jobs : ~Running(i)
    PROVE  DInv'
<1>1. TypeOK /\ JobInv /\ BurnInv  BY Zenon DEF DInv
<1>2. /\ UNCHANGED <<burns, balance, leaves, credited, supply, spent>>
      /\ job'[j] = x /\ \A i \in Jobs : i # j => job'[i] = job[i]
  BY <1>1 DEF chain, TypeOK
<1>3. TypeOK'  BY <1>1, <1>2 DEF TypeOK
<1>4. JobInv'
  <2>1. \A i, y : JobOK(i, y)' <=> JobOK(i, y)  BY <1>2, Zenon DEF JobOK
  <2> QED  BY <1>1, <1>2, <2>1, Zenon DEF JobInv
<1>5. BurnInv'  BY <1>1, <1>2, Zenon DEF BurnInv
<1>6. ASSUME OwnNotes
      PROVE  LeafInv' /\ NoteRegisteredOnce'
  <2>1. LeafInv /\ NoteRegisteredOnce  BY <1>6, Zenon DEF DInv
  <2>2. \A p \in DOMAIN leaves, i \in Jobs :
           leaves[p] = Note[i] => job'[i].status # "none" /\ Len(job'[i].base) < p
    BY <1>2, <2>1 DEF LeafInv
  <2> QED  BY <1>2, <2>1, <2>2, Zenon DEF LeafInv, NoteRegisteredOnce
<1>7. ASSUME OneRelayer
      PROVE  MintInv'
  <2>1. MintInv  BY <1>7, Zenon DEF DInv
  <2>2. \A y : MintOK(y)' <=> MintOK(y)  BY <1>2, Zenon DEF MintOK, Minted7
  <2>3. \A i \in Jobs : MintOK(job[i])'  BY <1>2, <1>7, <2>1, <2>2, Zenon DEF MintInv
  <2>4. CreditBackedByMint'  BY <1>2, <2>1, Zenon DEF MintInv, CreditBackedByMint, Minted7
  <2>5. \A i, k \in Jobs : Running(i)' /\ Running(k)' => i = k
    BY <1>2, <1>7, <2>1, Zenon DEF MintInv, Running
  <2> QED  BY <2>3, <2>4, <2>5, Zenon DEF MintInv
<1> QED  BY <1>3, <1>4, <1>5, <1>6, <1>7, Zenon DEF DInv

\* The row of a job whose attempt is over
LEMMA StopRow ==
    ASSUME TypeOK, NEW j \in Jobs, NEW status \in Statuses, Stop(j, status)
    PROVE  \E x \in JobState :
              /\ job' = [job EXCEPT ![j] = x]
              /\ x.status = status /\ x.pc = "none" /\ x.base = job[j].base
              /\ x.burn = job[j].burn /\ x.attempts = job[j].attempts
<1>1. job \in [Jobs -> JobState] /\ job[j] \in JobState  BY DEF TypeOK
<1>2. PICK y : y = Goes(job[j], status, "none")  OBVIOUS
<1>3. /\ y \in JobState /\ y.status = status /\ y.pc = "none" /\ y.base = job[j].base
      /\ y.burn = job[j].burn /\ y.attempts = job[j].attempts
  <2>1. "none" \in Steps \union {"none"}  OBVIOUS
  <2> QED  BY <1>1, <1>2, <2>1, RowGoes
<1>4. PICK x : x = Reads(y, 0, 0)  OBVIOUS
<1>5. /\ x \in JobState /\ x.status = status /\ x.pc = "none" /\ x.base = job[j].base
      /\ x.burn = job[j].burn /\ x.attempts = job[j].attempts
  BY <1>3, <1>4, RowReads
<1>6. job' = [job EXCEPT ![j] = x]
  <2>1. x = [job[j] EXCEPT !.status = status, !.pc = "none", !.before = 0, !.amount7 = 0]
    BY <1>2, <1>4, Zenon DEF Goes, Reads
  <2> QED  BY <1>1, <2>1 DEF Stop
<1> QED  BY <1>5, <1>6, Zenon

\* The attempt ends, by a throw or a crash or with the job completed.
LEMMA StopInv ==
    ASSUME DInv, NEW j \in Jobs, Running(j),
           NEW status \in {"queued", "failed", "ready", "lost"},
           Stop(j, status), UNCHANGED <<recorded, burns, chain>>,
           status = "queued" => job[j].attempts < MaxAttempts,
           status = "ready" => j \notin Witnessed
    PROVE  DInv'
<1>1. TypeOK /\ JobInv  BY Zenon DEF DInv
<1>2. recorded \in [Jobs -> Burns \union {None}]  BY <1>1, Zenon DEF TypeOK
<1>3. status \in Statuses  BY DEF Statuses
<1>4. PICK x \in JobState :
          /\ job' = [job EXCEPT ![j] = x]
          /\ x.status = status /\ x.pc = "none" /\ x.base = job[j].base
          /\ x.burn = job[j].burn /\ x.attempts = job[j].attempts
  BY <1>1, <1>3, StopRow, Zenon
<1>6. JobOK(j, job[j]) /\ job[j].status = "running"  BY <1>1, Zenon DEF JobInv, Running
<1>7. JobOK(j, x)
  <2>1. j \in UserJobs => x.burn \in DOMAIN burns  BY <1>4, <1>6, Zenon DEF JobOK
  <2>2. x.pc \notin AfterBurn /\ x.pc # "receive"  BY <1>4 DEF AfterBurn
  <2> QED  BY <1>4, <2>1, <2>2 DEF JobOK
<1>8. MintOK(x)  BY <1>4 DEF MintOK
<1>9. x.status # "none" /\ x.status # "running"  BY <1>4
<1> QED  BY <1>2, <1>4, <1>7, <1>8, <1>9, JobMoves, Zenon

LEMMA FailedStatusInv ==
    ASSUME TypeOK, NEW j \in Jobs
    PROVE  /\ FailedStatus(j) \in {"queued", "failed"}
           /\ FailedStatus(j) = "queued" => job[j].attempts < MaxAttempts
<1>1. job \in [Jobs -> JobState]  BY Zenon DEF TypeOK
<1>2. job[j].attempts \in Nat  BY <1>1, DepositAssumption DEF JobState
<1> QED  BY <1>2, DepositAssumption DEF FailedStatus

\* A job goes on without touching the chains.
LEMMA GoesOnInv ==
    ASSUME DInv, NEW j \in Jobs,
           \/ claim(j) \/ validateInboundBurnTx(j) \/ pollAttestation(j) \/ sacBalance_before(j)
           \/ mint_again(j) \/ sacBalance_after(j) \/ throws(j) \/ Crash(j)
    PROVE  DInv'
<1>1. TypeOK /\ JobInv  BY Zenon DEF DInv
<1>2. job \in [Jobs -> JobState] /\ recorded \in [Jobs -> Burns \union {None}] /\ balance \in Nat
  BY <1>1, Zenon DEF TypeOK
<1>3. job[j] \in JobState /\ JobOK(j, job[j])  BY <1>1, <1>2, Zenon DEF JobInv
<1>4. ASSUME NEW x \in JobState, Running(j), job' = [job EXCEPT ![j] = x],
             UNCHANGED <<recorded, burns, chain>>, JobOK(j, x),
             x.status = "running" /\ x.base = job[j].base,
             OneRelayer => MintOK(x)
      PROVE  DInv'
  <2>1. job[j].status # "none" => x.status # "none" /\ x.base = job[j].base  BY <1>4
  <2>2. recorded' \in [Jobs -> Burns \union {None}]  BY <1>2, <1>4
  <2>3. UNCHANGED <<burns, chain>>  BY <1>4, Zenon
  <2> QED  BY <1>4, <2>1, <2>2, <2>3, JobMoves, Zenon
<1>5. ASSUME NEW pc \in Steps, At(j, pc)
      PROVE  job[j].status = "running" /\ job[j].pc = pc /\ Running(j)
  BY <1>5, Zenon DEF At, Running
<1>6. CASE claim(j)
  <2> DEFINE pc == IF j \in UserJobs THEN "validate" ELSE "burn"
  <2>1. pc \in Steps /\ (pc = "validate" => j \in UserJobs) /\ pc \in {"validate", "burn"}
    BY DEF Steps
  <2>2. PICK x : x = [job[j] EXCEPT !.status = "running", !.attempts = job[j].attempts + 1,
                                    !.pc = pc]
    OBVIOUS
  <2>3. job' = [job EXCEPT ![j].status = "running", ![j].attempts = @ + 1, ![j].pc = pc]
    BY <1>6, Zenon DEF claim
  <2>4. /\ job[j].status = "queued" /\ UNCHANGED <<recorded, burns, chain>>
        /\ Cardinality({i \in Jobs : Running(i)}) < Relayers
    BY <1>6, Zenon DEF claim
  <2> HIDE DEF pc
  <2>5. job[j].attempts + 1 \in 0..MaxAttempts
    <3>1. job[j].attempts \in 0..MaxAttempts  BY <1>3 DEF JobState
    <3>2. job[j].attempts < MaxAttempts  BY <1>3, <2>4, Zenon DEF JobOK
    <3> QED  BY <3>1, <3>2, DepositAssumption
  <2>6. PICK a \in 0..MaxAttempts : a = job[j].attempts + 1  BY <2>5
  <2>7. PICK y : y = [job[j] EXCEPT !.attempts = a]  OBVIOUS
  <2>8. y \in JobState /\ y.burn = job[j].burn /\ y.base = job[j].base
    BY <1>3, <2>7 DEF JobState
  <2>9. x = Goes(y, "running", pc)  BY <1>3, <2>2, <2>6, <2>7 DEF JobState, Goes
  <2>10. /\ x \in JobState /\ x.status = "running" /\ x.pc = pc /\ x.burn = job[j].burn
         /\ x.base = job[j].base
    <3>1. "running" \in Statuses /\ pc \in Steps \union {"none"}  BY <2>1 DEF Statuses
    <3> QED  BY <2>8, <2>9, <3>1, RowGoes, Zenon
  <2>11. job' = [job EXCEPT ![j] = x]  BY <1>2, <2>2, <2>3
  <2>12. JobOK(j, x)
    <3>1. j \in UserJobs => x.burn \in DOMAIN burns  BY <1>3, <2>4, <2>10 DEF JobOK
    <3>2. x.pc # "none" /\ x.pc # "receive" /\ (x.pc \in AfterBurn => j \in UserJobs)
      BY <2>1, <2>10 DEF AfterBurn
    <3> QED  BY <2>10, <3>1, <3>2 DEF JobOK
  <2>13. MintOK(x)  BY <2>1, <2>10 DEF MintOK
  <2>14. OneRelayer => \A i \in Jobs : ~Running(i)  BY <2>4, OneRuns, Zenon DEF OneRelayer
  <2>15. recorded' \in [Jobs -> Burns \union {None}] /\ UNCHANGED <<burns, chain>>
    BY <1>2, <2>4
  <2>16. job[j].status # "none" => x.status # "none" /\ x.base = job[j].base  BY <2>10
  <2> QED  BY <2>10, <2>11, <2>12, <2>13, <2>14, <2>15, <2>16, JobMoves, Zenon
<1>7. ASSUME NEW pc \in {"attest", "before"}, NEW from \in {"validate", "attest"}, At(j, from),
             Goto(j, pc), UNCHANGED <<recorded, burns, chain>>
      PROVE  DInv'
  <2>1. PICK x : x = [job[j] EXCEPT !.pc = pc]  OBVIOUS
  <2>2. job[j].status = "running" /\ job[j].pc = from /\ Running(j)
    BY <1>7, Zenon DEF At, Running
  <2>3. x = Goes(job[j], "running", pc)  BY <1>3, <2>1, <2>2 DEF JobState, Goes
  <2>4. /\ x \in JobState /\ x.status = "running" /\ x.pc = pc /\ x.burn = job[j].burn
        /\ x.base = job[j].base
    <3>1. "running" \in Statuses /\ pc \in Steps \union {"none"}  BY DEF Statuses, Steps
    <3> QED  BY <1>3, <2>3, <3>1, RowGoes
  <2>5. job' = [job EXCEPT ![j] = x]  BY <1>2, <1>7, <2>1 DEF Goto
  <2>6. JobOK(j, x)
    <3>1. x.burn \in DOMAIN burns  BY <1>3, <2>2, <2>4 DEF JobOK, AfterBurn
    <3> QED  BY <2>4, <3>1 DEF JobOK
  <2>7. MintOK(x)  BY <2>4 DEF MintOK
  <2> QED  BY <1>4, <1>7, <2>2, <2>4, <2>5, <2>6, <2>7, Zenon
<1>8. CASE validateInboundBurnTx(j)
  <2>1. /\ At(j, "validate") /\ UNCHANGED <<recorded, burns, chain>>
        /\ IF j \in Witnessed THEN Goto(j, "attest") ELSE Stop(j, "ready")
    BY <1>8, Zenon DEF validateInboundBurnTx
  <2>2. CASE j \in Witnessed  BY <1>7, <2>1, <2>2
  <2>3. CASE j \notin Witnessed
    <3>1. Running(j) /\ Stop(j, "ready")  BY <2>1, <2>3, Zenon DEF At
    <3>2. "ready" \in {"queued", "failed", "ready", "lost"} /\ "ready" # "queued"  OBVIOUS
    <3> QED  BY <2>1, <2>3, <3>1, <3>2, StopInv, Zenon
  <2> QED  BY <2>2, <2>3
<1>9. CASE pollAttestation(j)  BY <1>7, <1>9 DEF pollAttestation
<1>10. CASE sacBalance_before(j)
  <2>1. PICK seen \in {balance} \union (IF EmptyReads THEN {0} ELSE {}) :
            /\ At(j, "before")
            /\ job' = [job EXCEPT ![j].before = seen, ![j].pc = "mint"]
            /\ UNCHANGED <<recorded, burns, chain>>
    BY <1>10, Zenon DEF sacBalance_before
  <2>2. seen \in Int /\ (OneRelayer => seen = balance)  BY <1>2 DEF OneRelayer
  <2>3. PICK x : x = [job[j] EXCEPT !.before = seen, !.pc = "mint"]  OBVIOUS
  <2>4. job[j].status = "running" /\ job[j].pc = "before" /\ Running(j)
    BY <2>1, Zenon DEF At, Running
  <2>5. /\ x \in JobState /\ x.status = "running" /\ x.pc = "mint" /\ x.burn = job[j].burn
        /\ x.base = job[j].base /\ x.before = seen
    BY <1>3, <2>2, <2>3, <2>4 DEF JobState, Steps
  <2>6. job' = [job EXCEPT ![j] = x]  BY <1>2, <2>1, <2>3
  <2>7. JobOK(j, x)
    <3>1. x.burn \in DOMAIN burns  BY <1>3, <2>4, <2>5 DEF JobOK, AfterBurn
    <3> QED  BY <2>5, <3>1 DEF JobOK
  <2>8. OneRelayer => MintOK(x)  BY <1>2, <2>2, <2>5 DEF MintOK
  <2> QED  BY <1>4, <2>1, <2>4, <2>5, <2>6, <2>7, <2>8, Zenon
<1>11. CASE sacBalance_after(j)
  <2>1. PICK d : d = balance - job[j].before  OBVIOUS
  <2>2. /\ At(j, "after") /\ DeltaAccepted(j, d) /\ ProofExists(j, d)
        /\ job' = [job EXCEPT ![j].amount7 = d, ![j].pc = "receive"]
        /\ UNCHANGED <<recorded, burns, chain>>
    BY <1>11, <2>1, Zenon DEF sacBalance_after
  <2>3. job[j].before \in Int /\ d \in Int  BY <1>2, <1>3, <2>1 DEF JobState
  <2>4. PICK x : x = [job[j] EXCEPT !.amount7 = d, !.pc = "receive"]  OBVIOUS
  <2>5. job[j].status = "running" /\ job[j].pc = "after" /\ Running(j)
    BY <2>2, Zenon DEF At, Running
  <2>6. /\ x \in JobState /\ x.status = "running" /\ x.pc = "receive" /\ x.burn = job[j].burn
        /\ x.base = job[j].base /\ x.amount7 = d
    BY <1>3, <2>3, <2>4, <2>5 DEF JobState, Steps
  <2>7. job' = [job EXCEPT ![j] = x]  BY <1>2, <2>2, <2>4
  <2>8. x.burn \in DOMAIN burns  BY <1>3, <2>5, <2>6 DEF JobOK, AfterBurn
  <2>9. JobOK(j, x)
    <3>1. 0 < d /\ Value[Note[j]] <= d  BY <2>2, <2>3 DEF DeltaAccepted, ProofExists
    <3> QED  BY <2>6, <2>8, <3>1 DEF JobOK
  <2>10. ASSUME OneRelayer
         PROVE  MintOK(x)
    <3>1. MintOK(job[j])  BY <2>10, Zenon DEF DInv, MintInv
    <3>2. burns[x.burn].minted /\ balance <= job[j].before + Minted7(x.burn)
      BY <2>5, <2>6, <3>1 DEF MintOK
    <3>3. Minted7(x.burn) \in Int
      <4>1. burns[x.burn].amount \in Int /\ burns[x.burn].fee \in Int  BY <1>1, <2>8, BurnsTyped
      <4> QED  BY <4>1 DEF Minted7, usdc6ToStellar7
    <3>4. d <= Minted7(x.burn)  BY <1>2, <2>1, <2>3, <3>2, <3>3
    <3> QED  BY <2>6, <3>2, <3>4 DEF MintOK
  <2> QED  BY <1>4, <2>2, <2>5, <2>6, <2>7, <2>9, <2>10, Zenon
<1>12. CASE mint_again(j) \/ throws(j)
  <2>1. Running(j) /\ Stop(j, FailedStatus(j)) /\ UNCHANGED <<recorded, burns, chain>>
    BY <1>12, Zenon DEF mint_again, throws, MayThrow, At
  <2>2. PICK st : st = FailedStatus(j)  OBVIOUS
  <2>3. /\ st \in {"queued", "failed", "ready", "lost"} /\ st # "ready"
        /\ st = "queued" => job[j].attempts < MaxAttempts
    BY <1>1, <2>2, FailedStatusInv
  <2> QED  BY <2>1, <2>2, <2>3, StopInv, Zenon
<1>13. CASE Crash(j)
  <2>1. Running(j) /\ Stop(j, "lost") /\ UNCHANGED <<recorded, burns, chain>>
    BY <1>13, Zenon DEF Crash
  <2>2. "lost" \in {"queued", "failed", "ready", "lost"} /\ "lost" # "queued" /\ "lost" # "ready"
    OBVIOUS
  <2> QED  BY <2>1, <2>2, StopInv, Zenon
<1> QED  BY <1>6, <1>8, <1>9, <1>10, <1>11, <1>12, <1>13, Zenon

\* The API's routes: a job enters the queue with the leaves of that moment.
LEMMA EnqueueInv ==
    ASSUME DInv, NEW j \in Jobs,
           deposit_step(j) \/ \E b \in Burns : burn_submitted(j, b)
    PROVE  DInv'
<1>1. TypeOK /\ JobInv  BY Zenon DEF DInv
<1>2. /\ job \in [Jobs -> JobState] /\ recorded \in [Jobs -> Burns \union {None}]
      /\ leaves \in Seq(Notes)
  BY <1>1, Zenon DEF TypeOK
<1>3. job[j] \in JobState /\ JobOK(j, job[j])  BY <1>1, <1>2, Zenon DEF JobInv
<1> DEFINE Taken(b) == /\ j \in UserJobs => b \in DOMAIN burns
                       /\ Enqueue(j, b)
                       /\ recorded' \in [Jobs -> Burns \union {None}]
                       /\ UNCHANGED <<burns, chain>>
<1>4. PICK b \in Burns \union {None} : Taken(b)
  <2>1. CASE deposit_step(j)
    <3>1. None \in Burns \union {None} /\ j \notin UserJobs /\ Enqueue(j, None)
          /\ UNCHANGED <<recorded, burns, chain>>
      BY <2>1, Zenon DEF deposit_step
    <3> QED  BY <1>2, <3>1, Zenon
  <2>2. ASSUME NEW b \in Burns, burn_submitted(j, b)
        PROVE  \E c \in Burns \union {None} : Taken(c)
    <3>1. /\ b \in DOMAIN burns /\ Enqueue(j, b) /\ recorded' = [recorded EXCEPT ![j] = b]
          /\ UNCHANGED <<burns, chain>>
      BY <2>2, Zenon DEF burn_submitted
    <3>2. recorded' \in [Jobs -> Burns \union {None}]  BY <1>2, <3>1
    <3> QED  BY <3>1, <3>2, Zenon
  <2> QED  BY <2>1, <2>2, Zenon
<1>5. CASE job[j].status = "none"
  <2>1. PICK x : x = [NoJob EXCEPT !.status = "queued", !.burn = b, !.base = leaves]  OBVIOUS
  <2>2. /\ x \in JobState /\ x.status = "queued" /\ x.pc = "none" /\ x.burn = b
        /\ x.attempts = 0
    <3>1. x = [status |-> "queued", attempts |-> 0, pc |-> "none", burn |-> b, base |-> leaves,
               before |-> 0, amount7 |-> 0]
      BY <2>1 DEF NoJob
    <3>2. 0 \in 0..MaxAttempts /\ 0 \in Int  BY DepositAssumption
    <3> QED  BY <1>2, <3>1, <3>2 DEF JobState
  <2>3. job' = [job EXCEPT ![j] = x]  BY <1>4, <1>5, <2>1, Zenon DEF Enqueue
  <2>4. JobOK(j, x)
    <3>1. x.attempts < MaxAttempts  BY <2>2, DepositAssumption
    <3>2. x.pc \notin AfterBurn  BY <2>2 DEF AfterBurn
    <3> QED  BY <1>4, <2>2, <3>1, <3>2 DEF JobOK
  <2>5. MintOK(x) /\ x.status # "running"  BY <2>2 DEF MintOK
  <2> QED  BY <1>4, <1>5, <2>2, <2>3, <2>4, <2>5, JobMoves, Zenon
<1>6. CASE job[j].status # "none"
  <2>1. PICK x : x = job[j]  OBVIOUS
  <2>2. job' = [job EXCEPT ![j] = x]  BY <1>2, <1>4, <1>6, <2>1 DEF Enqueue
  <2>3. OneRelayer => MintOK(job[j])  BY Zenon DEF DInv, MintInv
  <2> QED  BY <1>3, <1>4, <2>1, <2>2, <2>3, JobMoves, Zenon DEF Running
<1> QED  BY <1>5, <1>6

-----------------------------------------------------------------------------
(* Burns *)

LEMMA NewBurn ==
    ASSUME TypeOK, BurnInv, NEW j \in Jobs, depositForBurnWithHook(Amount6[j])
    PROVE  /\ burns' \in Seq(Burn) /\ Len(burns') <= MaxBurns /\ BurnsGrow
           /\ Len(burns) + 1 \in DOMAIN burns' /\ Len(burns) + 1 \in Burns
           /\ \A b \in DOMAIN burns' : burns'[b].fee <= burns'[b].amount
<1>1. burns \in Seq(Burn) /\ Amount6[j] \in Nat  BY DepositAssumption DEF TypeOK
<1>2. PICK fee \in 0..MaxFee(Amount6[j]) :
          /\ Len(burns) < MaxBurns
          /\ fee <= Amount6[j]
          /\ burns' = Append(burns, [amount |-> Amount6[j], fee |-> fee, attested |-> FALSE,
                                     minted |-> FALSE])
  BY Zenon DEF depositForBurnWithHook
<1>3. PICK x : x = [amount |-> Amount6[j], fee |-> fee, attested |-> FALSE, minted |-> FALSE]
  OBVIOUS
<1>4. x \in Burn /\ x.fee <= x.amount  BY <1>1, <1>2, <1>3 DEF Burn
<1>5. burns' = Append(burns, x)  BY <1>2, <1>3, Zenon
<1>6. /\ burns' \in Seq(Burn) /\ Len(burns') = Len(burns) + 1
      /\ DOMAIN burns' = DOMAIN burns \union {Len(burns) + 1}
      /\ burns'[Len(burns) + 1] = x /\ \A b \in DOMAIN burns : burns'[b] = burns[b]
  BY <1>1, <1>4, <1>5, SeqAdd
<1>7. Len(burns) \in Nat  BY <1>1
<1>8. BurnsGrow  BY <1>6, Zenon DEF BurnsGrow
<1>9. \A b \in DOMAIN burns' : burns'[b].fee <= burns'[b].amount  BY <1>4, <1>6 DEF BurnInv
<1> QED  BY <1>2, <1>6, <1>7, <1>8, <1>9, DepositAssumption DEF Burns

\* Steps that change no job and neither tree nor credits: what burns there were
\* stay, and the balance does not grow.
LEMMA OthersMove ==
    ASSUME DInv, TypeOK', BurnsGrow, balance' <= balance, UNCHANGED <<job, leaves, credited>>,
           \A b \in DOMAIN burns' : burns'[b].fee <= burns'[b].amount
    PROVE  DInv'
<1>1. TypeOK /\ JobInv /\ BurnInv  BY Zenon DEF DInv
<1>2. Range(leaves) \subseteq Range(leaves') /\ \A b \in Burns : credited[b] <= credited'[b]
  <2>1. credited \in [Burns -> Nat] /\ credited' = credited  BY <1>1 DEF TypeOK
  <2> QED  BY <2>1
<1>3. job \in [Jobs -> JobState]  BY <1>1, Zenon DEF TypeOK
<1>4. \A j \in Jobs : job[j] \in JobState /\ JobOK(j, job[j])  BY <1>1, <1>3, Zenon DEF JobInv
<1>5. \A j \in Jobs : JobOK(j, job[j])' /\ (MintOK(job[j]) => MintOK(job[j])')
  <2> SUFFICES ASSUME NEW j \in Jobs
               PROVE  JobOK(j, job[j])' /\ (MintOK(job[j]) => MintOK(job[j])')
    OBVIOUS
  <2>1. PICK x : x = job[j]  OBVIOUS
  <2>2. x = job'[j] /\ x \in JobState /\ JobOK(j, x)  BY <1>4, <2>1, Zenon
  <2>3. JobOK(j, x)' /\ (MintOK(x) => MintOK(x)')
    BY <1>1, <1>2, <2>2, RowsStay, Zenon
  <2> QED  BY <2>1, <2>2, <2>3, Zenon
<1>6. JobInv'  BY <1>5, Zenon DEF JobInv
<1>7. BurnInv'  BY <1>1 DEF BurnInv, BurnsGrow
<1>8. OwnNotes => LeafInv' /\ NoteRegisteredOnce'
  BY Zenon DEF DInv, LeafInv, NoteRegisteredOnce
<1>9. ASSUME OneRelayer
      PROVE  MintInv'
  <2>1. MintInv  BY <1>9, Zenon DEF DInv
  <2>2. \A j \in Jobs : MintOK(job[j])'  BY <1>5, <2>1, Zenon DEF MintInv
  <2>3. ASSUME NEW b \in Burns, credited'[b] > 0
        PROVE  burns'[b].minted /\ credited'[b] <= Minted7(b)'
    <3>1. b \in DOMAIN burns /\ burns[b].minted /\ credited[b] <= Minted7(b)
      BY <1>1, <2>1, <2>3 DEF BurnInv, MintInv, CreditBackedByMint
    <3>2. Minted7(b)' = Minted7(b)  BY <3>1 DEF Minted7, BurnsGrow, usdc6ToStellar7
    <3> QED  BY <3>1, <3>2, Zenon DEF BurnsGrow
  <2>4. CreditBackedByMint'  BY <2>3, Zenon DEF CreditBackedByMint
  <2> QED  BY <2>1, <2>2, <2>4, Zenon DEF MintInv, Running
<1> QED  BY <1>6, <1>7, <1>8, <1>9, Zenon DEF DInv

LEMMA OthersInv ==
    ASSUME DInv,
           \/ \E j \in Jobs : user_burns(j)
           \/ \E b \in Burns : circle_attests(b)
           \/ \E n \in Notes : withdraw(n)
    PROVE  DInv'
<1>1. TypeOK /\ BurnInv  BY Zenon DEF DInv
<1>2. /\ burns \in Seq(Burn) /\ Len(burns) <= MaxBurns /\ balance \in Nat /\ supply \in Nat
      /\ spent \subseteq Notes /\ Len(burns) \in Nat
  BY <1>1 DEF TypeOK
<1>3. ASSUME NEW j \in Jobs, user_burns(j)
      PROVE  DInv'
  <2>1. /\ depositForBurnWithHook(Amount6[j])
        /\ UNCHANGED <<recorded, job, balance, leaves, credited, supply, spent>>
    BY <1>3, Zenon DEF user_burns, chain
  <2>2. /\ burns' \in Seq(Burn) /\ Len(burns') <= MaxBurns /\ BurnsGrow
        /\ \A b \in DOMAIN burns' : burns'[b].fee <= burns'[b].amount
    BY <1>1, <2>1, NewBurn, Zenon
  <2>3. TypeOK'  BY <1>1, <2>1, <2>2, Zenon DEF TypeOK
  <2>4. balance' <= balance  BY <1>2, <2>1
  <2> QED  BY <2>1, <2>2, <2>3, <2>4, OthersMove, Zenon
<1>4. ASSUME NEW b \in Burns, circle_attests(b)
      PROVE  DInv'
  <2>1. /\ b \in DOMAIN burns /\ burns' = [burns EXCEPT ![b].attested = TRUE]
        /\ UNCHANGED <<recorded, job, balance, leaves, credited, supply, spent>>
    BY <1>4, Zenon DEF circle_attests, chain
  <2>2. burns[b] \in Burn /\ DOMAIN burns = 1..Len(burns)  BY <1>2, <2>1
  <2>3. PICK x : x = [burns[b] EXCEPT !.attested = TRUE]  OBVIOUS
  <2>4. /\ x \in Burn /\ x.amount = burns[b].amount /\ x.fee = burns[b].fee
        /\ x.minted = burns[b].minted
    BY <2>2, <2>3 DEF Burn
  <2>5. burns' = [burns EXCEPT ![b] = x]  BY <2>1, <2>3
  <2>6. /\ burns' \in Seq(Burn) /\ Len(burns') = Len(burns) /\ DOMAIN burns' = DOMAIN burns
        /\ burns'[b] = x /\ \A c \in DOMAIN burns : c # b => burns'[c] = burns[c]
    <3>1. burns \in Seq(Burn) /\ b \in DOMAIN burns /\ x \in Burn  BY <1>2, <2>1, <2>4, Zenon
    <3> QED  BY <2>5, <3>1, SeqWrite
  <2>7. BurnsGrow /\ \A c \in DOMAIN burns' : burns'[c].fee <= burns'[c].amount
    BY <1>1, <2>4, <2>6, Zenon DEF BurnsGrow, BurnInv
  <2>8. Len(burns') <= MaxBurns /\ balance' <= balance  BY <1>2, <2>1, <2>6
  <2>9. TypeOK'  BY <1>1, <2>1, <2>6, <2>8, Zenon DEF TypeOK
  <2> QED  BY <2>1, <2>7, <2>8, <2>9, OthersMove, Zenon
<1>5. ASSUME NEW n \in Notes, withdraw(n)
      PROVE  DInv'
  <2>1. /\ Value[n] \in 1..balance /\ Value[n] <= supply /\ balance' = balance - Value[n]
        /\ supply' = supply - Value[n] /\ spent' = spent \union {n}
        /\ UNCHANGED <<recorded, job, burns, leaves, credited>>
    BY <1>5, Zenon DEF withdraw
  <2>2. balance' \in Nat /\ balance' <= balance /\ supply' \in Nat /\ spent' \subseteq Notes
    BY <1>2, <2>1
  <2>3. TypeOK'  BY <1>1, <2>1, <2>2, Zenon DEF TypeOK
  <2>4. BurnsGrow /\ \A b \in DOMAIN burns' : burns'[b].fee <= burns'[b].amount
    BY <1>1, <2>1, Zenon DEF BurnsGrow, BurnInv
  <2> QED  BY <2>1, <2>2, <2>3, <2>4, OthersMove, Zenon
<1> QED  BY <1>3, <1>4, <1>5, Zenon

\* The two calls of a running job that make or use a burn
LEMMA BurnMoves ==
    ASSUME DInv, NEW j \in Jobs, Running(j), NEW x \in JobState,
           job' = [job EXCEPT ![j] = x],
           UNCHANGED <<recorded, leaves, credited, supply, spent>>,
           burns' \in Seq(Burn), Len(burns') <= MaxBurns, BurnsGrow, balance' \in Nat,
           \A b \in DOMAIN burns' : burns'[b].fee <= burns'[b].amount,
           JobOK(j, x)', x.status # "none", x.base = job[j].base,
           OneRelayer => MintOK(x)'
    PROVE  DInv'
<1>1. TypeOK /\ JobInv /\ BurnInv  BY Zenon DEF DInv
<1>2. job \in [Jobs -> JobState] /\ credited \in [Burns -> Nat]  BY <1>1, Zenon DEF TypeOK
<1>3. /\ job' \in [Jobs -> JobState] /\ job'[j] = x
      /\ \A i \in Jobs : i # j => job'[i] = job[i]
  BY <1>2
<1>4. TypeOK'  BY <1>1, <1>3, Zenon DEF TypeOK
<1>5. Range(leaves) \subseteq Range(leaves') /\ \A b \in Burns : credited[b] <= credited'[b]
  <2>1. credited' = credited /\ leaves' = leaves  OBVIOUS
  <2> QED  BY <1>2, <2>1
<1>6. JobInv'
  <2>1. ASSUME NEW i \in Jobs, i # j
        PROVE  JobOK(i, job[i])'
    <3>1. PICK y : y = job[i]  OBVIOUS
    <3>2. y = job'[i] /\ y \in JobState /\ JobOK(i, y)
      BY <1>1, <1>2, <1>3, <2>1, <3>1, Zenon DEF JobInv
    <3>3. JobOK(i, y)'  BY <1>1, <1>4, <1>5, <3>2, RowsStay, Zenon
    <3> QED  BY <3>2, <3>3, Zenon
  <2> QED  BY <1>3, <2>1, Zenon DEF JobInv
<1>7. BurnInv'  BY <1>1 DEF BurnInv, BurnsGrow
<1>8. ASSUME OwnNotes
      PROVE  LeafInv' /\ NoteRegisteredOnce'
  <2>1. LeafInv /\ NoteRegisteredOnce /\ leaves' = leaves  BY <1>8, Zenon DEF DInv
  <2>2. \A p \in DOMAIN leaves, i \in Jobs :
           leaves[p] = Note[i] => job'[i].status # "none" /\ Len(job'[i].base) < p
    BY <1>3, <2>1, Zenon DEF LeafInv
  <2> QED  BY <2>1, <2>2, Zenon DEF LeafInv, NoteRegisteredOnce
<1>9. ASSUME OneRelayer
      PROVE  MintInv'
  <2>1. MintInv  BY <1>9, Zenon DEF DInv
  <2>2. \A i \in Jobs : i # j => job[i].status # "running"  BY <2>1, Zenon DEF MintInv, Running
  <2>3. \A i \in Jobs : i # j => job'[i].pc = "none"
    BY <1>1, <1>3, <2>2, Zenon DEF JobInv, JobOK
  <2>4. \A i \in Jobs : MintOK(job[i])'
    <3>1. \A y : y.pc = "none" => MintOK(y)'  BY DEF MintOK
    <3> QED  BY <1>3, <1>9, <2>3, <3>1, Zenon
  <2>5. \A i, k \in Jobs : Running(i)' /\ Running(k)' => i = k
    BY <1>3, <2>2, Zenon DEF Running
  <2>6. ASSUME NEW b \in Burns, credited'[b] > 0
        PROVE  burns'[b].minted /\ credited'[b] <= Minted7(b)'
    <3>1. b \in DOMAIN burns /\ burns[b].minted /\ credited[b] <= Minted7(b)
      BY <1>1, <2>1, <2>6 DEF BurnInv, MintInv, CreditBackedByMint
    <3>2. Minted7(b)' = Minted7(b)  BY <3>1 DEF Minted7, BurnsGrow, usdc6ToStellar7
    <3> QED  BY <3>1, <3>2, Zenon DEF BurnsGrow
  <2>7. CreditBackedByMint'  BY <2>6, Zenon DEF CreditBackedByMint
  <2> QED  BY <2>4, <2>5, <2>7, Zenon DEF MintInv
<1> QED  BY <1>4, <1>6, <1>7, <1>8, <1>9, Zenon DEF DInv

LEMMA OperatorBurnInv ==
    ASSUME DInv, NEW j \in Jobs, operator_burn(j)
    PROVE  DInv'
<1>1. TypeOK /\ JobInv /\ BurnInv  BY Zenon DEF DInv
<1>2. job \in [Jobs -> JobState] /\ balance \in Nat  BY <1>1, Zenon DEF TypeOK
<1>3. job[j] \in JobState  BY <1>2
<1>4. /\ At(j, "burn") /\ depositForBurnWithHook(Amount6[j])
      /\ job' = [job EXCEPT ![j].burn = Len(burns) + 1, ![j].pc = "attest"]
      /\ UNCHANGED <<recorded, balance, leaves, credited, supply, spent>>
  BY Zenon DEF operator_burn, chain
<1>5. Running(j) /\ job[j].status = "running"  BY <1>4, Zenon DEF At, Running
<1>6. /\ burns' \in Seq(Burn) /\ Len(burns') <= MaxBurns /\ BurnsGrow
      /\ Len(burns) + 1 \in DOMAIN burns' /\ Len(burns) + 1 \in Burns
      /\ \A b \in DOMAIN burns' : burns'[b].fee <= burns'[b].amount
  BY <1>1, <1>4, NewBurn, Zenon
<1>7. PICK b : b = Len(burns) + 1  OBVIOUS
<1>8. PICK x : x = [job[j] EXCEPT !.burn = b, !.pc = "attest"]  OBVIOUS
<1>9. /\ x \in JobState /\ x.burn = b /\ x.pc = "attest" /\ x.status = "running"
      /\ x.base = job[j].base
  BY <1>3, <1>5, <1>6, <1>7, <1>8 DEF JobState, Steps
<1>10. job' = [job EXCEPT ![j] = x]  BY <1>2, <1>4, <1>7, <1>8
<1>11. JobOK(j, x)'  BY <1>6, <1>7, <1>9 DEF JobOK
<1>12. MintOK(x)'  BY <1>9 DEF MintOK
<1>13. x.status # "none" /\ balance' \in Nat  BY <1>2, <1>4, <1>9
<1> QED  BY <1>4, <1>5, <1>6, <1>9, <1>10, <1>11, <1>12, <1>13, BurnMoves, Zenon

\* The forwarder uses the message: the balance grows by what the burn is worth.
LEMMA MintForwardInv ==
    ASSUME DInv, NEW j \in Jobs, NEW next \in {"after", "none"}, mint_and_forward(j, next)
    PROVE  DInv'
<1>1. TypeOK /\ JobInv /\ BurnInv  BY Zenon DEF DInv
<1>2. /\ job \in [Jobs -> JobState] /\ balance \in Nat /\ burns \in Seq(Burn)
      /\ Len(burns) <= MaxBurns
  BY <1>1, Zenon DEF TypeOK
<1>3. job[j] \in JobState /\ JobOK(j, job[j])  BY <1>1, <1>2, Zenon DEF JobInv
<1>4. PICK b : b = job[j].burn  OBVIOUS
<1>5. PICK st, be : /\ st = IF next = "none" THEN FailedStatus(j) ELSE job[j].status
                    /\ be = IF next = "none" THEN 0 ELSE job[j].before
  OBVIOUS
<1>6. /\ At(j, "mint") /\ burns' = [burns EXCEPT ![b].minted = TRUE]
      /\ balance' = balance + Minted7(b)
      /\ job' = [job EXCEPT ![j].pc = next,
                            ![j].status = IF next = "none" THEN FailedStatus(j) ELSE @,
                            ![j].before = IF next = "none" THEN 0 ELSE @]
      /\ UNCHANGED <<recorded, leaves, credited, supply, spent>>
  BY <1>4, Zenon DEF mint_and_forward
<1>7. Running(j) /\ job[j].status = "running" /\ job[j].pc = "mint"
  BY <1>6, Zenon DEF At, Running
<1>8. b \in DOMAIN burns  BY <1>3, <1>4, <1>7 DEF JobOK, AfterBurn
<1>9. burns[b] \in Burn /\ burns[b].fee <= burns[b].amount  BY <1>1, <1>2, <1>8 DEF BurnInv
<1>10. PICK y : y = [burns[b] EXCEPT !.minted = TRUE]  OBVIOUS
<1>11. y \in Burn /\ y.amount = burns[b].amount /\ y.fee = burns[b].fee /\ y.minted
  BY <1>9, <1>10 DEF Burn
<1>12. burns' = [burns EXCEPT ![b] = y]  BY <1>6, <1>10
<1>13. /\ burns' \in Seq(Burn) /\ Len(burns') = Len(burns) /\ DOMAIN burns' = DOMAIN burns
       /\ burns'[b] = y /\ \A c \in DOMAIN burns : c # b => burns'[c] = burns[c]
  BY <1>2, <1>8, <1>11, <1>12, SeqWrite
<1>14. BurnsGrow /\ \A c \in DOMAIN burns' : burns'[c].fee <= burns'[c].amount
  BY <1>1, <1>11, <1>13, Zenon DEF BurnsGrow, BurnInv
<1>15. Minted7(b) \in Nat /\ Minted7(b)' = Minted7(b) /\ balance' \in Nat
  <2>1. burns[b].amount \in Nat /\ burns[b].fee \in Nat  BY <1>9 DEF Burn
  <2>2. Minted7(b) \in Nat  BY <1>9, <2>1 DEF Minted7, usdc6ToStellar7
  <2>3. Minted7(b)' = Minted7(b)  BY <1>11, <1>13, Zenon DEF Minted7
  <2> QED  BY <1>2, <1>6, <2>2, <2>3
<1>16. /\ st \in Statuses /\ st # "none" /\ be \in Int /\ (st = "running" <=> next # "none")
       /\ st = "queued" => job[j].attempts < MaxAttempts
       /\ st # "ready" /\ (next # "none" => be = job[j].before)
  <2>1. job[j].before \in Int  BY <1>3 DEF JobState
  <2> QED  BY <1>1, <1>5, <1>7, <2>1, FailedStatusInv DEF Statuses
<1>17. PICK x : x = Reads(Goes(job[j], st, next), be, job[j].amount7)  OBVIOUS
<1>18. /\ x \in JobState /\ x.status = st /\ x.pc = next /\ x.before = be
       /\ x.base = job[j].base /\ x.burn = b /\ x.attempts = job[j].attempts
  <2>1. next \in Steps \union {"none"} /\ job[j].amount7 \in Int  BY <1>3 DEF Steps, JobState
  <2>2. PICK z : z = Goes(job[j], st, next)  OBVIOUS
  <2>3. /\ z \in JobState /\ z.status = st /\ z.pc = next /\ z.base = job[j].base
        /\ z.burn = job[j].burn /\ z.attempts = job[j].attempts
    BY <1>3, <1>16, <2>1, <2>2, RowGoes
  <2>4. PICK am \in Int : am = job[j].amount7  BY <2>1
  <2>5. x = Reads(z, be, am)  BY <1>17, <2>2, <2>4, Zenon
  <2> QED  BY <1>4, <1>16, <2>3, <2>5, RowReads
<1>19. job' = [job EXCEPT ![j] = x]
  <2>1. job' = [job EXCEPT ![j].pc = next, ![j].status = st, ![j].before = be]
    <3>1. job' = [job EXCEPT ![j] = [job[j] EXCEPT
                     !.pc = next,
                     !.status = IF next = "none" THEN FailedStatus(j) ELSE job[j].status,
                     !.before = IF next = "none" THEN 0 ELSE job[j].before]]
      BY <1>2, <1>3, <1>6 DEF JobState
    <3> QED  BY <1>2, <1>3, <1>5, <3>1 DEF JobState
  <2>2. x = [job[j] EXCEPT !.pc = next, !.status = st, !.before = be]
    BY <1>3, <1>17 DEF Reads, Goes, JobState
  <2> QED  BY <1>2, <2>1, <2>2
<1>20. JobOK(j, x)'
  <2>1. x.burn \in DOMAIN burns'  BY <1>8, <1>13, <1>18
  <2> QED  BY <1>16, <1>18, <2>1 DEF JobOK
<1>21. ASSUME OneRelayer
       PROVE  MintOK(x)'
  <2>1. balance <= job[j].before  BY <1>7, <1>21, Zenon DEF DInv, MintInv, MintOK
  <2>2. ASSUME next = "after"
        PROVE  burns'[x.burn].minted /\ balance' <= x.before + Minted7(x.burn)'
    <3>1. x.before = job[j].before /\ x.before \in Int  BY <1>16, <1>18, <2>2
    <3>2. balance' <= x.before + Minted7(b)'  BY <1>2, <1>6, <1>15, <2>1, <3>1
    <3> QED  BY <1>11, <1>13, <1>18, <3>2, Zenon
  <2> QED  BY <1>18, <2>2 DEF MintOK
<1>22. Len(burns') <= MaxBurns  BY <1>2, <1>13
<1> QED
  BY <1>6, <1>7, <1>13, <1>14, <1>15, <1>16, <1>18, <1>19, <1>20, <1>21, <1>22, BurnMoves, Zenon

\* The registration: the payload's root matches, so the note is new to the tree.
LEMMA ReceiveInv ==
    ASSUME DInv, NEW j \in Jobs, NEW status \in {"ready", "queued", "failed"},
           receive_cctp_deposit(j, status),
           status = "queued" => job[j].attempts < MaxAttempts
    PROVE  DInv'
<1> DEFINE n == Len(leaves) + 1
<1>1. TypeOK /\ JobInv /\ BurnInv  BY Zenon DEF DInv
<1>2. /\ job \in [Jobs -> JobState] /\ leaves \in Seq(Notes) /\ credited \in [Burns -> Nat]
      /\ supply \in Nat
  BY <1>1, Zenon DEF TypeOK
<1>3. job[j] \in JobState /\ JobOK(j, job[j])  BY <1>1, <1>2, Zenon DEF JobInv
<1>4. PICK b, am : b = job[j].burn /\ am = job[j].amount7  OBVIOUS
<1>5. /\ At(j, "receive") /\ credited[b] = 0 /\ RootMatches(j)
      /\ leaves' = Append(leaves, Note[j]) /\ credited' = [credited EXCEPT ![b] = am]
      /\ supply' = supply + am /\ Stop(j, status)
      /\ UNCHANGED <<recorded, burns, balance, spent>>
  BY <1>4, Zenon DEF receive_cctp_deposit
<1>6. Running(j) /\ job[j].status = "running" /\ job[j].pc = "receive"
  BY <1>5, Zenon DEF At, Running
<1>7. b \in DOMAIN burns /\ 0 < am /\ Value[Note[j]] <= am
  BY <1>3, <1>4, <1>6 DEF JobOK, AfterBurn
<1>8. b \in Burns /\ am \in Nat
  <2>1. am \in Int  BY <1>3, <1>4 DEF JobState
  <2> QED  BY <1>1, <1>7, <2>1, BurnsTyped
<1>9. /\ Note[j] \in Notes /\ leaves' \in Seq(Notes) /\ DOMAIN leaves' = DOMAIN leaves \union {n}
      /\ n \notin DOMAIN leaves /\ leaves'[n] = Note[j]
      /\ \A p \in DOMAIN leaves : leaves'[p] = leaves[p]
  <2>1. Note[j] \in Notes  BY DepositAssumption
  <2> QED  BY <1>2, <1>5, <2>1, SeqAdd
<1>10. /\ credited' \in [Burns -> Nat] /\ credited'[b] = am
       /\ \A c \in Burns : c # b => credited'[c] = credited[c]
  <2>1. credited' = [credited EXCEPT ![b] = am]  BY <1>5, Zenon
  <2>2. credited \in [Burns -> Nat]  BY <1>2, Zenon
  <2> QED  BY <1>8, <2>1, <2>2
<1>11. status \in Statuses /\ status # "none" /\ status # "running"  BY DEF Statuses
<1>12. PICK x \in JobState :
           /\ job' = [job EXCEPT ![j] = x]
           /\ x.status = status /\ x.pc = "none" /\ x.base = job[j].base
           /\ x.burn = b /\ x.attempts = job[j].attempts
  <2>1. \E x \in JobState :
           /\ job' = [job EXCEPT ![j] = x]
           /\ x.status = status /\ x.pc = "none" /\ x.base = job[j].base
           /\ x.burn = job[j].burn /\ x.attempts = job[j].attempts
    BY <1>1, <1>5, <1>11, StopRow, Zenon
  <2> QED  BY <1>4, <2>1
<1>13. /\ job' \in [Jobs -> JobState] /\ job'[j] = x
       /\ \A i \in Jobs : i # j => job'[i] = job[i]
  BY <1>2, <1>12
<1>14. TypeOK'
  <2>1. supply' \in Nat  BY <1>2, <1>5, <1>8
  <2> QED  BY <1>1, <1>5, <1>9, <1>10, <1>13, <2>1, Zenon DEF TypeOK
<1>15. /\ BurnsGrow /\ Range(leaves) \subseteq Range(leaves') /\ Note[j] \in Range(leaves')
       /\ \A c \in Burns : credited[c] <= credited'[c]
  <2>1. BurnsGrow  BY <1>5, Zenon DEF BurnsGrow
  <2>2. Range(leaves) \subseteq Range(leaves') /\ Note[j] \in Range(leaves')
    BY <1>9, Zenon DEF Range
  <2>3. \A c \in Burns : credited[c] <= credited'[c]  BY <1>2, <1>5, <1>8, <1>10
  <2> QED  BY <2>1, <2>2, <2>3
<1>16. JobInv'
  <2>1. ASSUME NEW i \in Jobs, i # j
        PROVE  JobOK(i, job[i])'
    <3>1. PICK y : y = job[i]  OBVIOUS
    <3>2. y = job'[i] /\ y \in JobState /\ JobOK(i, y)
      BY <1>1, <1>2, <1>13, <2>1, <3>1, Zenon DEF JobInv
    <3>3. JobOK(i, y)'  BY <1>1, <1>14, <1>15, <3>2, RowsStay, Zenon
    <3> QED  BY <3>2, <3>3, Zenon
  <2>2. JobOK(j, x)'
    <3>1. credited'[x.burn] >= Value[Note[j]]
      BY <1>7, <1>8, <1>10, <1>12, DepositAssumption
    <3>2. x.burn \in DOMAIN burns'  BY <1>5, <1>7, <1>12, Zenon
    <3>3. x.pc # "receive" /\ x.pc \notin AfterBurn  BY <1>12 DEF AfterBurn
    <3> QED  BY <1>11, <1>12, <1>15, <3>1, <3>2, <3>3 DEF JobOK
  <2> QED  BY <1>13, <2>1, <2>2, Zenon DEF JobInv
<1>17. BurnInv'
  <2>1. \A c \in Burns : credited'[c] > 0 => c \in DOMAIN burns
    BY <1>1, <1>7, <1>10 DEF BurnInv
  <2> QED  BY <1>1, <1>5, <2>1, Zenon DEF BurnInv
<1>18. ASSUME OwnNotes
       PROVE  LeafInv' /\ NoteRegisteredOnce'
  <2>1. LeafInv /\ NoteRegisteredOnce  BY <1>18, Zenon DEF DInv
  <2>2. job[j].base \in Seq(Notes) /\ Len(job[j].base) = Len(leaves)
    <3>1. job[j].base \in Seq(Notes)  BY <1>3 DEF JobState
    <3>2. Append(job[j].base, Note[j]) = Append(leaves, Note[j])  BY <1>5, Zenon DEF RootMatches
    <3>3. Len(job[j].base) + 1 = Len(leaves) + 1  BY <1>2, <1>9, <3>1, <3>2, SeqAdd
    <3>4. Len(job[j].base) \in Nat /\ Len(leaves) \in Nat  BY <1>2, <3>1
    <3> QED  BY <3>1, <3>3, <3>4
  <2>3. Len(leaves) \in Nat /\ DOMAIN leaves = 1..Len(leaves)  BY <1>2
  <2>4. \A p \in DOMAIN leaves : leaves[p] # Note[j]
    <3>1. \A p \in DOMAIN leaves : leaves[p] = Note[j] => Len(job[j].base) < p
      BY <2>1, Zenon DEF LeafInv
    <3> QED  BY <2>2, <2>3, <3>1
  <2>5. Len(x.base) < n  BY <1>12, <2>2, <2>3
  <2> HIDE DEF n
  <2>6. ASSUME NEW p \in DOMAIN leaves', NEW i \in Jobs, leaves'[p] = Note[i]
        PROVE  job'[i].status # "none" /\ Len(job'[i].base) < p
    <3>1. CASE p = n
      <4>1. i = j  BY <1>9, <1>18, <2>6, <3>1, Zenon DEF OwnNotes
      <4> QED  BY <1>11, <1>12, <1>13, <2>5, <3>1, <4>1, Zenon
    <3>2. CASE p # n
      <4>1. p \in DOMAIN leaves /\ leaves[p] = Note[i]  BY <1>9, <2>6, <3>2, Zenon
      <4>2. job[i].status # "none" /\ Len(job[i].base) < p  BY <2>1, <4>1, Zenon DEF LeafInv
      <4>3. i # j  BY <2>4, <4>1, Zenon
      <4> QED  BY <1>13, <4>2, <4>3, Zenon
    <3> QED  BY <3>1, <3>2
  <2>7. \A p, q \in DOMAIN leaves' : leaves'[p] = leaves'[q] => p = q
    BY <1>9, <2>1, <2>4 DEF NoteRegisteredOnce
  <2> QED  BY <2>6, <2>7, Zenon DEF LeafInv, NoteRegisteredOnce
<1>19. ASSUME OneRelayer
       PROVE  MintInv'
  <2>1. MintInv  BY <1>19, Zenon DEF DInv
  <2>2. \A i \in Jobs : job'[i].status # "running"
    BY <1>6, <1>11, <1>12, <1>13, <2>1, Zenon DEF MintInv, Running
  <2>3. \A i \in Jobs : MintOK(job[i])'
    <3>1. \A i \in Jobs : job'[i].pc = "none"  BY <1>16, <2>2, Zenon DEF JobInv, JobOK
    <3>2. \A y : y.pc = "none" => MintOK(y)'  BY DEF MintOK
    <3> QED  BY <3>1, <3>2, Zenon
  <2>4. ASSUME NEW c \in Burns, credited'[c] > 0
        PROVE  burns'[c].minted /\ credited'[c] <= Minted7(c)'
    <3>1. Minted7(c)' = Minted7(c)  BY <1>5, Zenon DEF Minted7
    <3>2. CASE c = b
      <4>1. burns[b].minted /\ am <= Minted7(b)
        BY <1>4, <1>6, <2>1, Zenon DEF MintInv, MintOK
      <4> QED  BY <1>5, <1>10, <3>1, <3>2, <4>1, Zenon
    <3>3. CASE c # b
      BY <1>5, <1>10, <2>1, <2>4, <3>1, <3>3, Zenon DEF MintInv, CreditBackedByMint
    <3> QED  BY <3>2, <3>3
  <2>5. CreditBackedByMint'  BY <2>4, Zenon DEF CreditBackedByMint
  <2> QED  BY <2>2, <2>3, <2>5, Zenon DEF MintInv, Running
<1> QED  BY <1>14, <1>16, <1>17, <1>18, <1>19, Zenon DEF DInv

-----------------------------------------------------------------------------
(* The theorems *)

LEMMA InitDInv ==
    ASSUME Init
    PROVE  DInv
<1>1. NoJob \in JobState /\ NoJob.status = "none" /\ NoJob.pc = "none"
  BY DepositAssumption DEF NoJob, JobState
<1>2. DOMAIN leaves = {} /\ DOMAIN burns = {} /\ \A j \in Jobs : job[j] = NoJob  BY DEF Init
<1>3. TypeOK
  <2>1. /\ recorded \in [Jobs -> Burns \union {None}] /\ job \in [Jobs -> JobState]
        /\ credited \in [Burns -> Nat]
    BY <1>1 DEF Init
  <2>2. burns \in Seq(Burn) /\ leaves \in Seq(Notes) /\ Len(burns) <= MaxBurns
    BY DepositAssumption DEF Init
  <2>3. balance \in Nat /\ supply \in Nat /\ spent \subseteq Notes  BY DEF Init
  <2> QED  BY <2>1, <2>2, <2>3, Zenon DEF TypeOK
<1>4. JobInv
  <2>1. \A j \in Jobs : JobOK(j, NoJob)  BY <1>1 DEF JobOK, AfterBurn
  <2> QED  BY <1>2, <2>1, Zenon DEF JobInv
<1>5. \A b \in Burns : ~(credited[b] > 0)  BY DEF Init
<1>6. BurnInv  BY <1>2, <1>5 DEF BurnInv
<1>7. LeafInv /\ NoteRegisteredOnce  BY <1>2, Zenon DEF LeafInv, NoteRegisteredOnce
<1>8. MintInv
  <2>1. MintOK(NoJob)  BY <1>1 DEF MintOK
  <2>2. \A j \in Jobs : ~Running(j)  BY <1>1, <1>2 DEF Running
  <2> QED  BY <1>2, <1>5, <2>1, <2>2, Zenon DEF MintInv, CreditBackedByMint
<1> QED  BY <1>3, <1>4, <1>6, <1>7, <1>8, Zenon DEF DInv

LEMMA NextDInv ==
    ASSUME DInv, [Next]_vars
    PROVE  DInv'
<1>1. ASSUME NEW j \in Jobs, RelayerStep(j)
      PROVE  DInv'
  <2>1. TypeOK  BY Zenon DEF DInv
  <2>2. ASSUME NEW next \in {"after", "none"}, mint_and_forward(j, next)
        PROVE  DInv'
    BY <2>2, MintForwardInv
  <2>3. CASE receive_cctp_deposit(j, "ready")  BY <2>3, ReceiveInv
  <2>4. CASE receive_cctp_deposit(j, FailedStatus(j))
    <3>1. PICK st : st = FailedStatus(j)  OBVIOUS
    <3>2. /\ st \in {"ready", "queued", "failed"}
          /\ st = "queued" => job[j].attempts < MaxAttempts
      BY <2>1, <3>1, FailedStatusInv
    <3>3. receive_cctp_deposit(j, st)  BY <2>4, <3>1
    <3> QED  BY <3>2, <3>3, ReceiveInv, Zenon
  <2> QED
    BY <1>1, <2>2, <2>3, <2>4, GoesOnInv, OperatorBurnInv DEF RelayerStep
<1>2. CASE UNCHANGED vars
  <2>1. UNCHANGED <<recorded, job, burns, balance, leaves, credited, supply, spent>>
    BY <1>2, Zenon DEF vars
  <2>2. TypeOK /\ BurnInv  BY Zenon DEF DInv
  <2>3. TypeOK'  BY <2>1, <2>2, Zenon DEF TypeOK
  <2>4. BurnsGrow /\ \A b \in DOMAIN burns' : burns'[b].fee <= burns'[b].amount
    BY <2>1, <2>2, Zenon DEF BurnsGrow, BurnInv
  <2>5. balance' <= balance  BY <2>1, <2>2 DEF TypeOK
  <2> QED  BY <2>1, <2>3, <2>4, <2>5, OthersMove, Zenon
<1>3. CASE Next
  BY <1>1, <1>3, GoesOnInv, EnqueueInv, OthersInv, Zenon DEF Next
<1> QED  BY <1>2, <1>3, Zenon

\* Types, what each job knows of its burn and its delta, and the accounts of the
\* pool hold throughout.
THEOREM DepositInvariant == Spec => []DInv
<1>1. Init => DInv  BY InitDInv
<1>2. DInv /\ [Next]_vars => DInv'  BY NextDInv
<1> QED  BY <1>1, <1>2, PTL DEF Spec

\* With any number of relayers, and whatever the balance reads return: a job with
\* the opening of its note is completed only when the pool has registered the
\* note and credited its burn with the note's value.
THEOREM DepositReadyMeansRegistered == Spec => []ReadyMeansRegistered
<1>1. DInv => ReadyMeansRegistered
  <2> SUFFICES ASSUME DInv, NEW j \in Witnessed, job[j].status = "ready"
               PROVE  Note[j] \in Range(leaves) /\ credited[job[j].burn] >= Value[Note[j]]
    BY Zenon DEF ReadyMeansRegistered
  <2>1. j \in Jobs  BY DepositAssumption
  <2> QED  BY <2>1, Zenon DEF DInv, JobInv, JobOK
<1> QED  BY <1>1, DepositInvariant, PTL

\* When every deposit commits to a note of its own, no retry of a registration
\* that landed and threw, by any relayer, puts the note into the tree again.
THEOREM DepositNoteRegisteredOnce == OwnNotes => (Spec => []NoteRegisteredOnce)
<1> SUFFICES ASSUME OwnNotes PROVE Spec => []NoteRegisteredOnce  OBVIOUS
<1>1. DInv => NoteRegisteredOnce  BY Zenon DEF DInv
<1> QED  BY <1>1, DepositInvariant, PTL

\* With one relayer, whose reads of the pool's balance are never all empty, no
\* deposit is credited with more than was minted for its own burn, however many
\* jobs, retries and withdrawals there are.
THEOREM DepositCreditBackedByMint == OneRelayer => (Spec => []CreditBackedByMint)
<1> SUFFICES ASSUME OneRelayer PROVE Spec => []CreditBackedByMint  OBVIOUS
<1>1. DInv => CreditBackedByMint  BY Zenon DEF DInv, MintInv
<1> QED  BY <1>1, DepositInvariant, PTL
=============================================================================
