--------------------------- MODULE ProofBuilders ---------------------------
(***************************************************************************)
(* Building a proof: the prover's processProofJob and the builders of      *)
(* packages/proving.  A builder is a sequence of external programs that    *)
(* hand each other files of one scratch directory, which every worker      *)
(* process writes to; a file's name is the job's tag and a suffix.  What   *)
(* is modelled of a file is whose data is in it; the programs (coinutils,  *)
(* snarkjs, circom2soroban) are external.  A builder blocks its process,   *)
(* so the interleaving is between worker processes.                        *)
(***************************************************************************)
EXTENDS Naturals, Sequences, FiniteSets

CONSTANTS Workers,    \* processes that build proofs
          Jobs,       \* jobs
          Kinds,      \* the builders the jobs may ask for
          Tags,       \* tags of jobs: the request's, or eight digits of the job's id
          MaxAttempts \* max_attempts of a job

VARIABLES jobs,    \* job -> kind, tag, whether its witness satisfies, status, result
          files,   \* file name -> jobs whose data is in the file
          working  \* worker -> job it builds, step it is at, what it has read

vars == <<jobs, files, working>>

\* A step reads files and writes files.  "own" writes the job's own data;
\* "check" refuses parameters that do not fit; "wtns" fails on inputs that do
\* not satisfy the circuit; "verify" notes whether proof and public agree;
\* "take" puts the content of a file into the answer.
Step(op, in, out) == [op |-> op, in |-> in, out |-> out]
Own(out) == Step("own", {}, {out})
Snarkjs(input, wtns, proof, public) ==
    << Step("wtns", {input}, {wtns}), Step("prove", {wtns}, {proof, public}),
       Step("verify", {proof, public}, {}) >>
Take(proof, public) == << Step("take", {proof}, {}), Step("take", {public}, {}) >>

buildNoteProof ==
    << Own("state"), Step("coinutils", {"state"}, {"input"}) >>
    \o Snarkjs("input", "witness", "proof", "public") \o Take("proof", "public")

buildTransferProof ==
    << Own("xstate"), Step("coinutils", {"xstate"}, {"xfer", "xout"}) >>
    \o Snarkjs("xfer", "x_wtns", "x_proof", "x_public") \o Take("x_proof", "x_public")

buildDepositProof ==
    << Own("dep_input") >>
    \o Snarkjs("dep_input", "dep_wtns", "dep_proof", "dep_public")
    \o Take("dep_proof", "dep_public")

\* The two coins' paths, then the test that both are of one asset.
buildMpcSettlementWitness ==
    << Own("mpc_state"), Step("coinutils", {"mpc_state"}, {"coinA"}),
       Step("coinutils", {"mpc_state"}, {"coinB"}), Step("check", {"coinA", "coinB"}, {}) >>

buildMpcSettlementProof ==
    buildMpcSettlementWitness \o << Step("own", {"coinA", "coinB"}, {"mpc_witness"}) >>
    \o Snarkjs("mpc_witness", "mpc_wtns", "mpc_proof", "mpc_public")
    \o Take("mpc_proof", "mpc_public")

\* The same for two assets: they must differ, and the price must be met.
buildMpcPricedWitness ==
    << Own("priced_state"), Step("coinutils", {"priced_state"}, {"wX"}),
       Step("coinutils", {"priced_state"}, {"wY"}), Step("check", {"wX", "wY"}, {}) >>

buildMpcPricedProof ==
    buildMpcPricedWitness \o << Step("own", {"wX", "wY"}, {"priced_input"}) >>
    \o Snarkjs("priced_input", "priced_wtns", "priced_proof", "priced_public")
    \o Take("priced_proof", "priced_public")

\* Allowed, bounded by two neighbours of a sorted deny list, then three paths.
buildComplianceWitness ==
    << Step("check", {}, {}), Own("allow_state"), Own("lo_state"), Own("hi_state") >>

buildComplianceProof ==
    buildComplianceWitness
    \o << Step("own", {"allow_state", "lo_state", "hi_state"}, {"comp_input"}) >>
    \o Snarkjs("comp_input", "comp_wtns", "comp_proof", "comp_public")

Program(kind) ==
    CASE kind = "note" -> buildNoteProof
      [] kind = "transfer" -> buildTransferProof
      [] kind = "deposit" -> buildDepositProof
      [] kind = "mpc" -> buildMpcSettlementProof
      [] kind = "priced" -> buildMpcPricedProof
      [] kind = "compliance" -> buildComplianceProof

\* A plausible slip: one tag for all jobs of a kind.
tag_of_kind(j) == jobs[j].kind

\* p.tag, or eight digits of the job's id: two jobs may have one tag.
tag(j) == jobs[j].tag

Name(j, suffix) == <<tag(j), suffix>>
Content(j, suffixes) == UNION {files[f] : f \in {Name(j, s) : s \in suffixes} \cap DOMAIN files}
Written(j, suffixes, data) ==
    LET names == {Name(j, s) : s \in suffixes}
    IN  [f \in DOMAIN files \cup names |-> IF f \in names THEN data ELSE files[f]]

Idle == [job |-> "none", at |-> 0, taken |-> << >>, ok |-> TRUE]

Init ==
    /\ jobs \in [Jobs -> [kind : Kinds, tag : Tags, fits : BOOLEAN, status : {"queued"},
                          attempts : {0}, result : {<< >>}]]
    /\ files = << >>
    /\ working = [w \in Workers |-> Idle]

\* claimNext, and coinFromPath with the first two statuses.
claims(w, j) ==
    /\ working[w] = Idle
    /\ jobs[j].status = "queued"
    /\ jobs' = [jobs EXCEPT ![j].status = "proving", ![j].attempts = @ + 1]
    /\ working' = [working EXCEPT ![w] = [Idle EXCEPT !.job = j, !.at = 1]]
    /\ UNCHANGED files

Busy(w) == working[w].job # "none"
Now(w) == Program(jobs[working[w].job].kind)[working[w].at]
InProgram(w) == Busy(w) /\ working[w].at <= Len(Program(jobs[working[w].job].kind))

\* An exception: queue.fail puts the job back while it has attempts left.
throws(w) ==
    /\ LET j == working[w].job
       IN  jobs' = [jobs EXCEPT ![j].status =
                        IF jobs[j].attempts >= MaxAttempts THEN "failed" ELSE "queued"]
    /\ working' = [working EXCEPT ![w] = Idle]

\* One program of a builder.  Data of two jobs never satisfies a circuit: the
\* roots, paths and openings are of different trees.
runs(w) ==
    /\ InProgram(w)
    /\ LET j == working[w].job
           s == Now(w)
           data == Content(j, s.in) \cup (IF s.op = "own" THEN {j} ELSE {})
           bad == \/ s.op = "check" /\ ~jobs[j].fits
                  \/ s.op = "wtns" /\ (Cardinality(data) # 1 \/ \E d \in data : ~jobs[d].fits)
       IN  IF bad THEN throws(w) /\ UNCHANGED files
           ELSE /\ files' = Written(j, s.out, data \cup (IF s.op = "coinutils" THEN {j} ELSE {}))
                /\ working' = [working EXCEPT ![w].at = @ + 1,
                       ![w].ok = IF s.op = "verify" THEN Cardinality(data) = 1 ELSE @,
                       ![w].taken = IF s.op = "take" THEN Append(@, data) ELSE @]
                /\ UNCHANGED jobs

\* A program exits with an error, or times out.
program_fails(w) == InProgram(w) /\ throws(w) /\ UNCHANGED files

\* The process is killed and started again: its files stay, and the job keeps
\* the status it had, which nobody claims.
worker_killed(w) == Busy(w) /\ working' = [working EXCEPT ![w] = Idle] /\ UNCHANGED <<jobs, files>>

\* assertVerified, the witness deleted, queue.complete.
processProofJob(w) ==
    /\ Busy(w) /\ ~InProgram(w)
    /\ LET j == working[w].job
       IN  IF ~working[w].ok THEN throws(w) /\ UNCHANGED files
           ELSE /\ jobs' = [jobs EXCEPT ![j].status = "ready", ![j].result = working[w].taken]
                /\ files' = [f \in DOMAIN files \ {Name(j, "witness"), Name(j, "x_wtns"),
                                                   Name(j, "dep_wtns")} |-> files[f]]
                /\ working' = [working EXCEPT ![w] = Idle]

Next == \E w \in Workers :
    \/ \E j \in Jobs : claims(w, j)
    \/ runs(w) \/ program_fails(w) \/ worker_killed(w) \/ processProofJob(w)

Spec == Init /\ [][Next]_vars

\* processProofJob: a job is ready only with a proof and public signals that
\* were both made from its own data, and only when that data satisfies the
\* circuit, whatever other workers wrote and whatever a build that died left in
\* the scratch directory, as long as no other job has its tag.
ProofIsOfItsJob ==
    \A j \in Jobs :
        jobs[j].status = "ready" /\ (\A o \in Jobs \ {j} : jobs[o].tag # jobs[j].tag) =>
            /\ \A n \in DOMAIN jobs[j].result : jobs[j].result[n] = {j}
            /\ jobs[j].fits
=============================================================================
