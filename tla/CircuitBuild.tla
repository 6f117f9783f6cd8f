---------------------------- MODULE CircuitBuild ----------------------------
(***************************************************************************)
(* circuits:build and circuits:test over the files of the circuits.  A     *)
(* build compiles each circuit, makes its proving key only when there is   *)
(* none, and exports the verification key only when there is none; with    *)
(* CIRCUITS_FORCE_SETUP both are made again.  A step may fail and either   *)
(* program may be killed, which leaves a half-written file behind.  The    *)
(* developer edits a circuit between two programs.  A file is what it was  *)
(* made from: the version of the circuit, and for a key also its own       *)
(* number; version 0 is a file without its end.                            *)
(***************************************************************************)
EXTENDS Integers, Sequences

CONSTANTS Circuits,   \* sequence of the circuits the build goes through
          Tested,     \* sequence of those the tests go through
          MaxVersion, MaxRuns, MaxFaults

VARIABLES version,  \* circuit -> version of main.circom
          wasm,     \* circuit -> what build/ was compiled from, -1 for none
          zkey,     \* circuit -> output/main_final.zkey
          vk,       \* circuit -> number of the proving key it was exported from
          run,      \* the program at work
          runs, keys, faults,
          since     \* whether files changed since the tests last ended

vars == <<version, wasm, zkey, vk, run, runs, keys, faults, since>>

Names == {Circuits[i] : i \in DOMAIN Circuits}
NoFile == -1
Idle == [program |-> "none", todo |-> << >>, step |-> "compile", force |-> FALSE, ok |-> TRUE]

Init ==
    /\ version = [c \in Names |-> 1]
    /\ wasm = [c \in Names |-> NoFile]
    /\ zkey = [c \in Names |-> [of |-> NoFile, id |-> 0]]
    /\ vk = [c \in Names |-> NoFile]
    /\ run = Idle
    /\ runs = 0 /\ keys = 0 /\ faults = 0 /\ since = TRUE

edit(c) ==
    /\ run.todo = << >> /\ version[c] < MaxVersion
    /\ version' = [version EXCEPT ![c] = @ + 1]
    /\ UNCHANGED <<wasm, zkey, vk, run, runs, keys, faults, since>>

Fault == faults < MaxFaults /\ faults' = faults + 1

start(program) ==
    /\ run.todo = << >> /\ runs < MaxRuns
    /\ \/ \E force \in BOOLEAN :
             /\ program = "test" => ~force
             /\ run' = [Idle EXCEPT !.program = program, !.force = force,
                                    !.todo = IF program = "build" THEN Circuits ELSE Tested]
             /\ UNCHANGED faults
       \/ /\ program = "build" /\ Fault  \* no powers of tau
          /\ run' = [Idle EXCEPT !.program = program, !.ok = FALSE]
    /\ runs' = runs + 1
    /\ UNCHANGED <<version, wasm, zkey, vk, keys, since>>

At(program, step) == run.program = program /\ run.todo # << >> /\ run.step = step
This == Head(run.todo)
Continue(step) == run' = [run EXCEPT !.step = step]

\* The next circuit; a check that failed is reported at the end.
NextCircuit(ok) == run' = [run EXCEPT !.todo = Tail(@), !.step = "compile", !.ok = @ /\ ok]

compile ==
    /\ At("build", "compile")
    /\ wasm' = [wasm EXCEPT ![This] = version[This]]
    /\ Continue("setup")
    /\ since' = TRUE
    /\ UNCHANGED <<version, zkey, vk, runs, keys, faults>>

\* groth16 setup and zkey contribute
setup ==
    /\ At("build", "setup")
    /\ Continue("export")
    /\ IF run.force \/ zkey[This].of = NoFile
       THEN /\ keys' = keys + 1 /\ since' = TRUE
            /\ zkey' = [zkey EXCEPT ![This] = [of |-> wasm[This], id |-> keys + 1]]
       ELSE UNCHANGED <<keys, zkey, since>>
    /\ UNCHANGED <<version, wasm, vk, runs, faults>>

\* Mutant: a verification key that exists is kept also by a forced build.
export_kept ==
    /\ At("build", "export")
    /\ IF vk[This] # NoFile
       THEN UNCHANGED <<vk, since>> /\ NextCircuit(vk[This] # 0)
       ELSE IF zkey[This].of = 0 THEN UNCHANGED <<vk, since>> /\ NextCircuit(FALSE)
       ELSE /\ vk' = [vk EXCEPT ![This] = zkey[This].id]
            /\ since' = TRUE
            /\ NextCircuit(TRUE)
    /\ UNCHANGED <<version, wasm, zkey, runs, keys, faults>>

\* zkey export verificationkey, which needs a whole proving key, and the check
\* of the number of public signals, which every version here has
export ==
    /\ At("build", "export")
    /\ IF ~run.force /\ vk[This] # NoFile
       THEN UNCHANGED <<vk, since>> /\ NextCircuit(vk[This] # 0)
       ELSE IF zkey[This].of = 0 THEN UNCHANGED <<vk, since>> /\ NextCircuit(FALSE)
       ELSE /\ vk' = [vk EXCEPT ![This] = zkey[This].id]
            /\ since' = TRUE
            /\ NextCircuit(TRUE)
    /\ UNCHANGED <<version, wasm, zkey, runs, keys, faults>>

\* A command that fails ends the circuit's build.
step_fails ==
    /\ run.todo # << >> /\ Fault
    /\ NextCircuit(FALSE)
    /\ UNCHANGED <<version, wasm, zkey, vk, runs, keys, since>>

\* Killed: the file being written stays without its end.
killed ==
    /\ run.todo # << >> /\ Fault
    /\ run' = Idle
    /\ \/ UNCHANGED <<wasm, zkey, vk, since>>
       \/ At("build", "compile") /\ wasm' = [wasm EXCEPT ![This] = 0]
          /\ since' = TRUE /\ UNCHANGED <<zkey, vk>>
       \/ /\ At("build", "setup") /\ (run.force \/ zkey[This].of = NoFile)
          /\ zkey' = [zkey EXCEPT ![This] = [of |-> 0, id |-> 0]]
          /\ since' = TRUE /\ UNCHANGED <<wasm, vk>>
       \/ /\ At("build", "export") /\ (run.force \/ vk[This] = NoFile)
          /\ vk' = [vk EXCEPT ![This] = 0]
          /\ since' = TRUE /\ UNCHANGED <<wasm, zkey>>
    /\ UNCHANGED <<version, runs, keys>>

\* The files of a circuit give proofs that verify.
Agree(c) == wasm[c] > 0 /\ zkey[c].of = wasm[c] /\ vk[c] = zkey[c].id

\* A sample witness is proved and verified locally: circuits:test
locallyVerified(c) == wasm[c] > 0 /\ zkey[c].of = wasm[c] /\ vk[c] = zkey[c].id

\* The first check of a circuit wants its proof to verify.  The others want data
\* that was changed to be refused, for which any exception will do.
test ==
    /\ At("test", "compile")
    /\ NextCircuit(locallyVerified(This))
    /\ since' = IF Len(run.todo) = 1 THEN FALSE ELSE since
    /\ UNCHANGED <<version, wasm, zkey, vk, runs, keys, faults>>

Next ==
    \/ \E c \in Names : edit(c)
    \/ \E program \in {"build", "test"} : start(program)
    \/ compile \/ setup \/ export \/ step_fails \/ killed \/ test

Passed(program) == run.program = program /\ run.todo = << >> /\ run.ok

\* Whatever was edited, killed and half built before: when circuits:test prints
\* PASS, and until a file changes, the compiled circuit, the proving key and the
\* verification key of every circuit it goes through belong together; and so do
\* those of every circuit when circuits:build passes with CIRCUITS_FORCE_SETUP, or
\* when it passes and nothing was ever edited or went wrong.
PassedMeansProvable ==
    /\ Passed("test") /\ ~since => \A i \in DOMAIN Tested : Agree(Tested[i])
    /\ Passed("build") /\ (run.force \/ (faults = 0 /\ \A c \in Names : version[c] = 1)) =>
          \A c \in Names : Agree(c)
=============================================================================
