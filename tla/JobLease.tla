------------------------------ MODULE JobLease ------------------------------
(***************************************************************************)
(* What the service queue promises of a job, whatever its clients, workers *)
(* and database do: it is leased to one worker at a time, at most          *)
(* MaxAttempts times, and a settled job is settled for good.  A lease can  *)
(* be lost; nothing takes a lost job up again.                             *)
(***************************************************************************)
EXTENDS Integers

CONSTANTS Jobs, MaxAttempts

VARIABLES phase, leases

vars == <<phase, leases>>

Init ==
    /\ phase = [j \in Jobs |-> "none"]
    /\ leases = [j \in Jobs |-> 0]

Move(j, from, to) == phase[j] = from /\ phase' = [phase EXCEPT ![j] = to]

Create(j) == Move(j, "none", "waiting") /\ UNCHANGED leases

Lease(j) ==
    /\ leases[j] < MaxAttempts
    /\ Move(j, "waiting", "leased")
    /\ leases' = [leases EXCEPT ![j] = @ + 1]

Return(j) ==
    /\ leases[j] < MaxAttempts
    /\ Move(j, "leased", "waiting")
    /\ UNCHANGED leases

Settle(j) == Move(j, "leased", "settled") /\ UNCHANGED leases

Lose(j) == Move(j, "leased", "lost") /\ UNCHANGED leases

Next == \E j \in Jobs : Create(j) \/ Lease(j) \/ Return(j) \/ Settle(j) \/ Lose(j)

Spec == Init /\ [][Next]_vars
=============================================================================
