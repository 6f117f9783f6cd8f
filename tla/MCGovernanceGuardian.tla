------------------------ MODULE MCGovernanceGuardian ------------------------
(***************************************************************************)
(* Instances of GovernanceGuardian for TLC.                                *)
(***************************************************************************)
EXTENDS GovernanceGuardian

MCFounders == <<"g1", "g2", "g3">>
MCPair == <<"g1", "g2">>

=============================================================================
