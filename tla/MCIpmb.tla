------------------------------- MODULE MCIpmb -------------------------------
(* Instances of the IPMB transport for TLC. *)
EXTENDS Ipmb

CONSTANTS r1, r2, c1, c2

MCSource == {"SELF", "BMC", "ME"}
MCId     == 0 .. MaxReq
MCNoBridges == {}
MCOneBridge == {"BMC"}
============================================================================
