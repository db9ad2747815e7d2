--------------------------- MODULE MCAuditVerify ---------------------------
(***************************************************************************)
(* Instance of AuditVerify for TLC: a legacy row, then up to MaxTx appends *)
(* walked in batches of two.                                               *)
(***************************************************************************)
EXTENDS AuditVerify

CONSTANTS o1

MCLegacyOrgs == <<o1>>
=============================================================================
