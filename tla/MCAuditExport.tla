--------------------------- MODULE MCAuditExport ---------------------------
(***************************************************************************)
(* Instance of AuditExport for TLC: appends race with ticks over one       *)
(* destination of organisation o1; row 1 belongs to o2, so that the log of *)
(* o1 starts empty and its ids have gaps (o1 = o2 in the liveness run).    *)
(***************************************************************************)
EXTENDS AuditExport

CONSTANTS o1, o2, c1

MCLegacyOrgs == <<o2>>

MCOrgOf == [c \in Configs |-> o1]
=============================================================================
