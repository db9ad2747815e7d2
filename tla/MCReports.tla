----------------------------- MODULE MCReports ------------------------------
(* Two tasks, one report, a week of three days of two hours.               *)
EXTENDS Reports, TLC

CONSTANTS t1, t2, r1

MCOrgs == {{r1}}
Interchangeable == Permutations(Tasks)
=============================================================================
