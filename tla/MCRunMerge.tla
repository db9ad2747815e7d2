----------------------------- MODULE MCRunMerge -----------------------------
(***************************************************************************)
(* Instance of RunMerge for TLC: s1 and s2 run different spec files, s3    *)
(* repeats f1, is done before s1 is and reports a pending test.  Live      *)
(* events of both files come in, one of them for a test that the report of *)
(* s1 leaves out and one for a test that fails only in the report.         *)
(***************************************************************************)
EXTENDS RunMerge

CONSTANTS s1, s2, s3, f1, f2

MCFileOf == [k \in Shards |-> IF k = s2 THEN f2 ELSE f1]

MCReport ==
  [k \in Shards |->
    CASE k = s1 -> [t1 |-> "failed", t2 |-> "none"]
      [] k = s2 -> [t1 |-> "passed", t2 |-> "passed"]
      [] k = s3 -> [t1 |-> "passed", t2 |-> "pending"]]

\* Nothing fails, and no test is left out.
MCAllPass == [k \in Shards |-> [t1 |-> "passed", t2 |-> "passed"]]

MCEndOf == [k \in Shards |-> CASE k = s1 -> 3 [] k = s2 -> 2 [] k = s3 -> 1]

MCEvents == <<[file |-> f1, test |-> "t2", to |-> "pending"],
              [file |-> f1, test |-> "t1", to |-> "passed"],
              [file |-> f2, test |-> "t1", to |-> "passed"]>>
=============================================================================
