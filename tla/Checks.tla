------------------------------- MODULE Checks -------------------------------
(***************************************************************************)
(* The way the package validates: a sequence of tests, each of which       *)
(* throws its own error, and the first that fails decides. A test is a     *)
(* pair of whether it fails and the error it throws.                       *)
(***************************************************************************)
FSX == INSTANCE FiniteSetsExt

FirstError(tests) ==
  LET failing == {i \in DOMAIN tests : tests[i][1]} IN
  IF failing = {} THEN "none" ELSE tests[FSX!Min(failing)][2]
=============================================================================
