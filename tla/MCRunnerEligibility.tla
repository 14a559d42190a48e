------------------------ MODULE MCRunnerEligibility ------------------------
(***************************************************************************)
(* An instance of RunnerEligibility: three calls, of which one may state   *)
(* another commit.                                                         *)
(***************************************************************************)
EXTENDS RunnerEligibility, TLC
CONSTANTS c1, c2, c3, x, y
Symmetry == Permutations({c1, c2, c3}) \cup Permutations({x, y})
=============================================================================
