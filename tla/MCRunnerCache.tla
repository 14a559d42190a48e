--------------------------- MODULE MCRunnerCache ---------------------------
(***************************************************************************)
(* An instance of RunnerCache: two runners, created for jobs of a push and  *)
(* given jobs of a pull request, save an archive each; old is in the       *)
(* bucket already.                                                         *)
(***************************************************************************)
EXTENDS RunnerCache, TLC
CONSTANTS old, a1, a2, npm, r1, r2, push, pull, lint, main, pr
MCKeys == [scope : Scopes, name : Names]
MCUploader == [a \in Archives |-> IF a = a2 THEN r2 ELSE r1]
MCClaimJob == [r \in Runners |-> push]
MCExecutes == [r \in Runners |-> IF r = r1 THEN pull ELSE lint]
MCScopeOf == [j \in Jobs |-> IF j = push THEN main ELSE pr]
MCFallbackOf == [j \in Jobs |-> IF j = push THEN None ELSE main]
MCSizes == [o \in Objects |-> IF o = a2 THEN {2, 3} ELSE {1}]
MCAttempts == [o \in Objects |-> IF o = old THEN 0 ELSE IF o = a1 THEN 2 ELSE 1]
=============================================================================
