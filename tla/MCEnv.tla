-------------------------------- MODULE MCEnv --------------------------------
(* Instances of Env for TLC.                                                *)
EXTENDS Env, TLC

\* The tasks other than the first are interchangeable.
TaskSymmetry == Permutations(Task \ {Root})
==============================================================================
