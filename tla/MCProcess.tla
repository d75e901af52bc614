------------------------------ MODULE MCProcess ------------------------------
(****************************************************************************)
(* Process for TLC: as many PCB slots as pids, so that clone and the next   *)
(* test case run out of pids before slots.                                  *)
(****************************************************************************)
EXTENDS Process

\* wait4 arguments: any child, own group, a pid that is reused, two groups.
MCWaitArgs == {-1, 0, 3, -2, -3}

\* The two that the exit of a parent tells apart: any child, and one pid.
FewWaitArgs == {-1, 3}
=============================================================================
