-------------------------------- MODULE MCPipe -------------------------------
(* Instances of Pipe for TLC; the constants get their values in the cfgs.   *)
EXTENDS Pipe
==============================================================================
