-------------------------- MODULE MCWritePipeline --------------------------
(* Model-checking instance of WritePipeline; constants are set in the .cfg *)
(* files, and the bounds MaxPoints and MaxFlushes keep the state finite.   *)
EXTENDS WritePipeline

=============================================================================
