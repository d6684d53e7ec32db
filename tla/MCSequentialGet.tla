-------------------------- MODULE MCSequentialGet --------------------------
(* Model-checking instance of SequentialGet; constants are set in the .cfg *)
EXTENDS SequentialGet

CONSTANTS k1, k2, k3

=============================================================================
