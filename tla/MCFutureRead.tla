--------------------------- MODULE MCFutureRead ---------------------------
(* Model-checking instance of FutureRead; constants are set in the .cfg    *)
EXTENDS FutureRead

CONSTANTS k1, k2, h1, h2

=============================================================================
