------------------------- MODULE MCClientLifecycle -------------------------
(* Model-checking instance of ClientLifecycle; constants are set in the .cfg *)
EXTENDS ClientLifecycle

\* writerThreads arguments: kNoWriterThreads, the flag default, one and two.
MCThreadArgs == {-1, 0, 1, 2}

=============================================================================
