-------------------------- MODULE MCReadServices --------------------------
(* Model-checking instance of ReadServices; constants are set in the .cfg  *)
EXTENDS ReadServices, TLC

CONSTANTS s1, s2

\* The lists getReadServices() returns in the model.
MCLists == {<<s1>>, <<s1, s2>>, <<s2, s1>>}

\* getNumShards() of the clients of each service.
MCNumShards == (s1 :> 1) @@ (s2 :> 2)

=============================================================================
