--------------------------- MODULE MCMessageQueue ---------------------------
(* Model values and timings for checking MessageQueue on small instances.  *)
EXTENDS MessageQueue, TLC

OneShots  == {Immediately, After(2)}
Mixed     == {Immediately, After(1), Period(0, 2)}
Periodics == {Immediately, Period(1, 1)}

ClientSymmetry == Permutations(Clients)
=============================================================================
