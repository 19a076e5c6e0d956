----------------------------- MODULE MCTraffic ------------------------------
(* Traffic for TLC. *)
EXTENDS Traffic, TLC

\* The servers and the handlers of a server are interchangeable.
Symmetry == Permutations(Servers) \cup Permutations(Handlers)
=============================================================================
