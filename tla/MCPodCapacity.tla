---------------------------- MODULE MCPodCapacity ----------------------------
(* Symmetry of the finite instances of PodCapacity that TLC checks. *)
EXTENDS PodCapacity, TLC

\* Hosts are interchangeable, and so are payloads: nothing compares them
\* except for equality.
Symmetry == Permutations(Hosts) \cup Permutations(Results) \cup Permutations(Acks)
==============================================================================
