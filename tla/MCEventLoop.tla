----------------------------- MODULE MCEventLoop -----------------------------
(* Instances of EventLoop for TLC. *)
EXTENDS EventLoop, TLC

(* Clients and descriptors are interchangeable in every safety property. *)
Symmetry == Permutations(Clients) \cup Permutations(Fds)
==============================================================================
