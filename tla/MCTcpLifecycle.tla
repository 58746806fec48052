---------------------------- MODULE MCTcpLifecycle ----------------------------
(* Model values and symmetry for checking TcpLifecycle. *)
EXTENDS TcpLifecycle, TLC

\* Slots, stream addresses, peers and listeners are interchangeable: no action
\* chooses among them by name.
Symmetry == Permutations(Pcbs) \cup Permutations(Streams)
            \cup Permutations(Conns) \cup Permutations(Listeners)
===============================================================================
