--------------------------- MODULE MCApplication ---------------------------
(* Small instances of Application.  Clients, addresses and features are interchangeable. *)
EXTENDS Application, TLC

Symmetry == Permutations(Conns) \cup Permutations(Addrs) \cup Permutations(Features)

=============================================================================
