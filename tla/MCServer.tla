------------------------------ MODULE MCServer ------------------------------
(* Small instances of Server.  Clients are interchangeable, and so are addresses. *)
EXTENDS Server, TLC

Symmetry == Permutations(Conns) \cup Permutations(Addrs)

=============================================================================
