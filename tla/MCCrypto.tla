------------------------------ MODULE MCCrypto ------------------------------
(* Small instances of Crypto.  Key pairs are interchangeable, and so are valid ports. *)
EXTENDS Crypto, TLC

Symmetry == Permutations(KeyPairs) \cup Permutations(ValidPorts)

=============================================================================
