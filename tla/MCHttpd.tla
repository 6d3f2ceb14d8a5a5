------------------------------ MODULE MCHttpd ------------------------------
(* Instances of Httpd for TLC: the clients are interchangeable for safety.   *)
EXTENDS Httpd, TLC

CONSTANTS c1, c2, c3

ClientSymmetry == Permutations({c1, c2, c3})
=============================================================================
