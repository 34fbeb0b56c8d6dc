--------------------------- MODULE MCGreEndpoint ----------------------------
(* GreEndpoint with symmetric sets of requests and parameters.             *)
EXTENDS GreEndpoint, TLC

Symmetry == Permutations(Config) \cup Permutations(Name)
=============================================================================
