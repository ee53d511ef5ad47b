-------------------------- MODULE MCOperatorsRegistry --------------------------
(* Two epochs after the first, two blocks each, three operators.            *)
EXTENDS OperatorsRegistry, TLC

CONSTANTS s1, s2, s3, m1, m2

MCSymmetry == Permutations({s1, s2, s3}) \cup Permutations({m1, m2})
===============================================================================
