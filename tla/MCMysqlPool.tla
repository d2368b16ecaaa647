----------------------------- MODULE MCMysqlPool -----------------------------
(* Model values and symmetry for the run of MysqlPool: connections differ in
   nothing. *)
EXTENDS MysqlPool, TLC

CONSTANTS h1, h2, h3, h4, c1, c2, c3, c4, c5, c6

Symmetry == Permutations({c1, c2, c3, c4, c5, c6})
=============================================================================
