--------------------------- MODULE MCPostgresPool ---------------------------
(***************************************************************************)
(* Instances of PostgresPool for TLC.                                      *)
(***************************************************************************)
EXTENDS PostgresPool, TLC

CONSTANTS c1, c2, c3, q1, q2, d1, d2, d3
=============================================================================
