----------------------------- MODULE MCSnapshot -----------------------------
(***************************************************************************)
(* Instances of Snapshot for TLC.                                          *)
(***************************************************************************)
EXTENDS Snapshot, TLC

CONSTANTS g, e1, s1, s2

\* Engines are scanned first.  Funnels, of which no state is written, stand in a
\* second scan that finds nothing; products and tasks would be two more of those.
Engines == [e \in Scanned |-> 1]

\* The global state is updated once, the engine twice.
OnceOrTwice == [e \in Entities |-> IF e = g THEN 2 ELSE 3]

\* As the code stands, without a codec for JSONB.
AsBuilt == {"text"}
=============================================================================
