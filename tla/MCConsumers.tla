---------------------------- MODULE MCConsumers -----------------------------
(***************************************************************************)
(* Instances of Consumers for TLC.                                         *)
(***************************************************************************)
EXTENDS Consumers

CONSTANTS g, x1, v1, v2

Msg(type, flaw) == [type |-> type, subject |-> x1, flaw |-> flaw]

\* One handler of each shape: two updates, one update of an engine, one of the
\* global state, none; and one message of each flaw.
Shapes ==
    {Msg("engine.health_report", "none"), Msg("engine.recovered", "invalid"),
     Msg("kg.pattern_detected", "none"), Msg("kg.insight_generated", "untraced"),
     Msg("kg.entity_created:other", "none"), Msg("kg.entity_created:product", "unhandled")}
=============================================================================
