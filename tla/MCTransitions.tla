---------------------------- MODULE MCTransitions ----------------------------
EXTENDS Transitions

\* A value for each verdict of schema, validator and PostgreSQL on some field.
MCRaw == {"'0.5'", "2", "nan", "true", "second", "nul", "[a]"}
=============================================================================
