----------------------------- MODULE MCLifecycle -----------------------------
EXTENDS Lifecycle

\* Two requests of any kind, and a service that may be started again.
MCRequests == {"r1", "r2"}
MCMaxStarts == 2
=============================================================================
