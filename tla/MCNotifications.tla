--------------------------- MODULE MCNotifications ---------------------------
EXTENDS Notifications

\* The global state has no id, and its channel no third part.
MCEntities == {<<"engine", "e1">>, <<"global", None>>}

MCDeletable == {<<"engine", "e1">>}

\* A session listens to an engine, or to what the route listens to.
MCWatches == {<<"engine", "e1">>, Everything}
=============================================================================
