\* Three connections, two calls of get_diff among four calls.
SPECIFICATION FairSpec
CONSTANTS
    None = None
    c1 = c1
    c2 = c2
    c3 = c3
    q1 = q1
    q2 = q2
    d1 = d1
    d2 = d2
    d3 = d3
    Conns = {c1, c2, c3}
    Calls = {d1, d2, q1, q2}
    Diffs = {d1, d2}
CHECK_DEADLOCK FALSE
INVARIANTS
    ConnectionsAreKept
    NoLockup
PROPERTIES
    EveryCallEnds
