-------------------------- MODULE MCServiceRuntime --------------------------
\* One or two management calls among handlers that only need the mutex.
EXTENDS ServiceRuntime

CONSTANTS m1, m2, s1, r1, r2, p1

MCTwoManagers == {m1, m2}
MCOneManager  == {m1}
MCScanner     == {s1}
MCReaders     == {r1, r2}
MCOneReader   == {r1}
MCPoller      == {p1}
MCNone        == {}
=============================================================================
