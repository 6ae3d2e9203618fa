--------------------------- MODULE MCServiceBus ---------------------------
\* Two calls of any methods beside the health and the poll task.
EXTENDS ServiceBus, TLC

CONSTANTS c1, c2

MCCalls == {c1, c2}
MCSymmetry == Permutations(MCCalls)
=============================================================================
