-------------------------- MODULE MCRepositoryTrust --------------------------
\* A skew of two, clocks that differ by up to three, keys of which two are malformed.
EXTENDS RepositoryTrust

CONSTANTS key, hint, note

MCKeys == <<hint, key, note>>
MCMalformed == {hint, note}
MCDrifts == -3..3
MCLifetimes == {0, 1, 5}
=============================================================================
