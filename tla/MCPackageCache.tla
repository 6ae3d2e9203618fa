--------------------------- MODULE MCPackageCache ---------------------------
\* Two packages of different sizes, the directory of downloads, and one handler
\* of ClearCache beside the user.
EXTENDS PackageCache

CONSTANTS small, large, partials

MCDigest == {small, large}
MCSize   == [i \in MCDigest \cup {partials} |-> IF i = large THEN 2 ELSE 1]
=============================================================================
