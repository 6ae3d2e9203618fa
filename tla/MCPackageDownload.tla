------------------------- MODULE MCPackageDownload -------------------------
\* A package of two blocks, bodies of up to four, of which three are allowed.
EXTENDS PackageDownload

MCExpectations == {{Size}, 0..9}
=============================================================================
