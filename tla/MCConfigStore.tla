--------------------------- MODULE MCConfigStore ---------------------------
\* Two savers, a default and two other configurations, one of them longer.
EXTENDS ConfigStore

CONSTANTS default, short, long

MCValues == {default, short, long}
MCLength == [v \in MCValues |-> IF v = long THEN 2 ELSE 1]
=============================================================================
