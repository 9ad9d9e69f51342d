--------------------------- MODULE MCServerShutdown ---------------------------
\* Small instances of ServerShutdown for TLC.
EXTENDS ServerShutdownInv, TLC

OrderTwo   == <<"Main", "Admin">>
OrderThree == <<"Main", "Admin", "Prometheus">>

Symmetry == Permutations(Connection)
=============================================================================
