--------------------------- MODULE MCOrgPositions ---------------------------
EXTENDS OrgPositions, TLC

CONSTANTS p1, m1, m2, c1, c2, acme

Companies == p1 :> acme @@ m1 :> acme @@ m2 :> acme

Symmetry == Permutations({m1, m2}) \cup Permutations({c1, c2})

=============================================================================
