---------------------------- MODULE MCOrgMembers ----------------------------
EXTENDS OrgMembers, TLC

CONSTANTS m1, m2, u1, u2, c1, c2, acme

SameCompany == m1 :> acme @@ m2 :> acme

\* Members of one company, users and requests are interchangeable.
Symmetry ==
    Permutations({m1, m2}) \cup Permutations({u1, u2}) \cup Permutations({c1, c2})

=============================================================================
