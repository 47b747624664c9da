------------------------------- MODULE MCPlatform -------------------------------
EXTENDS Platform, TLC

CONSTANTS base, user, app

\* Two built-in modules, the second needing the first, and an app that claims
\* an object type the second declares.
MCKnown == <<base, user>>

MCDep == {<<user, base>>}

MCTypeOf == base :> {} @@ user :> {"t"} @@ app :> {"t"}

MCListed == {{base}, {base, user}}

\* Requests and replicas are interchangeable.
Symmetry == Permutations(Client) \cup Permutations(Replica) \cup Permutations(Inbound)

===============================================================================
