--------------------------- MODULE MCAuthzEngine ---------------------------
(* A small document type beside the base model's groups and companies: one   *)
(* relation per construct of the subset, group usersets that form a cycle,   *)
(* and a parent link.                                                        *)
EXTENDS AuthzEngine, TLC

CONSTANTS u, g1, g2, c1, d1, d2

MCObject == {u, g1, g2, c1, d1, d2}
MCTypeOf == [o \in MCObject |->
    CASE o = u -> "user" [] o \in {g1, g2} -> "group" [] o = c1 -> "company"
      [] OTHER -> "doc"]

MCRel == {"company", "member", "parent", "editor", "viewer", "approver"}

this == [op |-> "this"]
computed(r) == [op |-> "computed", rel |-> r]
from(r, t) == [op |-> "ttu", rel |-> r, tupleset |-> t]
union(s) == [op |-> "union", of |-> s]
intersection(s) == [op |-> "intersection", of |-> s]

Viewer == union(<<this, computed("editor"), from("viewer", "parent")>>)
Approver == intersection(<<computed("editor"), computed("viewer")>>)

MCModel ==
    [user |-> [none |-> this],
     group |-> [company |-> this, member |-> this],
     company |-> [member |-> this],
     doc |-> [parent |-> this, editor |-> this, viewer |-> Viewer,
              approver |-> Approver]]

MCExpr == {this, computed("editor"), computed("viewer"), from("viewer", "parent"),
           Viewer, Approver}

MCParts ==
    [t \in DOMAIN MCModel |-> [r \in DOMAIN MCModel[t] |->
        LET e == MCModel[t][r]
        IN  {e} \cup IF e.op \in {"union", "intersection"}
                     THEN {e.of[i] : i \in DOMAIN e.of} ELSE {}]]

T(o, r, s, sr) == [obj |-> o, rel |-> r, sub |-> s, srel |-> sr]

MCAllTuples ==
    {T(g1, "member", g2, "member"), T(g2, "member", g1, "member"),
     T(g2, "member", u, Self), T(g1, "company", c1, Self),
     T(d1, "viewer", g1, "member"), T(d1, "editor", g2, "member"),
     T(d1, "parent", d2, Self), T(d2, "editor", g1, "member")}

\* At most one of the tuples is missing at first.
MCGraphs == {S \in SUBSET MCAllTuples : Cardinality(MCAllTuples \ S) <= 1}

Batch(s) == [company |-> NoCompany, items |-> s]

MCRequests ==
    {Batch(<<Userset(d1, "viewer"), Userset(g1, "member")>>),
     Batch(<<Userset(d1, "approver"), Userset(u, "member")>>),
     [company |-> c1, items |-> <<Userset(d1, "approver")>>]}

-----------------------------------------------------------------------------
(* The stages, by iteration from the empty set. *)

Step(F, tuple, c) == {g \in Goal : Fires(F, tuple, c, g)}

RECURSIVE Grow(_, _, _)
Grow(s, tuple, c) ==
    LET F == s[Len(s)]
        G == Step(F, tuple, c)
    IN  IF G = F THEN s ELSE Grow(Append(s, G), tuple, c)

\* [tuples][company] -> stages; the comparison makes TLC tabulate it once.
MCTable ==
    CHOOSE f \in {[tuple \in SUBSET MCAllTuples |->
                     (NoCompany :> Grow(<<{}>>, tuple, NoCompany)) @@
                     (c1 :> Grow(<<{}>>, tuple, c1))]} : f # <<>>

MCStages(tuple, c) == MCTable[tuple][c]
=============================================================================
