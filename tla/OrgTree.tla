------------------------------- MODULE OrgTree -------------------------------
(***************************************************************************)
(* The org unit tree of internal/org/store.go and the positions hung on it. *)
(* A unit has a parent or is a root; a company is always a root; a          *)
(* position belongs to a company and sits in a unit beneath it.  Nothing in *)
(* one row says that the tree has no cycle or that a position is still      *)
(* beneath its company: both are read from the whole table, first by the    *)
(* store (the answer a user sees) and again by the triggers of migrations   *)
(* 0004 to 0006.  Two transactions that read committed rows could each be   *)
(* right and together be wrong, so every writer of the structure first      *)
(* takes the advisory lock of org.lock_org_tree and keeps it to its commit. *)
(*                                                                          *)
(* A writer is three steps: the store's checks, the statement with its      *)
(* triggers and foreign keys, and the commit that makes the row visible.    *)
(* Deletes do not take the tree lock: they lock the row they delete, which  *)
(* excludes every statement that refers to it.  Codes, names and the active *)
(* flag are left out (what activation does is in module Tenancy).           *)
(***************************************************************************)
EXTENDS Naturals, FiniteSets

CONSTANTS
    Unit,         \* org unit ids
    CompanyUnit,  \* the ids whose org_unit_type has is_company
    Position,     \* position ids
    Client,       \* concurrent administrator requests
    None,         \* SQL NULL, no such row, no holder
    MaxDepth      \* the depth bound of SubtreeOrgUnits: 32 in the code

OrgTreeAssumption ==
    /\ IsFiniteSet(Unit)
    /\ CompanyUnit \subseteq Unit
    /\ None \notin Unit \cup Client
    /\ MaxDepth \in Nat

VARIABLES
    unit,      \* org.org_unit: the ids that have a row
    parent,    \* org_unit.parent_id
    pos,       \* org.position: None or [company, unit]
    used,      \* units some org.member or org.group row names as its company
    treeLock,  \* holder of the advisory lock
    call       \* the transaction each client has open

vars == <<unit, parent, pos, used, treeLock, call>>

Seat == [company : Unit, unit : Unit]

Idle == [op |-> "idle"]

\* An open transaction and how far it is: "checked" (the store's reads are
\* done) or "written" (its statement ran, its row locks are held).
Call ==
    {Idle}
      \cup [op : {"create", "move"}, u : Unit, par : Unit \cup {None},
            at : {"checked", "written"}]
      \cup [op : {"seat"}, p : Position, seat : Seat, new : BOOLEAN,
            at : {"checked", "written"}]

(* Type correctness of the tree, the positions and the open transactions. *)
TypeOK ==
    /\ unit \subseteq Unit
    /\ parent \in [Unit -> Unit \cup {None}]
    /\ pos \in [Position -> Seat \cup {None}]
    /\ used \subseteq Unit
    /\ treeLock \in Client \cup {None}
    /\ call \in [Client -> Call]

Init ==
    /\ unit = {}
    /\ parent = [u \in Unit |-> None]
    /\ pos = [p \in Position |-> None]
    /\ used = {}
    /\ treeLock = None
    /\ call = [c \in Client |-> Idle]

-------------------------------------------------------------------------------
(* Reading the tree. *)

\* Up(u)[n]: the unit n steps above u, None above a root.
Up(u) ==
    LET up[n \in 0..Cardinality(Unit)] ==
            IF n = 0 THEN u
            ELSE LET below == up[n-1] IN IF below = None THEN None ELSE parent[below]
    IN up

\* The recursive CTE "chain": u and everything above it, the least set of ids
\* that has u and the parent of each of its rows.
UpClosed(S) == \A v \in S : parent[v] # None => parent[v] \in S

Chain(u) == {v \in Unit : \A S \in SUBSET Unit : u \in S /\ UpClosed(S) => v \in S}

\* resolveRootCompany: the end of the chain.
RootOf(u) == {r \in Chain(u) : parent[r] = None}

\* subtreeHasPositions: positions in u or in a unit below it.
SubtreePositions(u) == {p \in Position : pos[p] # None /\ u \in Chain(pos[p].unit)}

\* SubtreeOrgUnits: u and its descendants down to the depth bound.
SubtreeOrgUnits(u) ==
    {v \in unit : \E n \in DOMAIN Up(v) : n <= MaxDepth /\ Up(v)[n] = u}

\* orgUnitUnderCompany.
OrgUnitUnderCompany(u, company) == company \in Chain(u)

\* checkCompanyIsRoot.
CheckCompanyIsRoot(u, par) == u \in CompanyUnit => par = None

RootAfter(u, par) == IF par = None THEN {u} ELSE RootOf(par)

-------------------------------------------------------------------------------
(* Transactions. *)

\* Mutated form: the advisory lock is a statement that waits for nobody.
LockIsFree(c) == TRUE

\* org.lock_org_tree: waits until no other transaction has the lock.
LockOrgTree(c) == treeLock \in {None, c}

Open(c, tx) ==
    /\ LockOrgTree(c)
    /\ treeLock' = c
    /\ call' = [call EXCEPT ![c] = tx]

Written(c) == call' = [call EXCEPT ![c].at = "written"]

\* The end of a transaction frees its locks.
Close(c) ==
    /\ call' = [call EXCEPT ![c] = Idle]
    /\ treeLock' = None

\* A written transaction has a row lock on what it changed and a key-share
\* lock on the rows its foreign keys name.
RowsHeld ==
    UNION {IF call[c] = Idle \/ call[c].at = "checked" THEN {}
           ELSE IF call[c].op = "seat" THEN {call[c].seat.unit, call[c].seat.company}
           ELSE {call[c].u, call[c].par} : c \in Client}

PositionsHeld ==
    {p \in Position : \E c \in Client : /\ call[c].op = "seat"
                                        /\ call[c].at = "written"
                                        /\ call[c].p = p}

\* CreateOrgUnit: the INSERT, whose trigger takes the lock and whose foreign
\* key finds the parent.
CreateOrgUnit(c, u, par) ==
    /\ call[c] = Idle
    /\ u \notin unit
    /\ u \notin RowsHeld
    /\ CheckCompanyIsRoot(u, par)
    /\ par \in unit \cup {None}
    /\ Open(c, [op |-> "create", u |-> u, par |-> par, at |-> "written"])
    /\ UNCHANGED <<unit, parent, pos, used>>

\* UpdateOrgUnit down to its UPDATE: the lock, then the cycle check on the
\* bounded subtree, the company check, and for a move the two roots.
UpdateOrgUnit(c, u, par) ==
    /\ call[c] = Idle
    /\ par # u
    /\ LockOrgTree(c)
    /\ par # None => par \notin SubtreeOrgUnits(u)
    /\ u \in unit
    /\ CheckCompanyIsRoot(u, par)
    /\ par # parent[u] =>
         /\ par \in unit \cup {None}
         /\ RootOf(u) # RootAfter(u, par) => SubtreePositions(u) = {}
    /\ Open(c, [op |-> "move", u |-> u, par |-> par, at |-> "checked"])
    /\ UNCHANGED <<unit, parent, pos, used>>

\* Mutated form: the database leaves the cycle check to the store.
MoveAllowedUnchecked(u, par) ==
    par # parent[u] /\ RootOf(u) # RootAfter(u, par) =>
        \A p \in SubtreePositions(u) : RootAfter(u, par) = {pos[p].company}

\* The triggers org_unit_lock_before_move and
\* org_unit_move_must_preserve_company.
MoveAllowed(u, par) ==
    par # parent[u] =>
        /\ par # None => u \notin Chain(par)
        /\ RootOf(u) # RootAfter(u, par) =>
             \A p \in SubtreePositions(u) : RootAfter(u, par) = {pos[p].company}

\* UpdateOrgUnit: the UPDATE.
UpdateOrgUnitWrite(c) ==
    /\ call[c].op = "move"
    /\ call[c].at = "checked"
    /\ call[c].u \in unit
    /\ call[c].par \in unit \cup {None}
    /\ MoveAllowed(call[c].u, call[c].par)
    /\ Written(c)
    /\ UNCHANGED <<unit, parent, pos, used, treeLock>>

\* The INSERT's row and the UPDATE's, once they are committed.
createOrgUnit(u, par) ==
    /\ unit' = unit \cup {u}
    /\ parent' = [parent EXCEPT ![u] = par]

updateOrgUnit(u, par) ==
    /\ parent' = [parent EXCEPT ![u] = par]
    /\ UNCHANGED unit

CommitUnit(c) ==
    /\ call[c].op \in {"create", "move"}
    /\ call[c].at = "written"
    /\ \/ call[c].op = "create" /\ createOrgUnit(call[c].u, call[c].par)
       \/ call[c].op = "move" /\ updateOrgUnit(call[c].u, call[c].par)
    /\ Close(c)
    /\ UNCHANGED <<pos, used>>

\* The lock, and the check that the unit is beneath the company.
SeatCheck(c, p, seat, new) ==
    /\ call[c] = Idle
    /\ LockOrgTree(c)
    /\ seat.unit \in unit
    /\ OrgUnitUnderCompany(seat.unit, seat.company)
    /\ Open(c, [op |-> "seat", p |-> p, seat |-> seat, new |-> new, at |-> "checked"])
    /\ UNCHANGED <<unit, parent, pos, used>>

\* CreatePosition down to its INSERT.
CreatePosition(c, p, seat) ==
    /\ pos[p] = None
    /\ SeatCheck(c, p, seat, TRUE)

\* UpdatePosition down to its UPDATE; it keeps the company it reads.
UpdatePosition(c, p, seat) ==
    /\ pos[p] # None
    /\ seat.company = pos[p].company
    /\ SeatCheck(c, p, seat, FALSE)

\* The INSERT or UPDATE: trigger validate_position_company, the foreign keys,
\* and for an UPDATE the row that must still be there.
SeatWrite(c) ==
    /\ call[c].op = "seat"
    /\ call[c].at = "checked"
    /\ LET seat == call[c].seat IN
         /\ {seat.unit, seat.company} \subseteq unit
         /\ seat.company \in CompanyUnit
         /\ OrgUnitUnderCompany(seat.unit, seat.company)
    /\ call[c].new <=> pos[call[c].p] = None
    /\ Written(c)
    /\ UNCHANGED <<unit, parent, pos, used, treeLock>>

createPosition(p, seat) == pos' = [pos EXCEPT ![p] = seat]

\* The UPDATE leaves company_id alone.
updatePosition(p, seat) == pos' = [pos EXCEPT ![p].unit = seat.unit]

CommitSeat(c) ==
    /\ call[c].op = "seat"
    /\ call[c].at = "written"
    /\ IF call[c].new THEN createPosition(call[c].p, call[c].seat)
                      ELSE updatePosition(call[c].p, call[c].seat)
    /\ Close(c)
    /\ UNCHANGED <<unit, parent, used>>

\* A refused statement, a failed audit append or a lost connection: the
\* transaction is rolled back.
Rollback(c) ==
    /\ call[c] # Idle
    /\ Close(c)
    /\ UNCHANGED <<unit, parent, pos, used>>

countOrgUnitChildren(u) == Cardinality({v \in unit : parent[v] = u})

\* Members; a group that names the company is found by its foreign key.
countMembersForCompany(u) == Cardinality(used \cap {u})

\* The DELETE, refused while a position names the unit or the company.
deleteOrgUnit(u) ==
    /\ \A p \in Position : pos[p] # None => u \notin {pos[p].company, pos[p].unit}
    /\ unit' = unit \ {u}
    /\ parent' = [parent EXCEPT ![u] = None]

\* DeleteOrgUnit: FOR UPDATE on the row, then the counts of children and
\* members, the DELETE with its foreign keys (positions, groups), the commit.
\* Whoever refers to the row waits for that lock, so it is one step.
DeleteOrgUnit(u) ==
    /\ u \in unit
    /\ u \notin RowsHeld
    /\ countOrgUnitChildren(u) = 0
    /\ countMembersForCompany(u) = 0
    /\ deleteOrgUnit(u)
    /\ UNCHANGED <<pos, used, treeLock, call>>

\* DeletePosition as far as the tree sees it (see module OrgPositions).
DeletePosition(p) ==
    /\ pos[p] # None
    /\ p \notin PositionsHeld
    /\ pos' = [pos EXCEPT ![p] = None]
    /\ UNCHANGED <<unit, parent, used, treeLock, call>>

\* CreateMember and CreateGroup as far as the tree sees them: a row that
\* names a company, which its trigger and foreign key require to be one.
UseCompany(u) ==
    /\ u \in unit \cap CompanyUnit
    /\ used' = used \cup {u}
    /\ UNCHANGED <<unit, parent, pos, treeLock, call>>

Transaction(c) ==
    \/ UpdateOrgUnitWrite(c)
    \/ CommitUnit(c)
    \/ SeatWrite(c)
    \/ CommitSeat(c)
    \/ Rollback(c)

-------------------------------------------------------------------------------
(* The handlers.  Each is behind authorize, decodes its body and passes it   *)
(* to the store; a refusal changes nothing.                                  *)

handleCreateUnit ==
    \E c \in Client, u \in Unit, par \in Unit \cup {None} : CreateOrgUnit(c, u, par)

handleUpdateUnit ==
    \E c \in Client, u \in Unit, par \in Unit \cup {None} : UpdateOrgUnit(c, u, par)

handleDeleteUnit == \E u \in Unit : DeleteOrgUnit(u)

\* POST positions: the company is in the body.
handleCreatePosition ==
    \E c \in Client, p \in Position, seat \in Seat : CreatePosition(c, p, seat)

\* The admin surface: the company is the path's, and without a unit in the
\* body the position goes to the company's own.
handleAdminCreatePosition(company) ==
    \E c \in Client, p \in Position, u \in Unit :
        CreatePosition(c, p, [company |-> company, unit |-> u])

handleUpdatePosition ==
    \E c \in Client, p \in Position, seat \in Seat : UpdatePosition(c, p, seat)

\* The admin surface: without a unit in the body it is the one of the row read
\* before the transaction, which may have moved by then, so again any unit.
handleAdminUpdatePosition ==
    \E c \in Client, p \in Position, u \in Unit :
        /\ pos[p] # None
        /\ UpdatePosition(c, p, [company |-> pos[p].company, unit |-> u])

handleDeletePosition == \E p \in Position : DeletePosition(p)

Next ==
    \/ handleCreateUnit \/ handleUpdateUnit \/ handleDeleteUnit
    \/ handleCreatePosition \/ handleUpdatePosition \/ handleDeletePosition
    \/ \E company \in Unit : handleAdminCreatePosition(company)
    \/ handleAdminUpdatePosition
    \/ \E c \in Client : Transaction(c)
    \/ \E u \in Unit : UseCompany(u)

Spec == Init /\ [][Next]_vars

-------------------------------------------------------------------------------
(* Properties. *)

(***************************************************************************)
(* Whatever moves, creates and deletes overlap, following parent_id from    *)
(* any unit ends at a root that exists: no cycle, no dangling parent.       *)
(* UpdateOrgUnit's own check stops at the depth bound of SubtreeOrgUnits    *)
(* and reads rows another transaction may be changing; the lock and the     *)
(* trigger of migration 0006 must close both gaps.                          *)
(***************************************************************************)
Forest ==
    \A u \in unit : /\ Chain(u) \subseteq unit
                    /\ RootOf(u) # {}

(***************************************************************************)
(* A position sits beneath its own company and that company is a root, also *)
(* when a unit moves while a position is being created in it or moved to    *)
(* it.                                                                      *)
(***************************************************************************)
PositionsUnderCompany ==
    \A p \in Position :
        pos[p] # None => RootOf(pos[p].unit) = {pos[p].company}

===============================================================================
