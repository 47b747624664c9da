------------------------------- MODULE Grants -------------------------------
(***************************************************************************)
(* POST /internal/authz/grants: the rules handleGrants checks before it    *)
(* writes (internal/authz/http.go) and the transaction that writes         *)
(* (writeGrants, internal/authz/store/store.go writeTuples).               *)
(*                                                                         *)
(* Every check reads committed tuples outside any transaction.  The write  *)
(* is a READ COMMITTED transaction of one statement per tuple: it sees     *)
(* what others committed and its own writes, it waits for a row or a       *)
(* unique-index entry another open transaction touched, and it is visible  *)
(* to others only from its commit on.                                      *)
(*                                                                         *)
(* One module M is modelled.  A tuple on an object of M is its anchor      *)
(* (object#company_module @ company_module:<company>/M) or a role; a tuple *)
(* on company_module:<company>/M itself is written under the company's own *)
(* name and makes its subject the module's admin there.                    *)
(***************************************************************************)
EXTENDS Naturals, Sequences, FiniteSets

CONSTANTS
    Client,      \* concurrent requests
    Company,
    Object,      \* objects of M
    Actor,       \* bearers
    Owner,       \* the app that registered M: verified azp, a member nowhere
    Access,      \* <<actor, company>> pairs that pass decision steps 1-6
    Request,     \* [op, actor, company, tuples] bodies that pass validation
    InitTuples,  \* tuples stored at first
    MaxRequests  \* bound: requests received

Tuple ==
    [obj : Object, rel : {"anchor"}, sub : Company]
      \cup [obj : Object, rel : {"role"}, sub : Actor]
      \cup [obj : Company, rel : {"admin"}, sub : Actor]

ASSUME GrantsAssumption ==
    /\ Owner \in Actor
    /\ Company \cap Object = {}
    /\ Access \subseteq Actor \X Company
    \* No role has been granted yet; the index allows an object one anchor.
    /\ InitTuples \subseteq Tuple /\ IsFiniteSet(InitTuples)
    /\ \A t \in InitTuples : t.rel # "role"
    /\ \A t, u \in InitTuples : t.rel = "anchor" /\ u.rel = "anchor" /\ t.obj = u.obj => t = u
    /\ MaxRequests \in Nat
    /\ Request # {}
    /\ \A r \in Request :
          /\ r.op \in {"grant", "revoke"} /\ r.actor \in Actor /\ r.company \in Company
          /\ r.tuples \in Seq(Tuple) /\ r.tuples # <<>>
          \* Rule 1: a company_module object is that of the request's company.
          /\ \A i \in DOMAIN r.tuples :
                r.tuples[i].rel = "admin" => r.tuples[i].obj = r.company

VARIABLES
    tuples,     \* authz.tuple, committed
    ledger,     \* authz.grant_ledger, committed, in id order
    received,   \* requests so far
    pc,         \* client -> where its handler is
    req,        \* client -> its request
    at,         \* client -> the tuple the handler's loop is at
    inserted,   \* client -> rows its open transaction inserted
    deleted,    \* client -> rows its open transaction deleted
    entries,    \* client -> ledger rows its open transaction wrote
    grantedFor, \* history: tuple -> the company of the request that granted it
    raced       \* history: objects whose anchor went while a grant was past its checks

vars == <<tuples, ledger, received, pc, req, at, inserted, deleted, entries,
          grantedFor, raced>>

tx == <<inserted, deleted, entries>>
db == <<tuples, ledger, grantedFor, raced>>

Idle == "idle"
NoRequest == CHOOSE r \in Request : TRUE
NoOne == CHOOSE c \in Company : TRUE

Init ==
    /\ tuples = InitTuples
    /\ ledger = <<>>
    /\ received = 0
    /\ pc = [p \in Client |-> Idle]
    /\ req = [p \in Client |-> NoRequest]
    /\ at = [p \in Client |-> 1]
    /\ inserted = [p \in Client |-> {}]
    /\ deleted = [p \in Client |-> {}]
    /\ entries = [p \in Client |-> <<>>]
    /\ grantedFor = [t \in Tuple |-> IF t.rel = "anchor" THEN t.sub ELSE NoOne]
    /\ raced = {}

-----------------------------------------------------------------------------
(* What a request says. *)

At(p, s) == pc[p] = s
Goto(p, s) == pc' = [pc EXCEPT ![p] = s]
Body(p) == req[p].tuples
Current(p) == Body(p)[at[p]]
Grants(p) == req[p].op = "grant"

Anchor(o, c) == [obj |-> o, rel |-> "anchor", sub |-> c]

\* AnchorOf and the anchored check both look the object's anchor row up.
AnchorsOf(T, o) == {t \in T : t.obj = o /\ t.rel = "anchor"}

\* inRequestAnchor: a grant that carries the object's anchor to the request's
\* own company.
InRequestAnchor(p, o) ==
    Grants(p) /\ \E i \in DOMAIN Body(p) : Body(p)[i] = Anchor(o, req[p].company)

AnchoredInRequest(p) ==
    {o \in Object : InRequestAnchor(p, o)}

\* checker.Check(company_module, <company>/M, admin, user): the direct tuple
\* stands for the relation.
IsAdmin(p) ==
    [obj |-> req[p].company, rel |-> "admin", sub |-> req[p].actor] \in tuples

-----------------------------------------------------------------------------
(* handleGrants up to the write. *)

Receive(p, r) ==
    /\ At(p, Idle)
    /\ received < MaxRequests
    /\ received' = received + 1
    /\ req' = [req EXCEPT ![p] = r]
    /\ at' = [at EXCEPT ![p] = 1]
    /\ Goto(p, "decide")
    /\ UNCHANGED <<db, tx>>

\* A refusal, or a dependency that cannot be asked, ends the request unwritten.
Refuse(p) ==
    /\ pc[p] \in {"decide", "conflict", "check", "cleanup"}
    /\ Goto(p, Idle)
    /\ UNCHANGED <<db, received, req, at, tx>>

\* Rule 3; the owner rule skips it.
Decide(p) ==
    /\ At(p, "decide")
    /\ req[p].actor = Owner \/ <<req[p].actor, req[p].company>> \in Access
    /\ Goto(p, "conflict")
    /\ UNCHANGED <<db, received, req, at, tx>>

\* An in-request anchor on an object anchored elsewhere is refused.
NotAnchoredElsewhere(p) ==
    \A o \in AnchoredInRequest(p) :
        AnchorsOf(tuples, o) \subseteq {Anchor(o, req[p].company)}

CheckConflict(p) ==
    /\ At(p, "conflict")
    /\ NotAnchoredElsewhere(p)
    /\ Goto(p, "check")
    /\ UNCHANGED <<db, received, req, at, tx>>

Advance(p) ==
    IF at[p] = Len(Body(p))
    THEN at' = [at EXCEPT ![p] = 1] /\ Goto(p, "write")
    ELSE at' = [at EXCEPT ![p] = @ + 1] /\ Goto(p, "check")

\* adminChecked: the admin relation is asked for once per request.
AdminChecked(p) == \E i \in 1..(at[p] - 1) : Body(p)[i].rel = "admin"

\* Rules 2 and 4 for one tuple.
Admissible(p, t) ==
    \/ t.rel = "admin" /\ (AdminChecked(p) \/ IsAdmin(p))
    \/ t.rel # "admin" /\ InRequestAnchor(p, t.obj)
    \/ /\ t.rel # "admin" /\ ~InRequestAnchor(p, t.obj)
       /\ t.rel = "anchor" => ~Grants(p)
       /\ Anchor(t.obj, req[p].company) \in tuples

CheckTuple(p) ==
    /\ At(p, "check")
    /\ Admissible(p, Current(p))
    /\ Advance(p)
    /\ UNCHANGED <<db, received, req, tx>>

\* Not anchored here: the owner goes on to ask AnchorOf, a second read.
NotAnchoredHere(p) ==
    /\ At(p, "check")
    /\ Current(p).rel # "admin"
    /\ ~Admissible(p, Current(p))
    /\ ~Grants(p) /\ req[p].actor = Owner
    /\ Goto(p, "cleanup")
    /\ UNCHANGED <<db, received, req, at, tx>>

OwnerCleanup(p) ==
    /\ At(p, "cleanup")
    /\ AnchorsOf(tuples, Current(p).obj) = {}
    /\ Advance(p)
    /\ UNCHANGED <<db, received, req, tx>>

-----------------------------------------------------------------------------
(* writeGrants: the transaction. *)

\* What a statement of p's transaction sees.
View(p) == (tuples \ deleted[p]) \cup inserted[p]

Touched(q) == inserted[q] \cup deleted[q]
Others(p) == Client \ {p}

\* INSERT waits for an open transaction that inserted or deleted the same key,
\* or the same entry of tuple_one_anchor_per_object.
SameKey(t, u) == t = u \/ (t.rel = "anchor" /\ u.rel = "anchor" /\ t.obj = u.obj)

Waits(p, t) == \E q \in Others(p) : \E u \in Touched(q) : SameKey(t, u)

Entry(t, op) == [tuple |-> t, op |-> op]

NextTuple(p) ==
    IF at[p] = Len(Body(p))
    THEN Goto(p, "commit") /\ UNCHANGED at
    ELSE at' = [at EXCEPT ![p] = @ + 1] /\ Goto(p, "write")

\* INSERT ... ON CONFLICT (primary key) DO NOTHING; a ledger row only when a
\* row was inserted.
InsertTuple(p) ==
    LET t == Current(p)
    IN  /\ At(p, "write") /\ Grants(p)
        /\ ~Waits(p, t)
        /\ t.rel = "anchor" => AnchorsOf(View(p), t.obj) \subseteq {t}
        /\ IF t \in View(p)
           THEN UNCHANGED tx
           ELSE /\ inserted' = [inserted EXCEPT ![p] = @ \cup {t}]
                /\ entries' = [entries EXCEPT ![p] = Append(@, Entry(t, "grant"))]
                /\ UNCHANGED deleted
        /\ NextTuple(p)
        /\ UNCHANGED <<db, received, req>>

EndTx(p) ==
    /\ inserted' = [inserted EXCEPT ![p] = {}]
    /\ deleted' = [deleted EXCEPT ![p] = {}]
    /\ entries' = [entries EXCEPT ![p] = <<>>]
    /\ Goto(p, Idle)

\* The unique index raises: AnchorConflictError, and the transaction rolls back.
AnchorConflict(p) ==
    /\ At(p, "write") /\ Grants(p)
    /\ Current(p).rel = "anchor"
    /\ ~Waits(p, Current(p))
    /\ ~(AnchorsOf(View(p), Current(p).obj) \subseteq {Current(p)})
    /\ EndTx(p)
    /\ UNCHANGED <<db, received, req, at>>

\* DELETE waits for the row's lock, and deletes nothing once the row is gone.
DeleteTuple(p) ==
    LET t == Current(p)
    IN  /\ At(p, "write") /\ ~Grants(p)
        /\ \A q \in Others(p) : t \notin deleted[q]
        /\ IF t \in View(p)
           THEN /\ deleted' = [deleted EXCEPT ![p] = @ \cup {t}]
                /\ entries' = [entries EXCEPT ![p] = Append(@, Entry(t, "revoke"))]
                /\ UNCHANGED inserted
                /\ IF t.rel = "anchor" THEN Goto(p, "cascade") /\ UNCHANGED at
                                       ELSE NextTuple(p)
           ELSE UNCHANGED tx /\ NextTuple(p)
        /\ UNCHANGED <<db, received, req>>

\* Faulty variant: the anchor goes alone.
RestStays(p) == {}

\* revokeObjectRest: one DELETE of every row its snapshot shows on the object.
Rest(p) == {t \in View(p) : t.obj = Current(p).obj}

LedgerOrders(S) ==
    {s \in [1..Cardinality(S) -> S] : \A i, j \in DOMAIN s : s[i] = s[j] => i = j}

\* Faulty variant: the cascade is not ledgered.
CascadeUnledgered(p) ==
    /\ At(p, "cascade")
    /\ \A q \in Others(p) : Rest(p) \cap deleted[q] = {}
    /\ deleted' = [deleted EXCEPT ![p] = @ \cup Rest(p)]
    /\ NextTuple(p)
    /\ UNCHANGED <<db, received, req, inserted, entries>>

Cascade(p) ==
    /\ At(p, "cascade")
    /\ \A q \in Others(p) : Rest(p) \cap deleted[q] = {}
    /\ deleted' = [deleted EXCEPT ![p] = @ \cup Rest(p)]
    /\ \E s \in LedgerOrders(Rest(p)) :
          entries' = [entries EXCEPT ![p] =
                        @ \o [i \in DOMAIN s |-> Entry(s[i], "revoke")]]
    /\ NextTuple(p)
    /\ UNCHANGED <<db, received, req, inserted>>

\* A grant on o that is at or past its checks and not committed yet.
InFlight(q, o) ==
    /\ Grants(q)
    /\ pc[q] \in {"check", "write", "commit"}
    /\ \E i \in DOMAIN Body(q) : Body(q)[i].obj = o

\* p commits the end of o's anchor while a grant on o is in flight, or a grant
\* on o while another transaction holds the end of its anchor.
Races(p, o) ==
    \E q \in Others(p) :
        \/ AnchorsOf(deleted[p], o) # {} /\ InFlight(q, o)
        \/ AnchorsOf(deleted[q], o) # {} /\ \E t \in inserted[p] : t.obj = o

Commit(p) ==
    /\ At(p, "commit")
    /\ tuples' = View(p)
    /\ ledger' = ledger \o entries[p]
    /\ grantedFor' = [t \in Tuple |-> IF t \in inserted[p] THEN req[p].company
                                                           ELSE grantedFor[t]]
    /\ raced' = raced \cup {o \in Object : Races(p, o)}
    /\ EndTx(p)
    /\ UNCHANGED <<received, req, at>>

\* A failing statement, a deadlock Postgres breaks, or a lost connection.
Rollback(p) ==
    /\ pc[p] \in {"write", "cascade", "commit"}
    /\ EndTx(p)
    /\ UNCHANGED <<db, received, req, at>>

Step(p) ==
    \/ Decide(p) \/ CheckConflict(p) \/ CheckTuple(p) \/ NotAnchoredHere(p)
    \/ OwnerCleanup(p) \/ Refuse(p)
    \/ InsertTuple(p) \/ AnchorConflict(p) \/ DeleteTuple(p) \/ Cascade(p)
    \/ Commit(p) \/ Rollback(p)

Next == \E p \in Client : Step(p) \/ \E r \in Request : Receive(p, r)

Spec == Init /\ [][Next]_vars

-----------------------------------------------------------------------------
(* Properties. *)

\* Types of the tuples, the ledger and each request's transaction; a request
\* always points at a tuple of its body.
TypeOK ==
    /\ tuples \subseteq Tuple
    /\ ledger \in Seq([tuple : Tuple, op : {"grant", "revoke"}])
    /\ received \in 0..MaxRequests
    /\ pc \in [Client -> {"idle", "decide", "conflict", "check", "cleanup",
                          "write", "cascade", "commit"}]
    /\ req \in [Client -> Request]
    /\ at \in [Client -> Nat]
    /\ \A p \in Client : at[p] \in DOMAIN Body(p)
    /\ inserted \in [Client -> SUBSET Tuple]
    /\ deleted \in [Client -> SUBSET Tuple]
    /\ entries \in [Client -> Seq([tuple : Tuple, op : {"grant", "revoke"}])]
    /\ grantedFor \in [Tuple -> Company]
    /\ raced \subseteq Object

LastEntry(t) ==
    LET mine == {i \in DOMAIN ledger : ledger[i].tuple = t}
    IN  IF mine = {} THEN "none"
        ELSE ledger[CHOOSE i \in mine : \A j \in mine : j <= i].op

\* Replaying the ledger over the initial tuples gives the tuple table: no change
\* without its row, the cascade's included, and no row for a no-op (writeTuples:
\* "The ledger records changes, not requests").
LedgerReplays ==
    \A t \in Tuple :
        t \in tuples <=> LastEntry(t) = "grant"
                            \/ (LastEntry(t) = "none" /\ t \in InitTuples)

\* A role on an object belongs to the company the object is anchored to.
RoleMatchesAnchor(t) ==
    t.rel = "role" => AnchorsOf(tuples, t.obj) = {Anchor(t.obj, grantedFor[t])}

\* An object belongs to one company.  It never carries the anchors of two,
\* whatever requests race (index tuple_one_anchor_per_object and the conflict it
\* raises); and outside the window between a grant's check and its commit,
\* revoking an anchor leaves no role behind that a later anchor of the same id
\* could revive (revokeObjectRest).
NoRevivalUnlessRaced ==
    /\ \A o \in Object : Cardinality(AnchorsOf(tuples, o)) <= 1
    /\ \A t \in tuples : t.obj \notin raced => RoleMatchesAnchor(t)
=============================================================================
