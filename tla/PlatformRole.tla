---------------------------- MODULE PlatformRole ----------------------------
(***************************************************************************)
(* The platform role, whose one record is the set of tuples                *)
(* system:platform#superadmin @ user:<subject>.  Two routes of the authz   *)
(* service change it (internal/authz/platform_role.go), each under one     *)
(* transaction-scoped advisory lock, and kiban-bootstrap seeds the first   *)
(* holder (internal/bootstrap/superadmin.go) under the lock that           *)
(* serializes bootstrap runs (lock.go) but not under the service's.        *)
(*                                                                         *)
(* Transactions are READ COMMITTED: every statement reads what is          *)
(* committed when it starts.  An INSERT waits for an open transaction that *)
(* inserted or deleted the same row.                                       *)
(***************************************************************************)
EXTENDS Naturals, Sequences, FiniteSets

CONSTANTS
    Subject,      \* Keycloak subjects
    SeedUser,     \* the subject of the configured bootstrap superadmin
    Client,       \* concurrent platform-role requests
    Boot,         \* kiban-bootstrap processes
    Registered,   \* subjects identity has a row for at first
    MaxRequests   \* bound: requests received

\* Actor of the bootstrap's ledger rows; owner of a free lock.
Bootstrap == "bootstrap"
Free == "free"

ASSUME PlatformRoleAssumption ==
    /\ SeedUser \in Subject
    /\ Registered \subseteq Subject
    /\ Client \cap Boot = {}
    /\ Free \notin Client \cup Boot
    /\ Bootstrap \notin Subject
    /\ MaxRequests \in Nat

VARIABLES
    holders,    \* committed superadmin tuples, by subject
    ledger,     \* authz.grant_ledger rows of the role, committed
    audited,    \* audit.authz__events rows of the role, committed
    known,      \* identity.user_account rows
    keycloak,   \* the seed's Keycloak user exists
    received,   \* requests so far
    lock,       \* holder of advisory lock 'authz.platform_role'
    bootLock,   \* holder of the bootstrap advisory lock
    pc,         \* process -> where it is
    req,        \* client -> [op, actor, subject]
    change      \* process -> what its open transaction did to the tuple

vars == <<holders, ledger, audited, known, keycloak, received, lock, bootLock,
          pc, req, change>>

committed == <<holders, ledger, audited, known>>

Proc == Client \cup Boot

Request == [op : {"grant", "revoke"}, actor : Subject, subject : Subject]

Entry == [op : {"grant", "revoke"}, actor : Subject \cup {Bootstrap}, subject : Subject]

Init ==
    /\ holders = {} /\ ledger = <<>> /\ audited = <<>>
    /\ known = Registered /\ keycloak = FALSE
    /\ received = 0
    /\ lock = Free /\ bootLock = Free
    /\ pc = [p \in Proc |-> "idle"]
    /\ req = [p \in Client |-> [op |-> "grant", actor |-> SeedUser, subject |-> SeedUser]]
    /\ change = [p \in Proc |-> "none"]

-----------------------------------------------------------------------------
At(p, s) == pc[p] = s
Goto(p, s) == pc' = [pc EXCEPT ![p] = s]

\* The row an open transaction of p writes.
Target(p) == IF p \in Client THEN req[p].subject ELSE SeedUser

View(p) ==
    CASE change[p] = "insert" -> holders \cup {Target(p)}
      [] change[p] = "delete" -> holders \ {Target(p)}
      [] OTHER -> holders

RowBusy(p) ==
    \E q \in Proc \ {p} : change[q] # "none" /\ Target(q) = Target(p)

\* store.Grant: INSERT ... ON CONFLICT DO NOTHING, ledgered when a row went in.
GrantTuple(p) ==
    /\ ~RowBusy(p)
    /\ change' = [change EXCEPT ![p] = IF Target(p) \in View(p) THEN "none" ELSE "insert"]

\* store.Revoke: DELETE, ledgered when a row went out.
RevokeTuple(p) ==
    /\ ~RowBusy(p)
    /\ change' = [change EXCEPT ![p] = IF Target(p) \in View(p) THEN "delete" ELSE "none"]

LedgerRows(p, row) == IF change[p] = "none" THEN <<>> ELSE <<row>>

\* Commit makes the tuple, its ledger row and the audit row visible at once.
CommitTuple(p, row) ==
    /\ holders' = View(p)
    /\ ledger' = ledger \o LedgerRows(p, row)
    /\ audited' = Append(audited, row)
    /\ change' = [change EXCEPT ![p] = "none"]

-----------------------------------------------------------------------------
(* The two routes: handleGrantPlatformRole, handleRevokePlatformRole. *)

Receive(p, r) ==
    /\ At(p, "idle") /\ received < MaxRequests
    /\ received' = received + 1
    /\ req' = [req EXCEPT ![p] = r]
    /\ Goto(p, "authorize")
    /\ UNCHANGED <<committed, keycloak, lock, bootLock, change>>

\* Faulty variant: any known user passes.
IsUser(s) == s \in known

\* authorizePlatformRoleChange: the global decision, which reads the tuple now.
IsSuperadmin(s) == s \in known /\ s \in holders

Authorize(p) ==
    /\ At(p, "authorize")
    /\ IsSuperadmin(req[p].actor)
    /\ Goto(p, IF req[p].op = "grant" THEN "lookup" ELSE "begin")
    /\ UNCHANGED <<committed, keycloak, received, lock, bootLock, req, change>>

\* Identity.Lookup of the subject that is to be granted.
Lookup(p) ==
    /\ At(p, "lookup")
    /\ req[p].subject \in known
    /\ Goto(p, "begin")
    /\ UNCHANGED <<committed, keycloak, received, lock, bootLock, req, change>>

\* 403, 404 or 503 before the transaction: not permitted, the subject unknown,
\* identity or Keycloak not answering, or the account disabled.
Refuse(p) ==
    /\ pc[p] \in {"authorize", "lookup"}
    /\ Goto(p, "idle")
    /\ UNCHANGED <<committed, keycloak, received, lock, bootLock, req, change>>

\* Faulty variant: no lock is taken before the count.
AcquireNothing(p) ==
    /\ At(p, "begin")
    /\ Goto(p, IF req[p].op = "grant" THEN "write" ELSE "held")
    /\ UNCHANGED <<committed, keycloak, received, lock, bootLock, req, change>>

AcquireLock(p) ==
    /\ At(p, "begin")
    /\ lock = Free
    /\ lock' = p
    /\ Goto(p, IF req[p].op = "grant" THEN "write" ELSE "held")
    /\ UNCHANGED <<committed, keycloak, received, bootLock, req, change>>

\* Faulty variant: a session-level lock nobody releases.
EndTxKeepLock(p) == Goto(p, "idle") /\ UNCHANGED lock

EndTx(p) ==
    /\ lock' = Free
    /\ Goto(p, "idle")

\* tupleHeld
CheckHeld(p) ==
    /\ At(p, "held")
    /\ req[p].subject \in View(p)
    /\ Goto(p, "count")
    /\ UNCHANGED <<committed, keycloak, received, lock, bootLock, req, change>>

NotHeld(p) ==
    /\ At(p, "held")
    /\ req[p].subject \notin View(p)
    /\ EndTx(p)
    /\ UNCHANGED <<committed, keycloak, received, bootLock, req, change>>

\* CountSuperadmins
IsLast(p) == Cardinality(View(p)) <= 1

CheckCount(p) ==
    /\ At(p, "count")
    /\ ~IsLast(p)
    /\ Goto(p, "write")
    /\ UNCHANGED <<committed, keycloak, received, lock, bootLock, req, change>>

LastSuperadmin(p) ==
    /\ At(p, "count")
    /\ IsLast(p)
    /\ EndTx(p)
    /\ UNCHANGED <<committed, keycloak, received, bootLock, req, change>>

WriteTuple(p) ==
    /\ At(p, "write")
    /\ \/ req[p].op = "grant" /\ GrantTuple(p)
       \/ req[p].op = "revoke" /\ RevokeTuple(p)
    /\ Goto(p, "commit")
    /\ UNCHANGED <<committed, keycloak, received, lock, bootLock, req>>

Commit(p) ==
    /\ At(p, "commit")
    /\ CommitTuple(p, req[p])
    /\ EndTx(p)
    /\ UNCHANGED <<known, keycloak, received, bootLock, req>>

\* A statement fails, the context is cancelled or the service dies.
Rollback(p) ==
    /\ pc[p] \in {"held", "count", "write", "commit"}
    /\ change' = [change EXCEPT ![p] = "none"]
    /\ EndTx(p)
    /\ UNCHANGED <<committed, keycloak, received, bootLock, req>>

HandlerStep(p) ==
    \/ Authorize(p) \/ Lookup(p) \/ Refuse(p) \/ AcquireLock(p)
    \/ CheckHeld(p) \/ NotHeld(p) \/ CheckCount(p) \/ LastSuperadmin(p)
    \/ WriteTuple(p) \/ Commit(p)

-----------------------------------------------------------------------------
(* kiban-bootstrap: WithAdvisoryLock around SuperadminStep. *)

Unchanged == UNCHANGED <<received, lock, req>>

\* Faulty variant: bootstrap runs are not serialized.
BootStartUnlocked(b) ==
    /\ At(b, "idle")
    /\ Goto(b, "count")
    /\ UNCHANGED <<committed, keycloak, bootLock, change>> /\ Unchanged

BootStart(b) ==
    /\ At(b, "idle") /\ bootLock = Free
    /\ bootLock' = b
    /\ Goto(b, "count")
    /\ UNCHANGED <<committed, keycloak, change>> /\ Unchanged

\* The marker is read outside any transaction.
BootCount(b) ==
    /\ At(b, "count")
    /\ IF holders = {} THEN Goto(b, "keycloak") /\ UNCHANGED bootLock
                       ELSE Goto(b, "idle") /\ bootLock' = Free
    /\ UNCHANGED <<committed, keycloak, change>> /\ Unchanged

\* findUserByUsername, else createUser.
BootKeycloak(b) ==
    /\ At(b, "keycloak")
    /\ keycloak' = TRUE
    /\ Goto(b, "write")
    /\ UNCHANGED <<committed, bootLock, change>> /\ Unchanged

\* seedSuperadminRecords: the identity row, the tuple, its ledger and audit
\* rows, one transaction.
BootWrite(b) ==
    /\ At(b, "write")
    /\ GrantTuple(b)
    /\ Goto(b, "commit")
    /\ UNCHANGED <<committed, keycloak, bootLock>> /\ Unchanged

BootCommit(b) ==
    /\ At(b, "commit")
    /\ CommitTuple(b, [op |-> "grant", actor |-> Bootstrap, subject |-> SeedUser])
    /\ known' = known \cup {SeedUser}
    /\ bootLock' = Free
    /\ Goto(b, "idle")
    /\ UNCHANGED keycloak /\ Unchanged

\* The process dies or a step fails: its session ends, and what Keycloak
\* created stays.
BootFail(b) ==
    /\ ~At(b, "idle")
    /\ change' = [change EXCEPT ![b] = "none"]
    /\ bootLock' = Free
    /\ Goto(b, "idle")
    /\ UNCHANGED <<committed, keycloak>> /\ Unchanged

BootStep(b) ==
    \/ BootCount(b) \/ BootKeycloak(b) \/ BootWrite(b) \/ BootCommit(b)

\* identity's resolve endpoint creates the row at first login.
Login(s) ==
    /\ known' = known \cup {s}
    /\ UNCHANGED <<holders, ledger, audited, keycloak, bootLock, pc, change>>
    /\ Unchanged

Next ==
    \/ \E p \in Client : HandlerStep(p) \/ Rollback(p) \/ \E r \in Request : Receive(p, r)
    \/ \E b \in Boot : BootStart(b) \/ BootStep(b) \/ BootFail(b)
    \/ \E s \in Subject : Login(s)

\* Handlers run to their end and need no failure to get there; Postgres grants
\* a lock in arrival order, so a handler that waits for it gets it.
Fairness ==
    /\ \A p \in Client : WF_vars(HandlerStep(p)) /\ SF_vars(AcquireLock(p))
    /\ \A b \in Boot : WF_vars(BootStep(b))

Spec == Init /\ [][Next]_vars
FairSpec == Spec /\ Fairness

-----------------------------------------------------------------------------
(* Properties. *)

\* Types of the role's holders, the ledger, the two locks and each process.
TypeOK ==
    /\ holders \subseteq Subject /\ known \subseteq Subject
    /\ ledger \in Seq(Entry) /\ audited \in Seq(Entry)
    /\ keycloak \in BOOLEAN
    /\ received \in 0..MaxRequests
    /\ lock \in Client \cup {Free}
    /\ bootLock \in Boot \cup {Free}
    /\ pc \in [Proc -> {"idle", "authorize", "lookup", "begin", "held", "count",
                        "keycloak", "write", "commit"}]
    /\ req \in [Client -> Request]
    /\ change \in [Proc -> {"none", "insert", "delete"}]

\* Once there is a superadmin there always is one: concurrent revokes, of each
\* other or of themselves, never leave zero (platform_role.go's advisory lock and
\* errLastSuperadmin).
SuperadminRemains == [][holders # {} => holders' # {}]_vars

\* Authority is traceable to the bootstrap: who changed the role had been
\* granted it before, also when it was revoked while the change was in flight
\* (authorizePlatformRoleChange runs before the transaction).
GrantedByHolders ==
    \A i \in DOMAIN ledger :
        \/ ledger[i].actor = Bootstrap
        \/ \E j \in 1..(i - 1) :
              ledger[j].op = "grant" /\ ledger[j].subject = ledger[i].actor

\* SuperadminStep is one-time: whatever crashes, reruns and concurrent runs,
\* bootstrap grants the role once and never again (superadmin.go: "A second run
\* is always OutcomeConverged").
BootstrapOnce ==
    \A i, j \in DOMAIN ledger :
        ledger[i].actor = Bootstrap /\ ledger[j].actor = Bootstrap => i = j

\* Every request is answered: nobody waits for ever on the advisory lock, on a
\* row or on a bootstrap run that died.
Answered == \A p \in Client : pc[p] # "idle" ~> pc[p] = "idle"
=============================================================================
