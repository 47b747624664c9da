----------------------------- MODULE PlatformProofs -----------------------------
(***************************************************************************)
(* The platform services, each for any value of its constants: of the       *)
(* platform role that a superadmin always remains, that authority is        *)
(* traceable and that bootstrap grants once; of the org tree that it stays  *)
(* a forest with every position under its company; of the registry that one *)
(* quiet boot settles it and that an exclusion lasts; of identity that a    *)
(* sync writes the mode alone and that a disable is seen in time; and at    *)
(* the gateway that withdrawn keys expire, that rotations heal and that     *)
(* requests are forwarded on recent facts.  Each component has an inductive *)
(* invariant of its own; the last section puts them together.               *)
(***************************************************************************)
EXTENDS Platform, FiniteSetTheorems, TLAPS

(* The platform role. *)

\* The type invariant is inductive on its own.
LEMMA TypeInit == Init => TypeOK
  <1> SUFFICES ASSUME Init PROVE TypeOK
    OBVIOUS
  <1>1. [p \in Proc |-> "idle"] \in [Proc -> {"idle", "authorize", "lookup", "begin",
                                  "held", "count", "keycloak", "write", "commit"}]
    OBVIOUS
  <1>2. [op |-> "grant", actor |-> SeedUser, subject |-> SeedUser] \in Request
    BY PlatformRoleAssumption DEF Request
  <1>3. ledger \in Seq(Entry) /\ audited \in Seq(Entry)
    BY DEF Init
  <1>4. keycloak \in BOOLEAN
    BY DEF Init
  <1>5. received \in 0..MaxRequests
    BY PlatformRoleAssumption DEF Init
  <1>6. req \in [Client -> Request] /\ change \in [Proc -> {"none", "insert", "delete"}]
    BY <1>2 DEF Init
  <1>7. QED
    BY <1>1, <1>3, <1>4, <1>5, <1>6, PlatformRoleAssumption DEF Init, TypeOK

\* What a commit appends is a ledger entry.
LEMMA CommitType ==
  ASSUME TypeOK, NEW p \in Proc, NEW entry \in Entry, CommitTuple(p, entry)
  PROVE  /\ holders' \subseteq Subject
         /\ ledger' \in Seq(Entry)
         /\ audited' \in Seq(Entry)
         /\ change' \in [Proc -> {"none", "insert", "delete"}]
  <1>1. Target(p) \in Subject
    BY PlatformRoleAssumption DEF TypeOK, Target, Request
  <1>2. holders' \subseteq Subject
    BY <1>1 DEF CommitTuple, View, TypeOK
  <1>3. LedgerRows(p, entry) \in Seq(Entry)
    BY DEF LedgerRows
  <1>4. QED
    BY <1>2, <1>3 DEF CommitTuple, TypeOK

\* Every step of a handler, of a bootstrap run or of a login keeps the types.
LEMMA TypeNext == TypeOK /\ [Next]_vars => TypeOK'
  <1> SUFFICES ASSUME TypeOK, [Next]_vars PROVE TypeOK'
    OBVIOUS
  <1> USE DEF TypeOK, Proc
  <1>1. ASSUME NEW p \in Client, HandlerStep(p) PROVE TypeOK'
    <2>1. CASE Authorize(p)
      BY <2>1 DEF Authorize, Goto, committed
    <2>2. CASE Lookup(p)
      BY <2>2 DEF Lookup, Goto, committed
    <2>3. CASE Refuse(p)
      BY <2>3 DEF Refuse, Goto, committed
    <2>4. CASE AcquireLock(p)
      BY <2>4 DEF AcquireLock, Goto, committed
    <2>5. CASE CheckHeld(p)
      BY <2>5 DEF CheckHeld, Goto, committed
    <2>6. CASE NotHeld(p)
      BY <2>6 DEF NotHeld, EndTx, Goto, committed
    <2>7. CASE CheckCount(p)
      BY <2>7 DEF CheckCount, Goto, committed
    <2>8. CASE LastSuperadmin(p)
      BY <2>8 DEF LastSuperadmin, EndTx, Goto, committed
    <2>9. CASE WriteTuple(p)
      BY <2>9 DEF WriteTuple, GrantTuple, RevokeTuple, Goto, committed
    <2>10. CASE Commit(p)
      <3>1. req[p] \in Entry
        BY DEF Request, Entry
      <3>2. CommitTuple(p, req[p])
        BY <2>10 DEF Commit
      <3>3. QED
        BY <2>10, <3>1, <3>2, CommitType DEF Commit, EndTx, Goto
    <2>11. QED
      BY <1>1, <2>1, <2>2, <2>3, <2>4, <2>5, <2>6, <2>7, <2>8, <2>9, <2>10 DEF HandlerStep
  <1>2. ASSUME NEW p \in Client, Rollback(p) PROVE TypeOK'
    BY <1>2 DEF Rollback, EndTx, Goto, committed
  <1>3. ASSUME NEW p \in Client, NEW r \in Request, Receive(p, r) PROVE TypeOK'
    BY <1>3, PlatformRoleAssumption DEF Receive, Goto, committed
  <1>4. ASSUME NEW b \in Boot, BootStart(b) \/ BootStep(b) \/ BootFail(b) PROVE TypeOK'
    <2> USE DEF Unchanged
    <2>1. CASE BootStart(b)
      BY <2>1 DEF BootStart, Goto, committed
    <2>2. CASE BootCount(b)
      BY <2>2 DEF BootCount, Goto, committed
    <2>3. CASE BootKeycloak(b)
      BY <2>3 DEF BootKeycloak, Goto, committed
    <2>4. CASE BootWrite(b)
      BY <2>4 DEF BootWrite, GrantTuple, Goto, committed
    <2>5. CASE BootCommit(b)
      <3> DEFINE entry == [op |-> "grant", actor |-> Bootstrap, subject |-> SeedUser]
      <3>1. entry \in Entry
        BY PlatformRoleAssumption DEF Entry
      <3>2. CommitTuple(b, entry)
        BY <2>5 DEF BootCommit
      <3>3. QED
        BY <2>5, <3>1, <3>2, CommitType, PlatformRoleAssumption DEF BootCommit, Goto
    <2>6. CASE BootFail(b)
      BY <2>6 DEF BootFail, Goto, committed
    <2>7. QED
      BY <1>4, <2>1, <2>2, <2>3, <2>4, <2>5, <2>6 DEF BootStep
  <1>5. ASSUME NEW s \in Subject, Login(s) PROVE TypeOK'
    BY <1>5 DEF Login, Unchanged
  <1>6. CASE UNCHANGED vars
    BY <1>6 DEF vars
  <1>7. QED
    BY <1>1, <1>2, <1>3, <1>4, <1>5, <1>6 DEF Next

\* Every variable keeps its type, whatever the constants.
THEOREM TypeCorrect == Spec => []TypeOK
  BY TypeInit, TypeNext, PTL DEF Spec

-----------------------------------------------------------------------------
(* The inductive invariant. *)

Locked == {"held", "count", "write", "commit"}

\* Only the holder of the advisory lock is inside the transaction, and only an
\* open transaction about to commit has changed an entry.
LockInv ==
    /\ \A p \in Client : pc[p] \in Locked => lock = p
    /\ \A p \in Client : pc[p] # "keycloak"
    /\ \A p \in Proc : change[p] # "none" => pc[p] = "commit"
    /\ \A p \in Client : change[p] = "delete" => req[p].op = "revoke"
    /\ \A p \in Client : change[p] = "insert" => req[p].op = "grant"
    /\ \A b \in Boot : change[b] # "delete"

\* What the revoke checked still holds when it commits.
RevokeInv ==
    \A p \in Client :
        pc[p] \in {"write", "commit"} /\ req[p].op = "revoke"
            => \E s \in holders : s # req[p].subject

GrantedIn(s, n) == \E j \in 1..n : ledger[j].op = "grant" /\ ledger[j].subject = s

\* A holder, and the actor of a request that was authorized, was granted the role.
AuthorityInv ==
    /\ \A s \in holders : GrantedIn(s, Len(ledger))
    /\ \A p \in Client : pc[p] \notin {"idle", "authorize"}
                            => GrantedIn(req[p].actor, Len(ledger))

Seeded == \E i \in DOMAIN ledger : ledger[i].actor = Bootstrap

Seeding == {"keycloak", "write", "commit"}

\* Bootstrap runs exclude each other, and none is past the marker once the
\* role was seeded.
SeedInv ==
    /\ \A b \in Boot : pc[b] # "idle" => bootLock = b
    /\ Seeded => holders # {}
    /\ \A b \in Boot : pc[b] \in Seeding => ~Seeded

IInv ==
    /\ LockInv /\ RevokeInv /\ AuthorityInv /\ SeedInv
    /\ BootstrapOnce /\ GrantedByHolders


\* With no holder, no ledger entry and both locks free the invariant holds.
LEMMA InvInit == Init => IInv
  <1> SUFFICES ASSUME Init PROVE IInv
    OBVIOUS
  <1> USE DEF Init, Proc
  <1>1. LockInv
    BY DEF LockInv, Locked
  <1>2. RevokeInv
    BY DEF RevokeInv
  <1>3. AuthorityInv
    BY DEF AuthorityInv
  <1>4. SeedInv
    BY DEF SeedInv, Seeded, Seeding
  <1>5. BootstrapOnce /\ GrantedByHolders
    BY DEF BootstrapOnce, GrantedByHolders
  <1>6. QED
    BY <1>1, <1>2, <1>3, <1>4, <1>5 DEF IInv

\* Steps that leave the committed tuples and ledger alone.
LEMMA LocalStep ==
  ASSUME TypeOK, TypeOK', IInv, NEW p \in Client,
         \/ Authorize(p) \/ Lookup(p) \/ Refuse(p) \/ AcquireLock(p)
         \/ CheckHeld(p) \/ NotHeld(p) \/ CheckCount(p) \/ LastSuperadmin(p)
         \/ WriteTuple(p) \/ Rollback(p)
  PROVE  IInv'
  <1> UNCHANGED <<holders, ledger, bootLock, req>>
    BY DEF Authorize, Lookup, Refuse, AcquireLock, CheckHeld, NotHeld, CheckCount,
           LastSuperadmin, WriteTuple, Rollback, committed
  <1>1. LockInv'
    <2> USE PlatformRoleAssumption DEF IInv, LockInv, Locked, TypeOK, Proc, At, Goto
    <2>1. CASE Authorize(p) \/ Lookup(p) \/ Refuse(p)
      BY <2>1 DEF Authorize, Lookup, Refuse
    <2>2. CASE AcquireLock(p)
      BY <2>2 DEF AcquireLock
    <2>3. CASE CheckHeld(p) \/ CheckCount(p)
      BY <2>3 DEF CheckHeld, CheckCount
    <2>4. CASE NotHeld(p) \/ LastSuperadmin(p)
      <3>1. CASE NotHeld(p)
        BY <3>1 DEF NotHeld, EndTx
      <3>2. CASE LastSuperadmin(p)
        BY <3>2 DEF LastSuperadmin, EndTx
      <3>3. QED
        BY <2>4, <3>1, <3>2
    <2>5. CASE WriteTuple(p)
      BY <2>5 DEF WriteTuple, GrantTuple, RevokeTuple
    <2>6. CASE Rollback(p)
      BY <2>6 DEF Rollback, EndTx
    <2>7. QED
      BY <2>1, <2>2, <2>3, <2>4, <2>5, <2>6
  <1>2. RevokeInv'
    <2>1. CASE CheckCount(p)
      <3>1. ~(Cardinality(holders) <= 1)
        <4>1. change[p] = "none"
          BY <2>1 DEF CheckCount, At, IInv, LockInv, TypeOK, Proc
        <4>2. QED
          BY <2>1, <4>1 DEF CheckCount, IsLast, View
      <3>2. \E s \in holders : s # req[p].subject
        <4>1. SUFFICES ASSUME holders \subseteq {req[p].subject} PROVE FALSE
          OBVIOUS
        <4>2. holders = {} \/ holders = {req[p].subject}
          BY <4>1
        <4>3. Cardinality(holders) = 0 \/ Cardinality(holders) = 1
          BY <4>2, FS_EmptySet, FS_Singleton
        <4>4. QED
          BY <3>1, <4>3
      <3>3. QED
        BY <2>1, <3>2 DEF CheckCount, Goto, IInv, RevokeInv, TypeOK, Proc
    <2>2. CASE ~CheckCount(p)
      BY <2>2 DEF IInv, RevokeInv, TypeOK, Proc, At, Authorize, Lookup, Refuse,
         AcquireLock, CheckHeld, NotHeld, LastSuperadmin, WriteTuple, Rollback,
         EndTx, Goto, LockInv
    <2>3. QED
      BY <2>1, <2>2
  <1>3. AuthorityInv'
    <2>1. \A s, n : GrantedIn(s, n)' <=> GrantedIn(s, n)
      BY DEF GrantedIn
    <2>2. ASSUME NEW q \in Client, pc'[q] \notin {"idle", "authorize"}
          PROVE  GrantedIn(req[q].actor, Len(ledger))
      BY <2>2 DEF IInv, AuthorityInv, IsSuperadmin, TypeOK, Proc, At, Authorize, Lookup,
         Refuse, AcquireLock, CheckHeld, NotHeld, CheckCount, LastSuperadmin,
         WriteTuple, Rollback, EndTx, Goto
    <2>3. QED
      BY <2>1, <2>2 DEF IInv, AuthorityInv
  <1>4. SeedInv'
    BY PlatformRoleAssumption
       DEF IInv, SeedInv, Seeded, Seeding, TypeOK, Proc, Authorize, Lookup, Refuse,
           AcquireLock, CheckHeld, NotHeld, CheckCount, LastSuperadmin, WriteTuple,
           Rollback, EndTx, Goto
  <1>5. QED
    BY <1>1, <1>2, <1>3, <1>4 DEF IInv, BootstrapOnce, GrantedByHolders

\* A ledger only grows, so what was granted in it stays granted.
LEMMA LedgerGrows ==
  ASSUME ledger \in Seq(Entry), NEW rows \in Seq(Entry), ledger' = ledger \o rows
  PROVE  /\ ledger' \in Seq(Entry)
         /\ Len(ledger') = Len(ledger) + Len(rows)
         /\ \A i \in DOMAIN ledger : i \in DOMAIN ledger' /\ ledger'[i] = ledger[i]
         /\ \A s : GrantedIn(s, Len(ledger)) => GrantedIn(s, Len(ledger))'
  <1>1. ledger' \in Seq(Entry) /\ Len(ledger') = Len(ledger) + Len(rows)
    OBVIOUS
  <1>2. \A i \in DOMAIN ledger : i \in DOMAIN ledger' /\ ledger'[i] = ledger[i]
    OBVIOUS
  <1>3. ASSUME NEW s, GrantedIn(s, Len(ledger)) PROVE GrantedIn(s, Len(ledger))'
    <2>1. PICK j \in 1..Len(ledger) : ledger[j].op = "grant" /\ ledger[j].subject = s
      BY <1>3 DEF GrantedIn
    <2>2. j \in 1..Len(ledger') /\ ledger'[j] = ledger[j]
      BY <1>1, <1>2
    <2>3. QED
      BY <2>1, <2>2 DEF GrantedIn
  <1>4. QED
    BY <1>1, <1>2, <1>3

\* A request that arrives changes nothing the invariant reads but its own slot.
LEMMA ReceiveStep ==
  ASSUME TypeOK, TypeOK', IInv, NEW p \in Client, NEW r \in Request, Receive(p, r)
  PROVE  IInv'
  <1> UNCHANGED <<holders, ledger, bootLock, lock, change>>
    BY DEF Receive, committed
  <1> USE DEF IInv, TypeOK, Proc, At, Goto, Receive
  <1>1. LockInv'
    BY DEF LockInv, Locked
  <1>2. RevokeInv'
    BY DEF RevokeInv
  <1>3. AuthorityInv'
    BY DEF AuthorityInv, GrantedIn
  <1>4. SeedInv'
    BY PlatformRoleAssumption DEF SeedInv, Seeded, Seeding
  <1>5. QED
    BY <1>1, <1>2, <1>3, <1>4 DEF BootstrapOnce, GrantedByHolders

\* A client's commit: a grant adds a holder, a revoke leaves the one it saw.
LEMMA CommitStep ==
  ASSUME TypeOK, TypeOK', IInv, NEW p \in Client, Commit(p)
  PROVE  IInv' /\ (holders # {} => holders' # {})
  <1> DEFINE rows == LedgerRows(p, req[p])
  <1> UNCHANGED <<bootLock, req, known>>
    BY DEF Commit
  <1>1. /\ pc[p] = "commit" /\ lock = p /\ lock' = Free /\ pc' = [pc EXCEPT ![p] = "idle"]
        /\ holders' = View(p) /\ ledger' = ledger \o rows
        /\ change' = [change EXCEPT ![p] = "none"]
    BY DEF Commit, CommitTuple, EndTx, Goto, At, IInv, LockInv, Locked
  <1>2. rows \in Seq(Entry) /\ req[p] \in Entry /\ req[p].actor # Bootstrap
    <2>1. req[p] \in Entry /\ req[p].actor # Bootstrap
      BY PlatformRoleAssumption DEF TypeOK, Request, Entry
    <2>2. QED
      BY <2>1 DEF LedgerRows
  <1>3. /\ ledger \in Seq(Entry) /\ ledger' \in Seq(Entry)
        /\ Len(ledger') = Len(ledger) + Len(rows)
        /\ \A i \in DOMAIN ledger : i \in DOMAIN ledger' /\ ledger'[i] = ledger[i]
        /\ \A s : GrantedIn(s, Len(ledger)) => GrantedIn(s, Len(ledger))'
    BY <1>1, <1>2, LedgerGrows DEF TypeOK
  <1>4. \A i \in DOMAIN ledger' : i \notin DOMAIN ledger =>
            /\ change[p] # "none" /\ i = Len(ledger) + 1 /\ ledger'[i] = req[p]
    BY <1>1, <1>2, <1>3 DEF LedgerRows
  <1>5. holders # {} => holders' # {}
    BY <1>1 DEF IInv, LockInv, RevokeInv, View, Target, TypeOK, Proc
  <1>6. LockInv'
    BY <1>1, PlatformRoleAssumption DEF IInv, LockInv, Locked, TypeOK, Proc
  <1>7. RevokeInv'
    <2>1. \A q \in Client : pc'[q] \notin Locked
      BY <1>1, PlatformRoleAssumption DEF IInv, LockInv, Locked, TypeOK, Proc
    <2>2. QED
      BY <2>1 DEF RevokeInv, Locked
  <1>8. AuthorityInv'
    <2>1. ASSUME NEW s \in holders' PROVE GrantedIn(s, Len(ledger))'
      <3>1. CASE s \in holders
        BY <3>1, <1>3 DEF IInv, AuthorityInv
      <3>2. CASE s \notin holders
        <4>1. change[p] = "insert" /\ s = req[p].subject
          BY <3>2, <2>1, <1>1 DEF View, Target, TypeOK, Proc
        <4>2. req[p].op = "grant"
          BY <4>1, <1>1 DEF IInv, LockInv, TypeOK, Proc, Request
        <4>3. ledger'[Len(ledger) + 1] = req[p] /\ Len(ledger') = Len(ledger) + 1
          BY <4>1, <1>1, <1>2, <1>3 DEF LedgerRows
        <4>4. QED
          BY <4>1, <4>2, <4>3, <1>3 DEF GrantedIn
      <3>3. QED
        BY <3>1, <3>2
    <2>2. QED
      BY <2>1, <1>1, <1>3 DEF IInv, AuthorityInv, TypeOK, Proc
  <1>9. SeedInv'
    <2>1. Seeded' <=> Seeded
      BY <1>2, <1>3, <1>4 DEF Seeded
    <2>2. QED
      BY <2>1, <1>1, <1>5, PlatformRoleAssumption DEF IInv, SeedInv, Seeding, TypeOK, Proc
  <1>10. BootstrapOnce'
    BY <1>2, <1>3, <1>4 DEF IInv, BootstrapOnce
  <1>11. GrantedByHolders'
    <2>1. ASSUME NEW i \in DOMAIN ledger', ledger'[i].actor # Bootstrap
          PROVE  \E j \in 1..(i - 1) :
                    ledger'[j].op = "grant" /\ ledger'[j].subject = ledger'[i].actor
      <3>1. CASE i \in DOMAIN ledger
        BY <2>1, <3>1, <1>3 DEF IInv, GrantedByHolders
      <3>2. CASE i \notin DOMAIN ledger
        <4>1. i = Len(ledger) + 1 /\ ledger'[i] = req[p]
          BY <3>2, <1>4
        <4>2. GrantedIn(req[p].actor, Len(ledger))
          BY <1>1 DEF IInv, AuthorityInv
        <4>3. QED
          BY <4>1, <4>2, <1>3 DEF GrantedIn
      <3>3. QED
        BY <3>1, <3>2
    <2>2. QED
      BY <2>1 DEF GrantedByHolders
  <1>12. QED
    BY <1>5, <1>6, <1>7, <1>8, <1>9, <1>10, <1>11 DEF IInv

\* Bootstrap steps before the commit: the marker is what keeps a run out.
LEMMA BootLocalStep ==
  ASSUME TypeOK, TypeOK', IInv, NEW b \in Boot,
         BootStart(b) \/ BootCount(b) \/ BootKeycloak(b) \/ BootWrite(b) \/ BootFail(b)
  PROVE  IInv'
  <1> UNCHANGED <<holders, ledger, lock, req>>
    BY DEF BootStart, BootCount, BootKeycloak, BootWrite, BootFail, committed, Unchanged
  <1> USE PlatformRoleAssumption DEF IInv, TypeOK, Proc, At, Goto
  <1>1. LockInv'
    <2> USE DEF LockInv, Locked
    <2>1. CASE BootStart(b)
      BY <2>1 DEF BootStart
    <2>2. CASE BootCount(b)
      BY <2>2 DEF BootCount
    <2>3. CASE BootKeycloak(b)
      BY <2>3 DEF BootKeycloak
    <2>4. CASE BootWrite(b)
      BY <2>4 DEF BootWrite, GrantTuple
    <2>5. CASE BootFail(b)
      BY <2>5 DEF BootFail
    <2>6. QED
      BY <2>1, <2>2, <2>3, <2>4, <2>5
  <1>2. \A p \in Client : pc'[p] = pc[p]
    BY DEF BootStart, BootCount, BootKeycloak, BootWrite, BootFail
  <1>3. RevokeInv'
    BY <1>2 DEF RevokeInv
  <1>4. AuthorityInv'
    BY <1>2 DEF AuthorityInv, GrantedIn
  <1>5. SeedInv'
    <2>1. Seeded' <=> Seeded
      BY DEF Seeded
    <2> USE <2>1 DEF SeedInv, Seeding
    <2>2. CASE BootStart(b)
      BY <2>2 DEF BootStart
    <2>3. CASE BootCount(b)
      BY <2>3 DEF BootCount
    <2>4. CASE BootKeycloak(b) \/ BootWrite(b)
      BY <2>4 DEF BootKeycloak, BootWrite
    <2>5. CASE BootFail(b)
      BY <2>5 DEF BootFail
    <2>6. QED
      BY <2>2, <2>3, <2>4, <2>5
  <1>6. QED
    BY <1>1, <1>3, <1>4, <1>5 DEF BootstrapOnce, GrantedByHolders

\* The bootstrap's commit: the first and only entry it ledgers.
LEMMA BootCommitStep ==
  ASSUME TypeOK, TypeOK', IInv, NEW b \in Boot, BootCommit(b)
  PROVE  IInv' /\ (holders # {} => holders' # {})
  <1> DEFINE entry == [op |-> "grant", actor |-> Bootstrap, subject |-> SeedUser]
             rows == LedgerRows(b, entry)
  <1> HIDE DEF entry
  <1> UNCHANGED <<lock, req>>
    BY DEF BootCommit, Unchanged
  <1>1. /\ pc[b] = "commit" /\ bootLock = b /\ bootLock' = Free
        /\ pc' = [pc EXCEPT ![b] = "idle"]
        /\ holders' = View(b) /\ ledger' = ledger \o rows
        /\ change' = [change EXCEPT ![b] = "none"]
    BY DEF BootCommit, CommitTuple, Goto, At, IInv, SeedInv, entry
  <1>2. entry \in Entry /\ entry.op = "grant" /\ entry.subject = SeedUser /\ entry.actor = Bootstrap
    BY PlatformRoleAssumption DEF Entry, entry
  <1>3. rows \in Seq(Entry)
    BY <1>2 DEF LedgerRows
  <1>4. /\ ledger \in Seq(Entry) /\ ledger' \in Seq(Entry)
        /\ Len(ledger') = Len(ledger) + Len(rows)
        /\ \A i \in DOMAIN ledger : i \in DOMAIN ledger' /\ ledger'[i] = ledger[i]
        /\ \A s : GrantedIn(s, Len(ledger)) => GrantedIn(s, Len(ledger))'
    BY <1>1, <1>3, LedgerGrows DEF TypeOK
  <1>5. \A i \in DOMAIN ledger' : i \notin DOMAIN ledger =>
            /\ change[b] # "none" /\ i = Len(ledger) + 1 /\ ledger'[i] = entry
    BY <1>1, <1>3, <1>4 DEF LedgerRows
  <1>6. /\ \/ change[b] = "none" /\ holders' = holders
           \/ change[b] = "insert" /\ holders' = holders \cup {SeedUser}
        /\ ~Seeded
    BY <1>1, PlatformRoleAssumption
       DEF IInv, LockInv, SeedInv, Seeding, View, Target, TypeOK, Proc
  <1>7. \A p \in Client : pc'[p] = pc[p]
    BY <1>1, PlatformRoleAssumption DEF TypeOK, Proc
  <1>8. LockInv'
    BY <1>1, PlatformRoleAssumption DEF IInv, LockInv, Locked, TypeOK, Proc
  <1>9. RevokeInv'
    BY <1>6, <1>7 DEF IInv, RevokeInv
  <1>10. AuthorityInv'
    <2>1. ASSUME change[b] = "insert" PROVE GrantedIn(SeedUser, Len(ledger))'
      <3>1. ledger'[Len(ledger) + 1] = entry /\ Len(ledger') = Len(ledger) + 1
        BY <2>1, <1>1, <1>2, <1>4 DEF LedgerRows
      <3>2. QED
        BY <3>1, <1>2, <1>4 DEF GrantedIn
    <2>2. QED
      BY <2>1, <1>4, <1>6, <1>7 DEF IInv, AuthorityInv
  <1>11. SeedInv'
    <2>1. \A c \in Boot : pc'[c] = "idle"
      BY <1>1 DEF IInv, SeedInv, TypeOK, Proc
    <2>2. Seeded' => change[b] # "none"
      BY <1>4, <1>5, <1>6 DEF Seeded
    <2>3. QED
      BY <2>1, <2>2, <1>6 DEF SeedInv, Seeding
  <1>12. BootstrapOnce'
    <2>1. \A i \in DOMAIN ledger' : ledger'[i].actor = Bootstrap => i = Len(ledger) + 1
      BY <1>4, <1>5, <1>6 DEF Seeded
    <2>2. QED
      BY <2>1 DEF BootstrapOnce
  <1>13. GrantedByHolders'
    <2>1. ASSUME NEW i \in DOMAIN ledger', ledger'[i].actor # Bootstrap
          PROVE  \E j \in 1..(i - 1) :
                    ledger'[j].op = "grant" /\ ledger'[j].subject = ledger'[i].actor
      <3>1. i \in DOMAIN ledger
        BY <2>1, <1>2, <1>5
      <3>2. QED
        BY <2>1, <3>1, <1>4 DEF IInv, GrantedByHolders
    <2>2. QED
      BY <2>1 DEF GrantedByHolders
  <1>14. QED
    BY <1>6, <1>8, <1>9, <1>10, <1>11, <1>12, <1>13 DEF IInv

\* Identity rows and stuttering touch nothing the invariant reads.
LEMMA OtherStep ==
  ASSUME IInv, UNCHANGED <<holders, ledger, lock, bootLock, pc, req, change>>
  PROVE  IInv'
  BY DEF IInv, LockInv, RevokeInv, AuthorityInv, GrantedIn, SeedInv, Seeded, Seeding,
         BootstrapOnce, GrantedByHolders

\* All the steps together: the invariant is inductive, and holders never run out.
LEMMA InvNext ==
  TypeOK /\ TypeOK' /\ IInv /\ [Next]_vars => IInv' /\ (holders # {} => holders' # {})
  <1> SUFFICES ASSUME TypeOK, TypeOK', IInv, [Next]_vars
               PROVE  IInv' /\ (holders # {} => holders' # {})
    OBVIOUS
  <1> DEFINE Goal == IInv' /\ (holders # {} => holders' # {})
  <1>1. ASSUME NEW p \in Client, Commit(p) PROVE Goal
    BY <1>1, CommitStep
  <1>2. ASSUME NEW p \in Client, HandlerStep(p) \/ Rollback(p), ~Commit(p) PROVE Goal
    <2>1. IInv'
      BY <1>2, LocalStep DEF HandlerStep
    <2>2. holders' = holders
      BY <1>2 DEF HandlerStep, Authorize, Lookup, Refuse, AcquireLock, CheckHeld, NotHeld,
         CheckCount, LastSuperadmin, WriteTuple, Rollback, committed
    <2>3. QED
      BY <2>1, <2>2
  <1>3. ASSUME NEW p \in Client, NEW r \in Request, Receive(p, r) PROVE Goal
    BY <1>3, ReceiveStep DEF Receive, committed
  <1>4. ASSUME NEW b \in Boot, BootCommit(b) PROVE Goal
    BY <1>4, BootCommitStep
  <1>5. ASSUME NEW b \in Boot, BootStart(b) \/ BootStep(b) \/ BootFail(b), ~BootCommit(b)
        PROVE Goal
    <2>1. IInv'
      BY <1>5, BootLocalStep DEF BootStep
    <2>2. holders' = holders
      BY <1>5 DEF BootStep, BootStart, BootCount, BootKeycloak, BootWrite, BootFail, committed
    <2>3. QED
      BY <2>1, <2>2
  <1>6. ASSUME NEW s \in Subject, Login(s) PROVE Goal
    BY <1>6, OtherStep DEF Login, Unchanged
  <1>7. CASE UNCHANGED vars
    BY <1>7, OtherStep DEF vars
  <1>8. QED
    BY <1>1, <1>2, <1>3, <1>4, <1>5, <1>6, <1>7 DEF Next

\* The inductive invariant holds in every reachable state.
THEOREM Invariant == Spec => []IInv
  <1>1. TypeOK /\ TypeOK' /\ IInv /\ [Next]_vars => IInv'
    BY InvNext
  <1>2. QED
    BY <1>1, InvInit, TypeCorrect, PTL DEF Spec

\* No behaviour, however many revokes race, ever leaves the platform without a
\* superadmin once it has one: the advisory lock makes the count of
\* writePlatformRole still true when the revoke commits.
THEOREM SuperadminAlwaysRemains == Spec => SuperadminRemains
  <1>1. TypeOK /\ TypeOK' /\ IInv /\ [Next]_vars => [holders # {} => holders' # {}]_vars
    BY InvNext
  <1>2. QED
    BY <1>1, Invariant, TypeCorrect, PTL DEF Spec, SuperadminRemains

\* Every change of the role was made by bootstrap or by a subject granted the
\* role earlier in the ledger (authorizePlatformRoleChange).
THEOREM AuthorityIsTraceable == Spec => []GrantedByHolders
  <1>1. IInv => GrantedByHolders
    BY DEF IInv
  <1>2. QED
    BY <1>1, Invariant, PTL

\* Bootstrap ledgers at most one grant over any number of runs, crashes and
\* concurrent processes (SuperadminStep, WithAdvisoryLock).
THEOREM BootstrapGrantsOnce == Spec => []BootstrapOnce
  <1>1. IInv => BootstrapOnce
    BY DEF IInv
  <1>2. QED
    BY <1>1, Invariant, PTL

-------------------------------------------------------------------------------
(* The org tree. *)

\* The same for any parent function: chains and roots.
Above(f, S) == \A v \in S : f[v] # None => f[v] \in S

ChainIn(f, u) == {v \in Unit : \A S \in SUBSET Unit : u \in S /\ Above(f, S) => v \in S}

RootIn(f, u) == {r \in ChainIn(f, u) : f[r] = None}

Parents == [Unit -> Unit \cup {None}]

LEMMA ChainsOfTheTree ==
  /\ \A u : O!Chain(u) = ChainIn(parent, u) /\ O!RootOf(u) = RootIn(parent, u)
  /\ \A u : O!Chain(u)' = ChainIn(parent', u) /\ O!RootOf(u)' = RootIn(parent', u)
  BY DEF O!Chain, O!RootOf, O!UpClosed, ChainIn, RootIn, Above

\* A chain is the least set with the unit that is closed upwards.
LEMMA ChainLeast ==
  ASSUME NEW f, NEW u, NEW S \in SUBSET Unit, u \in S, Above(f, S)
  PROVE  ChainIn(f, u) \subseteq S
  BY DEF ChainIn

LEMMA ChainClosed ==
  ASSUME NEW f \in Parents, NEW u \in Unit
  PROVE  /\ u \in ChainIn(f, u) /\ ChainIn(f, u) \in SUBSET Unit
         /\ Above(f, ChainIn(f, u))
  <1>1. u \in ChainIn(f, u) /\ ChainIn(f, u) \in SUBSET Unit
    BY DEF ChainIn
  <1>2. ASSUME NEW v \in ChainIn(f, u), f[v] # None PROVE f[v] \in ChainIn(f, u)
    <2>1. v \in Unit /\ f[v] \in Unit
      BY <1>2 DEF ChainIn, Parents
    <2>2. ASSUME NEW S \in SUBSET Unit, u \in S, Above(f, S) PROVE f[v] \in S
      BY <1>2, <2>2 DEF ChainIn, Above
    <2> QED
      BY <2>1, <2>2 DEF ChainIn
  <1> QED
    BY <1>1, <1>2 DEF Above

\* What is above a unit of a chain is in the chain.
LEMMA ChainWithin ==
  ASSUME NEW f \in Parents, NEW u \in Unit, NEW v \in ChainIn(f, u)
  PROVE  ChainIn(f, v) \subseteq ChainIn(f, u)
  BY ChainClosed, ChainLeast

\* The chain of a root is the root, and of another unit the unit and the chain
\* of its parent.
LEMMA ChainOfRoot ==
  ASSUME NEW f \in Parents, NEW u \in Unit, f[u] = None
  PROVE  ChainIn(f, u) = {u}
  <1>1. Above(f, {u})
    BY DEF Above
  <1>2. ChainIn(f, u) \subseteq {u}
    BY <1>1, ChainLeast
  <1> QED
    BY <1>2, ChainClosed

LEMMA ChainStep ==
  ASSUME NEW f \in Parents, NEW u \in Unit, NEW p \in Unit, f[u] = p
  PROVE  ChainIn(f, u) = {u} \cup ChainIn(f, p)
  <1>1. ChainIn(f, p) \in SUBSET Unit /\ p \in ChainIn(f, p) /\ Above(f, ChainIn(f, p))
    BY ChainClosed
  <1>2. Above(f, {u} \cup ChainIn(f, p))
    BY <1>1 DEF Above
  <1>3. ChainIn(f, u) \subseteq {u} \cup ChainIn(f, p)
    BY <1>1, <1>2, ChainLeast
  <1>4. u \in ChainIn(f, u) /\ Above(f, ChainIn(f, u)) /\ ChainIn(f, u) \in SUBSET Unit
    BY ChainClosed
  <1>5. p \in ChainIn(f, u) \/ p = None
    BY <1>4 DEF Above
  <1>6. p # None
    BY OrgTreeConstants DEF O!OrgTreeAssumption
  <1>7. ChainIn(f, p) \subseteq ChainIn(f, u)
    BY <1>5, <1>6, ChainWithin
  <1> QED
    BY <1>3, <1>4, <1>7

\* A chain has at most one root.
LEMMA OneRoot ==
  ASSUME NEW f \in Parents, NEW u \in Unit, NEW r \in RootIn(f, u), NEW q \in RootIn(f, u)
  PROVE  r = q
  <1> DEFINE S == {y \in ChainIn(f, u) : r \in ChainIn(f, y)}
  <1>1. /\ u \in ChainIn(f, u) /\ ChainIn(f, u) \in SUBSET Unit /\ Above(f, ChainIn(f, u))
        /\ r \in ChainIn(f, u) /\ q \in ChainIn(f, u) /\ f[r] = None /\ f[q] = None
    BY ChainClosed DEF RootIn
  <1>2. u \in S
    BY <1>1
  <1>3. ASSUME NEW y \in S, f[y] # None PROVE f[y] \in S
    <2>1. y \in Unit /\ f[y] \in Unit /\ f[y] \in ChainIn(f, u) /\ r \in ChainIn(f, y)
      BY <1>1, <1>3 DEF Above, Parents
    <2>2. ChainIn(f, y) = {y} \cup ChainIn(f, f[y])
      BY <2>1, ChainStep
    <2> QED
      BY <1>1, <1>3, <2>1, <2>2
  <1>4. S \in SUBSET Unit /\ Above(f, S)
    BY <1>1, <1>3 DEF Above
  <1>5. q \in S
    BY <1>1, <1>2, <1>4, ChainLeast
  <1>6. r \in ChainIn(f, q) /\ q \in Unit
    BY <1>1, <1>5
  <1> QED
    BY <1>1, <1>6, ChainOfRoot

LEMMA RootWithin ==
  ASSUME NEW f \in Parents, NEW u \in Unit, NEW v \in ChainIn(f, u), NEW r \in RootIn(f, v)
  PROVE  RootIn(f, u) = {r}
  <1>1. v \in Unit /\ r \in ChainIn(f, u) /\ f[r] = None
    BY ChainClosed, ChainWithin DEF RootIn
  <1>2. r \in RootIn(f, u)
    BY <1>1 DEF RootIn
  <1> QED
    BY <1>2, OneRoot

\* A changed parent leaves the chains alone that the unit is not in.
LEMMA ChainKept ==
  ASSUME NEW f \in Parents, NEW g \in Parents, NEW u \in Unit, NEW x \in Unit,
         \A v \in Unit : v # u => g[v] = f[v], u \notin ChainIn(f, x)
  PROVE  ChainIn(g, x) = ChainIn(f, x) /\ RootIn(g, x) = RootIn(f, x)
  <1>1. /\ x \in ChainIn(f, x) /\ ChainIn(f, x) \in SUBSET Unit /\ Above(f, ChainIn(f, x))
        /\ x \in ChainIn(g, x) /\ ChainIn(g, x) \in SUBSET Unit /\ Above(g, ChainIn(g, x))
    BY ChainClosed
  <1>2. Above(g, ChainIn(f, x))
    BY <1>1 DEF Above
  <1>3. ChainIn(g, x) \subseteq ChainIn(f, x)
    BY <1>1, <1>2, ChainLeast
  <1>4. Above(f, ChainIn(g, x))
    BY <1>1, <1>3 DEF Above
  <1>5. ChainIn(f, x) \subseteq ChainIn(g, x)
    BY <1>1, <1>4, ChainLeast
  <1>6. ChainIn(g, x) = ChainIn(f, x)
    BY <1>3, <1>5
  <1> QED
    BY <1>1, <1>6 DEF RootIn

\* Whoever had the unit above it still has it, however its parent changed.
LEMMA ChainStillHas ==
  ASSUME NEW f \in Parents, NEW g \in Parents, NEW u \in Unit, NEW x \in Unit,
         \A v \in Unit : v # u => g[v] = f[v], u \in ChainIn(f, x)
  PROVE  u \in ChainIn(g, x)
  <1> SUFFICES ASSUME u \notin ChainIn(g, x) PROVE FALSE
    OBVIOUS
  <1>1. x \in ChainIn(g, x) /\ ChainIn(g, x) \in SUBSET Unit /\ Above(g, ChainIn(g, x))
    BY ChainClosed
  <1>2. Above(f, ChainIn(g, x))
    BY <1>1 DEF Above
  <1> QED
    BY <1>1, <1>2, ChainLeast

\* The root a unit gets under a parent, and when it may move there.
RootTo(f, u, par) == IF par = None THEN {u} ELSE RootIn(f, par)

MoveOk(f, P, u, par) ==
    par # f[u] =>
      /\ par # None => u \notin ChainIn(f, par)
      /\ RootIn(f, u) # RootTo(f, u, par) =>
           \A p \in Position : P[p] # None /\ u \in ChainIn(f, P[p].unit) => RootTo(f, u, par) = {P[p].company}

LEMMA MoveAllowedOk ==
  \A u, par : O!MoveAllowed(u, par) <=> MoveOk(parent, pos, u, par)
  <1>1. \A u, par : O!RootAfter(u, par) = RootTo(parent, u, par)
    BY ChainsOfTheTree DEF O!RootAfter, RootTo
  <1>2. \A u : O!SubtreePositions(u) = {p \in Position : pos[p] # None /\ u \in ChainIn(parent, pos[p].unit)}
    BY ChainsOfTheTree DEF O!SubtreePositions
  <1> QED
    BY <1>1, <1>2, ChainsOfTheTree DEF O!MoveAllowed, MoveOk

\* Where the units beneath a moved unit have their root.
LEMMA MovedRoots ==
  ASSUME NEW f \in Parents, NEW g \in Parents, NEW u \in Unit, NEW par \in Unit \cup {None},
         \A v \in Unit : v # u => g[v] = f[v], g[u] = par,
         par # None => u \notin ChainIn(f, par) /\ RootIn(f, par) # {},
         NEW x \in Unit, u \in ChainIn(f, x)
  PROVE  RootIn(g, x) = RootTo(f, u, par) /\ RootIn(g, x) # {}
  <1>1. u \in ChainIn(g, x)
    BY ChainStillHas
  <1>2. CASE par = None
    <2>1. u \in RootIn(g, u)
      BY <1>2, ChainClosed DEF RootIn
    <2>2. RootIn(g, x) = {u}
      BY <1>1, <2>1, RootWithin
    <2> QED
      BY <1>2, <2>2 DEF RootTo
  <1>3. CASE par # None
    <2>1. par \in Unit
      BY <1>3
    <2>2. PICK r : r \in RootIn(f, par)
      BY <1>3
    <2>3. RootIn(f, par) = {r}
      BY <2>1, <2>2, OneRoot
    <2>4. RootIn(g, par) = RootIn(f, par)
      BY <1>3, <2>1, ChainKept
    <2>5. par \in ChainIn(g, u)
      BY <1>3, <2>1, ChainClosed DEF Above
    <2>6. par \in ChainIn(g, x)
      BY <1>1, <2>5, ChainWithin
    <2>7. RootIn(g, x) = {r}
      BY <2>2, <2>4, <2>6, RootWithin
    <2> QED
      BY <1>3, <2>3, <2>7 DEF RootTo
  <1> QED
    BY <1>2, <1>3

\* Rows refer to rows, ids without a row to nothing.
RowsLinked ==
    /\ \A u \in unit : parent[u] \in unit \cup {None}
    /\ \A u \in Unit \ unit : parent[u] = None

CompaniesAreRoots == \A u \in unit \cap CompanyUnit : parent[u] = None

Rooted == \A u \in unit : RootIn(parent, u) # {}

Seated ==
    \A p \in Position : pos[p] # None =>
      /\ pos[p].unit \in unit /\ pos[p].company \in unit
      /\ RootIn(parent, pos[p].unit) = {pos[p].company}

\* An open transaction has the lock, and what it has checked is still so.
LockKept == \A c \in Client : call[c] # O!Idle => treeLock = c

CreateReady(c) ==
    /\ call[c].u \notin unit
    /\ call[c].par \in unit \cup {None}

MoveReady(c) ==
    /\ call[c].u \in unit
    /\ call[c].par \in unit \cup {None}
    /\ MoveOk(parent, pos, call[c].u, call[c].par)

SeatReady(c) ==
    /\ call[c].seat.unit \in unit /\ call[c].seat.company \in unit \cap CompanyUnit
    /\ call[c].seat.company \in ChainIn(parent, call[c].seat.unit)
    /\ call[c].new <=> pos[call[c].p] = None

ChecksHold ==
    \A c \in Client :
      /\ call[c].op = "create" => call[c].at = "written" /\ CreateReady(c)
      /\ call[c].op \in {"create", "move"} /\ call[c].u \in CompanyUnit => call[c].par = None
      /\ call[c].op = "move" /\ call[c].at = "written" => MoveReady(c)
      /\ call[c].op = "seat" /\ ~call[c].new /\ pos[call[c].p] # None =>
           pos[call[c].p].company = call[c].seat.company
      /\ call[c].op = "seat" /\ call[c].at = "written" => SeatReady(c)

OrgInv ==
    /\ O!TypeOK /\ RowsLinked /\ CompaniesAreRoots /\ Rooted /\ Seated /\ LockKept /\ ChecksHold

LEMMA OrgSafe == OrgInv => O!Forest /\ O!PositionsUnderCompany
  <1> SUFFICES ASSUME OrgInv PROVE O!Forest /\ O!PositionsUnderCompany
    OBVIOUS
  <1>1. Above(parent, unit) /\ unit \in SUBSET Unit
    BY DEF OrgInv, RowsLinked, Above, O!TypeOK
  <1>2. \A u \in unit : ChainIn(parent, u) \subseteq unit
    BY <1>1, ChainLeast
  <1>3. O!Forest
    BY <1>2, ChainsOfTheTree DEF O!Forest, OrgInv, Rooted
  <1> QED
    BY <1>3, ChainsOfTheTree DEF OrgInv, Seated, O!PositionsUnderCompany

LEMMA OrgInit == O!Init => OrgInv
  BY DEF O!Init, OrgInv, O!TypeOK, O!Call, O!Idle, RowsLinked, CompaniesAreRoots, Rooted, Seated, LockKept, ChecksHold

\* What depends on the rows alone.
LEMMA RowsSame ==
  ASSUME OrgInv, UNCHANGED <<unit, parent, pos>>
  PROVE  RowsLinked' /\ CompaniesAreRoots' /\ Rooted' /\ Seated'
  BY DEF OrgInv, RowsLinked, CompaniesAreRoots, Rooted, Seated

\* Only the holder of the lock has a transaction open.
LEMMA OthersIdle ==
  ASSUME OrgInv, NEW c \in Client, treeLock \in {None, c}, NEW d \in Client, d # c
  PROVE  call[d] = O!Idle
  BY OrgTreeConstants DEF O!OrgTreeAssumption, OrgInv, LockKept

\* A transaction that ends leaves none open.
LEMMA Closed ==
  ASSUME OrgInv, NEW c \in Client, call[c] # O!Idle, O!Close(c)
  PROVE  /\ treeLock' = None /\ call' \in [Client -> O!Call] /\ \A d \in Client : call'[d] = O!Idle
         /\ LockKept' /\ ChecksHold'
  <1>1. treeLock = c
    BY DEF OrgInv, LockKept
  <1>2. \A d \in Client : d # c => call[d] = O!Idle
    BY <1>1, OthersIdle
  <1>3. /\ treeLock' = None /\ call' \in [Client -> O!Call] /\ \A d \in Client : call'[d] = O!Idle
    BY <1>2 DEF O!Close, OrgInv, O!TypeOK, O!Call
  <1> QED
    BY <1>3 DEF LockKept, ChecksHold, O!Idle

\* A transaction that opens.
LEMMA Opened ==
  ASSUME OrgInv, NEW c \in Client, NEW open \in O!Call, O!Open(c, open)
  PROVE  /\ treeLock' \in Client \cup {None} /\ call' \in [Client -> O!Call] /\ LockKept'
         /\ call'[c] = open /\ \A d \in Client : d # c => call'[d] = O!Idle
  <1>1. \A d \in Client : d # c => call[d] = O!Idle
    BY OthersIdle DEF O!Open, O!LockOrgTree
  <1>2. /\ treeLock' = c /\ call' \in [Client -> O!Call]
        /\ call'[c] = open /\ \A d \in Client : d # c => call'[d] = O!Idle
    BY <1>1 DEF O!Open, OrgInv, O!TypeOK
  <1> QED
    BY <1>2 DEF LockKept

LEMMA OrgCreate ==
  ASSUME OrgInv, NEW c \in Client, NEW u \in Unit, NEW par \in Unit \cup {None}, O!CreateOrgUnit(c, u, par)
  PROVE  OrgInv'
  <1> DEFINE open == [op |-> "create", u |-> u, par |-> par, at |-> "written"]
  <1>1. open \in O!Call /\ O!Open(c, open) /\ UNCHANGED <<unit, parent, pos, used>>
    BY DEF O!CreateOrgUnit, O!Call
  <1>2. /\ treeLock' \in Client \cup {None} /\ call' \in [Client -> O!Call] /\ LockKept'
        /\ call'[c] = open /\ \A d \in Client : d # c => call'[d] = O!Idle
    BY <1>1, Opened
  <1>3. ChecksHold'
    BY <1>1, <1>2 DEF O!CreateOrgUnit, O!CheckCompanyIsRoot, ChecksHold, CreateReady, O!Idle
  <1> QED
    BY <1>1, <1>2, <1>3, RowsSame DEF OrgInv, O!TypeOK

LEMMA OrgMoveCheck ==
  ASSUME OrgInv, NEW c \in Client, NEW u \in Unit, NEW par \in Unit \cup {None}, O!UpdateOrgUnit(c, u, par)
  PROVE  OrgInv'
  <1> DEFINE open == [op |-> "move", u |-> u, par |-> par, at |-> "checked"]
  <1>1. open \in O!Call /\ O!Open(c, open) /\ UNCHANGED <<unit, parent, pos, used>>
    BY DEF O!UpdateOrgUnit, O!Call
  <1>2. /\ treeLock' \in Client \cup {None} /\ call' \in [Client -> O!Call] /\ LockKept'
        /\ call'[c] = open /\ \A d \in Client : d # c => call'[d] = O!Idle
    BY <1>1, Opened
  <1>3. ChecksHold'
    BY <1>1, <1>2 DEF O!UpdateOrgUnit, O!CheckCompanyIsRoot, ChecksHold, O!Idle
  <1> QED
    BY <1>1, <1>2, <1>3, RowsSame DEF OrgInv, O!TypeOK

LEMMA OrgSeatCheck ==
  ASSUME OrgInv, NEW c \in Client, NEW p \in Position, NEW seat \in O!Seat,
         O!CreatePosition(c, p, seat) \/ O!UpdatePosition(c, p, seat)
  PROVE  OrgInv'
  <1>1. PICK new \in BOOLEAN : /\ O!SeatCheck(c, p, seat, new)
                               /\ new <=> pos[p] = None
                               /\ ~new => seat.company = pos[p].company
    BY DEF O!CreatePosition, O!UpdatePosition
  <1> DEFINE open == [op |-> "seat", p |-> p, seat |-> seat, new |-> new, at |-> "checked"]
  <1>2. open \in O!Call /\ O!Open(c, open) /\ UNCHANGED <<unit, parent, pos, used>>
    BY <1>1 DEF O!SeatCheck, O!Call
  <1>3. /\ treeLock' \in Client \cup {None} /\ call' \in [Client -> O!Call] /\ LockKept'
        /\ call'[c] = open /\ \A d \in Client : d # c => call'[d] = O!Idle
    BY <1>2, Opened
  <1>4. /\ call'[c].op = "seat" /\ call'[c].p = p /\ call'[c].seat = seat /\ (call'[c].new <=> new)
        /\ call'[c].at = "checked"
    BY <1>3
  <1>5. ChecksHold'
    BY <1>1, <1>2, <1>3, <1>4 DEF ChecksHold, O!Idle
  <1> QED
    BY <1>2, <1>3, <1>5, RowsSame DEF OrgInv, O!TypeOK

\* A statement that runs: the transaction is written.
LEMMA WrittenCall ==
  ASSUME OrgInv, NEW c \in Client, call[c].op \in {"move", "seat"}, O!Written(c)
  PROVE  /\ call' \in [Client -> O!Call] /\ \A d \in Client : d # c => call'[d] = call[d]
         /\ call'[c].op = call[c].op /\ call'[c].at = "written"
         /\ call[c].op = "move" => call'[c].u = call[c].u /\ call'[c].par = call[c].par
         /\ call[c].op = "seat" => /\ call'[c].p = call[c].p /\ call'[c].seat = call[c].seat
                                   /\ (call'[c].new <=> call[c].new)
  BY DEF O!Written, OrgInv, O!TypeOK, O!Call, O!Idle

LEMMA OrgMoveWrite ==
  ASSUME OrgInv, NEW c \in Client, O!UpdateOrgUnitWrite(c)
  PROVE  OrgInv'
  <1>1. /\ call' \in [Client -> O!Call] /\ \A d \in Client : d # c => call'[d] = call[d]
        /\ call'[c].op = "move" /\ call'[c].at = "written"
        /\ call'[c].u = call[c].u /\ call'[c].par = call[c].par
        /\ call[c].op = "move"
    BY WrittenCall DEF O!UpdateOrgUnitWrite
  <1>2. UNCHANGED <<unit, parent, pos, used, treeLock>>
    BY DEF O!UpdateOrgUnitWrite
  <1>3. MoveReady(c)'
    BY <1>1, <1>2, MoveAllowedOk DEF O!UpdateOrgUnitWrite, MoveReady
  <1>4. call[c] # O!Idle
    BY <1>1 DEF O!Idle
  <1>5. \A d \in Client : d # c => call'[d] = O!Idle
    BY <1>1, <1>4, OthersIdle DEF OrgInv, LockKept
  <1>6. ChecksHold'
    BY <1>1, <1>2, <1>3, <1>5 DEF OrgInv, ChecksHold, O!Idle
  <1>7. LockKept'
    BY <1>1, <1>2, <1>4 DEF OrgInv, LockKept
  <1> QED
    BY <1>1, <1>2, <1>6, <1>7, RowsSame DEF OrgInv, O!TypeOK

LEMMA OrgSeatWrite ==
  ASSUME OrgInv, NEW c \in Client, O!SeatWrite(c)
  PROVE  OrgInv'
  <1>1. /\ call' \in [Client -> O!Call] /\ \A d \in Client : d # c => call'[d] = call[d]
        /\ call'[c].op = "seat" /\ call'[c].at = "written"
        /\ call'[c].p = call[c].p /\ call'[c].seat = call[c].seat /\ (call'[c].new <=> call[c].new)
        /\ call[c].op = "seat"
    BY WrittenCall DEF O!SeatWrite
  <1>2. UNCHANGED <<unit, parent, pos, used, treeLock>>
    BY DEF O!SeatWrite
  <1>3. SeatReady(c)'
    BY <1>1, <1>2, ChainsOfTheTree DEF O!SeatWrite, O!OrgUnitUnderCompany, SeatReady
  <1>4. call[c] # O!Idle
    BY <1>1 DEF O!Idle
  <1>5. \A d \in Client : d # c => call'[d] = O!Idle
    BY <1>1, <1>4, OthersIdle DEF OrgInv, LockKept
  <1>6. ChecksHold'
    BY <1>1, <1>2, <1>3, <1>5 DEF OrgInv, ChecksHold, O!Idle
  <1>7. LockKept'
    BY <1>1, <1>2, <1>4 DEF OrgInv, LockKept
  <1> QED
    BY <1>1, <1>2, <1>6, <1>7, RowsSame DEF OrgInv, O!TypeOK

LEMMA OrgRollback ==
  ASSUME OrgInv, NEW c \in Client, O!Rollback(c)
  PROVE  OrgInv'
  BY Closed, RowsSame DEF O!Rollback, OrgInv, O!TypeOK

LEMMA OrgUse ==
  ASSUME OrgInv, NEW u \in Unit, O!UseCompany(u)
  PROVE  OrgInv'
  BY RowsSame DEF O!UseCompany, OrgInv, O!TypeOK, LockKept, ChecksHold, CreateReady, MoveReady, SeatReady

LEMMA OrgCommitCreate ==
  ASSUME OrgInv, NEW c \in Client, O!CommitUnit(c), call[c].op = "create"
  PROVE  OrgInv'
  <1>1. PICK u \in Unit, par \in unit \cup {None} :
           /\ u = call[c].u /\ par = call[c].par /\ u \notin unit
           /\ u \in CompanyUnit => par = None
    BY DEF OrgInv, O!TypeOK, O!Call, O!Idle, ChecksHold, CreateReady
  <1>2. /\ unit' = unit \cup {u} /\ parent' = [parent EXCEPT ![u] = par]
        /\ O!Close(c) /\ UNCHANGED <<pos, used>> /\ call[c] # O!Idle
    BY <1>1 DEF O!CommitUnit, O!createOrgUnit, O!Idle
  <1>3. /\ treeLock' = None /\ call' \in [Client -> O!Call] /\ LockKept' /\ ChecksHold'
    BY <1>2, Closed
  <1>4. /\ unit \subseteq Unit /\ parent \in Parents /\ parent' \in Parents /\ par \in Unit \cup {None}
        /\ \A v \in Unit : v # u => parent'[v] = parent[v]
        /\ parent'[u] = par
    BY <1>1, <1>2 DEF OrgInv, O!TypeOK, Parents
  <1>5. O!TypeOK'
    BY <1>1, <1>2, <1>3, <1>4 DEF OrgInv, O!TypeOK, Parents
  <1>6. RowsLinked' /\ CompaniesAreRoots'
    BY <1>1, <1>2, <1>4 DEF OrgInv, RowsLinked, CompaniesAreRoots
  <1>7. ASSUME NEW x \in unit PROVE u \notin ChainIn(parent, x)
    <2>1. Above(parent, unit)
      BY DEF OrgInv, RowsLinked, Above
    <2> QED
      BY <1>1, <1>4, <2>1, ChainLeast
  <1>8. ASSUME NEW x \in unit PROVE RootIn(parent', x) = RootIn(parent, x)
    BY <1>4, <1>7, ChainKept
  <1>9. RootIn(parent', u) # {}
    <2>1. parent[u] = None
      BY <1>1 DEF OrgInv, RowsLinked
    <2>2. u \in ChainIn(parent, u)
      BY <1>4, ChainClosed
    <2>3. par # None => u \notin ChainIn(parent, par) /\ RootIn(parent, par) # {}
      BY <1>1, <1>7 DEF OrgInv, Rooted
    <2> QED
      BY <1>4, <2>2, <2>3, MovedRoots
  <1>10. Rooted'
    BY <1>2, <1>8, <1>9 DEF OrgInv, Rooted
  <1>11. Seated'
    BY <1>2, <1>8 DEF OrgInv, Seated
  <1> QED
    BY <1>3, <1>5, <1>6, <1>10, <1>11 DEF OrgInv

LEMMA OrgCommitMove ==
  ASSUME OrgInv, NEW c \in Client, O!CommitUnit(c), call[c].op = "move"
  PROVE  OrgInv'
  <1>1. PICK u \in unit, par \in unit \cup {None} :
           /\ u = call[c].u /\ par = call[c].par
           /\ u \in CompanyUnit => par = None
           /\ MoveOk(parent, pos, u, par)
    BY DEF O!CommitUnit, OrgInv, O!TypeOK, O!Call, O!Idle, ChecksHold, MoveReady
  <1>2. /\ unit' = unit /\ parent' = [parent EXCEPT ![u] = par]
        /\ O!Close(c) /\ UNCHANGED <<pos, used>> /\ call[c] # O!Idle
    BY <1>1 DEF O!CommitUnit, O!updateOrgUnit, O!Idle
  <1>3. /\ treeLock' = None /\ call' \in [Client -> O!Call] /\ LockKept' /\ ChecksHold'
    BY <1>2, Closed
  <1>4. /\ unit \subseteq Unit /\ parent \in Parents /\ parent' \in Parents /\ par \in Unit \cup {None} /\ u \in Unit
        /\ \A v \in Unit : v # u => parent'[v] = parent[v]
        /\ parent'[u] = par
    BY <1>1, <1>2 DEF OrgInv, O!TypeOK, Parents
  <1>5. O!TypeOK'
    BY <1>1, <1>2, <1>3, <1>4 DEF OrgInv, O!TypeOK, Parents
  <1>6. RowsLinked' /\ CompaniesAreRoots'
    BY <1>1, <1>2, <1>4 DEF OrgInv, RowsLinked, CompaniesAreRoots
  <1>7. CASE par = parent[u]
    <2>1. parent' = parent
      BY <1>2, <1>4, <1>7 DEF Parents
    <2>2. UNCHANGED <<unit, parent, pos>>
      BY <1>2, <2>1
    <2> QED
      BY <1>3, <1>5, <2>2, RowsSame DEF OrgInv
  <1>8. CASE par # parent[u]
    <2>1. par # None => u \notin ChainIn(parent, par) /\ RootIn(parent, par) # {}
      BY <1>1, <1>8 DEF MoveOk, OrgInv, Rooted
    <2>2. ASSUME NEW x \in unit, u \notin ChainIn(parent, x) PROVE RootIn(parent', x) = RootIn(parent, x)
      BY <1>4, <2>2, ChainKept
    <2>3. ASSUME NEW x \in unit, u \in ChainIn(parent, x)
          PROVE  RootIn(parent', x) = RootTo(parent, u, par) /\ RootIn(parent', x) # {}
      <3>1. x \in Unit
        BY <1>4
      <3> QED
        BY <3>1, <1>4, <2>1, <2>3, MovedRoots
    <2>4. Rooted'
      BY <1>2, <2>2, <2>3 DEF OrgInv, Rooted
    <2>5. Seated'
      <3>1. ASSUME NEW p \in Position, pos[p] # None PROVE RootIn(parent', pos[p].unit) = {pos[p].company}
        <4>1. /\ pos[p].unit \in unit /\ RootIn(parent, pos[p].unit) = {pos[p].company}
          BY <3>1 DEF OrgInv, Seated
        <4>2. CASE u \notin ChainIn(parent, pos[p].unit)
          BY <4>1, <4>2, <2>2
        <4>3. CASE u \in ChainIn(parent, pos[p].unit)
          <5>1. RootIn(parent', pos[p].unit) = RootTo(parent, u, par)
            BY <4>1, <4>3, <2>3
          <5>2. PICK r : r \in RootIn(parent, u)
            BY DEF OrgInv, Rooted
          <5>3. RootIn(parent, u) = {r}
            BY <1>4, <5>2, OneRoot
          <5>4. RootIn(parent, pos[p].unit) = {r}
            BY <1>4, <4>1, <4>3, <5>2, RootWithin
          <5>5. RootIn(parent, u) = {pos[p].company}
            BY <4>1, <5>3, <5>4
          <5>6. RootIn(parent, u) # RootTo(parent, u, par) => RootTo(parent, u, par) = {pos[p].company}
            BY <1>1, <1>8, <3>1, <4>3 DEF MoveOk
          <5> QED
            BY <5>1, <5>5, <5>6
        <4> QED
          BY <4>2, <4>3
      <3> QED
        BY <3>1, <1>2 DEF OrgInv, Seated
    <2> QED
      BY <1>3, <1>5, <1>6, <2>4, <2>5 DEF OrgInv
  <1> QED
    BY <1>7, <1>8

LEMMA OrgCommitSeat ==
  ASSUME OrgInv, NEW c \in Client, O!CommitSeat(c)
  PROVE  OrgInv'
  <1>1. /\ call[c].op = "seat" /\ call[c].at = "written" /\ call[c] # O!Idle
        /\ O!Close(c) /\ UNCHANGED <<unit, parent, used>>
    BY DEF O!CommitSeat, O!Idle
  <1>2. PICK p \in Position, seat \in O!Seat :
           /\ p = call[c].p /\ seat = call[c].seat
           /\ seat.unit \in unit /\ seat.company \in unit \cap CompanyUnit
           /\ seat.company \in ChainIn(parent, seat.unit)
           /\ call[c].new <=> pos[p] = None
           /\ pos[p] # None => pos[p].company = seat.company
    <2>1. call[c].p \in Position /\ call[c].seat \in O!Seat
      BY <1>1 DEF OrgInv, O!TypeOK, O!Call, O!Idle
    <2>2. SeatReady(c) /\ (~call[c].new /\ pos[call[c].p] # None => pos[call[c].p].company = call[c].seat.company)
      BY <1>1 DEF OrgInv, ChecksHold
    <2> QED
      BY <2>1, <2>2 DEF SeatReady
  <1>3. /\ treeLock' = None /\ call' \in [Client -> O!Call] /\ LockKept' /\ ChecksHold'
    BY <1>1, Closed
  <1>4. pos \in [Position -> O!Seat \cup {None}]
    BY DEF OrgInv, O!TypeOK
  <1>5. /\ pos' \in [Position -> O!Seat \cup {None}]
        /\ \A q \in Position : q # p => pos'[q] = pos[q]
        /\ pos'[p].unit = seat.unit /\ pos'[p].company = seat.company
    <2>1. CASE call[c].new
      <3>1. pos' = [pos EXCEPT ![p] = seat]
        BY <1>2, <2>1 DEF O!CommitSeat, O!createPosition
      <3> QED
        BY <3>1, <1>4
    <2>2. CASE ~call[c].new
      <3>1. pos' = [pos EXCEPT ![p].unit = seat.unit]
        BY <1>2, <2>2 DEF O!CommitSeat, O!updatePosition
      <3>2. pos[p] \in O!Seat /\ pos[p].company = seat.company
        BY <1>2, <1>4, <2>2
      <3> QED
        BY <3>1, <3>2, <1>4 DEF O!Seat
    <2> QED
      BY <2>1, <2>2
  <1>6. RowsLinked' /\ CompaniesAreRoots' /\ Rooted'
    BY <1>1 DEF OrgInv, RowsLinked, CompaniesAreRoots, Rooted
  <1>7. RootIn(parent, seat.unit) = {seat.company}
    <2>1. parent[seat.company] = None
      BY <1>2 DEF OrgInv, CompaniesAreRoots
    <2>2. seat.company \in RootIn(parent, seat.unit)
      BY <1>2, <2>1 DEF RootIn
    <2>3. parent \in Parents /\ seat.unit \in Unit
      BY <1>2 DEF OrgInv, O!TypeOK, Parents, O!Seat
    <2> QED
      BY <2>2, <2>3, OneRoot
  <1>8. Seated'
    BY <1>1, <1>2, <1>5, <1>7 DEF OrgInv, Seated
  <1> QED
    BY <1>1, <1>3, <1>5, <1>6, <1>8 DEF OrgInv, O!TypeOK

LEMMA OrgDeletePosition ==
  ASSUME OrgInv, NEW p \in Position, O!DeletePosition(p)
  PROVE  OrgInv'
  <1>1. /\ p \notin O!PositionsHeld /\ pos' = [pos EXCEPT ![p] = None]
        /\ UNCHANGED <<unit, parent, used, treeLock, call>>
    BY DEF O!DeletePosition
  <1>2. pos \in [Position -> O!Seat \cup {None}]
    BY DEF OrgInv, O!TypeOK
  <1>3. /\ pos' \in [Position -> O!Seat \cup {None}] /\ pos'[p] = None
        /\ \A q \in Position : q # p => pos'[q] = pos[q]
    BY <1>1, <1>2
  <1>4. O!TypeOK' /\ RowsLinked' /\ CompaniesAreRoots' /\ Rooted' /\ LockKept'
    BY <1>1, <1>3 DEF OrgInv, O!TypeOK, RowsLinked, CompaniesAreRoots, Rooted, LockKept
  <1>5. Seated'
    BY <1>1, <1>3 DEF OrgInv, Seated
  <1>6. ASSUME NEW u, NEW par, MoveOk(parent, pos, u, par) PROVE MoveOk(parent, pos', u, par)
    BY <1>3, <1>6 DEF MoveOk
  <1>7. \A c \in Client : call[c].op = "seat" /\ call[c].at = "written" => call[c].p # p
    BY <1>1 DEF O!PositionsHeld
  <1>8. \A c \in Client : call[c].op = "seat" => call[c].p \in Position
    BY DEF OrgInv, O!TypeOK, O!Call, O!Idle
  <1>9. ChecksHold'
    BY <1>1, <1>3, <1>6, <1>7, <1>8 DEF OrgInv, ChecksHold, CreateReady, MoveReady, SeatReady
  <1> QED
    BY <1>4, <1>5, <1>9 DEF OrgInv

\* A row that is not held is none an open statement names.
LEMMA RowNotHeld ==
  ASSUME NEW v, v \notin O!RowsHeld, NEW c \in Client, call[c] # O!Idle, call[c].at = "written"
  PROVE  /\ call[c].op = "seat" => v # call[c].seat.unit /\ v # call[c].seat.company
         /\ call[c].op # "seat" => v # call[c].u /\ v # call[c].par
  <1> DEFINE rows(d) == IF call[d] = O!Idle \/ call[d].at = "checked" THEN {}
                        ELSE IF call[d].op = "seat" THEN {call[d].seat.unit, call[d].seat.company}
                        ELSE {call[d].u, call[d].par}
  <1>1. v \notin UNION {rows(d) : d \in Client}
    BY DEF O!RowsHeld
  <1>2. v \notin rows(c)
    BY <1>1
  <1> QED
    BY <1>2

LEMMA OrgDeleteUnit ==
  ASSUME OrgInv, NEW v \in Unit, O!DeleteOrgUnit(v)
  PROVE  OrgInv'
  <1>1. /\ v \in unit /\ v \notin O!RowsHeld
        /\ \A p \in Position : pos[p] # None => v # pos[p].company /\ v # pos[p].unit
        /\ unit' = unit \ {v} /\ parent' = [parent EXCEPT ![v] = None]
        /\ UNCHANGED <<pos, used, treeLock, call>>
    BY DEF O!DeleteOrgUnit, O!deleteOrgUnit
  <1>2. \A w \in unit : parent[w] # v
    <2>1. {w \in unit : parent[w] = v} \subseteq Unit
      BY DEF OrgInv, O!TypeOK
    <2>2. IsFiniteSet(Unit)
      BY OrgTreeConstants, Zenon DEF O!OrgTreeAssumption, O!IsFiniteSet, IsFiniteSet
    <2>3. IsFiniteSet({w \in unit : parent[w] = v})
      BY <2>1, <2>2, FS_Subset
    <2>4. Cardinality({w \in unit : parent[w] = v}) = 0
      BY Zenon DEF O!DeleteOrgUnit, O!countOrgUnitChildren, O!Cardinality, Cardinality
    <2>5. {w \in unit : parent[w] = v} = {}
      BY <2>3, <2>4, FS_EmptySet
    <2> QED
      BY <2>5
  <1>3. /\ unit \subseteq Unit /\ parent \in Parents /\ parent' \in Parents
        /\ \A w \in Unit : w # v => parent'[w] = parent[w]
        /\ parent'[v] = None
    BY <1>1 DEF OrgInv, O!TypeOK, Parents
  <1>4. O!TypeOK' /\ RowsLinked' /\ CompaniesAreRoots' /\ LockKept'
    BY <1>1, <1>2, <1>3 DEF OrgInv, O!TypeOK, RowsLinked, CompaniesAreRoots, LockKept, Parents
  <1>5. ASSUME NEW x \in unit \ {v} PROVE v \notin ChainIn(parent, x)
    <2>1. Above(parent, unit \ {v}) /\ unit \ {v} \in SUBSET Unit
      BY <1>2, <1>3 DEF OrgInv, RowsLinked, Above
    <2> QED
      BY <2>1, ChainLeast
  <1>6. ASSUME NEW x \in unit \ {v}
        PROVE  ChainIn(parent', x) = ChainIn(parent, x) /\ RootIn(parent', x) = RootIn(parent, x)
    BY <1>3, <1>5, ChainKept
  <1>7. Rooted' /\ Seated'
    BY <1>1, <1>6 DEF OrgInv, Rooted, Seated
  <1>8. ASSUME NEW u \in unit \ {v}, NEW par \in unit \cup {None}, par # v, MoveOk(parent, pos, u, par)
        PROVE  MoveOk(parent', pos, u, par)
    <2>1. parent'[u] = parent[u] /\ RootIn(parent', u) = RootIn(parent, u)
      BY <1>3, <1>6
    <2>2. /\ RootTo(parent', u, par) = RootTo(parent, u, par)
          /\ par # None => ChainIn(parent', par) = ChainIn(parent, par)
      BY <1>6, <1>8 DEF RootTo
    <2>3. \A p \in Position : pos[p] # None => ChainIn(parent', pos[p].unit) = ChainIn(parent, pos[p].unit)
      BY <1>1, <1>6 DEF OrgInv, Seated
    <2> QED
      BY <1>8, <2>1, <2>2, <2>3 DEF MoveOk
  <1>9. ASSUME NEW c \in Client, call[c].op = "create" PROVE CreateReady(c)'
    <2>1. call[c] # O!Idle /\ call[c].at = "written" /\ CreateReady(c)
      BY <1>9 DEF OrgInv, ChecksHold, O!Idle
    <2>2. v # call[c].u /\ v # call[c].par
      BY <1>1, <1>9, <2>1, RowNotHeld
    <2> QED
      BY <1>1, <2>1, <2>2 DEF CreateReady
  <1>10. ASSUME NEW c \in Client, call[c].op = "move", call[c].at = "written" PROVE MoveReady(c)'
    <2>1. call[c] # O!Idle /\ MoveReady(c)
      BY <1>10 DEF OrgInv, ChecksHold, O!Idle
    <2>2. v # call[c].u /\ v # call[c].par
      BY <1>1, <1>10, <2>1, RowNotHeld
    <2>3. MoveOk(parent', pos, call[c].u, call[c].par)
      BY <1>8, <2>1, <2>2 DEF MoveReady
    <2> QED
      BY <1>1, <2>1, <2>2, <2>3 DEF MoveReady
  <1>11. ASSUME NEW c \in Client, call[c].op = "seat", call[c].at = "written" PROVE SeatReady(c)'
    <2>1. call[c] # O!Idle /\ SeatReady(c)
      BY <1>11 DEF OrgInv, ChecksHold, O!Idle
    <2>2. v # call[c].seat.unit /\ v # call[c].seat.company
      BY <1>1, <1>11, <2>1, RowNotHeld
    <2>3. ChainIn(parent', call[c].seat.unit) = ChainIn(parent, call[c].seat.unit)
      BY <1>6, <2>1, <2>2 DEF SeatReady
    <2> QED
      BY <1>1, <2>1, <2>2, <2>3 DEF SeatReady
  <1>12. ChecksHold'
    BY <1>1, <1>9, <1>10, <1>11 DEF OrgInv, ChecksHold
  <1> QED
    BY <1>4, <1>7, <1>12 DEF OrgInv

LEMMA OrgNext == OrgInv /\ O!Next => OrgInv'
  <1> SUFFICES ASSUME OrgInv, O!Next PROVE OrgInv'
    OBVIOUS
  <1>1. CASE O!handleCreateUnit
    BY <1>1, OrgCreate DEF O!handleCreateUnit
  <1>2. CASE O!handleUpdateUnit
    BY <1>2, OrgMoveCheck DEF O!handleUpdateUnit
  <1>3. CASE O!handleDeleteUnit
    BY <1>3, OrgDeleteUnit DEF O!handleDeleteUnit
  <1>4. CASE O!handleCreatePosition
    BY <1>4, OrgSeatCheck DEF O!handleCreatePosition
  <1>5. CASE O!handleUpdatePosition
    BY <1>5, OrgSeatCheck DEF O!handleUpdatePosition
  <1>6. CASE O!handleDeletePosition
    BY <1>6, OrgDeletePosition DEF O!handleDeletePosition
  <1>7. ASSUME NEW company \in Unit, O!handleAdminCreatePosition(company) PROVE OrgInv'
    <2>1. PICK c \in Client, p \in Position, u \in Unit : O!CreatePosition(c, p, [company |-> company, unit |-> u])
      BY <1>7 DEF O!handleAdminCreatePosition
    <2>2. [company |-> company, unit |-> u] \in O!Seat
      BY DEF O!Seat
    <2> QED
      BY <2>1, <2>2, OrgSeatCheck
  <1>8. CASE O!handleAdminUpdatePosition
    <2>1. PICK c \in Client, p \in Position, u \in Unit :
            pos[p] # None /\ O!UpdatePosition(c, p, [company |-> pos[p].company, unit |-> u])
      BY <1>8 DEF O!handleAdminUpdatePosition
    <2>2. [company |-> pos[p].company, unit |-> u] \in O!Seat
      BY <2>1 DEF OrgInv, O!TypeOK, O!Seat
    <2> QED
      BY <2>1, <2>2, OrgSeatCheck
  <1>9. ASSUME NEW c \in Client, O!Transaction(c) PROVE OrgInv'
    <2>1. CASE O!CommitUnit(c)
      BY <2>1, OrgCommitCreate, OrgCommitMove DEF O!CommitUnit
    <2> QED
      BY <1>9, <2>1, OrgMoveWrite, OrgSeatWrite, OrgCommitSeat, OrgRollback DEF O!Transaction
  <1>10. ASSUME NEW u \in Unit, O!UseCompany(u) PROVE OrgInv'
    BY <1>10, OrgUse
  <1> QED
    BY <1>1, <1>2, <1>3, <1>4, <1>5, <1>6, <1>7, <1>8, <1>9, <1>10 DEF O!Next

-------------------------------------------------------------------------------
(* The registry and its default grants. *)

\* A boot in progress, and the transaction or job of a client.
BootState ==
    [at : {"install", "delete", "insert", "status", "fragment", "store", "list", "grant"},
     i : 1..Len(Known), listed : SUBSET T!BuiltIn, en : SUBSET T!Module, cos : SUBSET Company,
     quiet : BOOLEAN]

TenancyTx ==
    {T!Idle}
      \cup [op : {"enable"}, m : T!Module, cos : SUBSET Company]
      \cup [op : {"register"}, m : App]
      \cup [op : {"company"}, co : Company, mods : SUBSET T!Module]
      \cup [op : {"backfill"}, pairs : SUBSET (Company \X T!Module)]

TenancyType ==
    /\ inst \in [T!Module -> {None, "uninstalled", "disabled", "enabled"}]
    /\ fragment \in [T!Module -> BOOLEAN \cup {None}]
    /\ active \subseteq Company
    /\ seed \in [Replica -> BootState \cup {T!Idle}]
    /\ tx \in [Client -> TenancyTx]
    /\ settled \in BOOLEAN

\* Claims are for ever, and only what was claimed has or lost its tuple.
ClaimedForEver ==
    system \cup excluded \subseteq claimed /\ system \cap excluded = {}

\* A quiet boot is alone, and no boot runs once the registry is settled.
QuietAlone ==
    /\ \A r \in Replica : seed[r] # T!Idle /\ seed[r].quiet =>
         (\A q \in Replica \ {r} : seed[q] = T!Idle) /\ (\A c \in Client : tx[c] = T!Idle)
    /\ settled => \A r \in Replica : seed[r] = T!Idle

\* What a boot goes by that no other step changes.
BootValid ==
    /\ \A r \in Replica : seed[r] # T!Idle =>
         /\ T!validateKnownManifests
         /\ seed[r].at = "store" => TypeOf[Known[seed[r].i]] # {}
    /\ settled => T!validateKnownManifests

\* An enabling holds the row of an installed module, and a fragment that no
\* boot writes follows its module's row.
RowsFollowed ==
    /\ \A c \in Client : tx[c].op = "enable" => inst[tx[c].m] \in {"disabled", "enabled"}
    /\ \A m \in T!Module : (m \in T!BuiltIn => TypeOf[m] = {}) /\ fragment[m] # None =>
         /\ inst[m] \in {"disabled", "enabled"}
         /\ fragment[m] <=> inst[m] = "enabled"

\* What each loop of a boot has done for the j-th known module.
DepsDone(j) == \A d \in Dep : d[1] = Known[j] => d \in dep

FragmentDone(j) ==
    TypeOf[Known[j]] # {} =>
      /\ fragment[Known[j]] # None
      /\ fragment[Known[j]] <=> inst[Known[j]] = "enabled"
      /\ \A n \in T!Module \ {Known[j]} : fragment[n] # None => TypeOf[n] \cap TypeOf[Known[j]] = {}

GrantDone(j) ==
    inst[Known[j]] = "enabled" => \A co \in active : <<co, Known[j]>> \in claimed

\* How far a quiet boot is.
QuietProgress(b) ==
    /\ b.at \in {"delete", "insert"} => \A j \in 1..(b.i - 1) : DepsDone(j)
    /\ b.at \in {"status", "fragment", "store", "list", "grant"} =>
         \A j \in 1..Len(Known) : DepsDone(j)
    /\ b.at = "status" => b.i = 1
    /\ b.at \in {"fragment", "store", "list", "grant"} => b.en = T!Enabled
    /\ b.at \in {"fragment", "store"} => \A j \in 1..(b.i - 1) : FragmentDone(j)
    /\ b.at = "store" => T!Owns(Known[b.i])
    /\ b.at \in {"list", "grant"} =>
         (\A j \in 1..Len(Known) : FragmentDone(j)) /\ (\A j \in 1..(b.i - 1) : GrantDone(j))
    /\ b.at = "grant" /\ inst[Known[b.i]] = "enabled" =>
         \A co \in active \ b.cos : <<co, Known[b.i]>> \in claimed

BootProgress ==
    \A r \in Replica : seed[r] # T!Idle /\ seed[r].quiet => QuietProgress(seed[r])

\* What holds from the end of a quiet boot on.
Settled ==
    settled =>
      /\ \A j \in 1..Len(Known) : DepsDone(j) /\ FragmentDone(j) /\ GrantDone(j)
      /\ \A c, d \in Client : ~(tx[c].op = "enable" /\ tx[d].op = "company")
      /\ \A c \in Client :
           /\ tx[c].op = "enable" => active \subseteq tx[c].cos
           /\ tx[c].op = "company" => T!Enabled \subseteq tx[c].mods
           /\ tx[c].op = "register" => \A m \in T!BuiltIn \ {tx[c].m} : TypeOf[m] \cap TypeOf[tx[c].m] = {}

TenancyInv ==
    /\ TenancyType /\ ClaimedForEver /\ QuietAlone /\ BootValid
    /\ RowsFollowed /\ BootProgress /\ Settled

\* The list of known modules.
LEMMA KnownModules ==
  /\ Len(Known) \in Nat \ {0}
  /\ T!BuiltIn = {Known[j] : j \in 1..Len(Known)}
  /\ T!BuiltIn \subseteq T!Module
  /\ \A j \in 1..Len(Known) : Known[j] \in T!BuiltIn /\ Known[j] \in T!Module
  /\ \A j, k \in 1..Len(Known) : Known[j] = Known[k] => j = k
  BY TenancyConstants DEF T!TenancyAssumption, T!BuiltIn, T!Module

\* The boot of r goes on as b, and the other replicas are where they were.
Statement(r, b) ==
    /\ seed' \in [Replica -> BootState \cup {T!Idle}]
    /\ seed'[r] = b
    /\ \A q \in Replica \ {r} : seed'[q] = seed[q]

Stage == {"install", "delete", "insert", "status", "fragment", "store", "list", "grant"}

\* A boot in progress has a module in hand.
LEMMA BootInHand ==
  ASSUME TenancyInv, NEW r \in Replica, seed[r] # T!Idle
  PROVE  /\ seed[r] \in BootState /\ seed[r].i \in 1..Len(Known)
         /\ Known[seed[r].i] \in T!BuiltIn /\ Known[seed[r].i] \in T!Module
         /\ ~settled
  <1>1. seed[r] \in BootState /\ seed[r].i \in 1..Len(Known)
    BY DEF TenancyInv, TenancyType, BootState
  <1> QED
    BY <1>1, KnownModules DEF TenancyInv, TenancyType, QuietAlone

\* A loop of the boot goes on with the next module, or the next loop begins.
LEMMA StepOn ==
  ASSUME TenancyInv, NEW r \in Replica, seed[r] # T!Idle,
         NEW again \in Stage, NEW next \in Stage, T!Step(r, again, next)
  PROVE  \E b \in BootState :
           /\ Statement(r, b)
           /\ b.en = seed[r].en /\ b.cos = seed[r].cos /\ b.quiet = seed[r].quiet
           /\ \/ b.at = again /\ b.i = seed[r].i + 1 /\ seed[r].i < Len(Known)
              \/ b.at = next /\ b.i = 1 /\ seed[r].i = Len(Known)
  <1>1. seed[r] \in BootState /\ seed[r].i \in 1..Len(Known) /\ Len(Known) \in Nat \ {0}
    BY BootInHand, KnownModules
  <1>2. seed \in [Replica -> BootState \cup {T!Idle}]
    BY DEF TenancyInv, TenancyType
  <1>3. PICK o : o = seed[r]
    OBVIOUS
  <1>4. PICK n : n = seed'[r]
    OBVIOUS
  <1>5. CASE seed[r].i < Len(Known)
    <2>1. seed' = [seed EXCEPT ![r].i = @ + 1, ![r].at = again]
      BY <1>5 DEF T!Step
    <2>2. n = [o EXCEPT !.i = o.i + 1, !.at = again]
      BY <1>2, <1>3, <1>4, <2>1
    <2>3. o \in BootState /\ o.i + 1 \in 1..Len(Known)
      BY <1>1, <1>3, <1>5
    <2>4. /\ n \in BootState /\ n.at = again /\ n.i = o.i + 1
          /\ n.en = o.en /\ n.cos = o.cos /\ n.quiet = o.quiet
      BY <2>2, <2>3 DEF BootState, Stage
    <2>5. Statement(r, n)
      BY <1>2, <1>4, <2>1, <2>4 DEF Statement
    <2> QED
      BY <1>3, <1>5, <2>4, <2>5
  <1>6. CASE ~(seed[r].i < Len(Known))
    <2>1. seed' = [seed EXCEPT ![r].i = 1, ![r].at = next]
      BY <1>6 DEF T!Step
    <2>2. n = [o EXCEPT !.i = 1, !.at = next]
      BY <1>2, <1>3, <1>4, <2>1
    <2>3. o \in BootState /\ 1 \in 1..Len(Known)
      BY <1>1, <1>3
    <2>4. /\ n \in BootState /\ n.at = next /\ n.i = 1
          /\ n.en = o.en /\ n.cos = o.cos /\ n.quiet = o.quiet
      BY <2>2, <2>3 DEF BootState, Stage
    <2>5. Statement(r, n)
      BY <1>2, <1>4, <2>1, <2>4 DEF Statement
    <2> QED
      BY <1>1, <1>3, <1>6, <2>4, <2>5
  <1> QED
    BY <1>5, <1>6

\* What is left to show of a statement of a boot.
LEMMA SeedKeeps ==
  ASSUME TenancyInv, NEW r \in Replica, seed[r] # T!Idle, NEW b \in BootState,
         Statement(r, b), b.quiet = seed[r].quiet, tx' = tx, settled' = settled,
         b.at = "store" => TypeOf[Known[b.i]] # {},
         seed[r].quiet => QuietProgress(b)',
         inst' \in [T!Module -> {None, "uninstalled", "disabled", "enabled"}],
         fragment' \in [T!Module -> BOOLEAN \cup {None}],
         active' \subseteq Company, ClaimedForEver', RowsFollowed'
  PROVE  TenancyInv'
  <1>1. ~settled
    BY BootInHand
  <1>2. TenancyType'
    BY DEF TenancyInv, TenancyType, Statement
  <1>3. QuietAlone'
    BY <1>1 DEF TenancyInv, QuietAlone, Statement
  <1>4. BootValid'
    BY <1>1 DEF TenancyInv, BootValid, Statement, T!validateKnownManifests
  <1>5. BootProgress'
    BY DEF TenancyInv, QuietAlone, BootProgress, Statement
  <1>6. Settled'
    BY <1>1 DEF Settled
  <1> QED
    BY <1>2, <1>3, <1>4, <1>5, <1>6 DEF TenancyInv

LEMMA TenancySeedInstall ==
  ASSUME TenancyInv, NEW r \in Replica, T!SeedInstall(r)
  PROVE  TenancyInv'
  <1>1. seed[r] # T!Idle /\ seed[r].at = "install" /\ T!Step(r, "install", "delete")
    BY DEF T!SeedInstall
  <1>2. PICK b \in BootState :
          /\ Statement(r, b) /\ b.quiet = seed[r].quiet
          /\ b.at = "install" \/ (b.at = "delete" /\ b.i = 1)
    BY <1>1, StepOn DEF Stage
  <1>3. /\ inst' \in [T!Module -> {None, "uninstalled", "disabled", "enabled"}]
        /\ fragment' = fragment /\ tx' = tx /\ active' = active /\ claimed' = claimed
        /\ system' = system /\ excluded' = excluded /\ settled' = settled
        /\ \A m \in T!Module : inst[m] \in {"disabled", "enabled"} => inst'[m] = inst[m]
    BY BootInHand, <1>1, TenancyConstants
       DEF T!TenancyAssumption, T!SeedInstall, TenancyInv, TenancyType, T!installListed, T!seedModuleInstallationMissing
  <1>4. QuietProgress(b)'
    BY <1>2 DEF QuietProgress
  <1>5. RowsFollowed'
    BY <1>3 DEF TenancyInv, TenancyType, TenancyTx, RowsFollowed, T!Idle
  <1> QED
    BY <1>1, <1>2, <1>3, <1>4, <1>5, SeedKeeps DEF TenancyInv, TenancyType, ClaimedForEver

LEMMA TenancySeedDeleteDeps ==
  ASSUME TenancyInv, NEW r \in Replica, T!SeedDeleteDeps(r)
  PROVE  TenancyInv'
  <1>1. seed[r] # T!Idle /\ seed[r].at = "delete" /\ seed' = [seed EXCEPT ![r].at = "insert"]
    BY DEF T!SeedDeleteDeps
  <1>2. PICK b \in BootState :
          Statement(r, b) /\ b.quiet = seed[r].quiet /\ b.at = "insert" /\ b.i = seed[r].i
    <2>1. seed'[r] \in BootState /\ Statement(r, seed'[r])
      BY BootInHand, <1>1 DEF Statement, TenancyInv, TenancyType, BootState
    <2> QED
      BY <2>1, BootInHand, <1>1 DEF TenancyInv, TenancyType, BootState
  <1>3. ASSUME seed[r].quiet PROVE QuietProgress(b)'
    <2>1. \A j \in 1..(b.i - 1) : DepsDone(j)
      BY <1>1, <1>2, <1>3 DEF TenancyInv, BootProgress, QuietProgress
    <2>2. \A j \in 1..(b.i - 1) : j \in 1..Len(Known) /\ Known[j] # Known[b.i]
      BY <1>1, <1>2, BootInHand, KnownModules
    <2>3. \A j \in 1..(b.i - 1) : DepsDone(j)'
      BY <1>2, <2>1, <2>2 DEF DepsDone, T!SeedDeleteDeps
    <2> QED
      BY <1>2, <2>3 DEF QuietProgress
  <1>4. RowsFollowed' /\ ClaimedForEver'
    BY DEF T!SeedDeleteDeps, TenancyInv, RowsFollowed, ClaimedForEver
  <1> QED
    BY <1>1, <1>2, <1>3, <1>4, SeedKeeps DEF TenancyInv, TenancyType, T!SeedDeleteDeps

LEMMA TenancySeedInsertDeps ==
  ASSUME TenancyInv, NEW r \in Replica, T!SeedInsertDeps(r)
  PROVE  TenancyInv'
  <1>1. seed[r] # T!Idle /\ seed[r].at = "insert" /\ T!Step(r, "delete", "status")
    BY DEF T!SeedInsertDeps
  <1>2. PICK b \in BootState :
          /\ Statement(r, b) /\ b.quiet = seed[r].quiet
          /\ \/ b.at = "delete" /\ b.i = seed[r].i + 1 /\ seed[r].i < Len(Known)
             \/ b.at = "status" /\ b.i = 1 /\ seed[r].i = Len(Known)
    BY <1>1, StepOn DEF Stage
  <1>3. ASSUME seed[r].quiet PROVE QuietProgress(b)'
    <2>1. \A j \in 1..(seed[r].i - 1) : DepsDone(j)
      BY <1>1, <1>3 DEF TenancyInv, BootProgress, QuietProgress
    <2>2. \A j \in 1..seed[r].i : DepsDone(j)'
      <3>1. seed[r].i \in 1..Len(Known) /\ Len(Known) \in Nat
        BY <1>1, BootInHand, KnownModules
      <3>2. dep' = dep \cup {d \in Dep : d[1] = Known[seed[r].i]}
        BY DEF T!SeedInsertDeps
      <3> QED
        BY <2>1, <3>1, <3>2 DEF DepsDone
    <2>3. seed[r].i \in 1..Len(Known) /\ Len(Known) \in Nat
      BY <1>1, BootInHand, KnownModules
    <2> QED
      BY <1>2, <2>2, <2>3 DEF QuietProgress
  <1>4. RowsFollowed' /\ ClaimedForEver'
    BY DEF T!SeedInsertDeps, TenancyInv, RowsFollowed, ClaimedForEver
  <1> QED
    BY <1>1, <1>2, <1>3, <1>4, SeedKeeps DEF TenancyInv, TenancyType, T!SeedInsertDeps

LEMMA TenancySeedStatus ==
  ASSUME TenancyInv, NEW r \in Replica, T!SeedStatus(r)
  PROVE  TenancyInv'
  <1>1. /\ seed[r] # T!Idle /\ seed[r].at = "status"
        /\ seed' = [seed EXCEPT ![r].at = "fragment", ![r].en = T!Enabled]
    BY DEF T!SeedStatus
  <1>2. PICK b \in BootState :
          Statement(r, b) /\ b.quiet = seed[r].quiet /\ b.at = "fragment" /\ b.i = seed[r].i /\ b.en = T!Enabled
    <2>1. T!Enabled \in SUBSET T!Module
      BY DEF T!Enabled
    <2>2. seed'[r] \in BootState /\ Statement(r, seed'[r])
      BY BootInHand, <1>1, <2>1 DEF Statement, TenancyInv, TenancyType, BootState
    <2> QED
      BY <2>2, BootInHand, <1>1 DEF TenancyInv, TenancyType, BootState
  <1>3. ASSUME seed[r].quiet PROVE QuietProgress(b)'
    <2>1. b.i = 1 /\ \A j \in 1..Len(Known) : DepsDone(j)
      BY <1>1, <1>2, <1>3 DEF TenancyInv, BootProgress, QuietProgress
    <2>2. b.en = T!Enabled' /\ \A j \in 1..Len(Known) : DepsDone(j)'
      BY <1>2, <2>1 DEF T!SeedStatus, T!Enabled, DepsDone
    <2> QED
      BY <1>2, <2>1, <2>2 DEF QuietProgress
  <1>4. RowsFollowed' /\ ClaimedForEver'
    BY DEF T!SeedStatus, TenancyInv, RowsFollowed, ClaimedForEver
  <1> QED
    BY <1>1, <1>2, <1>3, <1>4, SeedKeeps DEF TenancyInv, TenancyType, T!SeedStatus

LEMMA TenancySeedCheckFragment ==
  ASSUME TenancyInv, NEW r \in Replica, T!SeedCheckFragment(r)
  PROVE  TenancyInv'
  <1>1. /\ seed[r] # T!Idle /\ seed[r].at = "fragment"
        /\ UNCHANGED <<inst, dep, fragment, active, claimed, system, tx, settled, excluded>>
    BY DEF T!SeedCheckFragment
  <1>2. RowsFollowed' /\ ClaimedForEver'
    BY <1>1 DEF TenancyInv, RowsFollowed, ClaimedForEver
  <1>3. seed[r].i \in 1..Len(Known) /\ Len(Known) \in Nat \ {0}
    BY <1>1, BootInHand, KnownModules
  <1>4. ASSUME seed[r].quiet
        PROVE  /\ \A j \in 1..Len(Known) : DepsDone(j)'
               /\ \A j \in 1..(seed[r].i - 1) : FragmentDone(j)'
               /\ seed[r].en = T!Enabled'
    <2>1. QuietProgress(seed[r])
      BY <1>1, <1>4 DEF TenancyInv, BootProgress
    <2> QED
      BY <1>1, <2>1 DEF QuietProgress, DepsDone, FragmentDone, T!Enabled
  <1>5. CASE TypeOf[Known[seed[r].i]] = {}
    <2>1. PICK b \in BootState :
            /\ Statement(r, b) /\ b.quiet = seed[r].quiet /\ b.en = seed[r].en
            /\ \/ b.at = "fragment" /\ b.i = seed[r].i + 1 /\ seed[r].i < Len(Known)
               \/ b.at = "list" /\ b.i = 1 /\ seed[r].i = Len(Known)
      <3>1. T!Step(r, "fragment", "list")
        BY <1>5 DEF T!SeedCheckFragment
      <3> QED
        BY <1>1, <3>1, StepOn DEF Stage
    <2>2. ASSUME seed[r].quiet PROVE QuietProgress(b)'
      <3>1. PICK i \in 1..Len(Known) : i = seed[r].i
        BY <1>3
      <3>2. FragmentDone(i)'
        BY <1>5, <3>1 DEF FragmentDone
      <3>3. \A j \in 1..i : FragmentDone(j)'
        BY <1>3, <1>4, <2>2, <3>1, <3>2
      <3> QED
        BY <1>3, <1>4, <2>1, <2>2, <3>1, <3>3 DEF QuietProgress
    <2> QED
      BY <1>1, <1>2, <2>1, <2>2, SeedKeeps DEF TenancyInv, TenancyType
  <1>6. CASE TypeOf[Known[seed[r].i]] # {}
    <2>1. T!Owns(Known[seed[r].i]) /\ seed' = [seed EXCEPT ![r].at = "store"]
      BY <1>6 DEF T!SeedCheckFragment
    <2>2. PICK b \in BootState :
            Statement(r, b) /\ b.quiet = seed[r].quiet /\ b.at = "store" /\ b.i = seed[r].i /\ b.en = seed[r].en
      <3>1. seed'[r] \in BootState /\ Statement(r, seed'[r])
        BY BootInHand, <1>1, <2>1 DEF Statement, TenancyInv, TenancyType, BootState
      <3> QED
        BY <3>1, BootInHand, <1>1, <2>1 DEF TenancyInv, TenancyType, BootState
    <2>3. ASSUME seed[r].quiet PROVE QuietProgress(b)'
      <3>1. T!Owns(Known[b.i])'
        BY <1>1, <2>1, <2>2 DEF T!Owns
      <3> QED
        BY <1>3, <1>4, <2>2, <2>3, <3>1 DEF QuietProgress
    <2> QED
      BY <1>1, <1>2, <1>6, <2>2, <2>3, SeedKeeps DEF TenancyInv, TenancyType
  <1> QED
    BY <1>5, <1>6

LEMMA TenancySeedFragment ==
  ASSUME TenancyInv, NEW r \in Replica, T!SeedFragment(r)
  PROVE  TenancyInv'
  <1>1. /\ seed[r] # T!Idle /\ seed[r].at = "store" /\ T!Step(r, "fragment", "list")
        /\ UNCHANGED <<inst, dep, active, claimed, system, tx, settled, excluded>>
    BY DEF T!SeedFragment
  <1>2. PICK b \in BootState :
          /\ Statement(r, b) /\ b.quiet = seed[r].quiet /\ b.en = seed[r].en
          /\ \/ b.at = "fragment" /\ b.i = seed[r].i + 1 /\ seed[r].i < Len(Known)
             \/ b.at = "list" /\ b.i = 1 /\ seed[r].i = Len(Known)
    BY <1>1, StepOn DEF Stage
  <1>3. PICK m : m = Known[seed[r].i]
    OBVIOUS
  <1>4. /\ seed[r].i \in 1..Len(Known) /\ Len(Known) \in Nat \ {0}
        /\ m \in T!BuiltIn /\ m \in T!Module /\ TypeOf[m] # {}
    BY <1>1, <1>3, BootInHand, KnownModules DEF TenancyInv, BootValid
  <1>5. /\ fragment' \in [T!Module -> BOOLEAN \cup {None}]
        /\ fragment'[m] \in BOOLEAN /\ (fragment'[m] <=> m \in seed[r].en)
        /\ \A n \in T!Module \ {m} : fragment'[n] = fragment[n]
    <2>1. fragment' = [fragment EXCEPT ![m] = m \in seed[r].en]
      BY <1>3 DEF T!SeedFragment
    <2>2. fragment \in [T!Module -> BOOLEAN \cup {None}]
      BY DEF TenancyInv, TenancyType
    <2>3. CASE m \in seed[r].en
      <3>1. fragment' = [fragment EXCEPT ![m] = TRUE]
        BY <2>1, <2>3
      <3> QED
        BY <1>4, <2>2, <2>3, <3>1
    <2>4. CASE m \notin seed[r].en
      <3>1. (m \in seed[r].en) = FALSE
        BY <2>4, SMT
      <3>2. fragment' = [fragment EXCEPT ![m] = FALSE]
        BY <2>1, <3>1, Zenon
      <3> QED
        BY <1>4, <2>2, <2>4, <3>2
    <2> QED
      BY <2>3, <2>4
  <1>6. RowsFollowed' /\ ClaimedForEver'
    BY <1>1, <1>4, <1>5 DEF TenancyInv, RowsFollowed, ClaimedForEver
  <1>7. ASSUME seed[r].quiet PROVE QuietProgress(b)'
    <2>1. QuietProgress(seed[r])
      BY <1>1, <1>7 DEF TenancyInv, BootProgress
    <2>2. seed[r].en = T!Enabled /\ seed[r].en = T!Enabled' /\ \A j \in 1..Len(Known) : DepsDone(j)'
      BY <1>1, <2>1 DEF QuietProgress, DepsDone, T!Enabled
    <2>3. ASSUME NEW j \in 1..(seed[r].i - 1) PROVE FragmentDone(j)'
      <3>1. FragmentDone(j) /\ T!Owns(m)
        BY <1>1, <1>3, <2>1, <2>3 DEF QuietProgress
      <3>2. Known[j] \in T!Module \ {m}
        BY <1>3, <1>4, KnownModules
      <3> QED
        BY <1>1, <1>4, <1>5, <3>1, <3>2 DEF FragmentDone, T!Owns
    <2> PICK i \in 1..Len(Known) : i = seed[r].i
      BY <1>4
    <2>4. FragmentDone(i)'
      <3>1. T!Owns(m)
        BY <1>1, <1>3, <2>1 DEF QuietProgress
      <3>2. fragment'[m] # None /\ (fragment'[m] <=> inst'[m] = "enabled")
        BY <1>1, <1>4, <1>5, <2>2, TenancyConstants DEF T!TenancyAssumption, T!Enabled
      <3> QED
        BY <1>3, <1>5, <3>1, <3>2 DEF FragmentDone, T!Owns
    <2>5. \A j \in 1..i : FragmentDone(j)'
      BY <1>4, <2>3, <2>4
    <2> QED
      BY <1>2, <1>4, <2>2, <2>5 DEF QuietProgress
  <1> QED
    BY <1>1, <1>2, <1>5, <1>6, <1>7, SeedKeeps DEF TenancyInv, TenancyType

LEMMA TenancySeedList ==
  ASSUME TenancyInv, NEW r \in Replica, T!SeedList(r)
  PROVE  TenancyInv'
  <1>1. /\ seed[r] # T!Idle /\ seed[r].at = "list"
        /\ seed' = [seed EXCEPT ![r].at = "grant",
                     ![r].cos = IF Known[seed[r].i] \in seed[r].en THEN active ELSE {}]
        /\ UNCHANGED <<inst, dep, fragment, active, claimed, system, tx, settled, excluded>>
    BY DEF T!SeedList, T!activeCompanyIDs
  <1>2. PICK b \in BootState :
          /\ Statement(r, b) /\ b.quiet = seed[r].quiet /\ b.en = seed[r].en /\ b.i = seed[r].i
          /\ b.at = "grant" /\ b.cos = IF Known[seed[r].i] \in seed[r].en THEN active ELSE {}
    <2>1. PICK cos \in SUBSET Company : cos = IF Known[seed[r].i] \in seed[r].en THEN active ELSE {}
      BY DEF TenancyInv, TenancyType
    <2>2. seed' = [seed EXCEPT ![r].at = "grant", ![r].cos = cos]
      BY <1>1, <2>1
    <2>3. PICK o : o = seed[r]
      OBVIOUS
    <2>4. PICK n : n = seed'[r]
      OBVIOUS
    <2>5. o \in BootState /\ seed \in [Replica -> BootState \cup {T!Idle}]
      BY <1>1, <2>3, BootInHand DEF TenancyInv, TenancyType
    <2>6. n = [o EXCEPT !.at = "grant", !.cos = cos]
      BY <2>2, <2>3, <2>4, <2>5
    <2>7. /\ n \in BootState /\ n.quiet = o.quiet /\ n.en = o.en /\ n.i = o.i
          /\ n.at = "grant" /\ n.cos = cos
      BY <2>5, <2>6 DEF BootState
    <2>8. Statement(r, n)
      BY <2>2, <2>4, <2>5, <2>7 DEF Statement
    <2> QED
      BY <2>1, <2>3, <2>7, <2>8
  <1>3. ASSUME seed[r].quiet PROVE QuietProgress(b)'
    <2>1. QuietProgress(seed[r])
      BY <1>1, <1>3 DEF TenancyInv, BootProgress
    <2>2. /\ \A j \in 1..Len(Known) : DepsDone(j)' /\ FragmentDone(j)'
          /\ \A j \in 1..(b.i - 1) : GrantDone(j)'
          /\ b.en = T!Enabled'
      BY <1>1, <1>2, <2>1 DEF QuietProgress, DepsDone, FragmentDone, GrantDone, T!Enabled
    <2>3. inst'[Known[b.i]] = "enabled" => \A co \in active' \ b.cos : <<co, Known[b.i]>> \in claimed'
      BY <1>1, <1>2, <2>2, BootInHand DEF T!Enabled
    <2> QED
      BY <1>2, <2>2, <2>3 DEF QuietProgress
  <1>4. RowsFollowed' /\ ClaimedForEver'
    BY <1>1 DEF TenancyInv, RowsFollowed, ClaimedForEver
  <1> QED
    BY <1>1, <1>2, <1>3, <1>4, SeedKeeps DEF TenancyInv, TenancyType

\* A default grant adds claims, and a tuple only with a new claim.
LEMMA DefaultOnce ==
  ASSUME ClaimedForEver, NEW pairs, T!EnsureDefaultGrant(pairs), excluded' = excluded
  PROVE  ClaimedForEver' /\ claimed' = claimed \cup pairs
  BY DEF ClaimedForEver, T!EnsureDefaultGrant

LEMMA TenancySeedGrant ==
  ASSUME TenancyInv, NEW r \in Replica, T!SeedGrant(r)
  PROVE  TenancyInv'
  <1>1. /\ seed[r] # T!Idle /\ seed[r].at = "grant"
        /\ UNCHANGED <<inst, dep, fragment, active, tx, settled, excluded>>
    BY DEF T!SeedGrant
  <1>2. PICK co \in seed[r].cos :
          /\ T!EnsureDefaultGrant({<<co, Known[seed[r].i]>>})
          /\ seed' = [seed EXCEPT ![r].cos = @ \ {co}]
    BY DEF T!SeedGrant
  <1>3. ClaimedForEver' /\ claimed' = claimed \cup {<<co, Known[seed[r].i]>>}
    BY <1>1, <1>2, DefaultOnce DEF TenancyInv
  <1>4. PICK b \in BootState :
          /\ Statement(r, b) /\ b.quiet = seed[r].quiet /\ b.en = seed[r].en /\ b.i = seed[r].i
          /\ b.at = "grant" /\ b.cos = seed[r].cos \ {co}
    <2>1. seed'[r] \in BootState /\ Statement(r, seed'[r])
      BY BootInHand, <1>1, <1>2 DEF Statement, TenancyInv, TenancyType, BootState
    <2> QED
      BY <2>1, BootInHand, <1>1, <1>2 DEF TenancyInv, TenancyType, BootState
  <1>5. ASSUME seed[r].quiet PROVE QuietProgress(b)'
    <2>1. QuietProgress(seed[r])
      BY <1>1, <1>5 DEF TenancyInv, BootProgress
    <2>2. /\ \A j \in 1..Len(Known) : DepsDone(j)' /\ FragmentDone(j)'
          /\ \A j \in 1..(b.i - 1) : GrantDone(j)'
          /\ b.en = T!Enabled'
      BY <1>1, <1>3, <1>4, <2>1 DEF QuietProgress, DepsDone, FragmentDone, GrantDone, T!Enabled
    <2>3. inst'[Known[b.i]] = "enabled" => \A c \in active' \ b.cos : <<c, Known[b.i]>> \in claimed'
      BY <1>1, <1>3, <1>4, <2>1 DEF QuietProgress
    <2> QED
      BY <1>4, <2>2, <2>3 DEF QuietProgress
  <1>6. RowsFollowed'
    BY <1>1 DEF TenancyInv, RowsFollowed
  <1> QED
    BY <1>1, <1>3, <1>4, <1>5, <1>6, SeedKeeps DEF TenancyInv, TenancyType

LEMMA TenancySeedNext ==
  ASSUME TenancyInv, NEW r \in Replica, T!SeedNext(r)
  PROVE  TenancyInv'
  <1>1. /\ seed[r] # T!Idle /\ seed[r].at = "grant" /\ seed[r].cos = {}
        /\ UNCHANGED <<inst, dep, fragment, active, claimed, system, tx, excluded>>
    BY DEF T!SeedNext
  <1>2. RowsFollowed' /\ ClaimedForEver'
    BY <1>1 DEF TenancyInv, RowsFollowed, ClaimedForEver
  <1>3. seed[r].i \in 1..Len(Known) /\ Len(Known) \in Nat \ {0}
    BY <1>1, BootInHand, KnownModules
  <1>4. ASSUME seed[r].quiet
        PROVE  /\ seed[r].en = T!Enabled'
               /\ \A j \in 1..Len(Known) : DepsDone(j)' /\ FragmentDone(j)'
               /\ \A j \in 1..Len(Known) : j <= seed[r].i => GrantDone(j)'
    <2>1. QuietProgress(seed[r])
      BY <1>1, <1>4 DEF TenancyInv, BootProgress
    <2>2. \A j \in 1..Len(Known) : j <= seed[r].i => GrantDone(j)
      BY <1>1, <1>3, <2>1 DEF QuietProgress, GrantDone
    <2> QED
      BY <1>1, <2>1, <2>2 DEF QuietProgress, DepsDone, FragmentDone, GrantDone, T!Enabled
  <1>5. CASE seed[r].i < Len(Known)
    <2>1. seed' = [seed EXCEPT ![r].i = @ + 1, ![r].at = "list"] /\ settled' = settled
      BY <1>5 DEF T!SeedNext
    <2>2. PICK b \in BootState :
            /\ Statement(r, b) /\ b.quiet = seed[r].quiet /\ b.en = seed[r].en
            /\ b.at = "list" /\ b.i = seed[r].i + 1
      <3>1. T!Step(r, "list", "list")
        BY <1>5, <2>1 DEF T!Step
      <3> QED
        BY <1>1, <1>3, <1>5, <3>1, StepOn DEF Stage
    <2>3. ASSUME seed[r].quiet PROVE QuietProgress(b)'
      BY <1>3, <1>4, <1>5, <2>2, <2>3 DEF QuietProgress
    <2> QED
      BY <1>1, <1>2, <2>1, <2>2, <2>3, SeedKeeps DEF TenancyInv, TenancyType
  <1>6. CASE ~(seed[r].i < Len(Known))
    <2>1. seed' = [seed EXCEPT ![r] = T!Idle] /\ settled' = seed[r].quiet
      BY <1>6 DEF T!SeedNext
    <2>2. seed[r].i = Len(Known) /\ seed[r].quiet \in BOOLEAN
      BY <1>1, <1>3, <1>6, BootInHand DEF BootState
    <2>3. TenancyType'
      BY <1>1, <2>1, <2>2 DEF TenancyInv, TenancyType
    <2>4. QuietAlone'
      BY <1>1, <2>1, <2>2 DEF TenancyInv, TenancyType, QuietAlone
    <2>5. BootValid'
      BY <1>1, <2>1, <2>2 DEF TenancyInv, TenancyType, BootValid, T!validateKnownManifests
    <2>6. BootProgress'
      BY <1>1, <2>1, <2>2 DEF TenancyInv, TenancyType, BootProgress, QuietAlone
    <2>7. Settled'
      <3> SUFFICES ASSUME settled' PROVE Settled'
        BY DEF Settled
      <3>1. seed[r].quiet /\ \A c \in Client : tx'[c] = T!Idle
        BY <1>1, <2>1 DEF TenancyInv, QuietAlone
      <3>2. \A c \in Client : tx'[c].op = "idle"
        BY <3>1 DEF T!Idle
      <3>3. \A j \in 1..Len(Known) : DepsDone(j)' /\ FragmentDone(j)' /\ GrantDone(j)'
        BY <1>3, <1>4, <2>2, <3>1
      <3> QED
        BY <3>2, <3>3 DEF Settled
    <2> QED
      BY <1>2, <2>3, <2>4, <2>5, <2>6, <2>7 DEF TenancyInv
  <1> QED
    BY <1>5, <1>6

LEMMA TenancySeedStops ==
  ASSUME TenancyInv, NEW r \in Replica, T!SeedStops(r)
  PROVE  TenancyInv'
  <1>1. /\ seed' = [seed EXCEPT ![r] = T!Idle] /\ seed[r] # T!Idle
        /\ UNCHANGED <<inst, dep, fragment, active, claimed, system, tx, settled, excluded>>
    BY DEF T!SeedStops
  <1>2. TenancyType' /\ QuietAlone'
    BY <1>1 DEF TenancyInv, TenancyType, QuietAlone
  <1>3. ClaimedForEver' /\ RowsFollowed' /\ BootValid'
    BY <1>1 DEF TenancyInv, TenancyType, ClaimedForEver, RowsFollowed, BootValid, T!validateKnownManifests
  <1>4. BootProgress'
    BY <1>1 DEF TenancyInv, TenancyType, BootProgress, QuietAlone
  <1>5. Settled'
    BY <1>1 DEF TenancyInv, QuietAlone, Settled
  <1> QED
    BY <1>2, <1>3, <1>4, <1>5 DEF TenancyInv

\* A boot in progress is no longer quiet, and otherwise where it was.
Overtaken(q) ==
    \/ seed[q] = T!Idle /\ seed'[q] = T!Idle
    \/ /\ seed[q] # T!Idle /\ seed'[q] \in BootState
       /\ seed'[q].quiet = FALSE /\ seed'[q].at = seed[q].at /\ seed'[q].i = seed[q].i

LEMMA OvertakenBoot ==
  ASSUME TenancyInv, NEW q \in Replica,
         seed'[q] = IF seed[q] = T!Idle THEN T!Idle ELSE [seed[q] EXCEPT !.quiet = FALSE]
  PROVE  Overtaken(q)
  <1>1. CASE seed[q] = T!Idle
    BY <1>1 DEF Overtaken
  <1>2. CASE seed[q] # T!Idle
    <2>1. PICK o \in BootState : o = seed[q]
      BY <1>2, BootInHand
    <2>2. PICK n : n = [o EXCEPT !.quiet = FALSE]
      OBVIOUS
    <2>3. n \in BootState /\ n.quiet = FALSE /\ n.at = o.at /\ n.i = o.i
      BY <2>2 DEF BootState
    <2>4. seed'[q] = n
      BY <1>2, <2>1, <2>2
    <2> QED
      BY <1>2, <2>1, <2>3, <2>4 DEF Overtaken
  <1> QED
    BY <1>1, <1>2

LEMMA TenancySeedStart ==
  ASSUME TenancyInv, NEW r \in Replica, NEW csv \in Listed, T!SeedStart(r, csv)
  PROVE  TenancyInv'
  <1>1. /\ csv \subseteq T!BuiltIn /\ T!validateKnownManifests /\ settled' = FALSE
        /\ UNCHANGED <<inst, dep, fragment, active, claimed, system, tx, excluded>>
    BY DEF T!SeedStart
  <1>2. PICK quiet \in BOOLEAN :
          quiet = (T!Booting = {} /\ \A c \in Client : tx[c] = T!Idle)
    OBVIOUS
  <1>3. PICK b : b = [at |-> "install", i |-> 1, listed |-> csv \cup Mandatory, en |-> {}, cos |-> {},
                      quiet |-> quiet]
    OBVIOUS
  <1>4. b \in BootState /\ b.at = "install" /\ b.quiet = quiet
    <2>1. csv \cup Mandatory \in SUBSET T!BuiltIn /\ 1 \in 1..Len(Known)
      BY <1>1, KnownModules, TenancyConstants DEF T!TenancyAssumption
    <2> QED
      BY <1>3, <2>1 DEF BootState
  <1>5. seed' = [q \in Replica |->
          IF q = r THEN b ELSE IF seed[q] = T!Idle THEN T!Idle ELSE [seed[q] EXCEPT !.quiet = FALSE]]
    BY <1>2, <1>3 DEF T!SeedStart, T!ParseInstalledModules
  <1>6. seed'[r] = b /\ \A q \in Replica \ {r} : Overtaken(q)
    <2>1. \A q \in Replica \ {r} :
            seed'[q] = IF seed[q] = T!Idle THEN T!Idle ELSE [seed[q] EXCEPT !.quiet = FALSE]
      BY <1>5
    <2> QED
      BY <1>5, <2>1, OvertakenBoot
  <1>7. TenancyType'
    <2>1. seed' \in [Replica -> BootState \cup {T!Idle}]
      BY <1>4, <1>5, <1>6 DEF Overtaken
    <2> QED
      BY <1>1, <2>1 DEF TenancyInv, TenancyType
  <1>8. ClaimedForEver' /\ RowsFollowed' /\ Settled'
    BY <1>1 DEF TenancyInv, ClaimedForEver, RowsFollowed, Settled
  <1>9. QuietAlone'
    BY <1>1, <1>2, <1>4, <1>6 DEF QuietAlone, Overtaken, T!Booting
  <1>10. BootValid'
    BY <1>1, <1>4, <1>6 DEF TenancyInv, BootValid, Overtaken, T!validateKnownManifests
  <1>11. BootProgress'
    BY <1>4, <1>6 DEF BootProgress, QuietProgress, Overtaken
  <1> QED
    BY <1>7, <1>8, <1>9, <1>10, <1>11 DEF TenancyInv

\* What is left to show of the start or the commit of a transaction.
LEMMA RequestKeeps ==
  ASSUME TenancyInv, NEW op, T!Meets(op),
         inst' \in [T!Module -> {None, "uninstalled", "disabled", "enabled"}],
         fragment' \in [T!Module -> BOOLEAN \cup {None}],
         active' \subseteq Company, tx' \in [Client -> TenancyTx],
         ClaimedForEver', RowsFollowed',
         settled /\ (\A d \in Client : tx[d].op \notin T!Opposite(op)) => (settled' => Settled')
  PROVE  TenancyInv'
  <1>1. \A q \in Replica : Overtaken(q)
    <2>1. \A q \in Replica :
            seed'[q] = IF seed[q] = T!Idle THEN T!Idle ELSE [seed[q] EXCEPT !.quiet = FALSE]
      BY DEF T!Meets
    <2> QED
      BY <2>1, OvertakenBoot
  <1>2. settled' \in BOOLEAN /\ (settled' => settled /\ \A d \in Client : tx[d].op \notin T!Opposite(op))
    BY DEF T!Meets
  <1>3. seed' \in [Replica -> BootState \cup {T!Idle}]
    BY <1>1 DEF T!Meets, Overtaken
  <1>4. TenancyType'
    BY <1>2, <1>3 DEF TenancyType
  <1>5. QuietAlone'
    BY <1>1, <1>2 DEF TenancyInv, QuietAlone, Overtaken
  <1>6. BootValid'
    BY <1>1, <1>2 DEF TenancyInv, BootValid, Overtaken, T!validateKnownManifests
  <1>7. BootProgress'
    BY <1>1 DEF BootProgress, Overtaken
  <1>8. Settled'
    BY <1>2 DEF Settled
  <1> QED
    BY <1>4, <1>5, <1>6, <1>7, <1>8 DEF TenancyInv

\* A transaction that starts only notes what it read.
LEMMA TenancyBegin ==
  ASSUME TenancyInv, NEW c \in Client, NEW t \in TenancyTx, T!Begin(c, t),
         t.op = "enable" => inst[t.m] \in {"disabled", "enabled"} /\ t.cos = active,
         t.op = "company" => t.mods = T!Enabled,
         t.op = "register" => T!Owns(t.m)
  PROVE  TenancyInv'
  <1>1. /\ tx' = [tx EXCEPT ![c] = t] /\ T!Meets(t.op)
        /\ UNCHANGED <<inst, dep, fragment, active, claimed, system, excluded>>
    BY DEF T!Begin
  <1>2. /\ tx' \in [Client -> TenancyTx] /\ tx'[c] = t
        /\ \A d \in Client \ {c} : tx'[d] = tx[d]
    BY <1>1 DEF TenancyInv, TenancyType
  <1>3. ClaimedForEver' /\ RowsFollowed'
    BY <1>1, <1>2 DEF TenancyInv, ClaimedForEver, RowsFollowed
  <1>4. ASSUME settled, \A d \in Client : tx[d].op \notin T!Opposite(t.op) PROVE Settled'
    <2>1. /\ \A j \in 1..Len(Known) : DepsDone(j) /\ FragmentDone(j) /\ GrantDone(j)
          /\ \A d, e \in Client : ~(tx[d].op = "enable" /\ tx[e].op = "company")
          /\ \A d \in Client :
               /\ tx[d].op = "enable" => active \subseteq tx[d].cos
               /\ tx[d].op = "company" => T!Enabled \subseteq tx[d].mods
               /\ tx[d].op = "register" => \A m \in T!BuiltIn \ {tx[d].m} : TypeOf[m] \cap TypeOf[tx[d].m] = {}
      BY <1>4 DEF TenancyInv, Settled
    <2>2. \A j \in 1..Len(Known) : DepsDone(j)' /\ FragmentDone(j)' /\ GrantDone(j)'
      BY <1>1, <2>1 DEF DepsDone, FragmentDone, GrantDone
    <2>3. t.op = "register" => \A m \in T!BuiltIn \ {t.m} : TypeOf[m] \cap TypeOf[t.m] = {}
      BY <2>1, KnownModules DEF T!Owns, FragmentDone
    <2>4. \A d, e \in Client : ~(tx'[d].op = "enable" /\ tx'[e].op = "company")
      BY <1>2, <1>4, <2>1 DEF T!Opposite
    <2>5. T!Enabled' = T!Enabled
      BY <1>1 DEF T!Enabled
    <2> QED
      BY <1>1, <1>2, <2>1, <2>2, <2>3, <2>4, <2>5 DEF Settled
  <1> QED
    BY <1>1, <1>2, <1>3, <1>4, RequestKeeps DEF TenancyInv, TenancyType

LEMMA TenancyLists ==
  ASSUME TenancyInv, NEW c \in Client
  PROVE  /\ \A m \in T!Module : T!EnableList(c, m) => TenancyInv'
         /\ \A a \in App : T!RegisterCheck(c, a) => TenancyInv'
         /\ \A co \in Company : T!CompanyList(c, co) => TenancyInv'
         /\ T!BackfillList(c) => TenancyInv'
  <1>1. active \subseteq Company /\ T!Enabled \subseteq T!Module
    BY DEF TenancyInv, TenancyType, T!Enabled
  <1>2. ASSUME NEW m \in T!Module, T!EnableList(c, m) PROVE TenancyInv'
    <2>1. PICK t : t = [op |-> "enable", m |-> m, cos |-> active]
      OBVIOUS
    <2>2. t \in TenancyTx /\ t.op = "enable" /\ t.m = m /\ t.cos = active
      BY <1>1, <2>1 DEF TenancyTx
    <2>3. T!Begin(c, t) /\ inst[m] \in {"disabled", "enabled"}
      BY <1>2, <2>1 DEF T!EnableList, T!activeCompanyIDs
    <2> QED
      BY <2>2, <2>3, TenancyBegin
  <1>3. ASSUME NEW a \in App, T!RegisterCheck(c, a) PROVE TenancyInv'
    <2>1. PICK t : t = [op |-> "register", m |-> a]
      OBVIOUS
    <2>2. t \in TenancyTx /\ t.op = "register" /\ t.m = a
      BY <2>1 DEF TenancyTx
    <2>3. T!Begin(c, t) /\ T!Owns(a)
      BY <1>3, <2>1 DEF T!RegisterCheck
    <2> QED
      BY <2>2, <2>3, TenancyBegin
  <1>4. ASSUME NEW co \in Company, T!CompanyList(c, co) PROVE TenancyInv'
    <2>1. PICK t : t = [op |-> "company", co |-> co, mods |-> T!Enabled]
      OBVIOUS
    <2>2. t \in TenancyTx /\ t.op = "company" /\ t.mods = T!Enabled
      BY <1>1, <2>1 DEF TenancyTx
    <2>3. T!Begin(c, t)
      BY <1>4, <2>1 DEF T!CompanyList
    <2> QED
      BY <2>2, <2>3, TenancyBegin
  <1>5. ASSUME T!BackfillList(c) PROVE TenancyInv'
    <2>1. PICK t : t = [op |-> "backfill", pairs |-> active \X T!Enabled]
      OBVIOUS
    <2>2. t \in TenancyTx /\ t.op = "backfill"
      BY <1>1, <2>1 DEF TenancyTx
    <2>3. T!Begin(c, t)
      BY <1>5, <2>1 DEF T!BackfillList
    <2> QED
      BY <2>2, <2>3, TenancyBegin
  <1> QED
    BY <1>2, <1>3, <1>4, <1>5

\* A transaction that ends is gone, and the others are as they were.
LEMMA TenancyEnd ==
  ASSUME TenancyInv, NEW c \in Client, T!End(c)
  PROVE  /\ tx' \in [Client -> TenancyTx] /\ tx'[c].op = "idle"
         /\ \A d \in Client \ {c} : tx'[d] = tx[d]
  BY DEF T!End, TenancyInv, TenancyType, TenancyTx, T!Idle

\* The flags of stored fragments follow the rows: nothing else is in question.
LEMMA FragmentKept ==
  ASSUME NEW j \in 1..Len(Known), FragmentDone(j),
         \A n \in T!Module : fragment'[n] # None => fragment[n] # None,
         fragment[Known[j]] # None =>
           fragment'[Known[j]] # None /\ (fragment'[Known[j]] <=> inst'[Known[j]] = "enabled")
  PROVE  FragmentDone(j)'
  BY DEF FragmentDone

LEMMA NoneIsNoFlag == None # TRUE /\ None # FALSE
  BY TenancyConstants DEF T!TenancyAssumption

LEMMA TenancyEnableCommit ==
  ASSUME TenancyInv, NEW c \in Client, T!EnableCommit(c)
  PROVE  TenancyInv'
  <1>1. PICK m : m = tx[c].m
    OBVIOUS
  <1>2. PICK cos : cos = tx[c].cos
    OBVIOUS
  <1>3. tx[c].op = "enable" /\ m \in T!Module /\ inst[m] \in {"disabled", "enabled"}
    BY <1>1 DEF T!EnableCommit, TenancyInv, TenancyType, TenancyTx, RowsFollowed, T!Idle
  <1>4. /\ inst' = [inst EXCEPT ![m] = "enabled"]
        /\ fragment' = [fragment EXCEPT ![m] = IF fragment[m] = None THEN None ELSE TRUE]
        /\ T!EnsureDefaultGrant(cos \X {m}) /\ T!Meets("enable") /\ T!End(c)
        /\ UNCHANGED <<dep, active, excluded>>
    BY <1>1, <1>2, <1>3 DEF T!EnableCommit, T!setModuleEnabled, T!SetAuthzFragmentActive, TenancyInv, TenancyType
  <1>5. /\ inst' \in [T!Module -> {None, "uninstalled", "disabled", "enabled"}]
        /\ fragment' \in [T!Module -> BOOLEAN \cup {None}]
        /\ inst'[m] = "enabled" /\ (fragment[m] = None => fragment'[m] = None)
        /\ (fragment[m] # None => fragment'[m] = TRUE)
        /\ \A n \in T!Module \ {m} : inst'[n] = inst[n] /\ fragment'[n] = fragment[n]
    BY <1>3, <1>4 DEF TenancyInv, TenancyType
  <1>6. ClaimedForEver' /\ claimed' = claimed \cup (cos \X {m})
    BY <1>4, DefaultOnce DEF TenancyInv
  <1>7. /\ tx' \in [Client -> TenancyTx] /\ tx'[c].op = "idle"
        /\ \A d \in Client \ {c} : tx'[d] = tx[d]
    BY <1>4, TenancyEnd
  <1>8. RowsFollowed'
    <2>1. \A d \in Client : tx'[d].op = "enable" => inst'[tx'[d].m] \in {"disabled", "enabled"}
      <3> SUFFICES ASSUME NEW d \in Client, tx'[d].op = "enable"
                   PROVE  inst'[tx'[d].m] \in {"disabled", "enabled"}
        OBVIOUS
      <3>1. tx'[d] = tx[d] /\ tx[d].m \in T!Module /\ inst[tx[d].m] \in {"disabled", "enabled"}
        BY <1>7 DEF TenancyInv, TenancyType, TenancyTx, RowsFollowed, T!Idle
      <3> QED
        BY <1>5, <3>1
    <2>2. \A n \in T!Module : (n \in T!BuiltIn => TypeOf[n] = {}) /\ fragment'[n] # None =>
            inst'[n] \in {"disabled", "enabled"} /\ (fragment'[n] <=> inst'[n] = "enabled")
      BY <1>3, <1>5 DEF TenancyInv, RowsFollowed
    <2> QED
      BY <2>1, <2>2 DEF RowsFollowed
  <1>9. ASSUME settled, \A d \in Client : tx[d].op \notin T!Opposite("enable") PROVE Settled'
    <2>1. /\ \A j \in 1..Len(Known) : DepsDone(j) /\ FragmentDone(j) /\ GrantDone(j)
          /\ \A d \in Client :
               /\ tx[d].op = "enable" => active \subseteq tx[d].cos
               /\ tx[d].op = "register" => \A n \in T!BuiltIn \ {tx[d].m} : TypeOf[n] \cap TypeOf[tx[d].m] = {}
               /\ tx[d].op # "company"
      BY <1>9 DEF TenancyInv, Settled, T!Opposite
    <2>2. ASSUME NEW j \in 1..Len(Known) PROVE DepsDone(j)' /\ FragmentDone(j)' /\ GrantDone(j)'
      <3>1. DepsDone(j)'
        BY <1>4, <2>1 DEF DepsDone
      <3>2. FragmentDone(j)'
        <4>1. FragmentDone(j) /\ Known[j] \in T!Module
          BY <2>1, KnownModules
        <4>2. \A n \in T!Module : fragment'[n] # None => fragment[n] # None
          BY <1>5, NoneIsNoFlag
        <4>3. CASE Known[j] = m
          BY <1>5, <4>1, <4>2, <4>3, NoneIsNoFlag, FragmentKept
        <4>4. CASE Known[j] # m
          BY <1>5, <4>1, <4>2, <4>4, KnownModules, FragmentKept DEF FragmentDone
        <4> QED
          BY <4>3, <4>4
      <3>3. GrantDone(j)'
        BY <1>2, <1>3, <1>4, <1>5, <1>6, <2>1, KnownModules DEF GrantDone
      <3> QED
        BY <3>1, <3>2, <3>3
    <2> QED
      BY <1>4, <1>7, <2>1, <2>2 DEF Settled
  <1> QED
    BY <1>4, <1>5, <1>6, <1>7, <1>8, <1>9, RequestKeeps DEF TenancyInv, TenancyType

LEMMA TenancyDisable ==
  ASSUME TenancyInv, NEW c \in Client, NEW m \in T!Module, T!Disable(c, m)
  PROVE  TenancyInv'
  <1>1. /\ inst[m] # None /\ ~T!Locked(m) /\ T!Meets("other")
        /\ inst' = [inst EXCEPT ![m] = IF inst[m] = "uninstalled" THEN "uninstalled" ELSE "disabled"]
        /\ fragment' = [fragment EXCEPT ![m] = IF fragment[m] = None THEN None ELSE FALSE]
        /\ UNCHANGED <<dep, active, claimed, system, tx, excluded>>
    BY DEF T!Disable, T!setModuleEnabled, T!SetAuthzFragmentActive, TenancyInv, TenancyType
  <1>2. /\ inst' \in [T!Module -> {None, "uninstalled", "disabled", "enabled"}]
        /\ fragment' \in [T!Module -> BOOLEAN \cup {None}]
        /\ inst'[m] # "enabled" /\ (inst[m] = "uninstalled" \/ inst'[m] = "disabled")
        /\ (fragment[m] = None => fragment'[m] = None) /\ (fragment[m] # None => fragment'[m] = FALSE)
        /\ \A n \in T!Module \ {m} : inst'[n] = inst[n] /\ fragment'[n] = fragment[n]
    BY <1>1 DEF TenancyInv, TenancyType
  <1>3. ClaimedForEver'
    BY <1>1 DEF TenancyInv, ClaimedForEver
  <1>4. RowsFollowed'
    <2>1. \A d \in Client : tx'[d].op = "enable" => inst'[tx'[d].m] \in {"disabled", "enabled"}
      <3> SUFFICES ASSUME NEW d \in Client, tx[d].op = "enable"
                   PROVE  inst'[tx[d].m] \in {"disabled", "enabled"}
        BY <1>1
      <3>1. tx[d].m \in T!Module /\ inst[tx[d].m] \in {"disabled", "enabled"}
        BY DEF TenancyInv, TenancyType, TenancyTx, RowsFollowed, T!Idle
      <3>2. tx[d].m # m
        BY <1>1 DEF T!Locked
      <3> QED
        BY <1>2, <3>1, <3>2
    <2>2. \A n \in T!Module : (n \in T!BuiltIn => TypeOf[n] = {}) /\ fragment'[n] # None =>
            inst'[n] \in {"disabled", "enabled"} /\ (fragment'[n] <=> inst'[n] = "enabled")
      BY <1>2 DEF TenancyInv, RowsFollowed
    <2> QED
      BY <2>1, <2>2 DEF RowsFollowed
  <1>5. ASSUME settled PROVE Settled'
    <2>1. /\ \A j \in 1..Len(Known) : DepsDone(j) /\ FragmentDone(j) /\ GrantDone(j)
          /\ \A d, e \in Client : ~(tx[d].op = "enable" /\ tx[e].op = "company")
          /\ \A d \in Client :
               /\ tx[d].op = "enable" => active \subseteq tx[d].cos
               /\ tx[d].op = "company" => T!Enabled \subseteq tx[d].mods
               /\ tx[d].op = "register" => \A n \in T!BuiltIn \ {tx[d].m} : TypeOf[n] \cap TypeOf[tx[d].m] = {}
      BY <1>5 DEF TenancyInv, Settled
    <2>2. ASSUME NEW j \in 1..Len(Known) PROVE DepsDone(j)' /\ FragmentDone(j)' /\ GrantDone(j)'
      <3>1. DepsDone(j)'
        BY <1>1, <2>1 DEF DepsDone
      <3>2. FragmentDone(j)'
        <4>1. FragmentDone(j) /\ Known[j] \in T!Module
          BY <2>1, KnownModules
        <4>2. \A n \in T!Module : fragment'[n] # None => fragment[n] # None
          BY <1>2, NoneIsNoFlag
        <4>3. CASE Known[j] = m
          BY <1>2, <4>1, <4>2, <4>3, NoneIsNoFlag, FragmentKept
        <4>4. CASE Known[j] # m
          BY <1>2, <4>1, <4>2, <4>4, KnownModules, FragmentKept DEF FragmentDone
        <4> QED
          BY <4>3, <4>4
      <3>3. GrantDone(j)'
        BY <1>1, <1>2, <2>1, KnownModules DEF GrantDone
      <3> QED
        BY <3>1, <3>2, <3>3
    <2>3. T!Enabled' \subseteq T!Enabled
      BY <1>2 DEF T!Enabled
    <2> QED
      BY <1>1, <2>1, <2>2, <2>3 DEF Settled
  <1> QED
    BY <1>1, <1>2, <1>3, <1>4, <1>5, RequestKeeps DEF TenancyInv, TenancyType

LEMMA TenancyRegisterCommit ==
  ASSUME TenancyInv, NEW c \in Client, T!RegisterCommit(c)
  PROVE  TenancyInv'
  <1>1. PICK a : a = tx[c].m
    OBVIOUS
  <1>2. tx[c].op = "register" /\ a \in T!Module
    BY <1>1 DEF T!RegisterCommit, TenancyInv, TenancyType, TenancyTx, T!Idle, T!Module
  <1>3. /\ inst' = [inst EXCEPT ![a] = IF inst[a] = "enabled" THEN "enabled" ELSE "disabled"]
        /\ fragment' = [fragment EXCEPT ![a] = (inst[a] = "enabled")]
        /\ T!Meets("register") /\ T!End(c)
        /\ UNCHANGED <<dep, active, claimed, system, excluded>>
    BY <1>1, <1>2 DEF T!RegisterCommit, TenancyInv, TenancyType
  <1>4. /\ inst' \in [T!Module -> {None, "uninstalled", "disabled", "enabled"}]
        /\ inst'[a] \in {"disabled", "enabled"} /\ (inst'[a] = "enabled" <=> inst[a] = "enabled")
        /\ \A n \in T!Module \ {a} : inst'[n] = inst[n] /\ fragment'[n] = fragment[n]
    BY <1>2, <1>3 DEF TenancyInv, TenancyType
  <1>5. /\ fragment' \in [T!Module -> BOOLEAN \cup {None}]
        /\ fragment'[a] \in BOOLEAN /\ (fragment'[a] <=> inst[a] = "enabled")
    <2>1. fragment \in [T!Module -> BOOLEAN \cup {None}]
      BY DEF TenancyInv, TenancyType
    <2>2. CASE inst[a] = "enabled"
      <3>1. fragment' = [fragment EXCEPT ![a] = TRUE]
        BY <1>3, <2>2
      <3> QED
        BY <1>2, <2>1, <2>2, <3>1
    <2>3. CASE inst[a] # "enabled"
      <3>1. (inst[a] = "enabled") = FALSE
        BY <2>3, SMT
      <3>2. fragment' = [fragment EXCEPT ![a] = FALSE]
        BY <1>3, <3>1, Zenon
      <3> QED
        BY <1>2, <2>1, <2>3, <3>2
    <2> QED
      BY <2>2, <2>3
  <1>6. /\ tx' \in [Client -> TenancyTx] /\ tx'[c].op = "idle"
        /\ \A d \in Client \ {c} : tx'[d] = tx[d]
    BY <1>3, TenancyEnd
  <1>7. ClaimedForEver'
    BY <1>3 DEF TenancyInv, ClaimedForEver
  <1>8. RowsFollowed'
    <2>1. \A d \in Client : tx'[d].op = "enable" => inst'[tx'[d].m] \in {"disabled", "enabled"}
      <3> SUFFICES ASSUME NEW d \in Client, tx'[d].op = "enable"
                   PROVE  inst'[tx'[d].m] \in {"disabled", "enabled"}
        OBVIOUS
      <3>1. tx'[d] = tx[d] /\ tx[d].m \in T!Module /\ inst[tx[d].m] \in {"disabled", "enabled"}
        BY <1>6 DEF TenancyInv, TenancyType, TenancyTx, RowsFollowed, T!Idle
      <3> QED
        BY <1>4, <3>1
    <2>2. \A n \in T!Module : (n \in T!BuiltIn => TypeOf[n] = {}) /\ fragment'[n] # None =>
            inst'[n] \in {"disabled", "enabled"} /\ (fragment'[n] <=> inst'[n] = "enabled")
      BY <1>2, <1>4, <1>5 DEF TenancyInv, RowsFollowed
    <2> QED
      BY <2>1, <2>2 DEF RowsFollowed
  <1>9. ASSUME settled PROVE Settled'
    <2>1. /\ \A j \in 1..Len(Known) : DepsDone(j) /\ FragmentDone(j) /\ GrantDone(j)
          /\ \A d, e \in Client : ~(tx[d].op = "enable" /\ tx[e].op = "company")
          /\ \A d \in Client :
               /\ tx[d].op = "enable" => active \subseteq tx[d].cos
               /\ tx[d].op = "company" => T!Enabled \subseteq tx[d].mods
               /\ tx[d].op = "register" => \A n \in T!BuiltIn \ {tx[d].m} : TypeOf[n] \cap TypeOf[tx[d].m] = {}
      BY <1>9 DEF TenancyInv, Settled
    <2>2. ASSUME NEW j \in 1..Len(Known) PROVE DepsDone(j)' /\ FragmentDone(j)' /\ GrantDone(j)'
      <3>1. DepsDone(j)'
        BY <1>3, <2>1 DEF DepsDone
      <3>2. FragmentDone(j)'
        <4>1. FragmentDone(j) /\ Known[j] \in T!Module /\ Known[j] \in T!BuiltIn
          BY <2>1, KnownModules
        <4>2. Known[j] # a => TypeOf[Known[j]] \cap TypeOf[a] = {}
          BY <1>1, <1>2, <2>1, <4>1
        <4>3. CASE Known[j] = a
          BY <1>4, <1>5, <4>1, <4>3, NoneIsNoFlag DEF FragmentDone
        <4>4. CASE Known[j] # a
          BY <1>4, <1>5, <4>1, <4>2, <4>4 DEF FragmentDone
        <4> QED
          BY <4>3, <4>4
      <3>3. GrantDone(j)'
        BY <1>3, <1>4, <2>1, KnownModules DEF GrantDone
      <3> QED
        BY <3>1, <3>2, <3>3
    <2>3. T!Enabled' \subseteq T!Enabled
      BY <1>4 DEF T!Enabled
    <2> QED
      BY <1>3, <1>6, <2>1, <2>2, <2>3 DEF Settled
  <1> QED
    BY <1>3, <1>4, <1>5, <1>6, <1>7, <1>8, <1>9, RequestKeeps DEF TenancyInv, TenancyType

\* Steps that write no row of a module leave what follows the rows.
LEMMA RowsKept ==
  ASSUME TenancyInv, NEW c \in Client, inst' = inst, fragment' = fragment,
         \A d \in Client \ {c} : tx'[d] = tx[d], tx'[c].op # "enable"
  PROVE  RowsFollowed'
  BY DEF TenancyInv, RowsFollowed

LEMMA TenancyCompanyCommit ==
  ASSUME TenancyInv, NEW c \in Client, T!CompanyCommit(c)
  PROVE  TenancyInv'
  <1>1. PICK co : co = tx[c].co
    OBVIOUS
  <1>2. PICK mods : mods = tx[c].mods
    OBVIOUS
  <1>3. /\ tx[c].op = "company" /\ co \in Company /\ active' = active \cup {co}
        /\ T!EnsureDefaultGrant({co} \X mods) /\ T!Meets("company") /\ T!End(c)
        /\ UNCHANGED <<inst, dep, fragment, excluded>>
    BY <1>1, <1>2 DEF T!CompanyCommit, TenancyInv, TenancyType, TenancyTx, T!Idle
  <1>4. ClaimedForEver' /\ claimed' = claimed \cup ({co} \X mods)
    BY <1>3, DefaultOnce DEF TenancyInv
  <1>5. /\ tx' \in [Client -> TenancyTx] /\ tx'[c].op = "idle"
        /\ \A d \in Client \ {c} : tx'[d] = tx[d]
    BY <1>3, TenancyEnd
  <1>6. RowsFollowed'
    BY <1>3, <1>5, RowsKept
  <1>7. ASSUME settled, \A d \in Client : tx[d].op \notin T!Opposite("company") PROVE Settled'
    <2>1. /\ \A j \in 1..Len(Known) : DepsDone(j) /\ FragmentDone(j) /\ GrantDone(j)
          /\ \A d \in Client :
               /\ tx[d].op # "enable"
               /\ tx[d].op = "company" => T!Enabled \subseteq tx[d].mods
               /\ tx[d].op = "register" => \A n \in T!BuiltIn \ {tx[d].m} : TypeOf[n] \cap TypeOf[tx[d].m] = {}
      BY <1>7 DEF TenancyInv, Settled, T!Opposite
    <2>2. ASSUME NEW j \in 1..Len(Known) PROVE DepsDone(j)' /\ FragmentDone(j)' /\ GrantDone(j)'
      <3>1. DepsDone(j)' /\ FragmentDone(j)'
        BY <1>3, <2>1 DEF DepsDone, FragmentDone
      <3>2. GrantDone(j)'
        BY <1>2, <1>3, <1>4, <2>1, KnownModules DEF GrantDone, T!Enabled
      <3> QED
        BY <3>1, <3>2
    <2>3. T!Enabled' = T!Enabled
      BY <1>3 DEF T!Enabled
    <2> QED
      BY <1>5, <2>1, <2>2, <2>3 DEF Settled
  <1>8. active' \subseteq Company
    BY <1>3 DEF TenancyInv, TenancyType
  <1> QED
    BY <1>3, <1>4, <1>5, <1>6, <1>7, <1>8, RequestKeeps DEF TenancyInv, TenancyType

LEMMA TenancyDeactivate ==
  ASSUME TenancyInv, NEW c \in Client, NEW co \in Company, T!Deactivate(c, co)
  PROVE  TenancyInv'
  <1>1. /\ active' = active \ {co} /\ T!Meets("other")
        /\ UNCHANGED <<inst, dep, fragment, claimed, system, tx, excluded>>
    BY DEF T!Deactivate
  <1>2. ClaimedForEver' /\ RowsFollowed'
    BY <1>1 DEF TenancyInv, ClaimedForEver, RowsFollowed
  <1>3. ASSUME settled PROVE Settled'
    <2>1. \A j \in 1..Len(Known) : DepsDone(j)' /\ FragmentDone(j)' /\ GrantDone(j)'
      BY <1>1, <1>3 DEF TenancyInv, Settled, DepsDone, FragmentDone, GrantDone
    <2>2. T!Enabled' = T!Enabled
      BY <1>1 DEF T!Enabled
    <2> QED
      BY <1>1, <1>3, <2>1, <2>2 DEF TenancyInv, Settled
  <1> QED
    BY <1>1, <1>2, <1>3, RequestKeeps DEF TenancyInv, TenancyType

\* A step that starts and commits no transaction leaves boots and the history.
LEMMA BesidesKeeps ==
  ASSUME TenancyInv, UNCHANGED <<inst, dep, fragment, active, seed, settled>>,
         claimed \subseteq claimed', ClaimedForEver', tx' \in [Client -> TenancyTx],
         \A d \in Client : tx'[d] = tx[d] \/ (tx[d] # T!Idle /\ tx'[d].op \in {"idle", "backfill"})
  PROVE  TenancyInv'
  <1>1. TenancyType' /\ QuietAlone' /\ BootValid'
    BY DEF TenancyInv, TenancyType, QuietAlone, BootValid, T!validateKnownManifests
  <1>2. RowsFollowed'
    BY DEF TenancyInv, RowsFollowed
  <1>3. T!Enabled' = T!Enabled /\ \A j \in 1..Len(Known) :
          /\ DepsDone(j) => DepsDone(j)'
          /\ FragmentDone(j) => FragmentDone(j)'
          /\ GrantDone(j) => GrantDone(j)'
    BY DEF T!Enabled, DepsDone, FragmentDone, GrantDone
  <1>4. BootProgress'
    <2> SUFFICES ASSUME NEW r \in Replica, seed[r] # T!Idle, seed[r].quiet
                 PROVE  QuietProgress(seed[r])'
      BY DEF BootProgress
    <2>1. QuietProgress(seed[r]) /\ seed[r].i \in 1..Len(Known) /\ Len(Known) \in Nat
      BY BootInHand, KnownModules DEF TenancyInv, BootProgress
    <2>2. \A j \in 1..(seed[r].i - 1) : j \in 1..Len(Known)
      BY <2>1
    <2>3. \A m : T!Owns(m) => T!Owns(m)'
      BY DEF T!Owns
    <2> QED
      BY <1>3, <2>1, <2>2, <2>3 DEF QuietProgress
  <1>5. Settled'
    BY <1>3 DEF TenancyInv, Settled
  <1> QED
    BY <1>1, <1>2, <1>4, <1>5 DEF TenancyInv

LEMMA TenancyBackfillGrant ==
  ASSUME TenancyInv, NEW c \in Client, T!BackfillGrant(c)
  PROVE  TenancyInv'
  <1>1. PICK p \in tx[c].pairs :
          /\ T!EnsureDefaultGrant({p})
          /\ IF tx[c].pairs = {p} THEN T!End(c) ELSE tx' = [tx EXCEPT ![c].pairs = @ \ {p}]
    BY DEF T!BackfillGrant
  <1>2. tx[c].op = "backfill" /\ UNCHANGED <<inst, dep, fragment, active, seed, settled, excluded>>
    BY DEF T!BackfillGrant
  <1>3. ClaimedForEver' /\ claimed \subseteq claimed'
    BY <1>1, <1>2, DefaultOnce DEF TenancyInv
  <1>4. tx[c] \in [op : {"backfill"}, pairs : SUBSET (Company \X T!Module)] /\ tx[c] # T!Idle
    BY <1>2 DEF TenancyInv, TenancyType, TenancyTx, T!Idle
  <1>5. /\ tx' \in [Client -> TenancyTx] /\ tx'[c].op \in {"idle", "backfill"}
        /\ \A d \in Client \ {c} : tx'[d] = tx[d]
    <2>1. CASE tx[c].pairs = {p}
      BY <1>1, <2>1, TenancyEnd
    <2>2. CASE tx[c].pairs # {p}
      <3>1. tx' = [tx EXCEPT ![c].pairs = @ \ {p}]
        BY <1>1, <2>2
      <3> QED
        BY <1>4, <3>1 DEF TenancyInv, TenancyType, TenancyTx
    <2> QED
      BY <2>1, <2>2
  <1> QED
    BY <1>2, <1>3, <1>4, <1>5, BesidesKeeps

LEMMA TenancyTxStops ==
  ASSUME TenancyInv, NEW c \in Client, T!TxStops(c)
  PROVE  TenancyInv'
  <1>1. /\ T!End(c) /\ tx[c] # T!Idle
        /\ UNCHANGED <<inst, dep, fragment, active, claimed, system, seed, settled, excluded>>
    BY DEF T!TxStops
  <1>2. /\ tx' \in [Client -> TenancyTx] /\ tx'[c].op = "idle"
        /\ \A d \in Client \ {c} : tx'[d] = tx[d]
    BY <1>1, TenancyEnd
  <1>3. ClaimedForEver'
    BY <1>1 DEF TenancyInv, ClaimedForEver
  <1> QED
    BY <1>1, <1>2, <1>3, BesidesKeeps

LEMMA TenancyAdministrator ==
  ASSUME TenancyInv, NEW p, T!Exclude(p) \/ T!Readmit(p)
  PROVE  TenancyInv'
  <1>1. UNCHANGED <<inst, dep, fragment, active, claimed, seed, tx, settled>>
    BY DEF T!Exclude, T!Readmit
  <1>2. ClaimedForEver'
    BY DEF T!Exclude, T!Readmit, TenancyInv, ClaimedForEver
  <1> QED
    BY <1>1, <1>2, BesidesKeeps DEF TenancyInv, TenancyType

LEMMA TenancyInit == T!Init => TenancyInv
  <1> SUFFICES ASSUME T!Init PROVE TenancyInv
    OBVIOUS
  <1>1. TenancyType
    BY DEF T!Init, TenancyType, TenancyTx
  <1>2. ClaimedForEver /\ QuietAlone /\ BootValid
    BY DEF T!Init, ClaimedForEver, QuietAlone, BootValid
  <1>3. RowsFollowed /\ BootProgress /\ Settled
    BY DEF T!Init, RowsFollowed, BootProgress, Settled, T!Idle
  <1> QED
    BY <1>1, <1>2, <1>3 DEF TenancyInv

LEMMA TenancyNext == TenancyInv /\ T!Next => TenancyInv'
  <1> SUFFICES ASSUME TenancyInv, T!Next PROVE TenancyInv'
    OBVIOUS
  <1>1. CASE T!Seed
    BY <1>1, TenancySeedStart, TenancySeedInstall, TenancySeedDeleteDeps, TenancySeedInsertDeps,
       TenancySeedStatus, TenancySeedCheckFragment, TenancySeedFragment, TenancySeedList,
       TenancySeedGrant, TenancySeedNext, TenancySeedStops DEF T!Seed
  <1>2. CASE T!Requests
    BY <1>2, TenancyLists, TenancyEnableCommit, TenancyDisable, TenancyRegisterCommit,
       TenancyCompanyCommit, TenancyDeactivate, TenancyBackfillGrant, TenancyTxStops
       DEF T!Requests, T!handleSetEnabled, T!handleRegisterApp
  <1>3. CASE \E p \in Company \X T!Module : T!Exclude(p) \/ T!Readmit(p)
    BY <1>3, TenancyAdministrator
  <1> QED
    BY <1>1, <1>2, <1>3 DEF T!Next

\* More rows reach at least as far.
LEMMA ClosureGrows ==
  ASSUME NEW R, NEW S, R \subseteq S, NEW m
  PROVE  T!Closure(R, m) \subseteq T!Closure(S, m)
  BY DEF T!Closure

LEMMA TenancySafe ==
  ASSUME TenancyInv
  PROVE  T!ConsistentSinceQuietBoot /\ T!ExcludedStaysExcluded
  <1>1. T!ExcludedStaysExcluded
    BY DEF TenancyInv, ClaimedForEver, T!ExcludedStaysExcluded
  <1>2. ASSUME settled
        PROVE  /\ active \X (T!Enabled \cap T!BuiltIn) \subseteq claimed
               /\ \A m \in T!Module : fragment[m] # None => (fragment[m] <=> m \in T!Enabled)
               /\ \A m \in T!BuiltIn : \A n \in T!Module \ {m} :
                    fragment[m] # None /\ fragment[n] # None => TypeOf[m] \cap TypeOf[n] = {}
               /\ \A m \in T!Module : T!Capability(m) = "ready" => T!Closure(Dep, m) \subseteq T!Enabled
    <2>1. \A j \in 1..Len(Known) : DepsDone(j) /\ FragmentDone(j) /\ GrantDone(j)
      BY <1>2 DEF TenancyInv, Settled
    <2>2. active \X (T!Enabled \cap T!BuiltIn) \subseteq claimed
      BY <2>1, KnownModules DEF GrantDone, T!Enabled
    <2>3. \A m \in T!Module : fragment[m] # None => (fragment[m] <=> m \in T!Enabled)
      <3> SUFFICES ASSUME NEW m \in T!Module, fragment[m] # None
                   PROVE  fragment[m] <=> inst[m] = "enabled"
        BY DEF T!Enabled
      <3>1. CASE m \in T!BuiltIn /\ TypeOf[m] # {}
        BY <2>1, <3>1, KnownModules DEF FragmentDone
      <3>2. CASE m \in T!BuiltIn => TypeOf[m] = {}
        BY <3>2 DEF TenancyInv, RowsFollowed
      <3> QED
        BY <3>1, <3>2
    <2>4. \A m \in T!BuiltIn : \A n \in T!Module \ {m} :
            fragment[m] # None /\ fragment[n] # None => TypeOf[m] \cap TypeOf[n] = {}
      BY <2>1, KnownModules DEF FragmentDone
    <2>5. Dep \subseteq dep
      <3>1. \A d \in Dep : d[1] \in T!BuiltIn
        BY <1>2 DEF TenancyInv, BootValid, T!validateKnownManifests
      <3> QED
        BY <2>1, <3>1, KnownModules DEF DepsDone
    <2>6. ASSUME NEW m \in T!Module, T!Capability(m) = "ready" PROVE T!Closure(Dep, m) \subseteq T!Enabled
      <3>1. T!Closure(dep, m) \subseteq T!Enabled
        BY <2>6 DEF T!Capability
      <3>2. T!Closure(Dep, m) \subseteq T!Closure(dep, m)
        BY <2>5, ClosureGrows
      <3> QED
        BY <3>1, <3>2
    <2> QED
      BY <2>2, <2>3, <2>4, <2>6
  <1> QED
    BY <1>1, <1>2 DEF T!ConsistentSinceQuietBoot

-------------------------------------------------------------------------------
(* Identity. *)

Mode == Policy \cup {0, None}

Representation == [enabled : BOOLEAN, mode : Mode]

\* What a client has in progress at the identity service.
AccountCall ==
    [op : {"idle"}]
      \cup [op : {"set"}, u : User, p : Policy]
      \cup [op : {"state"}, u : User, since : Nat, state : BOOLEAN]
      \cup [op : {"sync"}, at : {"global", "loop", "put"}, rows : [User -> Mode], base : Mode,
            todo : SUBSET User, ok : SUBSET User, u : User \cup {None},
            rep : Representation \cup {None}, alone : BOOLEAN]

AccountsType ==
    /\ override \in [User -> Mode] /\ global \in Mode
    /\ kc \in [User -> Representation] /\ wanted \in [User -> BOOLEAN]
    /\ cache \in [User -> [state : BOOLEAN, until : Nat] \cup {None}]
    /\ now \in Nat /\ lastOn \in [User -> Nat]
    /\ call \in [Client -> AccountCall]
    /\ undone \subseteq User /\ synced \subseteq User
    /\ \A c \in Client : call[c].op = "sync" /\ call[c].at = "put" =>
         call[c].u \in User /\ call[c].rep \in Representation

\* A sync that reads the policies as they are.
ReadsCurrent(c) ==
    /\ call[c].rows = override
    /\ call[c].at # "global" => call[c].base = global

\* An exact sync is alone, reads the policies as they are, and what it has
\* reported so far is in Keycloak; while the users of such a sync are claimed,
\* every sync under way reads those same policies.
SyncsExact ==
    /\ \A c \in Client : call[c].op = "sync" /\ call[c].alone =>
         /\ \A d \in Client : call[d].op = "sync" => d = c
         /\ ReadsCurrent(c)
         /\ call[c].at = "global" => call[c].ok = {}
         /\ \A u \in call[c].ok : kc[u].mode = A!EffectivePolicy(u)
    /\ \A c \in Client, u \in synced : call[c].op = "sync" => ReadsCurrent(c)

\* When a user was last enabled, and how old an answer under way or in the
\* cache may be.
AnswersYoung ==
    /\ \A u \in User : lastOn[u] <= now /\ (kc[u].enabled => lastOn[u] = now)
    /\ \A c \in Client : call[c].op = "state" =>
         /\ call[c].since <= now /\ now - call[c].since <= Latency
         /\ call[c].state => call[c].since <= lastOn[call[c].u]
    /\ \A u \in User : cache[u] # None /\ cache[u].state =>
         cache[u].until <= lastOn[u] + TTL + Latency

AccountsInv ==
    /\ AccountsType /\ SyncsExact /\ AnswersYoung /\ A!SyncWritesOnlyTheMode

LEMMA AccountsInit == A!Init => AccountsInv
  BY AccountsConstants DEF A!AccountsAssumption, A!Init, A!Idle, AccountsInv, AccountsType, AccountCall, SyncsExact,
     AnswersYoung, A!SyncWritesOnlyTheMode, Representation, Mode

LEMMA AccountsSafe == AccountsInv => A!SyncWritesOnlyTheMode /\ A!DisableSeenInTime
  BY AccountsConstants DEF A!AccountsAssumption, AccountsInv, AccountsType, AnswersYoung, A!DisableSeenInTime

\* What a policy write or another sync does to a sync under way.
LEMMA UnsettledCall ==
  ASSUME NEW x \in AccountCall, x.op = "sync", NEW y, y = [x EXCEPT !.alone = FALSE]
  PROVE  /\ y \in AccountCall /\ y.op = "sync" /\ ~y.alone /\ y.at = x.at /\ y.rows = x.rows
         /\ y.base = x.base /\ y.u = x.u /\ y.rep = x.rep
  BY DEF AccountCall

\* A client's call after a policy write: the same, and no longer exact.
SyncKept(d) ==
    /\ call'[d] \in AccountCall /\ call'[d].op = call[d].op
    /\ call[d].op # "sync" => call'[d] = call[d]
    /\ call[d].op = "sync" => /\ ~call'[d].alone /\ call'[d].at = call[d].at
                              /\ call'[d].rows = call[d].rows /\ call'[d].base = call[d].base
                              /\ call'[d].u = call[d].u /\ call'[d].rep = call[d].rep

LEMMA Unsettled ==
  ASSUME call \in [Client -> AccountCall], NEW d \in Client,
         call'[d] = IF call[d].op = "sync" THEN [call[d] EXCEPT !.alone = FALSE] ELSE call[d]
  PROVE  SyncKept(d)
  BY UnsettledCall DEF SyncKept

LEMMA AccountsNext == AccountsInv /\ A!Next => AccountsInv'
  <1> SUFFICES ASSUME AccountsInv, A!Next PROVE AccountsInv'
    OBVIOUS
  <1> USE AccountsConstants DEF A!AccountsAssumption, AccountsInv, AccountsType, AccountCall, SyncsExact, ReadsCurrent,
     AnswersYoung, A!SyncWritesOnlyTheMode, Representation, Mode, A!Idle, A!EffectivePolicy, A!stored, A!keycloak, A!Begin, A!End
  <1>1. ASSUME NEW u \in User, A!handleResolve(u) PROVE AccountsInv'
    BY <1>1 DEF A!handleResolve, A!ResolveOrCreate, A!UpsertUserAccount
  <1>2. ASSUME NEW p \in Policy, A!SetGlobalPolicy(p) PROVE AccountsInv'
    <2>1. call' = [d \in Client |-> IF call[d].op = "sync" THEN [call[d] EXCEPT !.alone = FALSE] ELSE call[d]]
      BY <1>2 DEF A!SetGlobalPolicy, A!Unsettle
    <2>2. \A d \in Client : SyncKept(d)
      BY <2>1, Unsettled
    <2> QED
      BY <1>2, <2>1, <2>2, ZenonT(40) DEF A!SetGlobalPolicy, A!SetGlobalMfaPolicy, A!Unsettle, SyncKept
  <1>3. ASSUME NEW u \in User, A!ClearUserPolicy(u) PROVE AccountsInv'
    <2>1. call' = [d \in Client |-> IF call[d].op = "sync" THEN [call[d] EXCEPT !.alone = FALSE] ELSE call[d]]
      BY <1>3 DEF A!ClearUserPolicy, A!Unsettle
    <2>2. \A d \in Client : SyncKept(d)
      BY <2>1, Unsettled
    <2> QED
      BY <1>3, <2>1, <2>2, ZenonT(40) DEF A!ClearUserPolicy, A!DeleteUserMfaPolicy, A!Unsettle, SyncKept
  <1>4. ASSUME NEW c \in Client, NEW u \in User, NEW p \in Policy, A!SetUserCheck(c, u, p) PROVE AccountsInv'
    BY <1>4 DEF A!SetUserCheck
  <1>5. ASSUME NEW c \in Client, A!SetUserCommit(c) PROVE AccountsInv'
    <2>1. /\ call' \in [Client -> {call'[d] : d \in Client}] /\ call'[c] = A!Idle
          /\ \A d \in Client \ {c} :
               call'[d] = IF call[d].op = "sync" THEN [call[d] EXCEPT !.alone = FALSE] ELSE call[d]
      BY <1>5 DEF A!SetUserCommit
    <2>2. \A d \in Client \ {c} : SyncKept(d)
      BY <2>1, Unsettled
    <2>3. call' \in [Client -> AccountCall]
      BY <2>1, <2>2 DEF SyncKept
    <2>4. /\ override' \in [User -> Mode] /\ synced' = {}
          /\ UNCHANGED <<global, kc, wanted, lastOn, cache, now, undone>>
      BY <1>5 DEF A!SetUserCommit, A!UpsertUserMfaPolicy
    <2>5. AccountsType'
      BY <2>1, <2>2, <2>3, <2>4 DEF SyncKept
    <2>6. SyncsExact'
      BY <2>1, <2>2, <2>4 DEF SyncKept
    <2>7. AnswersYoung'
      BY <2>1, <2>2, <2>4 DEF SyncKept
    <2> QED
      BY <2>4, <2>5, <2>6, <2>7
  <1>6. ASSUME NEW c \in Client, A!SyncList(c) PROVE AccountsInv'
    <2>1. PICK a \in BOOLEAN : a = (A!Syncs = {})
      OBVIOUS
    <2>2. /\ call'[c] = [op |-> "sync", at |-> "global", rows |-> override, base |-> None,
                         todo |-> {u \in User : account[u] # None},
                         ok |-> {}, u |-> None, rep |-> None, alone |-> a]
          /\ \A d \in Client \ {c} :
               call'[d] = IF call[d].op = "sync" THEN [call[d] EXCEPT !.alone = FALSE] ELSE call[d]
      BY <1>6, <2>1 DEF A!SyncList, A!Syncs
    <2>3. \A d \in Client \ {c} : SyncKept(d)
      BY <2>2, Unsettled
    <2>4. /\ call'[c] \in AccountCall /\ call'[c].op = "sync" /\ call'[c].at = "global" /\ call'[c].rows = override
          /\ call'[c].ok = {} /\ (call'[c].alone <=> a)
      BY <2>2
    <2>5. a => \A d \in Client : call[d].op # "sync"
      BY <2>1 DEF A!Syncs
    <2>6. call' \in [Client -> AccountCall]
      BY <1>6, <2>3, <2>4, ZenonT(40) DEF A!SyncList, SyncKept
    <2>7. UNCHANGED <<override, global, kc, wanted, lastOn, cache, now, undone, synced>>
      BY <1>6 DEF A!SyncList
    <2>8. AccountsType'
      BY <2>3, <2>4, <2>6, <2>7 DEF SyncKept
    <2>9. SyncsExact'
      BY <2>3, <2>4, <2>5, <2>7 DEF SyncKept
    <2>10. AnswersYoung'
      BY <2>3, <2>4, <2>7 DEF SyncKept
    <2> QED
      BY <2>7, <2>8, <2>9, <2>10
  <1>7. ASSUME NEW c \in Client, A!SyncGlobal(c) PROVE AccountsInv'
    BY <1>7 DEF A!SyncGlobal
  <1>8. ASSUME NEW c \in Client, NEW u \in User, A!SyncGet(c, u) PROVE AccountsInv'
    <2>1. PICK r \in Representation : r = kc[u]
      OBVIOUS
    <2>2. call' = [call EXCEPT ![c].at = "put", ![c].u = u, ![c].rep = r]
      BY <1>8, <2>1 DEF A!SyncGet
    <2>3. /\ call'[c] = [call[c] EXCEPT !.at = "put", !.u = u, !.rep = r]
          /\ \A d \in Client \ {c} : call'[d] = call[d]
          /\ call[c] \in AccountCall /\ call[c].op = "sync" /\ call[c].at = "loop"
      BY <1>8, <2>2 DEF A!SyncGet
    <2>4. /\ call'[c] \in AccountCall /\ call'[c].op = "sync" /\ call'[c].at = "put" /\ call'[c].u = u
          /\ call'[c].rep = r /\ call'[c].rows = call[c].rows /\ call'[c].base = call[c].base
          /\ call'[c].ok = call[c].ok /\ (call'[c].alone <=> call[c].alone)
      BY <2>3, ZenonT(40)
    <2>5. UNCHANGED <<override, global, kc, wanted, lastOn, cache, now, undone, synced>>
      BY <1>8 DEF A!SyncGet
    <2>6. AccountsType'
      BY <2>2, <2>3, <2>4, <2>5
    <2>7. AnswersYoung'
      BY <2>3, <2>4, <2>5, ZenonT(40)
    <2>8. SyncsExact'
      <3>1. \A d \in Client : /\ (call'[d].op = "sync" <=> call[d].op = "sync")
                              /\ (call'[d].alone <=> call[d].alone)
                              /\ call'[d].rows = call[d].rows /\ call'[d].base = call[d].base
                              /\ call'[d].ok = call[d].ok
                              /\ (call'[d].at = "global" <=> call[d].at = "global")
        BY <2>3, <2>4, ZenonT(40)
      <3>2. \A d \in Client : ReadsCurrent(d) => ReadsCurrent(d)'
        BY <3>1, <2>5
      <3> HIDE DEF ReadsCurrent, AccountsType, AnswersYoung
      <3> QED
        BY <3>1, <3>2, <2>5
    <2> QED
      BY <2>5, <2>6, <2>7, <2>8
  <1>9. ASSUME NEW c \in Client, NEW u \in User, A!SyncGetFails(c, u) PROVE AccountsInv'
    <2>1. PICK t \in SUBSET User : t = call[c].todo \ {u}
      BY <1>9 DEF A!SyncGetFails
    <2>2. call' = [call EXCEPT ![c].todo = t]
      BY <1>9, <2>1 DEF A!SyncGetFails
    <2> QED
      BY <1>9, <2>2 DEF A!SyncGetFails
  <1>10. ASSUME NEW c \in Client, A!SyncPut(c) PROVE AccountsInv'
    <2> DEFINE u == call[c].u
    <2>1. PICK r \in Representation : r = call[c].rep
      BY <1>10 DEF A!SyncPut
    <2>2. PICK m \in Mode : m = A!RowOrGlobal(call[c].rows[u], call[c].base)
      BY <1>10 DEF A!SyncPut, A!RowOrGlobal
    <2>3. PICK w \in Representation : w = [r EXCEPT !.mode = m] /\ w.mode = m /\ (w.enabled <=> r.enabled)
      <3>1. [r EXCEPT !.mode = m] \in Representation
        OBVIOUS
      <3>2. [r EXCEPT !.mode = m].mode = m /\ ([r EXCEPT !.mode = m].enabled <=> r.enabled)
        OBVIOUS
      <3> QED
        BY <3>1, <3>2
    <2>4. PICK st \in BOOLEAN, an \in BOOLEAN :
             /\ an => st
             /\ kc' = IF st THEN [kc EXCEPT ![u] = w] ELSE kc
             /\ undone' = IF st /\ w.enabled /\ ~wanted[u] /\ call[c].rep.enabled
                          THEN undone \cup {u} ELSE undone
             /\ lastOn' = IF st /\ w.enabled THEN [lastOn EXCEPT ![u] = now] ELSE lastOn
             /\ call' = [call EXCEPT ![c].at = "loop", ![c].todo = @ \ {u}, ![c].rep = None, ![c].u = None,
                                     ![c].ok = IF an THEN @ \cup {u} ELSE @]
      BY <1>10, <2>1, <2>2, <2>3 DEF A!SyncPut, A!SetUserAttribute
    <2>5. PICK t \in SUBSET User : t = call[c].todo \ {u}
      BY <1>10 DEF A!SyncPut
    <2>6. PICK ok \in SUBSET User : ok = IF an THEN call[c].ok \cup {u} ELSE call[c].ok
      <3>1. call[c].ok \in SUBSET User /\ u \in User
        BY <1>10 DEF A!SyncPut
      <3> QED
        BY <3>1
    <2>7. call' = [call EXCEPT ![c].at = "loop", ![c].todo = t, ![c].rep = None, ![c].u = None, ![c].ok = ok]
      BY <1>10, <2>4, <2>5, <2>6 DEF A!SyncPut
    <2>8. call[c] \in AccountCall /\ call[c].op = "sync" /\ call[c].at = "put" /\ u \in User
      BY <1>10 DEF A!SyncPut
    <2>9. /\ call'[c] = [call[c] EXCEPT !.at = "loop", !.todo = t, !.rep = None, !.u = None, !.ok = ok]
          /\ \A d \in Client \ {c} : call'[d] = call[d]
      BY <2>7, <2>8
    <2>10. /\ call'[c] \in AccountCall /\ call'[c].op = "sync" /\ call'[c].at = "loop"
           /\ call'[c].rows = call[c].rows /\ call'[c].base = call[c].base
           /\ call'[c].ok = ok /\ (call'[c].alone <=> call[c].alone)
      BY <2>8, <2>9, ZenonT(40)
    <2>11. UNCHANGED <<override, global, wanted, cache, now, synced>>
      BY <1>10 DEF A!SyncPut
    <2>12. /\ \A v \in User : v # u => kc'[v] = kc[v] /\ lastOn'[v] = lastOn[v]
           /\ st => kc'[u] = w
           /\ ~st => kc'[u] = kc[u]
           /\ st /\ w.enabled => lastOn'[u] = now
           /\ ~(st /\ w.enabled) => lastOn'[u] = lastOn[u]
      BY <2>4, <2>8
    <2>13. AccountsType'
      <3>1. call' \in [Client -> AccountCall]
        BY <2>7, <2>9, <2>10
      <3>2. \A d \in Client : call'[d].op = "sync" /\ call'[d].at = "put" =>
              call'[d].u \in User /\ call'[d].rep \in Representation
        BY <2>9, <2>10
      <3>3. /\ kc' \in [User -> Representation] /\ lastOn' \in [User -> Nat] /\ undone' \subseteq User
        BY <2>4, <2>8
      <3> QED
        BY <3>1, <3>2, <3>3, <2>11
    <2>14. ReadsCurrent(c) => m = A!EffectivePolicy(u)
      BY <2>2, <2>8 DEF A!RowOrGlobal
    <2>15. SyncsExact'
      <3>1. ASSUME call[c].alone PROVE \A v \in ok : kc'[v].mode = A!EffectivePolicy(v)
        BY <3>1, <2>3, <2>4, <2>6, <2>8, <2>12, <2>14
      <3>2. \A d \in Client : call'[d].op = "sync" /\ call'[d].alone => d = c \/ call[d].op # "sync"
        BY <2>8, <2>9
      <3>3. \A d \in Client, v \in synced : call[d].op = "sync" => ReadsCurrent(d)'
        <4>1. ASSUME NEW d \in Client, NEW v \in synced, call[d].op = "sync" PROVE ReadsCurrent(d)'
          <5>1. ReadsCurrent(d)
            BY <4>1
          <5>2. CASE d = c
            BY <5>1, <5>2, <2>8, <2>10, <2>11
          <5>3. CASE d # c
            BY <5>1, <5>3, <2>9, <2>11
          <5> QED
            BY <5>2, <5>3
        <4> QED
          BY <4>1
      <3>4. ASSUME NEW d \in Client, call'[d].op = "sync", call'[d].alone
            PROVE  /\ \A e \in Client : call'[e].op = "sync" => e = d
                   /\ ReadsCurrent(d)'
                   /\ call'[d].at = "global" => call'[d].ok = {}
                   /\ \A v \in call'[d].ok : kc'[v].mode = A!EffectivePolicy(v)'
        <4>1. d = c
          BY <3>2, <3>4, <2>9, <2>8
        <4>2. call[c].alone
          BY <3>4, <4>1, <2>10
        <4>3. \A e \in Client : call'[e].op = "sync" => e = d
          BY <4>1, <4>2, <2>8, <2>9
        <4>4. ReadsCurrent(d)'
          BY <4>1, <4>2, <2>8, <2>10, <2>11
        <4> QED
          BY <4>1, <4>2, <4>3, <4>4, <3>1, <2>10, <2>11
      <3> QED
        BY <3>3, <3>4, <2>8, <2>9, <2>11
    <2>16. AnswersYoung'
      <3>1. \A v \in User : lastOn'[v] <= now /\ lastOn[v] <= lastOn'[v]
        BY <2>8, <2>12
      <3>2. \A v \in User : kc'[v].enabled => lastOn'[v] = now
        BY <2>8, <2>12
      <3>3. \A d \in Client : call'[d].op = "state" => call'[d] = call[d] /\ call[d].u \in User
        <4>1. ASSUME NEW d \in Client, call'[d].op = "state" PROVE call'[d] = call[d] /\ call[d].u \in User
          <5>1. d # c /\ call'[d] = call[d]
            BY <4>1, <2>9, <2>10
          <5> QED
            BY <4>1, <5>1
        <4> QED
          BY <4>1
      <3>4. \A d \in Client : call'[d].op = "state" =>
              /\ call'[d].since <= now /\ now - call'[d].since <= Latency
              /\ call'[d].state => call'[d].since <= lastOn'[call'[d].u]
        <4>1. ASSUME NEW d \in Client, call'[d].op = "state"
              PROVE  /\ call'[d].since <= now /\ now - call'[d].since <= Latency
                     /\ call'[d].state => call'[d].since <= lastOn'[call'[d].u]
          <5>1. call'[d] = call[d] /\ call[d].u \in User /\ call[d].since \in Nat
            BY <3>3, <4>1
          <5>2. lastOn[call[d].u] \in Nat /\ lastOn'[call[d].u] \in Nat
            BY <5>1, <2>13
          <5> QED
            BY <4>1, <5>1, <5>2, <3>1
        <4> QED
          BY <4>1
      <3>5. \A v \in User : cache[v] # None /\ cache[v].state => cache[v].until <= lastOn'[v] + TTL + Latency
        BY <3>1, <2>13
      <3> QED
        BY <3>1, <3>2, <3>4, <3>5, <2>11
    <2>17. A!SyncWritesOnlyTheMode'
      BY <2>1, <2>3, <2>4, <2>8, <2>11, <2>12, <2>14
    <2> QED
      BY <2>13, <2>15, <2>16, <2>17
  <1>11. ASSUME NEW c \in Client, A!SyncReport(c) PROVE AccountsInv'
    BY <1>11 DEF A!SyncReport
  <1>12. ASSUME NEW c \in Client, NEW u \in User, A!UserStateHit(u) PROVE AccountsInv'
    BY <1>12 DEF A!UserStateHit, A!vars
  <1>13. ASSUME NEW c \in Client, NEW u \in User, A!UserStateAsk(c, u) PROVE AccountsInv'
    BY <1>13 DEF A!UserStateAsk, A!UserEnabled
  <1>14. ASSUME NEW c \in Client, A!UserStateStore(c) PROVE AccountsInv'
    BY <1>14 DEF A!UserStateStore
  <1>15. ASSUME NEW c \in Client, A!Fail(c) PROVE AccountsInv'
    BY <1>15 DEF A!Fail
  <1>16. ASSUME NEW u \in User, NEW b \in BOOLEAN, A!KcSetEnabled(u, b) PROVE AccountsInv'
    BY <1>16 DEF A!KcSetEnabled
  <1>17. CASE A!Tick
    BY <1>17 DEF A!Tick
  <1> QED
    BY <1>1, <1>2, <1>3, <1>4, <1>5, <1>6, <1>7, <1>8, <1>9, <1>10, <1>11, <1>12, <1>13, <1>14, <1>15,
       <1>16, <1>17 DEF A!Next, A!handleSetGlobalPolicy, A!handleClearUserPolicy, A!handleSetUserPolicy,
       A!handleSyncPolicy, A!SyncMfaPolicy, A!handleUserState

-------------------------------------------------------------------------------
(* The token verifier. *)

\* What a request, or the ticker, is doing at the verifier.
VerifierCall ==
    [at : {"idle"}]
      \cup [at : {"store"}, got : SUBSET Kid, asked : Nat, kid : Kid \cup {None},
            ret : {"idle", "kid", "unlock"}]
      \cup [at : {"kid", "lock", "unlock", "parse"}, kid : Kid]
      \cup [at : {"accepted", "rejected"}, kid : Kid, excused : BOOLEAN]

VerifierType ==
    /\ published \subseteq Kid /\ set \subseteq Kid
    /\ since \in [Kid -> Nat \cup {None}] /\ lastPub \in [Kid -> Nat]
    /\ fetchedAt \in Nat /\ clock \in Nat
    /\ lastFailed \in Nat \cup {None} /\ lastKid \in Nat \cup {None}
    /\ proc \in [Inbound \cup {Ticker} -> VerifierCall]
    /\ \A p \in Inbound : proc[p].at = "store" => proc[p].kid \in Kid /\ proc[p].ret \in {"kid", "unlock"}

\* A published key has been so since some moment, and is so now.
KeyHistory ==
    /\ fetchedAt <= clock /\ (lastKid # None => lastKid <= clock)
    /\ \A k \in Kid : lastPub[k] <= clock
    /\ \A k \in published : since[k] \in Nat /\ since[k] <= clock /\ lastPub[k] = clock

\* An answer on its way, and the set that is cached, tell what was published
\* when it was asked for, at most one fetch ago.
AnswersDated ==
    /\ \A p \in Inbound \cup {Ticker} : proc[p].at = "store" =>
         /\ proc[p].asked <= clock /\ clock - proc[p].asked <= Timeout
         /\ \A k \in proc[p].got : proc[p].asked <= lastPub[k]
         /\ \A k \in published \ proc[p].got : proc[p].asked <= since[k]
    /\ \A k \in set : fetchedAt <= lastPub[k] + Timeout
    /\ \A k \in published \ set : fetchedAt <= since[k] + Timeout

\* Whoever is about to answer found the set fresh or the last fetch failed, and
\* a refetch that is over has left its mark.
FreshOrFailed ==
    /\ \A p \in Inbound :
         \/ proc[p].at \in {"kid", "unlock", "parse"}
         \/ proc[p].at = "lock" /\ kidLock = None
         => lastFailed # None \/ clock - fetchedAt < CacheTTL
    /\ \A p \in Inbound : proc[p].at = "unlock" => lastFailed # None \/ fetchedAt = clock
    /\ lastKid # None /\ kidLock = None => lastFailed # None \/ lastKid <= fetchedAt
    /\ \A p \in Inbound : proc[p].at = "parse" =>
         proc[p].kid \in set \/ lastFailed # None \/ clock - fetchedAt < KidMiss

VerifierInv ==
    /\ VerifierType /\ KeyHistory /\ AnswersDated /\ FreshOrFailed
    /\ V!WithdrawnKeyExpires /\ V!RotationHeals

LEMMA VerifierInit == V!Init => VerifierInv
  BY VerifierConstants DEF V!VerifierAssumption, V!Init, VerifierInv, VerifierType, VerifierCall, KeyHistory, AnswersDated,
     FreshOrFailed, V!WithdrawnKeyExpires, V!RotationHeals, V!Waiting

LEMMA VerifierNext == VerifierInv /\ V!Next => VerifierInv'
  <1> SUFFICES ASSUME VerifierInv, V!Next PROVE VerifierInv'
    OBVIOUS
  <1> USE VerifierConstants DEF V!VerifierAssumption, VerifierInv, VerifierType, VerifierCall, KeyHistory, AnswersDated,
     FreshOrFailed, V!WithdrawnKeyExpires, V!RotationHeals, V!Waiting, V!keys
  <1>1. ASSUME NEW p \in Inbound \cup {Ticker}, V!Refresh(p) PROVE VerifierInv'
    BY <1>1 DEF V!Refresh, V!Return
  <1>2. ASSUME NEW p \in Inbound \cup {Ticker}, V!RefreshFails(p) PROVE VerifierInv'
    BY <1>2 DEF V!RefreshFails, V!Return
  <1>3. CASE V!TickerFires
    BY <1>3 DEF V!TickerFires, V!Fetch
  <1>4. ASSUME NEW p \in Inbound, NEW k \in Kid, V!EnsureFresh(p, k) PROVE VerifierInv'
    BY <1>4 DEF V!EnsureFresh, V!Fetch, V!Stale, V!InCooldown
  <1>5. ASSUME NEW p \in Inbound, V!UnknownKid(p) PROVE VerifierInv'
    BY <1>5 DEF V!UnknownKid, V!Goto
  <1>6. ASSUME NEW p \in Inbound, V!RefetchForKid(p) PROVE VerifierInv'
    <2>1. PICK k \in Kid : k = proc[p].kid
      BY <1>6 DEF V!RefetchForKid
    <2>2. CASE /\ lastKid # None /\ clock - lastKid < KidMiss /\ V!Goto(p, "parse")
               /\ UNCHANGED <<lastKid, kidLock>>
      BY <1>6, <2>2 DEF V!RefetchForKid, V!Goto
    <2>3. CASE /\ lastKid' = clock /\ kidLock' = p
               /\ proc' = [proc EXCEPT ![p] = V!Fetch(@.kid, "unlock")]
      <3>1. proc' = [proc EXCEPT ![p] = V!Fetch(k, "unlock")]
        BY <2>1, <2>3
      <3> QED
        BY <1>6, <2>1, <2>3, <3>1 DEF V!RefetchForKid, V!Fetch
    <2> QED
      BY <1>6, <2>2, <2>3 DEF V!RefetchForKid
  <1>7. ASSUME NEW p \in Inbound, V!Unlock(p) PROVE VerifierInv'
    BY <1>7 DEF V!Unlock, V!Goto
  <1>8. ASSUME NEW p \in Inbound, V!Parse(p) PROVE VerifierInv'
    <2>1. PICK k \in Kid : k = proc[p].kid
      BY <1>8 DEF V!Parse
    <2>2. PICK e \in BOOLEAN : e = (lastFailed # None)
      OBVIOUS
    <2>3. PICK a \in {"accepted", "rejected"} : a = IF k \in set THEN "accepted" ELSE "rejected"
      OBVIOUS
    <2>4. proc' = [proc EXCEPT ![p] = [at |-> a, kid |-> k, excused |-> e]]
      BY <1>8, <2>1, <2>2, <2>3 DEF V!Parse
    <2>5. /\ proc'[p].at = a /\ proc'[p].kid = k /\ proc'[p].excused = e
          /\ \A q \in Inbound \cup {Ticker} : q # p => proc'[q] = proc[q]
      BY <2>4
    <2>6. proc' \in [Inbound \cup {Ticker} -> VerifierCall]
      BY <2>4, SMT
    <2>7. /\ UNCHANGED <<published, since, lastPub, set, fetchedAt, lastFailed, lastKid, kidLock, clock>>
          /\ proc[p].at = "parse"
      BY <1>8 DEF V!Parse
    <2>8. VerifierType' /\ KeyHistory' /\ AnswersDated'
      BY <2>5, <2>6, <2>7
    <2>9. FreshOrFailed'
      BY <2>3, <2>5, <2>7
    <2>10. e <=> lastFailed # None
      BY <2>2
    <2>11. V!WithdrawnKeyExpires'
      <3>1. a = "accepted" => e \/ clock - lastPub[k] < CacheTTL + Timeout
        <4>1. ASSUME lastFailed = None, a = "accepted" PROVE clock - lastPub[k] < CacheTTL + Timeout
          <5>1. k \in set
            BY <2>3, <4>1
          <5> QED
            BY <4>1, <5>1, <2>7
        <4> QED
          BY <4>1, <2>10
      <3> QED
        BY <3>1, <2>5, <2>7
    <2>12. V!RotationHeals'
      <3>1. a = "rejected" /\ k \in published => e \/ clock - since[k] < KidMiss + Timeout
        <4>1. ASSUME lastFailed = None, a = "rejected", k \in published
              PROVE  clock - since[k] < KidMiss + Timeout
          <5>1. k \notin set
            BY <2>3, <4>1
          <5>2. clock - fetchedAt < KidMiss
            BY <2>1, <2>7, <4>1, <5>1
          <5> QED
            BY <4>1, <5>1, <5>2
        <4> QED
          BY <4>1, <2>10
      <3> QED
        BY <3>1, <2>5, <2>7
    <2> QED
      BY <2>8, <2>9, <2>11, <2>12
  <1>9. ASSUME NEW p \in Inbound, V!Answer(p) PROVE VerifierInv'
    BY <1>9 DEF V!Answer
  <1>10. ASSUME NEW k \in Kid, V!Publish(k) PROVE VerifierInv'
    BY <1>10, SMTT(30) DEF V!Publish
  <1>11. ASSUME NEW k \in Kid, V!Withdraw(k) PROVE VerifierInv'
    BY <1>11 DEF V!Withdraw
  <1>12. CASE V!Tick
    BY <1>12 DEF V!Tick
  <1> QED
    BY <1>1, <1>2, <1>3, <1>4, <1>5, <1>6, <1>7, <1>8, <1>9, <1>10, <1>11, <1>12
       DEF V!Next, V!Verify

-------------------------------------------------------------------------------
(* The gateway's caches. *)

\* What a request at the gateway holds while it is served.
GatewayCall ==
    [at : {"idle"}]
      \cup [at : {"resolve", "get", "wait"}, s : Subject, target : G!Target, asked : Nat]
      \cup [at : {"fetch", "store"}, s : Subject, target : G!Target, asked : Nat,
            facts : SUBSET G!Fact]
      \cup [at : {"forwarded"}, s : Subject, target : G!Target]

GatewayType ==
    /\ clock \in Nat
    /\ fact \subseteq G!Fact
    /\ held \in [G!Fact -> Nat]
    /\ snapshot # None => snapshot \in [at : Nat, facts : SUBSET G!Fact]
    /\ seen \in [Subject -> [at : Nat, ok : BOOLEAN] \cup {None}]
    /\ request \in [Inbound -> GatewayCall]

\* The clock of a fact that holds stands at now.
HeldUpToNow ==
    \A f \in G!Fact : held[f] <= clock /\ (f \in fact => held[f] = clock)

\* Whoever the cache lets pass has a row, and so has a request past Ensure.
PassedHaveRow ==
    /\ \A s \in Subject : seen[s] # None /\ seen[s].ok => s \in row
    /\ \A r \in Inbound :
         request[r].at \in {"get", "wait", "fetch", "store", "forwarded"} => request[r].s \in row

\* A refresh has read no fact that did not hold since it began, and a snapshot
\* is at most one refresh younger than what it tells.
FetchedRecently ==
    /\ \A r \in Inbound :
         request[r].at \in {"fetch", "store"} =>
           /\ request[r].asked <= clock /\ clock - request[r].asked <= Timeout
           /\ \A f \in request[r].facts : request[r].asked <= held[f]
    /\ snapshot # None =>
         /\ snapshot.at <= clock
         /\ \A f \in snapshot.facts : snapshot.at <= held[f] + Timeout

\* Forwarded requests are answered before time passes.
ForwardedRecently ==
    \A r \in Inbound : request[r].at = "forwarded" =>
      \A f \in G!Needs(request[r].target) : clock - held[f] < MaxStale + Timeout

GatewayInv ==
    GatewayType /\ HeldUpToNow /\ PassedHaveRow /\ FetchedRecently /\ ForwardedRecently

LEMMA GatewayInit == G!Init => GatewayInv
  BY DEF G!Init, GatewayInv, GatewayType, GatewayCall, HeldUpToNow, PassedHaveRow, FetchedRecently,
         ForwardedRecently, G!Idle

\* What a request is served with is recent, if the snapshot is.
LEMMA ServeRecent ==
  ASSUME GatewayInv, NEW r \in Inbound, NEW snap,
         request[r].at \in {"get", "wait", "fetch", "store"},
         snap # None =>
           /\ snap \in [at : Nat, facts : SUBSET G!Fact]
           /\ snap.at <= clock /\ clock - snap.at < MaxStale
           /\ \A f \in snap.facts : snap.at <= held[f] + Timeout
  PROVE  /\ G!Serve(request[r], snap) \in GatewayCall
         /\ G!Serve(request[r], snap).at \in {"idle", "forwarded"}
         /\ G!Serve(request[r], snap).at = "forwarded" =>
              /\ G!Serve(request[r], snap).s = request[r].s
              /\ \A f \in G!Needs(G!Serve(request[r], snap).target) :
                   clock - held[f] < MaxStale + Timeout
  BY GatewayConstants DEF G!Serve, G!Idle, GatewayInv, GatewayType, GatewayCall, G!Needs, G!Fact,
     G!CatalogFact, G!Target, G!GatewayAssumption

\* Every step of a request, of the registry and of the clock keeps the invariant.
LEMMA GatewayNext == GatewayInv /\ G!Next => GatewayInv'
  <1> SUFFICES ASSUME GatewayInv, G!Next PROVE GatewayInv'
    OBVIOUS
  <1> USE GatewayConstants DEF G!GatewayAssumption, GatewayInv, GatewayType, GatewayCall,
          HeldUpToNow, PassedHaveRow, FetchedRecently, ForwardedRecently, G!registry, G!catalog, G!Idle
  <1>1. ASSUME NEW r \in Inbound, NEW s \in Subject, NEW t \in G!Target, G!EnsureLook(r, s, t)
        PROVE  GatewayInv'
    BY <1>1 DEF G!EnsureLook, G!Cached
  <1>2. ASSUME NEW r \in Inbound, G!Resolved(r) PROVE GatewayInv'
    BY <1>2 DEF G!Resolved, G!Remember, G!Goto
  <1>3. ASSUME NEW r \in Inbound, G!ResolveFails(r) PROVE GatewayInv'
    BY <1>3 DEF G!ResolveFails, G!Remember, G!Finish
  <1>4. ASSUME NEW r \in Inbound, G!GetFresh(r) PROVE GatewayInv'
    BY <1>4, ServeRecent DEF G!GetFresh
  <1>5. ASSUME NEW r \in Inbound, G!GetWait(r) PROVE GatewayInv'
    BY <1>5 DEF G!GetWait
  <1>6. ASSUME NEW r \in Inbound, G!FetchCatalog(r) PROVE GatewayInv'
    BY <1>6 DEF G!FetchCatalog, G!Fact
  <1>7. ASSUME NEW r \in Inbound, G!FetchCapabilities(r) PROVE GatewayInv'
    BY <1>7 DEF G!FetchCapabilities
  <1>8. ASSUME NEW r \in Inbound, G!FetchStore(r) PROVE GatewayInv'
    BY <1>8, ServeRecent DEF G!FetchStore, G!Woken, G!ResultLocked
  <1>9. ASSUME NEW r \in Inbound, G!FetchFails(r) PROVE GatewayInv'
    BY <1>9, ServeRecent DEF G!FetchFails, G!Woken, G!ResultLocked
  <1>10. ASSUME NEW r \in Inbound, G!Answered(r) PROVE GatewayInv'
    BY <1>10 DEF G!Answered, G!Finish
  <1>11. ASSUME NEW f \in G!Fact, G!RegistryChanges(f) PROVE GatewayInv'
    BY <1>11 DEF G!RegistryChanges
  <1>12. CASE G!Restart
    BY <1>12 DEF G!Restart
  <1>13. CASE G!Tick
    BY <1>13 DEF G!Tick
  <1> QED
    BY <1>1, <1>2, <1>3, <1>4, <1>5, <1>6, <1>7, <1>8, <1>9, <1>10, <1>11, <1>12, <1>13
       DEF G!Next, G!RequireAuth, G!Get

-------------------------------------------------------------------------------
(* The platform. *)

\* A behaviour is one component's, and its invariant is that component's.
PlatformInv ==
    /\ which = "org" => OrgInv
    /\ which = "tenancy" => TenancyInv
    /\ which = "accounts" => AccountsInv
    /\ which = "verifier" => VerifierInv
    /\ which = "gateway" => GatewayInv

LEMMA PlatformStarts == PlatformInit => PlatformInv
  BY OrgInit, TenancyInit, AccountsInit, VerifierInit, GatewayInit DEF PlatformInit, PlatformInv

LEMMA PlatformStutters == PlatformInv /\ UNCHANGED platform => PlatformInv'
  <1> SUFFICES ASSUME PlatformInv, UNCHANGED platform PROVE PlatformInv'
    OBVIOUS
  <1> USE DEF platform, orgTree, tenancy, accounts, verifier, gateway
  <1>1. OrgInv => OrgInv'
    BY DEF OrgInv, O!TypeOK, RowsLinked, CompaniesAreRoots, Rooted, Seated, LockKept, ChecksHold,
       CreateReady, MoveReady, SeatReady
  <1>2. TenancyInv => TenancyInv'
    <2> SUFFICES ASSUME TenancyInv PROVE TenancyInv'
      OBVIOUS
    <2>1. TenancyType' /\ ClaimedForEver' /\ QuietAlone' /\ BootValid' /\ RowsFollowed'
      BY DEF TenancyInv, TenancyType, ClaimedForEver, QuietAlone, BootValid, RowsFollowed
    <2>2. /\ T!Enabled' = T!Enabled
          /\ \A m : T!Owns(m) => T!Owns(m)'
          /\ \A k : DepsDone(k) => DepsDone(k)'
          /\ \A k : FragmentDone(k) => FragmentDone(k)'
          /\ \A k : GrantDone(k) => GrantDone(k)'
      BY DEF T!Enabled, T!Owns, DepsDone, FragmentDone, GrantDone
    <2>3. ASSUME NEW b, QuietProgress(b) PROVE QuietProgress(b)'
      BY <2>2, <2>3 DEF QuietProgress
    <2>4. BootProgress'
      <3>1. ASSUME NEW r \in Replica, seed[r] # T!Idle, seed[r].quiet PROVE QuietProgress(seed[r])'
        <4>1. PICK b : b = seed[r]
          OBVIOUS
        <4>2. QuietProgress(b)'
          BY <2>3, <3>1, <4>1 DEF TenancyInv, BootProgress
        <4> QED
          BY <4>1, <4>2
      <3> QED
        BY <3>1 DEF BootProgress
    <2>5. Settled'
      BY <2>2 DEF TenancyInv, Settled
    <2> QED
      BY <2>1, <2>4, <2>5 DEF TenancyInv
  <1>3. AccountsInv => AccountsInv'
    BY DEF AccountsInv, AccountsType, SyncsExact, ReadsCurrent, AnswersYoung, A!SyncWritesOnlyTheMode,
       A!EffectivePolicy
  <1>4. VerifierInv => VerifierInv'
    BY DEF VerifierInv, VerifierType, KeyHistory, AnswersDated, FreshOrFailed, V!WithdrawnKeyExpires,
       V!RotationHeals
  <1>5. GatewayInv => GatewayInv'
    BY DEF GatewayInv, GatewayType, HeldUpToNow, PassedHaveRow, FetchedRecently, ForwardedRecently
  <1> QED
    BY <1>1, <1>2, <1>3, <1>4, <1>5 DEF PlatformInv

LEMMA PlatformSteps == PlatformInv /\ [PlatformNext]_platform => PlatformInv'
  <1> SUFFICES ASSUME PlatformInv, [PlatformNext]_platform PROVE PlatformInv'
    OBVIOUS
  <1>1. CASE PlatformNext
    BY <1>1, OrgNext, TenancyNext, AccountsNext, VerifierNext, GatewayNext DEF PlatformNext, PlatformInv
  <1>2. CASE UNCHANGED platform
    BY <1>2, PlatformStutters
  <1> QED
    BY <1>1, <1>2

THEOREM PlatformInvariant == PlatformSpec => []PlatformInv
  BY PlatformStarts, PlatformSteps, PTL DEF PlatformSpec

\* Following parent_id from any unit ends at a root that exists, whatever moves,
\* creates and deletes overlap (UpdateOrgUnit, org_unit_lock_before_move).
THEOREM TreeStaysForest == PlatformSpec => []TreeIsForest
  <1>1. PlatformInv => TreeIsForest
    BY OrgSafe DEF PlatformInv, TreeIsForest
  <1> QED
    BY <1>1, PlatformInvariant, PTL

\* A position sits beneath its own company (CreatePosition, UpdateOrgUnit,
\* lock_org_tree).
THEOREM PositionsStayUnder == PlatformSpec => []PositionsStay
  <1>1. PlatformInv => PositionsStay
    BY OrgSafe DEF PlatformInv, PositionsStay
  <1> QED
    BY <1>1, PlatformInvariant, PTL

\* One quiet boot repairs what overlapping boots, enables, activations and
\* crashes left behind, and the transactions keep it so (Seed, SetEnabled,
\* defaultGrantNewCompanyTx).
THEOREM QuietBootSettles == PlatformSpec => []ConsistentSinceQuietBoot
  <1>1. PlatformInv => ConsistentSinceQuietBoot
    BY TenancySafe DEF PlatformInv, ConsistentSinceQuietBoot
  <1> QED
    BY <1>1, PlatformInvariant, PTL

\* A module taken away from a company does not come back by itself
\* (EnsureDefaultGrant).
THEOREM ExclusionLasts == PlatformSpec => []ExcludedStaysExcluded
  <1>1. PlatformInv => ExcludedStaysExcluded
    BY TenancySafe DEF PlatformInv, ExcludedStaysExcluded
  <1> QED
    BY <1>1, PlatformInvariant, PTL

\* A sync writes the mode it reports and nothing else, unless a disable fell
\* between its GET and its PUT (SyncMfaPolicy, SetUserAttribute).
THEOREM SyncWritesMode == PlatformSpec => []SyncWritesOnlyTheMode
  <1>1. PlatformInv => SyncWritesOnlyTheMode
    BY AccountsSafe DEF PlatformInv, SyncWritesOnlyTheMode
  <1> QED
    BY <1>1, PlatformInvariant, PTL

\* A cached "enabled" that can still be answered is no older than the TTL and
\* one call, however calls overlapped (CachedUserState).
THEOREM DisableIsSeen == PlatformSpec => []DisableSeenInTime
  <1>1. PlatformInv => DisableSeenInTime
    BY AccountsSafe DEF PlatformInv, DisableSeenInTime
  <1> QED
    BY <1>1, PlatformInvariant, PTL

\* A token is accepted only if its key was published within the life of the
\* cache and one fetch, unless the last fetch failed (ensureFresh).
THEOREM WithdrawnKeysExpire == PlatformSpec => []WithdrawnKeyExpires
  <1>1. PlatformInv => WithdrawnKeyExpires
    BY DEF PlatformInv, VerifierInv, WithdrawnKeyExpires
  <1> QED
    BY <1>1, PlatformInvariant, PTL

\* A token whose key has been published for longer than the refetch interval
\* and one fetch is not rejected, unless the last fetch failed (refetchForKid).
THEOREM RotationsHeal == PlatformSpec => []RotationHeals
  <1>1. PlatformInv => RotationHeals
    BY DEF PlatformInv, VerifierInv, RotationHeals
  <1> QED
    BY <1>1, PlatformInvariant, PTL

\* A request is forwarded only for a caller with an account row, and only if
\* each fact it needs held in the registry within the time a snapshot may be
\* served and one refresh (Ensure, Get).
THEOREM ForwardedRecentlyOnly == PlatformSpec => []ForwardedOnRecentFacts
  <1>1. PlatformInv => ForwardedOnRecentFacts
    BY DEF PlatformInv, GatewayInv, PassedHaveRow, ForwardedRecently, ForwardedOnRecentFacts,
       G!ForwardedOnRecentFacts
  <1> QED
    BY <1>1, PlatformInvariant, PTL

===============================================================================
