------------------------------ MODULE OrgMembers ------------------------------
(***************************************************************************)
(* The member directory of the org service (internal/org/store.go and      *)
(* group.go) and the relationship tuples it keeps beside its rows.  A       *)
(* member row carries an active flag and, when linked, a user.  Three       *)
(* kinds of tuple mirror the rows, each written in the transaction that     *)
(* changes the row:                                                         *)
(*                                                                          *)
(*   company:C#member     @ member:M#mapped_user   while M is active        *)
(*   member:M#mapped_user @ user:U                 while U is linked to M   *)
(*   group:G#member       @ member:M#mapped_user   while M is in G          *)
(*                                                                          *)
(* Every operation is one READ COMMITTED transaction that first reads the   *)
(* row with a plain SELECT and later changes it; which tuple to write is    *)
(* decided from the row as it was read.  An UPDATE waits for the row lock,  *)
(* so the change and the tuple writes after it are one step of the model,   *)
(* and the read before it is another.  The bootstrap backfills list the     *)
(* rows once and then grant one missing tuple per transaction.              *)
(*                                                                          *)
(* One group stands for all: groups never interact.  Codes, names, emails   *)
(* and audit payloads are left out; an audit append that fails rolls the    *)
(* whole transaction back, which is Abort.                                  *)
(***************************************************************************)
EXTENDS Naturals

CONSTANTS
    Member,     \* member ids, each row may or may not have been created
    Company,    \* companies
    CompanyOf,  \* the company a member row belongs to; it never changes
    User,       \* identity users, named by kcSub
    Client,     \* concurrent administrator requests
    None,       \* SQL NULL, and "no such row"
    MaxCalls    \* bound: how many administrator requests are made

\* The columns of org.member that matter here.
Row == [active : BOOLEAN, user : User \cup {None}]

ASSUME MemberAssumption ==
    /\ CompanyOf \in [Member -> Company]
    /\ None \notin User
    /\ None \notin Row
    /\ MaxCalls \in Nat

VARIABLES
    row,        \* org.member: None or [active, user]
    grp,        \* org.group_member: the members of the group
    memberT,    \* members with a company#member tuple
    mappedT,    \* <<member, user>> pairs with a mapped_user tuple
    groupT,     \* members with a group#member tuple
    call,       \* the request each client has in progress
    calls,      \* requests made so far (bounded by MaxCalls)
    backfill,   \* the bootstrap converge step: its stage and remaining list
    raced       \* history: members whose tuples were decided from a row that
                \* had changed, or whose link was overwritten

vars == <<row, grp, memberT, mappedT, groupT, call, calls, backfill, raced>>

-------------------------------------------------------------------------------
Idle == [op |-> "idle"]

\* A request between its read and its write: the operation, the member, its
\* argument and the row it read.
Call ==
    {Idle}
      \cup [op : {"update"}, m : Member, active : BOOLEAN, before : Row]
      \cup [op : {"link"}, m : Member, user : User]
      \cup [op : {"unlink"}, m : Member, before : Row]
      \cup [op : {"add", "regrant"}, m : Member]

Stage == {"done", "mapped", "member"}

(* Type correctness of the directory, its tuples, requests and backfill. *)
TypeOK ==
    /\ row \in [Member -> Row \cup {None}]
    /\ grp \subseteq Member
    /\ memberT \subseteq Member
    /\ mappedT \subseteq Member \X User
    /\ groupT \subseteq Member
    /\ call \in [Client -> Call]
    /\ calls \in 0..MaxCalls
    /\ backfill \in [stage : Stage, users : SUBSET (Member \X User),
                     members : SUBSET Member]
    /\ raced \subseteq Member

Init ==
    /\ row = [m \in Member |-> None]
    /\ grp = {}
    /\ memberT = {}
    /\ mappedT = {}
    /\ groupT = {}
    /\ call = [c \in Client |-> Idle]
    /\ calls = 0
    /\ backfill = [stage |-> "done", users |-> {}, members |-> {}]
    /\ raced = {}

Exists(m) == row[m] # None

Active == {m \in Member : Exists(m) /\ row[m].active}

Linked == {p \in Member \X User : Exists(p[1]) /\ row[p[1]].user = p[2]}

\* Mark m when cond says that its tuples were decided from an outdated row.
Race(m, cond) == raced' = IF cond THEN raced \cup {m} ELSE raced

\* A client that is free starts a request; the bound is on requests made.
Start(c, request) ==
    /\ call[c] = Idle
    /\ calls < MaxCalls
    /\ calls' = calls + 1
    /\ call' = [call EXCEPT ![c] = request]

Done(c) == call' = [call EXCEPT ![c] = Idle] /\ UNCHANGED calls

-------------------------------------------------------------------------------
(* Members. *)

\* CreateMember: the INSERT, the tuple when the row is active, and the audit
\* event commit together; nothing is read first.
CreateMember(c, m, active) ==
    /\ call[c] = Idle
    /\ ~Exists(m)
    /\ calls < MaxCalls
    /\ calls' = calls + 1
    /\ row' = [row EXCEPT ![m] = [active |-> active, user |-> None]]
    /\ memberT' = IF active THEN memberT \cup {m} ELSE memberT
    /\ UNCHANGED <<grp, mappedT, groupT, call, backfill, raced>>

\* UpdateMember, its first half: GetMember reads `before` without a lock.
UpdateRead(c, m, active) ==
    /\ Exists(m)
    /\ Start(c, [op |-> "update", m |-> m, active |-> active, before |-> row[m]])
    /\ UNCHANGED <<row, grp, memberT, mappedT, groupT, backfill, raced>>

\* Mutated form: a deactivation revokes nothing.
MemberTuplesGrantOnly(m, was, is) ==
    IF ~was /\ is THEN memberT \cup {m} ELSE memberT

\* Which company#member tuples remain after a change of the active flag.
MemberTuples(m, was, is) ==
    CASE ~was /\ is -> memberT \cup {m}
      [] was /\ ~is -> memberT \ {m}
      [] OTHER -> memberT

\* UpdateMember, its second half: UPDATE ... RETURNING, the switch on the
\* flag before and after, the audit event and the commit.
UpdateWrite(c) ==
    /\ call[c].op = "update"
    /\ LET r == call[c] IN
         /\ row' = [row EXCEPT ![r.m].active = r.active]
         /\ memberT' = MemberTuples(r.m, r.before.active, r.active)
         /\ Race(r.m, r.before.active # row[r.m].active)
    /\ Done(c)
    /\ UNCHANGED <<grp, mappedT, groupT, backfill>>

\* LinkUser up to its UPDATE: identity confirmed the user, the member exists.
\* What it reads of the member goes to the audit event only.
LinkRead(c, m, u) ==
    /\ Exists(m)
    /\ Start(c, [op |-> "link", m |-> m, user |-> u])
    /\ UNCHANGED <<row, grp, memberT, mappedT, groupT, backfill, raced>>

\* UNIQUE (company_id, user_id): no other member of the company has the user.
LinkIsUnique(m, u) ==
    \A n \in Member \ {m} :
        CompanyOf[n] = CompanyOf[m] /\ Exists(n) => row[n].user # u

\* LinkUser: the UPDATE of user_id, whatever it was, and the member-bridge
\* tuple of the new user.
LinkWrite(c) ==
    /\ call[c].op = "link"
    /\ LET r == call[c] IN
         /\ LinkIsUnique(r.m, r.user)
         /\ row' = [row EXCEPT ![r.m].user = r.user]
         /\ mappedT' = mappedT \cup {<<r.m, r.user>>}
         /\ Race(r.m, row[r.m].user \notin {None, r.user})
    /\ Done(c)
    /\ UNCHANGED <<grp, memberT, groupT, backfill>>

\* UnlinkUser, its first half: the joined read, whose kcSub names the tuple.
UnlinkRead(c, m) ==
    /\ Exists(m)
    /\ Start(c, [op |-> "unlink", m |-> m, before |-> row[m]])
    /\ UNCHANGED <<row, grp, memberT, mappedT, groupT, backfill, raced>>

\* Mutated form: the revoke is a transaction of its own, ahead of the UPDATE.
UnlinkRevokeFirst(c) ==
    /\ call[c].op = "unlink"
    /\ LET r == call[c] IN
         IF <<r.m, r.before.user>> \in mappedT
         THEN /\ mappedT' = mappedT \ {<<r.m, r.before.user>>}
              /\ UNCHANGED <<row, call, calls, raced>>
         ELSE /\ row' = [row EXCEPT ![r.m].user = None]
              /\ Race(r.m, r.before.user # row[r.m].user)
              /\ Done(c)
              /\ UNCHANGED mappedT
    /\ UNCHANGED <<grp, memberT, groupT, backfill>>

\* UnlinkUser, its second half: user_id becomes NULL and the tuple of the
\* user that was read, if there was one, is revoked.
UnlinkWrite(c) ==
    /\ call[c].op = "unlink"
    /\ LET r == call[c] IN
         /\ row' = [row EXCEPT ![r.m].user = None]
         /\ mappedT' = mappedT \ {<<r.m, r.before.user>>}
         /\ Race(r.m, r.before.user # row[r.m].user)
    /\ Done(c)
    /\ UNCHANGED <<grp, memberT, groupT, backfill>>

-------------------------------------------------------------------------------
(* The group. *)

\* AddGroupMember up to its INSERT: the group is managed here, the member is
\* active and of the group's company.
AddRead(c, m) ==
    /\ m \in Active
    /\ Start(c, [op |-> "add", m |-> m])
    /\ UNCHANGED <<row, grp, memberT, mappedT, groupT, backfill, raced>>

\* INSERT ... ON CONFLICT DO NOTHING.  A row that is new is locked until the
\* commit, which follows the grant; one that was there is not, and the
\* request goes on to grant its tuple again.
AddInsert(c) ==
    /\ call[c].op = "add"
    /\ LET m == call[c].m IN
         \/ /\ m \notin grp
            /\ grp' = grp \cup {m}
            /\ groupT' = groupT \cup {m}
            /\ Done(c)
         \/ /\ m \in grp
            /\ call' = [call EXCEPT ![c].op = "regrant"]
            /\ UNCHANGED <<grp, groupT, calls>>
    /\ UNCHANGED <<row, memberT, mappedT, backfill, raced>>

\* The idempotent Grant of a member that was already in the group.
AddRegrant(c) ==
    /\ call[c].op = "regrant"
    /\ groupT' = groupT \cup {call[c].m}
    /\ Race(call[c].m, call[c].m \notin grp)
    /\ Done(c)
    /\ UNCHANGED <<row, grp, memberT, mappedT, backfill>>

\* RemoveGroupMember: the DELETE must find a row (else 404, and no revoke);
\* the tuple goes with it.
RemoveGroupMember(c, m) ==
    /\ call[c] = Idle
    /\ calls < MaxCalls
    /\ m \in grp
    /\ calls' = calls + 1
    /\ grp' = grp \ {m}
    /\ groupT' = groupT \ {m}
    /\ UNCHANGED <<row, memberT, mappedT, call, backfill, raced>>

\* A request that fails after its read (a unique violation, a row that went
\* away, a failed audit append, a lost connection) rolls back.
Abort(c) ==
    /\ call[c] # Idle
    /\ Done(c)
    /\ UNCHANGED <<row, grp, memberT, mappedT, groupT, backfill, raced>>

-------------------------------------------------------------------------------
(* The bootstrap backfills. *)

\* MemberMappedUserBackfill lists the linked members.
BackfillListUsers ==
    /\ backfill.stage = "done"
    /\ backfill' = [stage |-> "mapped", users |-> Linked, members |-> {}]
    /\ UNCHANGED <<row, grp, memberT, mappedT, groupT, call, calls, raced>>

\* grantMemberMappedUserOnce for one listed pair.
BackfillUser(p) ==
    /\ p \in backfill.users
    /\ backfill' = [backfill EXCEPT !.users = @ \ {p}]
    /\ mappedT' = mappedT \cup {p}
    /\ Race(p[1], p \notin Linked)
    /\ UNCHANGED <<row, grp, memberT, groupT, call, calls>>

\* CompanyMemberBackfill lists the active members.
BackfillListMembers ==
    /\ backfill.stage = "mapped"
    /\ backfill.users = {}
    /\ backfill' = [stage |-> "member", users |-> {}, members |-> Active]
    /\ UNCHANGED <<row, grp, memberT, mappedT, groupT, call, calls, raced>>

\* grantCompanyMemberOnce for one listed member.
BackfillMember(m) ==
    /\ m \in backfill.members
    /\ backfill' = [backfill EXCEPT !.members = @ \ {m}]
    /\ memberT' = memberT \cup {m}
    /\ Race(m, m \notin Active)
    /\ UNCHANGED <<row, grp, mappedT, groupT, call, calls>>

\* The step ends, or fails part of the way through a list.
BackfillEnd ==
    /\ backfill.stage # "done"
    /\ backfill' = [stage |-> "done", users |-> {}, members |-> {}]
    /\ UNCHANGED <<row, grp, memberT, mappedT, groupT, call, calls, raced>>

Request(c) ==
    \/ \E m \in Member, active \in BOOLEAN :
         CreateMember(c, m, active) \/ UpdateRead(c, m, active)
    \/ UpdateWrite(c)
    \/ \E m \in Member, u \in User : LinkRead(c, m, u)
    \/ LinkWrite(c)
    \/ \E m \in Member : UnlinkRead(c, m)
    \/ UnlinkWrite(c)
    \/ \E m \in Member : AddRead(c, m) \/ RemoveGroupMember(c, m)
    \/ AddInsert(c)
    \/ AddRegrant(c)
    \/ Abort(c)

Backfill ==
    \/ BackfillListUsers
    \/ \E p \in backfill.users : BackfillUser(p)
    \/ BackfillListMembers
    \/ \E m \in backfill.members : BackfillMember(m)
    \/ BackfillEnd

Next == (\E c \in Client : Request(c)) \/ Backfill

Spec == Init /\ [][Next]_vars

-------------------------------------------------------------------------------
(* Properties. *)

(* Nobody who is linked, and nobody in the group, ever lacks the tuple that  *)
(* carries it, whatever requests and backfills overlap: LinkUser and         *)
(* AddGroupMember grant, and only the transaction that clears the row        *)
(* revokes.  A revoke decided from an outdated read must never take the      *)
(* tuple of the user who is linked now.                                      *)
LinkedIsMapped ==
    /\ \A p \in Linked : p \in mappedT
    /\ grp \subseteq groupT

\* The tuples of m say exactly what its row says.
ExactFor(m) ==
    /\ m \in memberT <=> m \in Active
    /\ \A u \in User : <<m, u>> \in mappedT <=> <<m, u>> \in Linked
    /\ m \in groupT <=> m \in grp

(* The tuples of a member diverge from its row only after one of the races   *)
(* that `raced` records: a write decided from a row that changed since it    *)
(* was read, a link written over another user, a backfill or a repeated add  *)
(* granting what has just been revoked.  No other sequence of requests,      *)
(* aborts and backfills does it.                                             *)
ExactUnlessRaced == \A m \in Member \ raced : ExactFor(m)
=============================================================================
