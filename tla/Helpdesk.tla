------------------------------- MODULE Helpdesk -------------------------------
(***************************************************************************)
(* Tickets and agents of the helpdesk module (modules/helpdesk/service).   *)
(* A ticket has a status and an assignee: a member, or a chair, which      *)
(* stands for a position or a group (the code treats the two alike).       *)
(*                                                                         *)
(* Being an agent is kept twice: as a row of helpdesk.agent and as the     *)
(* company_module#editor tuple in authz.  No transaction spans the two,    *)
(* and none spans the reads of a handler and its write: every statement    *)
(* and every call to authz or org is a step, and requests interleave.      *)
(* A request may fail or die at any step (Fail); a grant or revoke may     *)
(* also take effect and its answer be lost (AnswerLost).                   *)
(*                                                                         *)
(* Who holds a chair and who is an admin is org's and authz's business:    *)
(* an engine check of a chair answers either way, and the gate of withAuth *)
(* is a decision of authz: a request here is one that the gate let pass.   *)
(* Titles, comments, idempotency keys and notifications, which are sent    *)
(* after the write and whose failure is ignored, are left out.             *)
(***************************************************************************)
EXTENDS Naturals, FiniteSets

CONSTANTS
    Ticket,     \* ticket ids, each may or may not have been created
    Member,     \* members of the company
    Chair,      \* positions and groups of the company
    User,       \* users, named by kcSub
    Admin,      \* the users with the company_module#admin relation
    Client,     \* concurrent requests
    None,       \* SQL NULL
    MaxCalls,   \* bound: requests made
    MaxFaults,  \* bound: failing calls
    MaxLost,    \* bound: lost answers
    MaxLinks    \* bound: changes of a member's link

Target == Member \cup Chair

\* Ids of members, chairs and users are told apart.
HelpdeskAssumption ==
    /\ Member \cap Chair = {} /\ Chair \cap User = {} /\ Admin \subseteq User
    /\ None \notin Target \cup User \cup Ticket
    /\ IsFiniteSet(Ticket)
    /\ MaxCalls \in Nat /\ MaxFaults \in Nat /\ MaxLost \in Nat /\ MaxLinks \in Nat

VARIABLES
    status,       \* ticket -> none before it is created, or its status
    reporter,     \* ticket -> reporter_kcsub
    assignee,     \* ticket -> assignee_member_id, _position_id or _group_id
    assigneeSub,  \* ticket -> assignee_kcsub
    link,         \* member -> the user org reports
    agents,       \* helpdesk.agent: the targets that have a row
    editor,       \* subjects of company_module#editor: users and chairs
    req,          \* client -> the request in progress
    calls, faults, lost, links,  \* counters of the bounds
    disturbed,    \* history: targets whose requests overlapped or failed, and
                  \* members whose link changed
    crossed       \* history: tickets whose transitions overlapped

tickets == <<status, reporter, assignee, assigneeSub>>
binding == <<agents, editor>>
counters == <<calls, faults, lost, links>>
vars == <<tickets, link, binding, req, counters, disturbed, crossed>>

Status == {"open", "in_progress", "resolved", "closed"}

Idle == [op |-> "idle", pc |-> "idle", actor |-> None, ticket |-> None,
         target |-> None, sub |-> None, from |-> None, to |-> None]

Init ==
    /\ status = [t \in Ticket |-> "none"]
    /\ reporter = [t \in Ticket |-> None]
    /\ assignee = [t \in Ticket |-> None]
    /\ assigneeSub = [t \in Ticket |-> None]
    /\ link \in [Member -> User]
    /\ \A m, n \in Member : link[m] = link[n] => m = n
    /\ agents = {} /\ editor = {}
    /\ req = [c \in Client |-> Idle]
    /\ calls = 0 /\ faults = 0 /\ lost = 0 /\ links = 0
    /\ disturbed = {} /\ crossed = {}

-----------------------------------------------------------------------------
(* Requests. *)

Goto(c, pc) == req' = [req EXCEPT ![c].pc = pc]

Answer(c) == req' = [req EXCEPT ![c] = Idle]

\* The target a request may grant, revoke or assign to.
WorksOn(c) == IF req[c].op = "status" THEN {} ELSE {req[c].target} \ {None}

\* The targets other requests are working on.
Busy(c) == UNION {WorksOn(d) : d \in Client \ {c}}

\* A request about a target begins; its first read gave sub.
Begin(c, r) ==
    /\ req[c] = Idle /\ calls < MaxCalls
    /\ calls' = calls + 1
    /\ req' = [req EXCEPT ![c] = r]
    /\ disturbed' = IF r.target \in Busy(c) THEN disturbed \cup {r.target} ELSE disturbed
    /\ UNCHANGED <<faults, lost, links>>

\* The subject of a target's editor tuple.
Subject(r) == IF r.target \in Chair THEN r.target ELSE r.sub

Disturb(c) == disturbed' = disturbed \cup WorksOn(c)

-----------------------------------------------------------------------------
(* The store's statements. *)

UpdateTicketStatus(t, to) ==
    /\ status' = [status EXCEPT ![t] = to]
    /\ UNCHANGED <<reporter, assignee, assigneeSub>>

AssignTicket(t, a, sub) ==
    /\ assignee' = [assignee EXCEPT ![t] = a]
    /\ assigneeSub' = [assigneeSub EXCEPT ![t] = IF a \in Member THEN sub ELSE None]
    /\ UNCHANGED <<status, reporter>>

\* Broken form of CountOpenAssignedTickets: a resolved ticket does not count.
CountOpenAssignedTicketsUnresolved(a) ==
    Cardinality({t \in Ticket : assignee[t] = a /\ status[t] \in {"open", "in_progress"}})

CountOpenAssignedTickets(a) ==
    Cardinality({t \in Ticket : assignee[t] = a /\ status[t] # "closed"})

RecordAgent(a) == agents' = agents \cup {a} /\ UNCHANGED editor

RemoveAgent(a) == agents' = agents \ {a} /\ UNCHANGED editor

GrantAgent(s) == editor' = editor \cup {s} /\ UNCHANGED agents

\* Broken form of RevokeAgent: only a user's tuple is removed.
RevokeAgentUser(s) == editor' = editor \ ({s} \cap User) /\ UNCHANGED agents

\* A member without a linked user has no tuple to revoke.
RevokeAgent(s) == editor' = editor \ {s} /\ UNCHANGED agents

-----------------------------------------------------------------------------
(* Tickets. *)

CreateTicket(t, u) ==
    /\ status[t] = "none" /\ \E m \in Member : link[m] = u
    /\ status' = [status EXCEPT ![t] = "open"]
    /\ reporter' = [reporter EXCEPT ![t] = u]
    /\ UNCHANGED <<assignee, assigneeSub, link, binding, req, counters, disturbed, crossed>>

ValidEdges ==
    {<<"open", "in_progress">>, <<"in_progress", "resolved">>,
     <<"resolved", "closed">>, <<"resolved", "open">>}

\* via: the engine says the actor holds the assigned chair.
canSeeTicket(r, via, isAgent) ==
    r.actor \in Admin \/ isAgent \/ reporter[r.ticket] = r.actor \/ via

canTransition(r, via) ==
    \/ r.actor \in Admin
    \/ /\ <<r.from, r.to>> \in {<<"open", "in_progress">>, <<"in_progress", "resolved">>}
       /\ r.sub = r.actor \/ via
    \/ /\ <<r.from, r.to>> \in {<<"resolved", "closed">>, <<"resolved", "open">>}
       /\ reporter[r.ticket] = r.actor

\* GetTicket of a status request: the status and the assignee as read.
LoadTicket(c, u, t, to) ==
    /\ req[c] = Idle /\ calls < MaxCalls /\ status[t] # "none"
    /\ calls' = calls + 1
    /\ req' = [req EXCEPT ![c] = [Idle EXCEPT !.op = "status", !.pc = "check", !.actor = u,
                                  !.ticket = t, !.from = status[t], !.to = to,
                                  !.target = assignee[t], !.sub = assigneeSub[t]]]
    /\ crossed' = IF \E d \in Client \ {c} : req[d].op = "status" /\ req[d].ticket = t
                  THEN crossed \cup {t} ELSE crossed
    /\ UNCHANGED <<tickets, link, binding, faults, lost, links, disturbed>>

\* The actor's tier comes from his own tuple or from a chair that has one.
CheckTransition(c) ==
    LET r == req[c] IN
    /\ r.op = "status" /\ r.pc = "check"
    /\ \E via \in {FALSE} \cup {r.target \in Chair},
          isAgent \in {r.actor \in editor} \cup {editor \cap Chair # {}} :
          IF canSeeTicket(r, via, isAgent) /\ <<r.from, r.to>> \in ValidEdges
                /\ canTransition(r, via)
          THEN Goto(c, "write") ELSE Answer(c)
    /\ UNCHANGED <<tickets, link, binding, counters, disturbed, crossed>>

TransitionStatus(c) ==
    /\ req[c].op = "status" /\ req[c].pc = "write"
    /\ UpdateTicketStatus(req[c].ticket, req[c].to)
    /\ Answer(c)
    /\ UNCHANGED <<link, binding, counters, disturbed, crossed>>

-----------------------------------------------------------------------------
(* Assigning.  A member becomes an agent on the way; a chair has to be one. *)

HandleAssignTicket(c, u, t, a) ==
    /\ u \in Admin /\ status[t] # "none"
    /\ a \in Member => link[a] # None
    /\ Begin(c, [Idle EXCEPT !.op = "assign", !.pc = "agent", !.actor = u, !.ticket = t,
                             !.target = a, !.sub = IF a \in Member THEN link[a] ELSE None])
    /\ UNCHANGED <<tickets, link, binding, crossed>>

GetAgent(c) ==
    LET r == req[c] IN
    /\ r.op = "assign" /\ r.pc = "agent"
    /\ CASE r.target \in agents -> Goto(c, "write")
         [] r.target \in Member \ agents -> Goto(c, "grant")
         [] OTHER -> Answer(c)
    /\ UNCHANGED <<tickets, link, binding, counters, disturbed, crossed>>

WriteAssignment(c) ==
    LET r == req[c] IN
    /\ r.op = "assign" /\ r.pc = "write"
    /\ AssignTicket(r.ticket, r.target, r.sub)
    /\ Answer(c)
    /\ UNCHANGED <<link, binding, counters, disturbed, crossed>>

-----------------------------------------------------------------------------
(* Agents.  A member's tuple is granted first and then recorded, a chair's  *)
(* row is recorded first.                                                   *)

HandleMakeMemberAgent(c, u, m) ==
    /\ u \in Admin /\ link[m] # None
    /\ Begin(c, [Idle EXCEPT !.op = "make", !.pc = "grant", !.actor = u,
                             !.target = m, !.sub = link[m]])
    /\ UNCHANGED <<tickets, link, binding, crossed>>

HandleMakeChairAgent(c, u, h) ==
    /\ u \in Admin
    /\ Begin(c, [Idle EXCEPT !.op = "make", !.pc = "record", !.actor = u, !.target = h])
    /\ UNCHANGED <<tickets, link, binding, crossed>>

Grant(c) ==
    LET r == req[c] IN
    /\ r.pc = "grant"
    /\ GrantAgent(Subject(r))
    /\ IF r.target \in Member THEN Goto(c, "record") ELSE Answer(c)
    /\ UNCHANGED <<tickets, link, counters, disturbed, crossed>>

Record(c) ==
    LET r == req[c] IN
    /\ r.pc = "record"
    /\ RecordAgent(r.target)
    /\ CASE r.op = "assign" -> Goto(c, "write")
         [] r.target \in Chair -> Goto(c, "grant")
         [] OTHER -> Answer(c)
    /\ UNCHANGED <<tickets, link, counters, disturbed, crossed>>

\* The compensation for a chair's failed grant.
UndoRecord(c) ==
    /\ req[c].pc = "undo"
    /\ RemoveAgent(req[c].target)
    /\ Answer(c)
    /\ UNCHANGED <<tickets, link, counters, disturbed, crossed>>

\* The user whose tuple will be revoked is the one linked now.
HandleRemoveAgent(c, u, a) ==
    /\ u \in Admin
    /\ Begin(c, [Idle EXCEPT !.op = "remove", !.pc = "count", !.actor = u, !.target = a,
                             !.sub = IF a \in Member THEN link[a] ELSE None])
    /\ UNCHANGED <<tickets, link, binding, crossed>>

CheckUnassigned(c) ==
    /\ req[c].op = "remove" /\ req[c].pc = "count"
    /\ IF CountOpenAssignedTickets(req[c].target) > 0 THEN Answer(c) ELSE Goto(c, "revoke")
    /\ UNCHANGED <<tickets, link, binding, counters, disturbed, crossed>>

Revoke(c) ==
    /\ req[c].op = "remove" /\ req[c].pc = "revoke"
    /\ RevokeAgent(Subject(req[c]))
    /\ Goto(c, "delete")
    /\ UNCHANGED <<tickets, link, counters, disturbed, crossed>>

DeleteRecord(c) ==
    /\ req[c].op = "remove" /\ req[c].pc = "delete"
    /\ RemoveAgent(req[c].target)
    /\ Answer(c)
    /\ UNCHANGED <<tickets, link, counters, disturbed, crossed>>

-----------------------------------------------------------------------------
(* Failures, and org's changes to a member's link. *)

\* What the handler does when the call at hand fails.
Failed(c) ==
    IF req[c].op = "make" /\ req[c].pc = "grant" /\ req[c].target \in Chair
    THEN Goto(c, "undo") ELSE Answer(c)

\* A statement or a call fails without effect, or the request dies.
Fail(c) ==
    /\ req[c] # Idle /\ faults < MaxFaults /\ faults' = faults + 1
    /\ Failed(c) \/ Answer(c)
    /\ Disturb(c)
    /\ UNCHANGED <<tickets, link, binding, calls, lost, links, crossed>>

\* authz has committed the grant or the revoke and its answer is lost.
AnswerLost(c) ==
    /\ req[c].pc \in {"grant", "revoke"} /\ lost < MaxLost /\ lost' = lost + 1
    /\ IF req[c].pc = "grant" THEN GrantAgent(Subject(req[c])) ELSE RevokeAgent(Subject(req[c]))
    /\ Failed(c)
    /\ Disturb(c)
    /\ UNCHANGED <<tickets, link, calls, faults, links, crossed>>

Relink(m, u) ==
    /\ links < MaxLinks /\ links' = links + 1
    /\ link[m] # u /\ (u # None => \A n \in Member : link[n] # u)
    /\ link' = [link EXCEPT ![m] = u]
    /\ disturbed' = disturbed \cup {m}
    /\ UNCHANGED <<tickets, binding, req, calls, faults, lost, crossed>>

-----------------------------------------------------------------------------

Request(c) ==
    \/ \E u \in User, t \in Ticket :
          \/ \E to \in Status : LoadTicket(c, u, t, to)
          \/ \E a \in Target : HandleAssignTicket(c, u, t, a)
    \/ \E u \in User :
          \/ \E m \in Member : HandleMakeMemberAgent(c, u, m)
          \/ \E h \in Chair : HandleMakeChairAgent(c, u, h)
          \/ \E a \in Target : HandleRemoveAgent(c, u, a)

Step(c) ==
    \/ CheckTransition(c) \/ TransitionStatus(c)
    \/ GetAgent(c) \/ WriteAssignment(c)
    \/ Grant(c) \/ Record(c) \/ UndoRecord(c)
    \/ CheckUnassigned(c) \/ Revoke(c) \/ DeleteRecord(c)

Next ==
    \/ \E t \in Ticket, u \in User : CreateTicket(t, u)
    \/ \E c \in Client : Request(c) \/ Step(c) \/ Fail(c) \/ AnswerLost(c)
    \/ \E m \in Member, u \in User \cup {None} : Relink(m, u)

Spec == Init /\ [][Next]_vars

-----------------------------------------------------------------------------
(* Properties. *)

\* Types of the rows, the tuples and the requests.
TypeOK ==
    /\ status \in [Ticket -> Status \cup {"none"}]
    /\ reporter \in [Ticket -> User \cup {None}]
    /\ assignee \in [Ticket -> Target \cup {None}]
    /\ assigneeSub \in [Ticket -> User \cup {None}]
    /\ link \in [Member -> User \cup {None}]
    /\ agents \subseteq Target /\ editor \subseteq User \cup Chair
    /\ \A c \in Client : req[c].target \in Target \cup {None}
    /\ disturbed \subseteq Target /\ crossed \subseteq Ticket

\* A target's row and its tuple, as org's link names the subject now.
Bound(a) == a \in agents
Powerful(a) == (IF a \in Chair THEN a ELSE link[a]) \in editor

\* "A row exists only while the grant is live" (0002_helpdesk_tables.sql): for a
\* target whose requests came one after the other and without a failure, row and
\* tuple agree whenever no request is at work on it, through any sequence of
\* grants, automatic grants by an assignment, and removals.
BindingExactUnlessDisturbed ==
    \A a \in Target \ disturbed :
        (\A c \in Client : a \notin WorksOn(c))
            => (Bound(a) <=> Powerful(a))

\* The protection rule of handleRemoveAgent, over any number of steps: whoever a
\* ticket that is not closed is assigned to is an agent, in the index and in
\* authz, unless requests about the assignee were disturbed or transitions of
\* the ticket crossed.
AssigneeIsAgentUnlessDisturbed ==
    \A t \in Ticket \ crossed :
        status[t] \in Status \ {"closed"} /\ assignee[t] \in Target \ disturbed
            => Bound(assignee[t]) /\ Powerful(assignee[t])

\* handleMakeAgent: "visible-but-powerless is never allowed to become
\* powerful-but-invisible": a chair's tuple never stays without its row.
NeverPowerfulInvisible ==
    \A h \in Chair :
        (\A c \in Client : h \notin WorksOn(c))
            => (Powerful(h) => Bound(h))
=============================================================================
