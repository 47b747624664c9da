------------------------------- MODULE Modules -------------------------------
(***************************************************************************)
(* The business modules side by side.  Helpdesk, Docs, Timesheet and the    *)
(* request side of Notification keep their own schemas and share no state,  *)
(* and the lists are read on their own, so that their product says no more  *)
(* than each of them alone: a behaviour is one of the five.  The tables of  *)
(* Timesheet are empty in the others; all else that is not used is None.    *)
(***************************************************************************)
EXTENDS Timesheet

CONSTANTS
    Ticket, Member, Chair, User, Admin, HelpdeskCalls, MaxFaults, MaxLost, MaxLinks,
    Doc, Owner, DocCalls,
    Channel, Bearer, Payload, MaxSends,
    Item, SortKey, MaxPage, MaxPageSize, Default, Asked, MaxChanges

VARIABLES
    which,
    status, reporter, assignee, assigneeSub, agents, editor, req, faults, lost, links, crossed,
    doc, drawn, owned, share, tuple, edits,
    member, channel, anchored, subscription, msg, inbox, read, job, sends, answered, overlapped,
    list, key, active, reader, walk, stayed, removed, added, between, changes,
    link, disturbed

helpdesk == <<status, reporter, assignee, assigneeSub, agents, editor, req, faults, lost,
              links, crossed>>
docs == <<doc, drawn, owned, share, tuple, edits>>
timesheet == <<config, project, entry, sub, assigned, granted, overwritten>>
notification == <<member, channel, anchored, subscription, msg, inbox, read, job, sends,
                  answered, overlapped>>
directory == <<list, key, active, reader, walk, stayed, removed, added, between, changes>>

shared == <<link, disturbed, call, calls>>

modules == <<which, helpdesk, docs, timesheet, notification, directory, shared>>

H == INSTANCE Helpdesk WITH MaxCalls <- HelpdeskCalls
D == INSTANCE Docs WITH MaxCalls <- DocCalls
N == INSTANCE NotificationInbox WITH Admin <- Bearer, sub <- subscription
L == INSTANCE Directory

\* The constants of the modules.
ASSUME HelpdeskConstants == H!HelpdeskAssumption
ASSUME DocsConstants == D!DocsAssumption
ASSUME ListConstants == L!DirectoryAssumption

HelpdeskOff ==
    /\ status = None /\ reporter = None /\ assignee = None /\ assigneeSub = None
    /\ agents = None /\ editor = None /\ req = None /\ faults = None
    /\ lost = None /\ links = None /\ crossed = None

DocsOff ==
    /\ doc = None /\ drawn = None /\ owned = None
    /\ share = None /\ tuple = None /\ edits = None

TimesheetOff ==
    /\ config = None /\ project = None /\ entry = [x \in Slot |-> None] /\ sub = {}
    /\ assigned = None /\ granted = None /\ overwritten = {}

NotificationOff ==
    /\ member = None /\ channel = None /\ anchored = None /\ subscription = None /\ msg = None
    /\ inbox = None /\ read = None /\ job = None /\ sends = None
    /\ answered = None /\ overlapped = None

DirectoryOff ==
    /\ list = None /\ key = None /\ active = None /\ reader = None /\ walk = None
    /\ stayed = None /\ removed = None /\ added = None /\ between = None
    /\ changes = None

ModulesInit ==
    \/ /\ which = "helpdesk" /\ H!Init
       /\ DocsOff /\ TimesheetOff /\ NotificationOff /\ DirectoryOff
       /\ call = None
    \/ /\ which = "docs" /\ D!Init
       /\ HelpdeskOff /\ TimesheetOff /\ NotificationOff /\ DirectoryOff
    \/ /\ which = "timesheet" /\ Init
       /\ HelpdeskOff /\ DocsOff /\ NotificationOff /\ DirectoryOff
       /\ link = None /\ disturbed = None
    \/ /\ which = "notification" /\ N!Init
       /\ HelpdeskOff /\ DocsOff /\ TimesheetOff /\ DirectoryOff
       /\ link = None /\ disturbed = None /\ calls = None
    \/ /\ which = "directory" /\ L!Init
       /\ HelpdeskOff /\ DocsOff /\ TimesheetOff /\ NotificationOff
       /\ link = None /\ disturbed = None /\ call = None /\ calls = None

ModulesNext ==
    /\ UNCHANGED which
    /\ \/ /\ which = "helpdesk" /\ H!Next
          /\ UNCHANGED <<docs, timesheet, notification, directory, call>>
       \/ /\ which = "docs" /\ D!Next
          /\ UNCHANGED <<helpdesk, timesheet, notification, directory>>
       \/ /\ which = "timesheet" /\ Next
          /\ UNCHANGED <<helpdesk, docs, notification, directory, link, disturbed>>
       \/ /\ which = "notification" /\ N!Next
          /\ UNCHANGED <<helpdesk, docs, timesheet, directory, link, disturbed, calls>>
       \/ /\ which = "directory" /\ L!Next
          /\ UNCHANGED <<helpdesk, docs, timesheet, notification, shared>>

ModulesSpec == ModulesInit /\ [][ModulesNext]_modules

-------------------------------------------------------------------------------

\* Helpdesk: the agent rows and the editor tuples agree, except for targets whose
\* requests overlapped or failed half way, or whose member was linked anew
\* (handleMakeAgent, handleRemoveAgent).
AgentsExactUnlessDisturbed == which = "helpdesk" => H!BindingExactUnlessDisturbed

\* Helpdesk: who is assigned an open ticket is an agent, with the same exceptions
\* (handleAssignTicket, handleRemoveAgent).
AssigneesAreAgents == which = "helpdesk" => H!AssigneeIsAgentUnlessDisturbed

\* Docs: a user's list has what the user can open, whatever request failed,
\* overlapped or was repeated (handleCreateDocument, handleListDocuments).
ListedIsWhatOpens == which = "docs" => D!ListedIsWhatOpens

\* Docs: the viewer and editor tuples are those of the share rows, except for
\* documents and members whose requests overlapped, failed half way, or whose
\* member was linked anew (handleCreateShare, handleRevokeShare).
ShareExactUnlessDisturbed == which = "docs" => D!ShareExactUnlessDisturbed

\* Notification: a send answered as created or replayed is stored once with its
\* own payload, and one refused as a conflict had a rival, however retries
\* overlap (SendMessage).
AnswerIsTrue == which = "notification" => N!AnswerIsTrue

\* Lists: a walk to the last page shows a row that kept its place, once, unless
\* rows went or came during the walk (pageWindow, clampPage, pageParams).
WalkComplete == which = "directory" => L!WalkComplete

===============================================================================
