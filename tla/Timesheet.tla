------------------------------- MODULE Timesheet -------------------------------
(***************************************************************************)
(* The timesheet module (modules/timesheet/service) for one member of one   *)
(* company: entries, weekly submissions with their versions and snapshots,  *)
(* the approver they are routed to, and the decision.                       *)
(*                                                                          *)
(* A slot is a (project, day) pair, so at most one entry.  Hours are values *)
(* that two entries share or do not; a configuration says which hours and   *)
(* which weeks may be written at all.  Each transaction is one step unless  *)
(* another can take effect between two of its statements: an upsert that    *)
(* finds no row locks nothing before its INSERT, and a submission locks the *)
(* drafts before it reads the current version.                              *)
(***************************************************************************)
EXTENDS Naturals, FiniteSets

CONSTANTS
    Week,      \* ISO weeks, named by their Monday
    Slot,      \* <<week, day and project>>
    Hours,     \* real and billable hours of an entry
    Config,    \* configurations: [hours : SUBSET Hours, weeks : SUBSET Week]
    Approver,  \* users whose members may be assigned as approver
    Key,       \* idempotency keys
    Client,    \* requests in progress at once
    None,      \* no row, no key
    MaxCalls   \* bound: requests made

\* What is absent is neither an entry nor an approver.
ASSUME TimesheetAssumption ==
    /\ None \notin [hours : Hours, status : {"draft", "submitted", "approved"}]
    /\ None \notin Approver

VARIABLES
    config,     \* timesheet.configuration
    project,    \* timesheet.project has the project
    entry,      \* timesheet.entry: None, or [hours, status], per slot
    sub,        \* timesheet.submission with its submission_entry rows
    assigned,   \* timesheet.approver_assignment: the approver, or None
    granted,    \* tuples: "submitter", and the users that have #approver
    call,       \* the request each client has in progress
    calls,      \* requests made (bounded by MaxCalls)
    overwritten \* history: slots whose row appeared between an upsert's
                \* SELECT and its INSERT, which then replaced it

vars == <<config, project, entry, sub, assigned, granted, call, calls, overwritten>>

Idle == [op |-> "idle"]

Init ==
    /\ config \in Config
    /\ project = FALSE
    /\ entry = [s \in Slot |-> None]
    /\ sub = {}
    /\ assigned = None
    /\ granted = {}
    /\ call = [c \in Client |-> Idle]
    /\ calls = 0
    /\ overwritten = {}

Begin(c) ==
    /\ call[c] = Idle
    /\ calls < MaxCalls
    /\ calls' = calls + 1

Goto(c, step) == call' = [call EXCEPT ![c].at = step]

End(c) == call' = [call EXCEPT ![c] = Idle]

-------------------------------------------------------------------------------
(* Master data: configuration, projects, approvers. *)

\* UpdateConfig; a company without a row has defaultConfig.
UpdateConfig(cfg) ==
    /\ cfg # config
    /\ config' = cfg
    /\ UNCHANGED <<project, entry, sub, assigned, granted, call, calls, overwritten>>

\* CreateProject.  Its code and name can change later (UpdateProject), which
\* snapshots do not follow; nothing here depends on them.
CreateProject ==
    /\ ~project
    /\ project' = TRUE
    /\ UNCHANGED <<config, entry, sub, assigned, granted, call, calls, overwritten>>

\* handleAssignApprover: both members have a user.
AssignRead(c, a) ==
    /\ Begin(c)
    /\ call' = [call EXCEPT ![c] = [op |-> "assign", a |-> a, at |-> "submitter"]]
    /\ UNCHANGED <<config, project, entry, sub, assigned, granted, overwritten>>

\* GrantRelation, of #submitter to the member and then of #approver.
AssignGrant(c) ==
    /\ call[c].op = "assign"
    /\ \/ call[c].at = "submitter" /\ granted' = granted \cup {"submitter"} /\ Goto(c, "approver")
       \/ call[c].at = "approver" /\ granted' = granted \cup {call[c].a} /\ Goto(c, "record")
    /\ UNCHANGED <<config, project, entry, sub, assigned, calls, overwritten>>

\* RecordApproverAssignment.  A former approver keeps #approver.
RecordApproverAssignment(c) ==
    /\ call[c].op = "assign"
    /\ call[c].at = "record"
    /\ assigned' = call[c].a
    /\ End(c)
    /\ UNCHANGED <<config, project, entry, sub, granted, calls, overwritten>>

-------------------------------------------------------------------------------
(* Entries. *)

Drafts(w) == {s \in Slot : s[1] = w /\ entry[s] # None /\ entry[s].status = "draft"}

\* Rows locked by submissions in progress.
Held == UNION {call[c].drafts : c \in {d \in Client : call[d].op = "submit" /\ call[d].at = "write"}}

Entry(h) == [hours |-> h, status |-> "draft"]

\* No more than a day has; billable hours within real hours, or within
\* eight, where the configuration says so.
validateHours(h) == h \in config.hours

\* Neither earlier nor later than the configuration allows.
validateWeekWindow(w) == w \in config.weeks

getProject == project

\* UpsertEntry before its transaction, with the configuration of that moment.
UpsertCheck(c, s, h) ==
    /\ Begin(c)
    /\ validateHours(h)
    /\ validateWeekWindow(s[1])
    /\ getProject
    /\ call' = [call EXCEPT ![c] = [op |-> "upsert", s |-> s, h |-> h, at |-> "lock"]]
    /\ UNCHANGED <<config, project, entry, sub, assigned, granted, overwritten>>

\* The SELECT ... FOR UPDATE finds a draft and keeps it locked for the
\* UPDATE; a row in another status ends the request (ErrEntryNotDraft).
UpsertLocked(c) ==
    /\ call[c].op = "upsert"
    /\ call[c].at = "lock"
    /\ call[c].s \in Drafts(call[c].s[1]) \ Held
    /\ entry' = [entry EXCEPT ![call[c].s] = Entry(call[c].h)]
    /\ End(c)
    /\ UNCHANGED <<config, project, sub, assigned, granted, calls, overwritten>>

\* The SELECT ... FOR UPDATE finds nothing, so nothing is locked.
UpsertAbsent(c) ==
    /\ call[c].op = "upsert"
    /\ call[c].at = "lock"
    /\ entry[call[c].s] = None
    /\ Goto(c, "insert")
    /\ UNCHANGED <<config, project, entry, sub, assigned, granted, calls, overwritten>>

\* INSERT ... ON CONFLICT DO UPDATE SET ..., status = 'draft'.
UpsertInsert(c) ==
    /\ call[c].op = "upsert"
    /\ call[c].at = "insert"
    /\ call[c].s \notin Held
    /\ entry' = [entry EXCEPT ![call[c].s] = Entry(call[c].h)]
    /\ overwritten' = IF entry[call[c].s] = None THEN overwritten ELSE overwritten \cup {call[c].s}
    /\ End(c)
    /\ UNCHANGED <<config, project, sub, assigned, granted, calls>>

\* DeleteEntry: drafts only, under a row lock.
DeleteEntry(s) ==
    /\ s \in Drafts(s[1]) \ Held
    /\ entry' = [entry EXCEPT ![s] = None]
    /\ UNCHANGED <<config, project, sub, assigned, granted, call, calls, overwritten>>

-------------------------------------------------------------------------------
(* Submissions. *)

Current(w) == {s \in sub : s.week = w /\ s.current}

NextVersion(w) ==
    IF Current(w) = {} THEN 1 ELSE (CHOOSE s \in Current(w) : TRUE).version + 1

\* findSubmissionByIdempotencyKey, for all weeks of the member.
Found(key) == {s \in sub : key # None /\ s.key = key}

\* SubmitWeek before its transaction: the caller has #submitter, the key is
\* new (one that is there is replayed, or refused for another week), and the
\* approver of that moment is taken.
SubmitLookup(c, w, key) ==
    /\ Begin(c)
    /\ "submitter" \in granted
    /\ Found(key) = {}
    /\ assigned # None
    /\ call' = [call EXCEPT ![c] = [op |-> "submit", w |-> w, key |-> key, a |-> assigned,
                                    drafts |-> {}, at |-> "lock"]]
    /\ UNCHANGED <<config, project, entry, sub, assigned, granted, overwritten>>

\* The week's drafts are locked; none is ErrNoDraftEntries.
SubmitLock(c) ==
    /\ call[c].op = "submit"
    /\ call[c].at = "lock"
    /\ LET d == Drafts(call[c].w) IN
         /\ d # {}
         /\ d \cap Held = {}
         /\ call' = [call EXCEPT ![c].drafts = d, ![c].at = "write"]
    /\ UNCHANGED <<config, project, entry, sub, assigned, granted, calls, overwritten>>

\* The current version, if any, is locked and superseded; the new one is
\* inserted with a snapshot of the locked drafts, which become submitted.
\* The unique index refuses a key that was stored since (ErrConflict).
SubmitWrite(c) ==
    /\ call[c].op = "submit"
    /\ call[c].at = "write"
    /\ Found(call[c].key) = {}
    /\ LET w   == call[c].w
           old == Current(w)
           new == [week |-> w, version |-> NextVersion(w),
                   current |-> TRUE, status |-> "submitted", approver |-> call[c].a,
                   key |-> call[c].key,
                   snap |-> {<<s, entry[s].hours>> : s \in call[c].drafts}]
       IN sub' = (sub \ old) \cup {[s EXCEPT !.current = FALSE] : s \in old} \cup {new}
    /\ entry' = [s \in Slot |-> IF s \in call[c].drafts
                                THEN [entry[s] EXCEPT !.status = "submitted"] ELSE entry[s]]
    /\ End(c)
    /\ UNCHANGED <<config, project, assigned, granted, calls, overwritten>>

\* Mutated form: a superseded version can still be decided.
DecidableSuperseded(a, s) ==
    /\ s.approver = a
    /\ s.status = "submitted"

\* The row a decision may change: the assigned approver's, current, submitted.
Decidable(a, s) ==
    /\ s.approver = a
    /\ s.current
    /\ s.status = "submitted"

\* Mutated form: only the entries in the version's own snapshot.
DecidedOwnSnapshot(s) ==
    {x \in Slot : entry[x] # None /\ entry[x].status = "submitted" /\ \E p \in s.snap : p[1] = x}

\* decideSubmission's second UPDATE: every submitted entry of the week.
Decided(s) == {x \in Slot : x[1] = s.week /\ entry[x] # None /\ entry[x].status = "submitted"}

\* ApproveSubmission and RejectSubmission: the version and the entries get
\* their new status together.
decideSubmission(a, s, status, entryStatus) ==
    /\ Decidable(a, s)
    /\ sub' = (sub \ {s}) \cup {[s EXCEPT !.status = status]}
    /\ entry' = [x \in Slot |-> IF x \in Decided(s)
                                THEN [entry[x] EXCEPT !.status = entryStatus] ELSE entry[x]]
    /\ UNCHANGED <<config, project, assigned, granted, call, calls, overwritten>>

\* The request is refused at its next step, fails, or the process stops: its
\* transaction rolls back, the tuples it granted stay.
Fail(c) ==
    /\ call[c] # Idle
    /\ End(c)
    /\ UNCHANGED <<config, project, entry, sub, assigned, granted, calls, overwritten>>

\* The handlers: the gate each route has, and the steps it takes.
handleUpdateConfig == \E cfg \in Config : UpdateConfig(cfg)

handleCreateProject == CreateProject

handleAssignApprover(c) ==
    \/ \E a \in Approver : AssignRead(c, a)
    \/ AssignGrant(c)
    \/ RecordApproverAssignment(c)

handleUpsertEntry(c) ==
    \/ \E s \in Slot, h \in Hours : UpsertCheck(c, s, h)
    \/ UpsertLocked(c)
    \/ UpsertAbsent(c)
    \/ UpsertInsert(c)

handleDeleteEntry == \E s \in Slot : DeleteEntry(s)

handleSubmitWeek(c) ==
    \/ \E w \in Week, key \in Key \cup {None} : SubmitLookup(c, w, key)
    \/ SubmitLock(c)
    \/ SubmitWrite(c)

handleApproveSubmission(a, s) == a \in granted /\ decideSubmission(a, s, "approved", "approved")

handleRejectSubmission(a, s) == a \in granted /\ decideSubmission(a, s, "rejected", "draft")

Next ==
    \/ handleUpdateConfig
    \/ handleCreateProject
    \/ handleDeleteEntry
    \/ \E c \in Client :
        \/ handleAssignApprover(c)
        \/ handleUpsertEntry(c)
        \/ handleSubmitWeek(c)
        \/ Fail(c)
    \/ \E a \in Approver, s \in sub :
        \/ handleApproveSubmission(a, s)
        \/ handleRejectSubmission(a, s)

Spec == Init /\ [][Next]_vars

-------------------------------------------------------------------------------
(* Properties. *)

(***************************************************************************)
(* What an approver approved stays as approved: the entries of an approved  *)
(* version are still there, approved, with the hours of its snapshot,       *)
(* whatever is edited, deleted, submitted, superseded or decided later.     *)
(* Excepted is a slot that a raced upsert overwrote.                        *)
(***************************************************************************)
ApprovedStaysAsApproved ==
    \A s \in sub : s.status = "approved" =>
        \A p \in s.snap : p[1] \notin overwritten =>
            entry[p[1]] = [hours |-> p[2], status |-> "approved"]

(***************************************************************************)
(* No submitted entry is stuck or unseen: some version holds a snapshot of  *)
(* exactly its hours, and the current version of its week still waits for a *)
(* decision, also when versions superseded each other undecided.            *)
(***************************************************************************)
SubmittedAwaitsDecision ==
    \A x \in Slot : entry[x] # None /\ entry[x].status = "submitted" =>
        /\ \E s \in sub : <<x, entry[x].hours>> \in s.snap
        /\ \E s \in Current(x[1]) : s.status = "submitted"

===============================================================================
