---------------------------- MODULE ModulesProofs ----------------------------
(***************************************************************************)
(* Proofs about the business modules, for any clients, keys, members, users,*)
(* documents, channels, payloads and listed rows, and any number of requests*)
(* at a time.  Timesheet's are about its own specification; those about     *)
(* Docs, the inbox of Notification, Helpdesk and the lists are about the    *)
(* modules side by side.                                                    *)
(***************************************************************************)
EXTENDS Modules, FiniteSetTheorems, SequenceTheorems, TLAPS

-------------------------------------------------------------------------------
(* Timesheet. *)



EntryStatus == {"draft", "submitted", "approved"}

EntryRow == [hours : Hours, status : EntryStatus]

Submission ==
    [week : Week, version : Nat, current : BOOLEAN,
     status : {"submitted", "approved", "rejected"}, approver : Approver,
     key : Key \cup {None}, snap : SUBSET (Slot \X Hours)]

AssignCall == [op : {"assign"}, a : Approver, at : {"submitter", "approver", "record"}]

UpsertCall == [op : {"upsert"}, s : Slot, h : Hours, at : {"lock", "insert"}]

SubmitCall ==
    [op : {"submit"}, w : Week, key : Key \cup {None}, a : Approver,
     drafts : SUBSET Slot, at : {"lock", "write"}]

Call == {Idle} \cup AssignCall \cup UpsertCall \cup SubmitCall

TypeOK ==
    /\ config \in Config
    /\ project \in BOOLEAN
    /\ entry \in [Slot -> EntryRow \cup {None}]
    /\ sub \in SUBSET Submission
    /\ assigned \in Approver \cup {None}
    /\ granted \in SUBSET (Approver \cup {"submitter"})
    /\ call \in [Client -> Call]
    /\ calls \in Nat
    /\ overwritten \in SUBSET Slot

\* c is a submission that holds its week's drafts.
Writing(c) == call[c].op = "submit" /\ call[c].at = "write"

\* What a submission locked is still there, still draft, and its own: the locks
\* it took before it read the version keep every other writer away.
LockInv ==
    \A c \in Client : Writing(c) =>
        /\ call[c].drafts \subseteq Drafts(call[c].w)
        /\ \A d \in Client \ {c} : Writing(d) => call[c].drafts \cap call[d].drafts = {}

\* A snapshot is of its own week.
SnapInv == \A s \in sub : \A p \in s.snap : p[1][1] = s.week

\* A week has one current version, so a decision on it is the only one.
OneCurrent ==
    \A s, t \in sub : s.current /\ t.current /\ s.week = t.week => s = t

\* The version that waits for a decision: its entries are submitted, as the
\* snapshot has them, so that the decision on the week is the one on the snapshot.
PendingInv ==
    \A s \in sub : s.current /\ s.status = "submitted" =>
        \A p \in s.snap : p[1] \notin overwritten =>
            entry[p[1]] = [hours |-> p[2], status |-> "submitted"]

IInv ==
    /\ TypeOK
    /\ LockInv
    /\ SnapInv
    /\ OneCurrent
    /\ PendingInv
    /\ ApprovedStaysAsApproved
    /\ SubmittedAwaitsDecision

-------------------------------------------------------------------------------
(* Steps that leave rows, versions and locks alone. *)

\* A request between its transactions: neither entries nor submissions change, and
\* no request holds drafts that it did not hold before.
Apart ==
    /\ UNCHANGED <<entry, sub, overwritten>>
    /\ \A c \in Client :
         call'[c].op = "submit" /\ call'[c].at = "write" =>
            Writing(c) /\ call'[c] = call[c]

\* Such a step preserves everything that is said of rows and versions.
LEMMA ApartSteps ==
  ASSUME IInv, TypeOK', Apart
  PROVE  IInv'
<1>1. LockInv'
  BY DEF IInv, LockInv, Apart, Writing, Drafts
<1>2. SnapInv' /\ OneCurrent' /\ PendingInv' /\ ApprovedStaysAsApproved' /\ SubmittedAwaitsDecision'
  BY DEF IInv, SnapInv, OneCurrent, PendingInv, ApprovedStaysAsApproved, SubmittedAwaitsDecision,
         Apart, Current
<1> QED BY <1>1, <1>2 DEF IInv

-------------------------------------------------------------------------------
(* Types. *)

\* Every request step that this module takes leaves a well-typed request.
LEMMA CallFields ==
  ASSUME NEW k \in Call
  PROVE  /\ k.op \in {"idle", "assign", "upsert", "submit"}
         /\ k.op = "idle" => k = Idle
         /\ k.op = "assign" => k \in AssignCall
         /\ k.op = "upsert" => k \in UpsertCall
         /\ k.op = "submit" => k \in SubmitCall
<1>1. Idle.op = "idle"
  BY DEF Idle
<1>2. \A x \in AssignCall : x.op = "assign"
  BY DEF AssignCall
<1>3. \A x \in UpsertCall : x.op = "upsert"
  BY DEF UpsertCall
<1>4. \A x \in SubmitCall : x.op = "submit"
  BY DEF SubmitCall
<1> QED BY <1>1, <1>2, <1>3, <1>4 DEF Call

\* A request that ends leaves its client idle.
LEMMA EndType ==
  ASSUME TypeOK, NEW c \in Client, End(c)
  PROVE  call' \in [Client -> Call]
BY DEF TypeOK, End, Call

\* Replacing one client's request by a well-typed one.
LEMMA SetCallType ==
  ASSUME TypeOK, NEW c \in Client, NEW k \in Call, call' = [call EXCEPT ![c] = k]
  PROVE  call' \in [Client -> Call]
BY DEF TypeOK

\* The routes on configuration, project, entries: types.
LEMMA MasterTypes ==
  ASSUME TypeOK, handleUpdateConfig \/ handleCreateProject
  PROVE  TypeOK'
BY DEF TypeOK, handleUpdateConfig, handleCreateProject, UpdateConfig, CreateProject

\* AssignApprover: types.
LEMMA AssignTypes ==
  ASSUME TypeOK, NEW c \in Client, handleAssignApprover(c)
  PROVE  TypeOK'
<1> USE CallFields
<1>1. ASSUME NEW a \in Approver, AssignRead(c, a) PROVE TypeOK'
  <2>1. [op |-> "assign", a |-> a, at |-> "submitter"] \in Call
    BY DEF Call, AssignCall
  <2>2. call' \in [Client -> Call]
    BY <1>1, <2>1, SetCallType DEF AssignRead
  <2> QED BY <1>1, <2>2 DEF TypeOK, AssignRead, Begin
<1>2. ASSUME AssignGrant(c) PROVE TypeOK'
  <2>1. call[c] \in AssignCall
    BY <1>2 DEF AssignGrant, TypeOK
  <2>2. \A step \in {"approver", "record"} : [call[c] EXCEPT !.at = step] \in Call
    BY <2>1 DEF AssignCall, Call
  <2>3. call' \in [Client -> Call]
    BY <1>2, <2>2 DEF AssignGrant, Goto, TypeOK
  <2>4. granted' \in SUBSET (Approver \cup {"submitter"})
    BY <1>2, <2>1 DEF AssignGrant, TypeOK, AssignCall
  <2> QED BY <1>2, <2>3, <2>4 DEF TypeOK, AssignGrant
<1>3. ASSUME RecordApproverAssignment(c) PROVE TypeOK'
  <2>1. call[c] \in AssignCall
    BY <1>3 DEF RecordApproverAssignment, TypeOK
  <2>2. call' \in [Client -> Call]
    BY <1>3, EndType DEF RecordApproverAssignment
  <2> QED BY <1>3, <2>1, <2>2 DEF TypeOK, RecordApproverAssignment, AssignCall
<1> QED BY <1>1, <1>2, <1>3 DEF handleAssignApprover

\* A draft is a row.
LEMMA EntryType ==
  ASSUME NEW h \in Hours
  PROVE  Entry(h) \in EntryRow /\ Entry(h).status = "draft"
BY DEF Entry, EntryRow, EntryStatus

\* UpsertEntry and DeleteEntry: types.
LEMMA EntryTypes ==
  ASSUME TypeOK, NEW c \in Client, handleUpsertEntry(c) \/ handleDeleteEntry
  PROVE  TypeOK'
<1> USE CallFields
<1>1. ASSUME NEW s \in Slot, NEW h \in Hours, UpsertCheck(c, s, h) PROVE TypeOK'
  <2>1. [op |-> "upsert", s |-> s, h |-> h, at |-> "lock"] \in Call
    BY DEF Call, UpsertCall
  <2>2. call' \in [Client -> Call]
    BY <1>1, <2>1, SetCallType DEF UpsertCheck
  <2> QED BY <1>1, <2>2 DEF TypeOK, UpsertCheck, Begin
<1>2. ASSUME UpsertLocked(c) \/ UpsertInsert(c) PROVE TypeOK'
  <2>1. call[c] \in UpsertCall
    BY <1>2 DEF UpsertLocked, UpsertInsert, TypeOK
  <2>2. call[c].s \in Slot /\ Entry(call[c].h) \in EntryRow
    BY <2>1, EntryType DEF UpsertCall
  <2>3. call' \in [Client -> Call]
    BY <1>2, EndType DEF UpsertLocked, UpsertInsert
  <2>4. overwritten' \in SUBSET Slot
    BY <1>2, <2>2 DEF UpsertLocked, UpsertInsert, TypeOK
  <2> QED BY <1>2, <2>2, <2>3, <2>4 DEF TypeOK, UpsertLocked, UpsertInsert
<1>3. ASSUME UpsertAbsent(c) PROVE TypeOK'
  <2>1. call[c] \in UpsertCall
    BY <1>3 DEF UpsertAbsent, TypeOK
  <2>2. [call[c] EXCEPT !.at = "insert"] \in Call
    BY <2>1 DEF UpsertCall, Call
  <2>3. call' \in [Client -> Call]
    BY <1>3, <2>2 DEF UpsertAbsent, Goto, TypeOK
  <2> QED BY <1>3, <2>3 DEF TypeOK, UpsertAbsent
<1>4. ASSUME NEW s \in Slot, DeleteEntry(s) PROVE TypeOK'
  BY <1>4 DEF TypeOK, DeleteEntry
<1> QED BY <1>1, <1>2, <1>3, <1>4 DEF handleUpsertEntry, handleDeleteEntry

\* The version that a submission gets.
LEMMA NextVersionType ==
  ASSUME TypeOK, NEW w
  PROVE  NextVersion(w) \in Nat
<1>1. CASE Current(w) = {}
  BY <1>1 DEF NextVersion
<1>2. CASE Current(w) # {}
  <2>1. (CHOOSE s \in Current(w) : TRUE) \in Current(w)
    BY <1>2
  <2>2. Current(w) \subseteq Submission
    BY DEF Current, TypeOK
  <2> QED BY <1>2, <2>1, <2>2 DEF NextVersion, Submission
<1> QED BY <1>1, <1>2

\* The version that SubmitWrite inserts.
NewVersion(c) ==
    [week |-> call[c].w, version |-> NextVersion(call[c].w),
     current |-> TRUE, status |-> "submitted", approver |-> call[c].a,
     key |-> call[c].key,
     snap |-> {<<s, entry[s].hours>> : s \in call[c].drafts}]

\* SubmitWrite in terms of it.
LEMMA SubmitWriteFacts ==
  ASSUME IInv, NEW c \in Client, SubmitWrite(c)
  PROVE  /\ call[c] \in SubmitCall /\ Writing(c)
         /\ call[c].drafts \subseteq Drafts(call[c].w)
         /\ NewVersion(c) \in Submission
         /\ sub' = (sub \ Current(call[c].w))
                      \cup {[s EXCEPT !.current = FALSE] : s \in Current(call[c].w)}
                      \cup {NewVersion(c)}
         /\ entry' = [s \in Slot |-> IF s \in call[c].drafts
                                THEN [entry[s] EXCEPT !.status = "submitted"] ELSE entry[s]]
<1>1. call[c] \in SubmitCall /\ Writing(c)
  BY CallFields DEF SubmitWrite, IInv, TypeOK, Writing
<1>2. call[c].drafts \subseteq Drafts(call[c].w)
  BY <1>1 DEF IInv, LockInv
<1>3. \A s \in call[c].drafts : s \in Slot /\ entry[s] \in EntryRow
  BY <1>2 DEF Drafts, IInv, TypeOK
<1>4. {<<s, entry[s].hours>> : s \in call[c].drafts} \in SUBSET (Slot \X Hours)
  BY <1>3 DEF EntryRow
<1>5. NextVersion(call[c].w) \in Nat
  BY NextVersionType DEF IInv
<1>6. NewVersion(c) \in Submission
  BY <1>1, <1>4, <1>5 DEF NewVersion, Submission, SubmitCall
<1>7. sub' = (sub \ Current(call[c].w))
                \cup {[s EXCEPT !.current = FALSE] : s \in Current(call[c].w)}
                \cup {NewVersion(c)}
  BY DEF SubmitWrite, NewVersion
<1> QED BY <1>1, <1>2, <1>6, <1>7 DEF SubmitWrite

\* SubmitWeek: types.
LEMMA SubmitTypes ==
  ASSUME IInv, NEW c \in Client, handleSubmitWeek(c)
  PROVE  TypeOK'
<1> USE CallFields DEF IInv
<1>1. ASSUME NEW w \in Week, NEW ky \in Key \cup {None}, SubmitLookup(c, w, ky)
      PROVE  TypeOK'
  <2>1. assigned \in Approver
    BY <1>1 DEF SubmitLookup, TypeOK
  <2>2. [op |-> "submit", w |-> w, key |-> ky, a |-> assigned, drafts |-> {},
         at |-> "lock"] \in Call
    BY <2>1 DEF Call, SubmitCall
  <2>3. call' \in [Client -> Call]
    BY <1>1, <2>2, SetCallType DEF SubmitLookup
  <2> QED BY <1>1, <2>3 DEF TypeOK, SubmitLookup, Begin
<1>2. ASSUME SubmitLock(c) PROVE TypeOK'
  <2>1. call[c] \in SubmitCall
    BY <1>2 DEF SubmitLock, TypeOK
  <2>2. [call[c] EXCEPT !.drafts = Drafts(call[c].w), !.at = "write"] \in Call
    BY <2>1 DEF SubmitCall, Call, Drafts
  <2>3. call' \in [Client -> Call]
    BY <1>2, <2>2 DEF SubmitLock, TypeOK
  <2> QED BY <1>2, <2>3 DEF TypeOK, SubmitLock
<1>3. ASSUME SubmitWrite(c) PROVE TypeOK'
  <2>1. /\ NewVersion(c) \in Submission
        /\ sub' = (sub \ Current(call[c].w))
                      \cup {[s EXCEPT !.current = FALSE] : s \in Current(call[c].w)}
                      \cup {NewVersion(c)}
        /\ call[c].drafts \subseteq Drafts(call[c].w)
    BY <1>3, SubmitWriteFacts
  <2>2. \A s \in Submission : [s EXCEPT !.current = FALSE] \in Submission
    BY DEF Submission
  <2>3. sub' \in SUBSET Submission
    BY <2>1, <2>2 DEF Current, TypeOK
  <2>4. \A s \in call[c].drafts : [entry[s] EXCEPT !.status = "submitted"] \in EntryRow
    <3>1. \A e \in EntryRow : [e EXCEPT !.status = "submitted"] \in EntryRow
      BY DEF EntryRow, EntryStatus
    <3> QED BY <2>1, <3>1 DEF Drafts, TypeOK
  <2>5. entry' \in [Slot -> EntryRow \cup {None}]
    BY <1>3, <2>4, SubmitWriteFacts DEF TypeOK
  <2>6. call' \in [Client -> Call]
    BY <1>3, EndType DEF SubmitWrite
  <2> QED BY <1>3, <2>3, <2>5, <2>6 DEF TypeOK, SubmitWrite
<1> QED BY <1>1, <1>2, <1>3 DEF handleSubmitWeek

\* The decision: types.
LEMMA DecideTypes ==
  ASSUME TypeOK, NEW a \in Approver, NEW s \in sub,
         NEW verdict \in {"approved", "rejected"}, NEW entryStatus \in {"approved", "draft"},
         decideSubmission(a, s, verdict, entryStatus)
  PROVE  TypeOK'
<1>1. [s EXCEPT !.status = verdict] \in Submission
  BY DEF TypeOK, Submission
<1>2. \A x \in Decided(s) : [entry[x] EXCEPT !.status = entryStatus] \in EntryRow
  <2>1. \A e \in EntryRow : [e EXCEPT !.status = entryStatus] \in EntryRow
    BY DEF EntryRow, EntryStatus
  <2> QED BY <2>1 DEF Decided, TypeOK
<1> QED BY <1>1, <1>2 DEF TypeOK, decideSubmission

-------------------------------------------------------------------------------
(* Steps that write one entry. *)

\* x is written by a request that does not find it locked, and becomes a draft or
\* nothing; what it was before is a draft or nothing too, or is recorded as
\* overwritten; no request holds drafts that it did not hold before.
OneSlot(x, e) ==
    /\ x \notin Held
    /\ entry' = [entry EXCEPT ![x] = e]
    /\ e # None => e.status = "draft"
    /\ \/ entry[x] = None
       \/ entry[x].status = "draft"
       \/ x \in overwritten'
    /\ overwritten \subseteq overwritten'
    /\ sub' = sub
    /\ \A c \in Client :
         call'[c].op = "submit" /\ call'[c].at = "write" =>
            Writing(c) /\ call'[c] = call[c]

\* Such a step touches no version's entries unless it overwrote one.
LEMMA OneSlotSteps ==
  ASSUME IInv, TypeOK', NEW x \in Slot, NEW e \in EntryRow \cup {None},
         OneSlot(x, e)
  PROVE  IInv'
<1>1. /\ TypeOK /\ LockInv /\ SnapInv /\ OneCurrent /\ PendingInv
      /\ ApprovedStaysAsApproved /\ SubmittedAwaitsDecision
  BY DEF IInv
<1>2. \A y \in Slot : y # x => entry'[y] = entry[y]
  BY <1>1 DEF TypeOK, OneSlot
<1>3. entry'[x] = e /\ (e # None => e.status = "draft")
  BY <1>1 DEF TypeOK, OneSlot
<1>4. sub' = sub /\ overwritten \subseteq overwritten'
  BY DEF OneSlot
<1>5. LockInv'
  <2>1. \A c \in Client : Writing(c) => x \notin call[c].drafts
    BY DEF Held, Writing, OneSlot
  <2>2. \A c \in Client : Writing(c)' => Writing(c) /\ call'[c] = call[c]
    BY DEF OneSlot, Writing
  <2>3. ASSUME NEW c \in Client, Writing(c)'
        PROVE  call[c]'.drafts \subseteq Drafts(call[c].w)'
    <3>1. SUFFICES ASSUME NEW y \in call[c].drafts
                   PROVE  y \in Drafts(call[c].w)'
      BY <2>2, <2>3
    <3>2. y \in Drafts(call[c].w) /\ y # x
      BY <1>1, <2>1, <2>2, <2>3 DEF LockInv
    <3>3. entry'[y] = entry[y] /\ call'[c] = call[c]
      BY <1>2, <2>2, <2>3, <3>2 DEF Drafts
    <3> QED BY <3>2, <3>3 DEF Drafts
  <2> QED BY <1>1, <2>2, <2>3 DEF LockInv
<1>6. SnapInv' /\ OneCurrent'
  BY <1>1, <1>4 DEF SnapInv, OneCurrent
<1>7. ASSUME NEW s \in sub, NEW p \in s.snap, p[1] \notin overwritten',
             NEW st \in {"submitted", "approved"},
             entry[p[1]] = [hours |-> p[2], status |-> st]
      PROVE  entry'[p[1]] = [hours |-> p[2], status |-> st]
  <2>1. p[1] \in Slot /\ p[2] \in Hours
    BY <1>1 DEF TypeOK, Submission
  <2>2. entry[p[1]] # None /\ entry[p[1]].status # "draft"
    BY <1>7, <2>1, TimesheetAssumption
  <2>3. p[1] # x
    BY <1>7, <2>2 DEF OneSlot
  <2> QED BY <1>2, <1>7, <2>1, <2>3
<1>8. PendingInv'
  BY <1>1, <1>4, <1>7 DEF PendingInv
<1>9. ApprovedStaysAsApproved'
  BY <1>1, <1>4, <1>7 DEF ApprovedStaysAsApproved
<1>10. SubmittedAwaitsDecision'
  BY <1>1, <1>2, <1>3, <1>4 DEF SubmittedAwaitsDecision, Current
<1> QED BY <1>5, <1>6, <1>8, <1>9, <1>10 DEF IInv

-------------------------------------------------------------------------------
(* Submission and decision. *)

\* SubmitLock takes drafts that nobody holds.
LEMMA SubmitLockSteps ==
  ASSUME IInv, TypeOK', NEW c \in Client, SubmitLock(c)
  PROVE  IInv'
<1>1. /\ TypeOK /\ LockInv /\ SnapInv /\ OneCurrent /\ PendingInv
      /\ ApprovedStaysAsApproved /\ SubmittedAwaitsDecision
  BY DEF IInv
<1>2. call[c] \in SubmitCall
  BY <1>1, CallFields DEF SubmitLock, TypeOK
<1>3. /\ \A d \in Client \ {c} : call'[d] = call[d]
      /\ call'[c].w = call[c].w /\ call'[c].drafts = Drafts(call[c].w)
      /\ Drafts(call[c].w) \cap Held = {}
  BY <1>1, <1>2 DEF SubmitLock, TypeOK, SubmitCall
<1>4. UNCHANGED <<entry, sub, overwritten>>
  BY DEF SubmitLock
<1>5. \A d \in Client : Writing(d) => call[d].drafts \subseteq Held
  BY DEF Held, Writing
<1>6. LockInv'
  <2>1. ASSUME NEW d \in Client, Writing(d)'
        PROVE  call[d]'.drafts \subseteq Drafts(call[d].w)'
    BY <1>1, <1>3, <1>4, <2>1 DEF LockInv, Writing, Drafts
  <2>2. ASSUME NEW d \in Client, NEW e \in Client \ {d}, Writing(d)', Writing(e)'
        PROVE  call'[d].drafts \cap call'[e].drafts = {}
    BY <1>1, <1>3, <1>5, <2>2 DEF LockInv, Writing
  <2> QED BY <2>1, <2>2 DEF LockInv
<1>7. SnapInv' /\ OneCurrent' /\ PendingInv' /\ ApprovedStaysAsApproved' /\ SubmittedAwaitsDecision'
  BY <1>1, <1>4 DEF SnapInv, OneCurrent, PendingInv, ApprovedStaysAsApproved, SubmittedAwaitsDecision,
         Current
<1> QED BY <1>6, <1>7 DEF IInv

\* SubmitWrite turns its locked drafts into the snapshot of the one current version.
LEMMA SubmitWriteSteps ==
  ASSUME IInv, TypeOK', NEW c \in Client, SubmitWrite(c)
  PROVE  IInv'
<1>0. PICK w, due, new : w = call[c].w /\ due = call[c].drafts /\ new = NewVersion(c)
  OBVIOUS
<1>1. /\ TypeOK /\ LockInv /\ SnapInv /\ OneCurrent /\ PendingInv
      /\ ApprovedStaysAsApproved /\ SubmittedAwaitsDecision
  BY DEF IInv
<1>2. /\ call[c] \in SubmitCall /\ Writing(c) /\ due \subseteq Drafts(w)
      /\ sub' = (sub \ Current(w)) \cup {[s EXCEPT !.current = FALSE] : s \in Current(w)}
                  \cup {new}
  BY <1>0, SubmitWriteFacts
<1>3. /\ \A x \in Slot \ due : entry'[x] = entry[x]
      /\ \A x \in due : /\ x \in Slot /\ x[1] = w /\ entry[x] \in EntryRow
                      /\ entry[x].status = "draft"
                      /\ entry'[x] = [hours |-> entry[x].hours, status |-> "submitted"]
  <2>1. entry' = [s \in Slot |-> IF s \in due
                     THEN [entry[s] EXCEPT !.status = "submitted"] ELSE entry[s]]
    BY <1>0, SubmitWriteFacts
  <2>2. \A x \in due : /\ x \in Slot /\ x[1] = w /\ entry[x] \in EntryRow
                     /\ entry[x].status = "draft"
    BY <1>1, <1>2 DEF Drafts, TypeOK
  <2>3. \A r \in EntryRow :
          [r EXCEPT !.status = "submitted"] = [hours |-> r.hours, status |-> "submitted"]
    BY DEF EntryRow
  <2> QED BY <2>1, <2>2, <2>3
<1>4. /\ new.week = w /\ new.current = TRUE /\ new.status = "submitted"
      /\ new.snap = {<<s, entry[s].hours>> : s \in due}
  BY <1>0 DEF NewVersion
<1>5. /\ overwritten' = overwritten
      /\ call'[c] = Idle
      /\ \A d \in Client \ {c} : call'[d] = call[d]
  BY <1>1 DEF SubmitWrite, End, TypeOK
<1>6. ASSUME NEW s \in sub'
      PROVE  \/ s = new
             \/ s \in sub /\ s.week # w
             \/ s \in sub /\ s.week = w /\ ~s.current
             \/ ~s.current /\ \E o \in sub :
                   s.snap = o.snap /\ s.week = o.week /\ s.status = o.status
  <2>1. \A o \in Submission : LET n == [o EXCEPT !.current = FALSE] IN
           n.snap = o.snap /\ n.week = o.week /\ n.status = o.status /\ ~n.current
    BY DEF Submission
  <2>2. CASE s \in sub \ Current(w)
    <3>1. s.week = w => s.current # TRUE
      BY <2>2 DEF Current
    <3> QED BY <2>2, <3>1
  <2>3. CASE s \in {[o EXCEPT !.current = FALSE] : o \in Current(w)}
    <3>1. PICK o \in Current(w) : s = [o EXCEPT !.current = FALSE]
      BY <2>3
    <3>2. o \in sub /\ o \in Submission
      BY <1>1 DEF Current, TypeOK
    <3> QED BY <2>1, <3>1, <3>2
  <2> QED BY <1>2, <1>6, <2>2, <2>3
<1>7. \A s \in sub : \E n \in sub' : n.snap = s.snap
  <2>1. \A o \in Submission : [o EXCEPT !.current = FALSE].snap = o.snap
    BY DEF Submission
  <2> QED BY <1>1, <1>2, <2>1 DEF TypeOK
<1>8. LockInv'
  <2>1. \A d \in Client : Writing(d)' => d # c /\ Writing(d) /\ call'[d] = call[d]
    BY <1>5 DEF Writing, Idle
  <2>2. ASSUME NEW d \in Client, Writing(d)', NEW x \in call'[d].drafts
        PROVE  x \in Drafts(call[d].w)'
    <3>1. x \in Drafts(call[d].w) /\ x \notin due
      BY <1>0, <1>1, <1>2, <2>1, <2>2 DEF LockInv
    <3> QED BY <1>3, <2>1, <2>2, <3>1 DEF Drafts
  <2> QED BY <1>1, <2>1, <2>2 DEF LockInv
<1>9. SnapInv'
  <2>1. ASSUME NEW p \in new.snap PROVE p[1][1] = w
    <3>1. PICK x \in due : p = <<x, entry[x].hours>>
      BY <1>4
    <3> QED BY <1>3, <3>1
  <2> QED BY <1>1, <1>4, <1>6, <2>1 DEF SnapInv
<1>10. ASSUME NEW s \in sub, NEW p \in s.snap, NEW st \in {"submitted", "approved"},
              entry[p[1]] = [hours |-> p[2], status |-> st]
       PROVE  entry'[p[1]] = [hours |-> p[2], status |-> st]
  <2>1. p[1] \in Slot /\ p[2] \in Hours
    BY <1>1 DEF TypeOK, Submission
  <2>2. entry[p[1]].status = st
    BY <1>10
  <2>3. p[1] \notin due
    BY <1>3, <2>2
  <2> QED BY <1>3, <1>10, <2>1, <2>3
<1>11. PendingInv'
  <2>1. SUFFICES ASSUME NEW s \in sub', s.current, s.status = "submitted",
                        NEW p \in s.snap, p[1] \notin overwritten
                 PROVE  entry'[p[1]] = [hours |-> p[2], status |-> "submitted"]
    BY <1>5 DEF PendingInv
  <2>2. CASE s = new
    BY <1>3, <1>4, <2>2
  <2>3. CASE s \in sub
    BY <1>1, <1>10, <2>1, <2>3 DEF PendingInv
  <2> QED BY <1>6, <2>1, <2>2, <2>3
<1>12. ApprovedStaysAsApproved'
  <2>1. SUFFICES ASSUME NEW s \in sub', s.status = "approved",
                        NEW p \in s.snap, p[1] \notin overwritten
                 PROVE  entry'[p[1]] = [hours |-> p[2], status |-> "approved"]
    BY <1>5 DEF ApprovedStaysAsApproved
  <2>2. PICK o \in sub : o.snap = s.snap /\ o.status = "approved"
    BY <1>4, <1>6, <2>1
  <2> QED BY <1>1, <1>10, <2>1, <2>2 DEF ApprovedStaysAsApproved
<1>13. SubmittedAwaitsDecision'
  <2>1. SUFFICES ASSUME NEW x \in Slot, entry'[x] # None, entry'[x].status = "submitted"
                 PROVE  /\ \E s \in sub' : <<x, entry'[x].hours>> \in s.snap
                        /\ \E s \in Current(x[1])' : s.status = "submitted"
    BY DEF SubmittedAwaitsDecision
  <2>2. new \in sub' /\ new \in Current(w)'
    BY <1>2, <1>4 DEF Current
  <2>3. CASE x \in due
    <3>1. x[1] = w /\ entry'[x].hours = entry[x].hours
      <4>1. entry'[x] = [hours |-> entry[x].hours, status |-> "submitted"] /\ x[1] = w
        BY <1>3, <2>3
      <4> QED BY <4>1
    <3>2. <<x, entry'[x].hours>> \in new.snap
      BY <1>4, <2>3, <3>1
    <3> QED BY <1>4, <2>2, <3>1, <3>2
  <2>4. CASE x \notin due
    <3>1. entry'[x] = entry[x]
      BY <1>3, <2>4
    <3>2. \E s \in sub' : <<x, entry'[x].hours>> \in s.snap
      BY <1>1, <1>7, <2>1, <3>1 DEF SubmittedAwaitsDecision
    <3>3. PICK s \in Current(x[1]) : s.status = "submitted"
      BY <1>1, <2>1, <3>1 DEF SubmittedAwaitsDecision
    <3>4. x[1] # w => s \in Current(x[1])'
      BY <1>2, <3>3 DEF Current
    <3> QED BY <1>4, <2>2, <3>2, <3>3, <3>4
  <2> QED BY <2>3, <2>4
<1>14. OneCurrent'
  BY <1>1, <1>4, <1>6 DEF OneCurrent
<1> QED BY <1>8, <1>9, <1>11, <1>12, <1>13, <1>14 DEF IInv

\* A decision is on the current version and on all that is submitted of its week.
LEMMA DecideSteps ==
  ASSUME IInv, TypeOK', NEW a \in Approver, NEW s \in sub,
         NEW verdict, NEW entryStatus,
         <<verdict, entryStatus>> \in {<<"approved", "approved">>, <<"rejected", "draft">>},
         decideSubmission(a, s, verdict, entryStatus)
  PROVE  IInv'
<1>0. \/ verdict = "approved" /\ entryStatus = "approved"
      \/ verdict = "rejected" /\ entryStatus = "draft"
  OBVIOUS
<1>1. /\ TypeOK /\ LockInv /\ SnapInv /\ OneCurrent /\ PendingInv
      /\ ApprovedStaysAsApproved /\ SubmittedAwaitsDecision
  BY DEF IInv
<1>2. PICK new, due : new = [s EXCEPT !.status = verdict] /\ due = Decided(s)
  OBVIOUS
<1>3. /\ s.current /\ s.status = "submitted"
      /\ sub' = (sub \ {s}) \cup {new}
      /\ UNCHANGED <<call, overwritten>>
  BY <1>2 DEF decideSubmission, Decidable
<1>4. /\ s \in Submission
      /\ new.week = s.week /\ new.current = s.current /\ new.snap = s.snap
      /\ new.status = verdict
  BY <1>1, <1>2 DEF TypeOK, Submission
<1>5. /\ \A x \in Slot \ due : entry'[x] = entry[x]
      /\ \A x \in due : /\ x \in Slot /\ x[1] = s.week /\ entry[x] \in EntryRow
                      /\ entry[x].status = "submitted"
                      /\ entry'[x] = [hours |-> entry[x].hours, status |-> entryStatus]
  <2>1. entry' = [x \in Slot |-> IF x \in due
                     THEN [entry[x] EXCEPT !.status = entryStatus] ELSE entry[x]]
    BY <1>2 DEF decideSubmission
  <2>2. \A x \in due : /\ x \in Slot /\ x[1] = s.week /\ entry[x] \in EntryRow
                     /\ entry[x].status = "submitted"
    BY <1>1, <1>2 DEF Decided, TypeOK
  <2>3. \A r \in EntryRow :
          [r EXCEPT !.status = entryStatus] = [hours |-> r.hours, status |-> entryStatus]
    BY DEF EntryRow
  <2> QED BY <2>1, <2>2, <2>3
<1>6. \A x \in Slot : x[1] = s.week /\ entry[x] # None /\ entry[x].status = "submitted"
        => x \in due
  BY <1>2 DEF Decided
<1>7. LockInv'
  <2>1. ASSUME NEW c \in Client, Writing(c)', NEW x \in call[c].drafts
        PROVE  x \in Drafts(call[c].w)'
    <3>1. x \in Drafts(call[c].w)
      BY <1>1, <1>3, <2>1 DEF LockInv, Writing
    <3>2. x \notin due
      BY <1>5, <3>1 DEF Drafts
    <3> QED BY <1>3, <1>5, <3>1, <3>2 DEF Drafts
  <2> QED BY <1>1, <1>3, <2>1 DEF LockInv, Writing
<1>8. SnapInv'
  BY <1>1, <1>3, <1>4 DEF SnapInv
<1>9. \A o \in sub : \A p \in o.snap :
        p[1] \in Slot /\ p[2] \in Hours /\ p[1][1] = o.week
  BY <1>1 DEF TypeOK, Submission, SnapInv
<1>10. PendingInv'
  <2>1. SUFFICES ASSUME NEW o \in sub', o.current, o.status = "submitted",
                        NEW p \in o.snap, p[1] \notin overwritten
                 PROVE  entry'[p[1]] = [hours |-> p[2], status |-> "submitted"]
    BY <1>3 DEF PendingInv
  <2>2. o \in sub /\ o # s
    BY <1>0, <1>3, <1>4, <2>1
  <2>3. entry[p[1]] = [hours |-> p[2], status |-> "submitted"]
    BY <1>1, <2>1, <2>2 DEF PendingInv
  <2>4. o.week # s.week
    BY <1>1, <1>3, <2>1, <2>2 DEF OneCurrent
  <2> QED BY <1>5, <1>9, <2>2, <2>3, <2>4
<1>11. ApprovedStaysAsApproved'
  <2>1. SUFFICES ASSUME NEW o \in sub', o.status = "approved",
                        NEW p \in o.snap, p[1] \notin overwritten
                 PROVE  entry'[p[1]] = [hours |-> p[2], status |-> "approved"]
    BY <1>3 DEF ApprovedStaysAsApproved
  <2>2. CASE o = new
    <3>1. p \in s.snap /\ entryStatus = "approved"
      BY <1>0, <1>4, <2>1, <2>2
    <3>2. entry[p[1]] = [hours |-> p[2], status |-> "submitted"]
      BY <1>1, <1>3, <2>1, <3>1 DEF PendingInv
    <3>3. p[1] \in due
      BY <1>6, <1>9, <3>1, <3>2, TimesheetAssumption
    <3> QED BY <1>5, <3>1, <3>2, <3>3
  <2>3. CASE o \in sub
    <3>1. entry[p[1]] = [hours |-> p[2], status |-> "approved"]
      BY <1>1, <2>1, <2>3 DEF ApprovedStaysAsApproved
    <3>2. entry[p[1]].status = "approved"
      BY <3>1
    <3>3. p[1] \notin due
      BY <1>5, <3>2
    <3> QED BY <1>5, <1>9, <2>3, <3>1, <3>3
  <2> QED BY <1>3, <2>1, <2>2, <2>3
<1>12. SubmittedAwaitsDecision'
  <2>1. SUFFICES ASSUME NEW x \in Slot, entry'[x] # None, entry'[x].status = "submitted"
                 PROVE  /\ \E o \in sub' : <<x, entry'[x].hours>> \in o.snap
                        /\ \E o \in Current(x[1])' : o.status = "submitted"
    BY DEF SubmittedAwaitsDecision
  <2>2. x \notin due
    <3>1. SUFFICES ASSUME x \in due PROVE FALSE
      OBVIOUS
    <3>2. entry'[x] = [hours |-> entry[x].hours, status |-> entryStatus]
      BY <1>5, <3>1
    <3>3. entry'[x].status = entryStatus
      BY <3>2
    <3> QED BY <1>0, <2>1, <3>3
  <2>3. entry'[x] = entry[x] /\ x[1] # s.week
    BY <1>5, <1>6, <2>1, <2>2
  <2>4. PICK o \in sub : <<x, entry[x].hours>> \in o.snap
    BY <1>1, <2>1, <2>3 DEF SubmittedAwaitsDecision
  <2>5. \E n \in sub' : n.snap = o.snap
    BY <1>3, <1>4, <2>4
  <2>6. PICK v \in Current(x[1]) : v.status = "submitted"
    BY <1>1, <2>1, <2>3 DEF SubmittedAwaitsDecision
  <2>7. v \in Current(x[1])'
    BY <1>3, <2>3, <2>6 DEF Current
  <2> QED BY <2>3, <2>4, <2>5, <2>6, <2>7
<1>13. OneCurrent'
  BY <1>1, <1>3, <1>4 DEF OneCurrent
<1> QED BY <1>7, <1>8, <1>10, <1>11, <1>12, <1>13 DEF IInv

-------------------------------------------------------------------------------
(* The invariant, and what it gives. *)

\* The empty module satisfies the invariant.
LEMMA InitInv ==
  Init => IInv
<1> SUFFICES ASSUME Init PROVE IInv
  OBVIOUS
<1>1. TypeOK
  BY DEF Init, TypeOK, Call
<1>2. \A c \in Client : ~Writing(c)
  BY DEF Init, Writing, Idle
<1>3. SnapInv /\ OneCurrent /\ PendingInv /\ ApprovedStaysAsApproved
  BY DEF Init, SnapInv, OneCurrent, PendingInv, ApprovedStaysAsApproved
<1>4. SubmittedAwaitsDecision
  BY DEF Init, SubmittedAwaitsDecision
<1> QED BY <1>1, <1>2, <1>3, <1>4 DEF IInv, LockInv

\* Every request step and every failure preserves it.
LEMMA NextInv ==
  ASSUME IInv, [Next]_vars
  PROVE  IInv'
<1>1. CASE UNCHANGED vars
  <2>1. TypeOK'
    BY <1>1 DEF IInv, TypeOK, vars
  <2>2. Apart
    BY <1>1 DEF Apart, vars, Writing
  <2> QED BY <2>1, <2>2, ApartSteps
<1>2. ASSUME handleUpdateConfig \/ handleCreateProject PROVE IInv'
  <2>1. TypeOK'
    BY <1>2, MasterTypes DEF IInv
  <2>2. Apart
    BY <1>2 DEF Apart, Writing, handleUpdateConfig, handleCreateProject, UpdateConfig,
                CreateProject
  <2> QED BY <2>1, <2>2, ApartSteps
<1>3. ASSUME NEW s \in Slot, DeleteEntry(s) PROVE IInv'
  <2>1. TypeOK'
    BY <1>3 DEF IInv, TypeOK, DeleteEntry
  <2>2. OneSlot(s, None)
    BY <1>3 DEF OneSlot, DeleteEntry, Drafts, Writing
  <2> QED BY <2>1, <2>2, OneSlotSteps
<1>4. ASSUME NEW c \in Client,
             handleAssignApprover(c) \/ handleUpsertEntry(c) \/ handleSubmitWeek(c) \/ Fail(c)
      PROVE  IInv'
  <2>0. TypeOK
    BY DEF IInv
  <2>1. TypeOK'
    <3>1. CASE Fail(c)
      BY <2>0, <3>1, EndType DEF TypeOK, Fail
    <3> QED BY <1>4, <2>0, <3>1, AssignTypes, EntryTypes, SubmitTypes
  <2>2. call \in [Client -> Call]
    BY <2>0 DEF TypeOK
  <2>3. ASSUME NEW k, call' = [call EXCEPT ![c] = k], k.op # "submit" \/ k.at # "write",
               UNCHANGED <<entry, sub, overwritten>>
        PROVE  IInv'
    <3>1. call'[c] = k /\ \A d \in Client \ {c} : call'[d] = call[d]
      BY <2>2, <2>3
    <3>2. Apart
      BY <2>3, <3>1 DEF Apart, Writing
    <3> QED BY <2>1, <3>2, ApartSteps
  <2>4. CASE handleAssignApprover(c)
    <3>1. ASSUME NEW a \in Approver, AssignRead(c, a) PROVE IInv'
      BY <2>3, <3>1 DEF AssignRead
    <3>2. CASE AssignGrant(c)
      <4>1. call[c] \in AssignCall
        BY <2>2, <3>2, CallFields DEF AssignGrant
      <4>2. \A step : [call[c] EXCEPT !.at = step].op = "assign"
        BY <4>1 DEF AssignCall
      <4>3. \E step : call' = [call EXCEPT ![c] = [call[c] EXCEPT !.at = step]]
        BY <2>2, <3>2 DEF AssignGrant, Goto
      <4> QED BY <2>3, <3>2, <4>2, <4>3 DEF AssignGrant
    <3>3. CASE RecordApproverAssignment(c)
      BY <2>3, <3>3 DEF RecordApproverAssignment, End, Idle
    <3> QED BY <2>4, <3>1, <3>2, <3>3 DEF handleAssignApprover
  <2>5. CASE handleUpsertEntry(c)
    <3>1. ASSUME NEW s \in Slot, NEW h \in Hours, UpsertCheck(c, s, h) PROVE IInv'
      BY <2>3, <3>1 DEF UpsertCheck
    <3>2. CASE UpsertAbsent(c)
      <4>1. call[c] \in UpsertCall
        BY <2>2, <3>2, CallFields DEF UpsertAbsent
      <4>2. [call[c] EXCEPT !.at = "insert"].op = "upsert"
        BY <4>1 DEF UpsertCall
      <4>3. call' = [call EXCEPT ![c] = [call[c] EXCEPT !.at = "insert"]]
        BY <2>2, <3>2 DEF UpsertAbsent, Goto
      <4> QED BY <2>3, <3>2, <4>2, <4>3 DEF UpsertAbsent
    <3>3. CASE UpsertLocked(c) \/ UpsertInsert(c)
      <4>1. call[c] \in UpsertCall
        BY <2>2, <3>3, CallFields DEF UpsertLocked, UpsertInsert
      <4>2. /\ call[c].s \in Slot /\ Entry(call[c].h) \in EntryRow
            /\ Entry(call[c].h).status = "draft"
        BY <4>1, EntryType DEF UpsertCall
      <4>3. \A d \in Client : Writing(d)' => Writing(d) /\ call'[d] = call[d]
        BY <2>2, <3>3 DEF UpsertLocked, UpsertInsert, End, Writing, Idle
      <4>4. OneSlot(call[c].s, Entry(call[c].h))
        BY <3>3, <4>2, <4>3 DEF OneSlot, UpsertLocked, UpsertInsert, Drafts, Writing
      <4> QED BY <2>1, <4>2, <4>4, OneSlotSteps
    <3> QED BY <2>5, <3>1, <3>2, <3>3 DEF handleUpsertEntry
  <2>6. CASE handleSubmitWeek(c)
    <3>1. ASSUME NEW w \in Week, NEW ky \in Key \cup {None}, SubmitLookup(c, w, ky)
          PROVE  IInv'
      BY <2>3, <3>1 DEF SubmitLookup
    <3> QED BY <2>1, <2>6, <3>1, SubmitLockSteps, SubmitWriteSteps DEF handleSubmitWeek
  <2>7. CASE Fail(c)
    BY <2>3, <2>7 DEF Fail, End, Idle
  <2> QED BY <1>4, <2>4, <2>5, <2>6, <2>7
<1>5. ASSUME NEW a \in Approver, NEW s \in sub,
             handleApproveSubmission(a, s) \/ handleRejectSubmission(a, s)
      PROVE  IInv'
  <2>1. TypeOK'
    BY <1>5, DecideTypes DEF handleApproveSubmission, handleRejectSubmission, IInv
  <2> QED
    BY <1>5, <2>1, DecideSteps DEF handleApproveSubmission, handleRejectSubmission
<1> QED BY <1>1, <1>2, <1>3, <1>4, <1>5 DEF Next, handleDeleteEntry

\* Every reachable state satisfies the inductive invariant, whatever requests
\* overlap, fail or stop.
THEOREM Invariant == Spec => []IInv
<1>1. IInv /\ [Next]_vars => IInv'
  BY NextInv
<1> QED BY InitInv, <1>1, PTL DEF Spec

\* Rows, submissions and requests are well typed: what is decided, superseded or
\* snapshotted is a version of the module's own table.
THEOREM TypeCorrect == Spec => []TypeOK
<1>1. IInv => TypeOK
  BY DEF IInv
<1> QED BY <1>1, Invariant, PTL

\* What an approver approved stays as approved: no edit, deletion, later
\* submission or decision (UpsertEntry, DeleteEntry, SubmitWeek, decideSubmission)
\* changes an entry of an approved version, unless an upsert raced its row.
THEOREM ApprovedStays == Spec => []ApprovedStaysAsApproved
<1>1. IInv => ApprovedStaysAsApproved
  BY DEF IInv
<1> QED BY <1>1, Invariant, PTL

\* A submitted entry is in some version's snapshot, and the current version of its
\* week still waits for a decision: superseding a version strands no entry.
THEOREM SubmittedAwaits == Spec => []SubmittedAwaitsDecision
<1>1. IInv => SubmittedAwaitsDecision
  BY DEF IInv
<1> QED BY <1>1, Invariant, PTL

-------------------------------------------------------------------------------
(* Docs. *)

DocRow == [key : Key \cup {None}]

ShareRow == [rel : D!Relation, key : Key \cup {None}]

CreateCall == [op : {"create"}, d : Doc, key : Key \cup {None}, at : {"grant", "insert"}]

UpdateCall == [op : {"update"}, d : Doc, u : User]

ShareCall ==
    [op : {"share"}, d : Doc, m : Member, u : User, rel : D!Relation, key : Key \cup {None},
     old : D!Relation, at : {"revoke", "grant", "record"}]

RevokeCall ==
    [op : {"revoke"}, d : Doc, m : Member, u : User \cup {None}, rel : D!Relation,
     at : {"revoke", "remove"}]

DocCall == {D!Idle} \cup CreateCall \cup UpdateCall \cup ShareCall \cup RevokeCall

DocsType ==
    /\ link \in [Member -> User \cup {None}]
    /\ doc \in [Doc -> DocRow \cup {None}]
    /\ drawn \in SUBSET Doc
    /\ owned \in SUBSET drawn
    /\ share \in [Doc \X Member -> ShareRow \cup {None}]
    /\ tuple \in SUBSET (Doc \X D!Relation \X User)
    /\ call \in [Client -> DocCall]

\* member_company_user_unique.
LinkedOnce == \A m, n \in Member : m # n /\ link[m] # None => link[m] # link[n]

Creating(c, d) == call[c].op = "create" /\ call[c].d = d

\* A row has its owner tuple, and one insert makes it.
RowsOwned ==
    /\ \A d \in Doc : doc[d] # None => d \in owned
    /\ \A d \in Doc, c \in Client : Creating(c, d) =>
         /\ d \in drawn /\ doc[d] = None
         /\ call[c].at = "insert" => d \in owned
         /\ \A b \in Client \ {c} : ~Creating(b, d)

\* The row is there or may still come: no document comes back once it is gone.
MayLive(d) == d \notin drawn \/ doc[d] # None \/ \E c \in Client : Creating(c, d)

Undisturbed(d) == \A m \in Member : <<d, m>> \notin disturbed

\* What a user has of a document.
Rels(d, x) == {rel \in D!Relation : <<d, rel, x>> \in tuple}

\* What the user of a request has at each of its steps.
HeldAt(k, rels) ==
    /\ k.op = "share" /\ k.at = "revoke" => rels = {k.old}
    /\ k.op = "share" /\ k.at = "grant"  => rels \subseteq {k.rel}
    /\ k.op = "share" /\ k.at = "record" => rels = {k.rel}
    /\ k.op = "revoke" /\ k.at = "revoke" => rels = {k.rel}
    /\ k.op = "revoke" /\ k.at = "remove" => rels = {}

\* A tuple is of someone who is a member.
TuplesLinked(d) == \A rel \in D!Relation, x \in User :
    <<d, rel, x>> \in tuple => \E n \in Member : link[n] = x

\* Between requests the tuples are the row's; a request is alone, knows the user
\* by the name that the member has now, and left the tuples as its step says.
ShareBound(d, m) ==
    /\ D!Busy(d, m) = {} =>
         IF share[<<d, m>>] = None THEN link[m] # None => Rels(d, link[m]) = {}
         ELSE link[m] # None /\ Rels(d, link[m]) = {share[<<d, m>>].rel}
    /\ \A c \in D!Busy(d, m) :
         /\ D!Busy(d, m) = {c}
         /\ link[m] # None /\ call[c].u = link[m]
         /\ HeldAt(call[c], Rels(d, link[m]))

DocBound(d) == TuplesLinked(d) /\ \A m \in Member : ShareBound(d, m)

SharesBound == \A d \in Doc : MayLive(d) /\ Undisturbed(d) => DocBound(d)

DocsInv == DocsType /\ LinkedOnce /\ RowsOwned /\ SharesBound

LEMMA DocsConstantFacts ==
  /\ Owner \in User /\ None \notin User
  /\ None \notin DocRow /\ None \notin ShareRow
  /\ None # "owner" /\ None # "editor" /\ None # "viewer"
  /\ D!Relation = {"viewer", "editor"}
  BY DocsConstants DEF D!DocsAssumption, DocRow, ShareRow, D!Relation

\* The fields of a request are those of its kind.
LEMMA DocCallKinds ==
  ASSUME NEW k \in DocCall
  PROVE  /\ k.op = "create" => k \in CreateCall
         /\ k.op = "update" => k \in UpdateCall
         /\ k.op = "share" => k \in ShareCall
         /\ k.op = "revoke" => k \in RevokeCall
         /\ k = D!Idle => k.op = "idle"
  BY DEF DocCall, CreateCall, UpdateCall, ShareCall, RevokeCall, D!Idle

\* A request goes on to its next step.
LEMMA DocGoto ==
  ASSUME call \in [Client -> DocCall], NEW c \in Client, NEW step, D!Goto(c, step)
  PROVE  /\ call[c].op \in {"create", "share", "revoke"} =>
              /\ call'[c] = [call[c] EXCEPT !.at = step]
              /\ call'[c].at = step /\ call'[c].op = call[c].op /\ call'[c].d = call[c].d
         /\ call[c].op \in {"share", "revoke"} =>
              /\ call'[c].m = call[c].m /\ call'[c].u = call[c].u /\ call'[c].rel = call[c].rel
         /\ \A b \in Client \ {c} : call'[b] = call[b]
         /\ DOMAIN call' = Client
         /\ call[c].op = "create" /\ step \in {"grant", "insert"} => call' \in [Client -> DocCall]
         /\ call[c].op = "share" /\ step \in {"revoke", "grant", "record"} =>
              call' \in [Client -> DocCall]
         /\ call[c].op = "revoke" /\ step \in {"revoke", "remove"} => call' \in [Client -> DocCall]
<1>0. call[c] \in DocCall
  OBVIOUS
<1>1. call' = [call EXCEPT ![c] = [call[c] EXCEPT !.at = step]]
  BY DEF D!Goto
<1>2. /\ call'[c] = [call[c] EXCEPT !.at = step] 
      /\ \A b \in Client \ {c} : call'[b] = call[b]
      /\ DOMAIN call' = Client
  BY <1>1
<1>3. CASE call[c].op = "create"
  <2>1. call[c] \in CreateCall
    BY <1>0, <1>3, DocCallKinds
  <2>2. /\ call'[c].at = step /\ call'[c].op = call[c].op /\ call'[c].d = call[c].d
        /\ step \in {"grant", "insert"} => call'[c] \in CreateCall
    BY <1>2, <2>1 DEF CreateCall
  <2> QED BY <1>1, <1>2, <1>3, <2>2 DEF DocCall
<1>4. CASE call[c].op = "share"
  <2>1. call[c] \in ShareCall
    BY <1>0, <1>4, DocCallKinds
  <2>2. /\ call'[c].at = step /\ call'[c].op = call[c].op /\ call'[c].d = call[c].d
        /\ call'[c].m = call[c].m /\ call'[c].u = call[c].u /\ call'[c].rel = call[c].rel
        /\ step \in {"revoke", "grant", "record"} => call'[c] \in ShareCall
    BY <1>2, <2>1 DEF ShareCall
  <2> QED BY <1>1, <1>2, <1>4, <2>2 DEF DocCall
<1>5. CASE call[c].op = "revoke"
  <2>1. call[c] \in RevokeCall
    BY <1>0, <1>5, DocCallKinds
  <2>2. /\ call'[c].at = step /\ call'[c].op = call[c].op /\ call'[c].d = call[c].d
        /\ call'[c].m = call[c].m /\ call'[c].u = call[c].u /\ call'[c].rel = call[c].rel
        /\ step \in {"revoke", "remove"} => call'[c] \in RevokeCall
    BY <1>2, <2>1 DEF RevokeCall
  <2> QED BY <1>1, <1>2, <1>5, <2>2 DEF DocCall
<1> QED BY <1>2, <1>3, <1>4, <1>5

\* A request begins as k, or ends, as k = Idle.
LEMMA DocSet ==
  ASSUME call \in [Client -> DocCall], NEW c \in Client, NEW k \in DocCall,
         call' = [call EXCEPT ![c] = k]
  PROVE  call'[c] = k /\ call' \in [Client -> DocCall] /\ \A b \in Client \ {c} : call'[b] = call[b]
  OBVIOUS

LEMMA DocIdle == D!Idle \in DocCall /\ D!Idle.op = "idle"
  BY DEF DocCall, D!Idle

-------------------------------------------------------------------------------

\* What has nothing to do with a document leaves its bindings alone.
LEMMA DocFrame ==
  ASSUME SharesBound, NEW d \in Doc, link' = link,
         MayLive(d)' => MayLive(d), Undisturbed(d)' => Undisturbed(d),
         \A m \in Member : share'[<<d, m>>] = share[<<d, m>>],
         \A rel \in D!Relation : \A x : <<d, rel, x>> \in tuple' <=> <<d, rel, x>> \in tuple,
         \A m \in Member : D!Busy(d, m)' = D!Busy(d, m),
         \A m \in Member : \A c \in D!Busy(d, m) : call'[c] = call[c],
         MayLive(d)', Undisturbed(d)'
  PROVE  DocBound(d)'
<1>1. DocBound(d)
  BY DEF SharesBound
<1>2. \A x : Rels(d, x)' = Rels(d, x)
  BY DEF Rels
<1>3. TuplesLinked(d)'
  BY <1>1 DEF DocBound, TuplesLinked
<1>4. ASSUME NEW m \in Member PROVE ShareBound(d, m)'
  <2>1. ShareBound(d, m)
    BY <1>1 DEF DocBound
  <2>2. Rels(d, link[m])' = Rels(d, link[m])
    BY <1>2 DEF Rels
  <2>3. ASSUME NEW c \in D!Busy(d, m)' PROVE HeldAt(call[c], Rels(d, link[m]))'
    <3>1. PICK k : k = call[c]
      OBVIOUS
    <3>2. HeldAt(k, Rels(d, link[m]))
      BY <2>1, <2>3, <3>1 DEF ShareBound
    <3>3. call'[c] = k
      BY <2>3, <3>1
    <3> QED BY <2>2, <3>2, <3>3 DEF HeldAt
  <2> QED BY <2>1, <2>2, <2>3 DEF ShareBound
<1> QED BY <1>3, <1>4 DEF DocBound

\* A step of a request on one document and member: the rest stays bound.
LEMMA DocFocus ==
  ASSUME SharesBound, LinkedOnce, NEW d \in Doc, NEW m \in Member, NEW u,
         link' = link,
         \A e \in Doc : MayLive(e)' => MayLive(e),
         \A e \in Doc : Undisturbed(e)' => Undisturbed(e),
         \A e \in Doc, n \in Member : e # d \/ n # m =>
            /\ share'[<<e, n>>] = share[<<e, n>>]
            /\ D!Busy(e, n)' = D!Busy(e, n)
            /\ \A c \in D!Busy(e, n) : call'[c] = call[c],
         \A e \in Doc, rel \in D!Relation : \A x :
            e # d \/ x # u => (<<e, rel, x>> \in tuple' <=> <<e, rel, x>> \in tuple),
         MayLive(d)' /\ Undisturbed(d)' => link[m] = u /\ u # None /\ ShareBound(d, m)'
  PROVE  SharesBound'
<1> SUFFICES ASSUME NEW e \in Doc, MayLive(e)', Undisturbed(e)' PROVE DocBound(e)'
  BY DEF SharesBound
<1>1. CASE e # d
  <2>1. /\ \A n \in Member : share'[<<e, n>>] = share[<<e, n>>]
        /\ \A n \in Member : D!Busy(e, n)' = D!Busy(e, n)
        /\ \A n \in Member : \A c \in D!Busy(e, n) : call'[c] = call[c]
    BY <1>1
  <2>2. \A rel \in D!Relation : \A x : <<e, rel, x>> \in tuple' <=> <<e, rel, x>> \in tuple
    BY <1>1
  <2> QED BY <2>1, <2>2, DocFrame
<1>2. CASE e = d
  <2>0. MayLive(d) /\ Undisturbed(d) /\ DocBound(d)
    BY <1>2 DEF SharesBound
  <2>1. link[m] = u /\ u # None /\ ShareBound(d, m)'
    BY <1>2
  <2>2. TuplesLinked(d)'
    BY <2>0, <2>1 DEF TuplesLinked, DocBound
  <2>3. ASSUME NEW n \in Member, n # m PROVE ShareBound(d, n)'
    <3>1. ShareBound(d, n)
      BY <2>0 DEF DocBound
    <3>2. /\ share'[<<d, n>>] = share[<<d, n>>]
          /\ D!Busy(d, n)' = D!Busy(d, n)
          /\ \A c \in D!Busy(d, n) : call'[c] = call[c]
      BY <2>3
    <3>3. link[n] # u
      BY <2>1, <2>3 DEF LinkedOnce
    <3>4. Rels(d, link[n])' = Rels(d, link[n])
      BY <3>3 DEF Rels
    <3>5. ASSUME NEW c \in D!Busy(d, n)' PROVE HeldAt(call[c], Rels(d, link[n]))'
      <4>1. PICK k : k = call[c]
        OBVIOUS
      <4>2. HeldAt(k, Rels(d, link[n]))
        BY <3>1, <3>2, <3>5, <4>1 DEF ShareBound
      <4>3. call'[c] = k
        BY <3>2, <3>5, <4>1
      <4> QED BY <3>4, <4>2, <4>3 DEF HeldAt
    <3> QED BY <3>1, <3>2, <3>4, <3>5 DEF ShareBound
  <2> QED BY <1>2, <2>1, <2>2, <2>3 DEF DocBound
<1> QED BY <1>1, <1>2

ShareOp(k) == k.op \in {"share", "revoke"}

LEMMA BusyFocus ==
  ASSUME NEW c \in Client, NEW d, NEW m, \A b \in Client \ {c} : call'[b] = call[b],
         ShareOp(call[c]) => call[c].d = d /\ call[c].m = m,
         ShareOp(call'[c]) => call'[c].d = d /\ call'[c].m = m
  PROVE  \A e \in Doc, n \in Member : e # d \/ n # m =>
            /\ D!Busy(e, n)' = D!Busy(e, n)
            /\ \A b \in D!Busy(e, n) : call'[b] = call[b]
<1> SUFFICES ASSUME NEW e \in Doc, NEW n \in Member, e # d \/ n # m
             PROVE  /\ D!Busy(e, n)' = D!Busy(e, n)
                    /\ \A b \in D!Busy(e, n) : call'[b] = call[b]
  OBVIOUS
<1>1. c \notin D!Busy(e, n) /\ c \notin D!Busy(e, n)'
  BY DEF D!Busy, ShareOp
<1>2. \A b \in Client : b \in D!Busy(e, n)' <=> b \in D!Busy(e, n)
  BY <1>1 DEF D!Busy
<1> QED BY <1>1, <1>2 DEF D!Busy

\* Steps that have nothing to do with shares.
LEMMA DocQuiet ==
  ASSUME SharesBound, NEW c \in Client, \A b \in Client \ {c} : call'[b] = call[b],
         ~ShareOp(call[c]), ~ShareOp(call'[c]),
         UNCHANGED <<link, share, tuple, disturbed>>,
         \A e \in Doc : MayLive(e)' => MayLive(e)
  PROVE  SharesBound'
<1> SUFFICES ASSUME NEW e \in Doc, MayLive(e)', Undisturbed(e)' PROVE DocBound(e)'
  BY DEF SharesBound
<1>1. \A n \in Member : c \notin D!Busy(e, n) /\ c \notin D!Busy(e, n)'
  BY DEF D!Busy, ShareOp
<1>2. \A n \in Member : D!Busy(e, n)' = D!Busy(e, n)
  BY <1>1 DEF D!Busy
<1>3. \A n \in Member : \A b \in D!Busy(e, n) : call'[b] = call[b]
  BY <1>1 DEF D!Busy
<1>4. Undisturbed(e)' => Undisturbed(e)
  BY DEF Undisturbed
<1>5. \A n \in Member : share'[<<e, n>>] = share[<<e, n>>]
  OBVIOUS
<1>6. \A rel \in D!Relation : \A x : <<e, rel, x>> \in tuple' <=> <<e, rel, x>> \in tuple
  OBVIOUS
<1> QED BY <1>2, <1>3, <1>4, <1>5, <1>6, DocFrame

\* Steps that have nothing to do with creates.
LEMMA RowsFrame ==
  ASSUME RowsOwned, UNCHANGED <<doc, drawn, owned>>,
         \A b \in Client : call'[b].op = "create" => call'[b] = call[b]
  PROVE  RowsOwned' /\ \A e \in Doc : MayLive(e)' => MayLive(e)
<1>1. \A b \in Client, e \in Doc : Creating(b, e)' => Creating(b, e) /\ call'[b] = call[b]
  BY DEF Creating
<1> QED BY <1>1 DEF RowsOwned, MayLive

LEMMA CreateLookupDocs ==
  ASSUME DocsInv, NEW c \in Client, NEW d \in Doc, NEW k \in Key \cup {None},
         D!CreateLookup(c, d, k)
  PROVE  DocsInv'
<1>1. DocsType /\ LinkedOnce /\ RowsOwned /\ SharesBound
  BY DEF DocsInv
<1> DEFINE r == [op |-> "create", d |-> d, key |-> k, at |-> "grant"]
<1>2. /\ call[c] = D!Idle /\ d \notin drawn /\ drawn' = drawn \cup {d}
      /\ call' = [call EXCEPT ![c] = r]
      /\ UNCHANGED <<link, doc, owned, share, tuple, edits, disturbed>>
  BY DEF D!CreateLookup, D!Begin
<1>3. r \in CreateCall /\ r.op = "create" /\ r.d = d /\ r.at = "grant"
  BY DEF CreateCall
<1>4. r \in DocCall
  BY <1>3 DEF DocCall
<1> HIDE DEF r
<1>5. call'[c] = r /\ call' \in [Client -> DocCall] /\ \A b \in Client \ {c} : call'[b] = call[b]
  BY <1>1, <1>2, <1>4, DocSet DEF DocsType
<1>6. DocsType' /\ LinkedOnce'
  BY <1>1, <1>2, <1>5 DEF DocsType, LinkedOnce
<1>7. doc[d] = None /\ d \notin owned /\ \A b \in Client : ~Creating(b, d)
  BY <1>1, <1>2 DEF RowsOwned, DocsType
<1>8. \A b \in Client, e \in Doc : Creating(b, e)' <=> IF b = c THEN e = d ELSE Creating(b, e)
  BY <1>3, <1>5 DEF Creating
<1>8a. \A e \in Doc : ~Creating(c, e)
  BY <1>2, DocIdle DEF Creating
<1>9. RowsOwned'
  <2>1. \A e \in Doc : doc'[e] # None => e \in owned'
    BY <1>1, <1>2 DEF RowsOwned
  <2>2. ASSUME NEW e \in Doc, NEW b \in Client, Creating(b, e)'
        PROVE  /\ e \in drawn' /\ doc'[e] = None
               /\ call'[b].at = "insert" => e \in owned'
               /\ \A a \in Client \ {b} : ~Creating(a, e)'
    <3>1. CASE b = c
      <4>1. e = d /\ call'[b].at = "grant"
        BY <1>3, <1>5, <1>8, <2>2, <3>1
      <4> QED BY <1>2, <1>7, <1>8, <3>1, <4>1
    <3>2. CASE b # c
      <4>1. Creating(b, e) /\ call'[b] = call[b]
        BY <1>5, <1>8, <2>2, <3>2
      <4>2. e # d
        BY <1>7, <4>1
      <4> QED BY <1>1, <1>2, <1>8, <4>1, <4>2 DEF RowsOwned
    <3> QED BY <3>1, <3>2
  <2> QED BY <2>1, <2>2 DEF RowsOwned
<1>10. \A e \in Doc : MayLive(e)' => MayLive(e)
  BY <1>2, <1>8 DEF MayLive
<1>11. ~ShareOp(call[c]) /\ ~ShareOp(call'[c])
  BY <1>2, <1>3, <1>5, DocIdle DEF ShareOp
<1>12. SharesBound'
  BY <1>1, <1>2, <1>5, <1>10, <1>11, DocQuiet
<1> QED BY <1>6, <1>9, <1>12 DEF DocsInv

LEMMA CreateGrantDocs ==
  ASSUME DocsInv, NEW c \in Client, D!CreateGrant(c)
  PROVE  DocsInv'
<1>1. DocsType /\ LinkedOnce /\ RowsOwned /\ SharesBound
  BY DEF DocsInv
<1>0. PICK d : d = call[c].d
  OBVIOUS
<1>2. /\ call[c].op = "create" /\ owned' = owned \cup {d} /\ D!Goto(c, "insert")
      /\ UNCHANGED <<link, doc, drawn, share, tuple, disturbed>>
  BY <1>0 DEF D!CreateGrant
<1>3. call[c] \in CreateCall
  BY <1>1, <1>2, DocCallKinds DEF DocsType
<1>4. d \in Doc
  BY <1>0, <1>3 DEF CreateCall
<1>5. /\ call'[c].op = "create" /\ call'[c].d = d /\ call' \in [Client -> DocCall]
      /\ \A b \in Client \ {c} : call'[b] = call[b]
  BY <1>0, <1>1, <1>2, DocGoto DEF DocsType
<1>6. \A b \in Client, e \in Doc : Creating(b, e)' <=> Creating(b, e)
  BY <1>0, <1>2, <1>5 DEF Creating
<1>7. Creating(c, d)
  BY <1>0, <1>2 DEF Creating
<1>8. DocsType' /\ LinkedOnce'
  <2>1. d \in drawn
    BY <1>1, <1>4, <1>7 DEF RowsOwned
  <2> QED BY <1>1, <1>2, <1>5, <2>1 DEF DocsType, LinkedOnce
<1>9. RowsOwned'
  <2>1. \A e \in Doc : doc'[e] # None => e \in owned'
    BY <1>1, <1>2 DEF RowsOwned
  <2>2. ASSUME NEW e \in Doc, NEW b \in Client, Creating(b, e)'
        PROVE  /\ e \in drawn' /\ doc'[e] = None
               /\ call'[b].at = "insert" => e \in owned'
               /\ \A a \in Client \ {b} : ~Creating(a, e)'
    <3>0. Creating(b, e)
      BY <1>6, <2>2
    <3>1. CASE b = c
      <4>1. e = d
        BY <1>0, <3>0, <3>1 DEF Creating
      <4> QED BY <1>1, <1>2, <1>6, <3>0, <4>1 DEF RowsOwned
    <3>2. CASE b # c
      BY <1>1, <1>2, <1>5, <1>6, <3>0, <3>2 DEF RowsOwned
    <3> QED BY <3>1, <3>2
  <2> QED BY <2>1, <2>2 DEF RowsOwned
<1>10. \A e \in Doc : MayLive(e)' => MayLive(e)
  BY <1>2, <1>6 DEF MayLive
<1>11. ~ShareOp(call[c]) /\ ~ShareOp(call'[c])
  BY <1>2, <1>5 DEF ShareOp
<1>12. SharesBound'
  BY <1>1, <1>2, <1>5, <1>10, <1>11, DocQuiet
<1> QED BY <1>8, <1>9, <1>12 DEF DocsInv

LEMMA CreateInsertDocs ==
  ASSUME DocsInv, NEW c \in Client, D!CreateInsert(c)
  PROVE  DocsInv'
<1>1. DocsType /\ LinkedOnce /\ RowsOwned /\ SharesBound
  BY DEF DocsInv
<1>0. PICK d, k : d = call[c].d /\ k = call[c].key
  OBVIOUS
<1>2. /\ call[c].op = "create" /\ call[c].at = "insert" /\ doc' = [doc EXCEPT ![d] = [key |-> k]]
      /\ call' = [call EXCEPT ![c] = D!Idle]
      /\ UNCHANGED <<link, drawn, owned, share, tuple, disturbed>>
  BY <1>0 DEF D!CreateInsert, D!End
<1>3. call[c] \in CreateCall
  BY <1>1, <1>2, DocCallKinds DEF DocsType
<1>4. d \in Doc /\ [key |-> k] \in DocRow
  BY <1>0, <1>3 DEF CreateCall, DocRow
<1>5. /\ call'[c] = D!Idle /\ call' \in [Client -> DocCall]
      /\ \A b \in Client \ {c} : call'[b] = call[b]
  BY <1>1, <1>2, DocSet, DocIdle DEF DocsType
<1>6. \A b \in Client, e \in Doc : Creating(b, e)' <=> b # c /\ Creating(b, e)
  BY <1>5, DocIdle DEF Creating
<1>7. Creating(c, d)
  BY <1>0, <1>2 DEF Creating
<1>7a. doc'[d] # None /\ \A e \in Doc \ {d} : doc'[e] = doc[e]
  BY <1>1, <1>2, <1>4, DocsConstantFacts DEF DocsType
<1>8. DocsType' /\ LinkedOnce'
  BY <1>1, <1>2, <1>4, <1>5 DEF DocsType, LinkedOnce
<1>9. RowsOwned'
  <2>0. d \in owned /\ d \in drawn /\ \A a \in Client \ {c} : ~Creating(a, d)
    BY <1>1, <1>2, <1>4, <1>7 DEF RowsOwned
  <2>1. \A e \in Doc : doc'[e] # None => e \in owned'
    BY <1>1, <1>2, <1>7a, <2>0 DEF RowsOwned
  <2>2. ASSUME NEW e \in Doc, NEW b \in Client, Creating(b, e)'
        PROVE  /\ e \in drawn' /\ doc'[e] = None
               /\ call'[b].at = "insert" => e \in owned'
               /\ \A a \in Client \ {b} : ~Creating(a, e)'
    <3>1. Creating(b, e) /\ b # c
      BY <1>6, <2>2
    <3>2. e # d
      BY <2>0, <3>1
    <3> QED BY <1>1, <1>2, <1>5, <1>6, <1>7a, <3>1, <3>2 DEF RowsOwned
  <2> QED BY <2>1, <2>2 DEF RowsOwned
<1>10. \A e \in Doc : MayLive(e)' => MayLive(e)
  BY <1>2, <1>6, <1>7, <1>7a DEF MayLive
<1>11. ~ShareOp(call[c]) /\ ~ShareOp(call'[c])
  BY <1>2, <1>5, DocIdle DEF ShareOp
<1>12. SharesBound'
  BY <1>1, <1>2, <1>5, <1>10, <1>11, DocQuiet
<1> QED BY <1>8, <1>9, <1>12 DEF DocsInv

\* Updates, and requests other than shares and revokes that end early.
LEMMA UpdateDocs ==
  ASSUME DocsInv, NEW c \in Client, NEW k \in DocCall, call' = [call EXCEPT ![c] = k],
         ~ShareOp(call[c]), ~ShareOp(k), k.op # "create",
         UNCHANGED <<link, doc, drawn, owned, share, tuple, disturbed>>
  PROVE  DocsInv'
<1>1. DocsType /\ LinkedOnce /\ RowsOwned /\ SharesBound
  BY DEF DocsInv
<1>2. call'[c] = k /\ call' \in [Client -> DocCall] /\ \A b \in Client \ {c} : call'[b] = call[b]
  BY <1>1, DocSet DEF DocsType
<1>3. DocsType' /\ LinkedOnce'
  BY <1>1, <1>2 DEF DocsType, LinkedOnce
<1>4. RowsOwned' /\ \A e \in Doc : MayLive(e)' => MayLive(e)
  BY <1>1, <1>2, RowsFrame
<1>5. SharesBound'
  BY <1>1, <1>2, <1>4, DocQuiet
<1> QED BY <1>3, <1>4, <1>5 DEF DocsInv

LEMMA DeleteDocs ==
  ASSUME DocsInv, NEW d \in Doc, D!DeleteDocument(d)
  PROVE  DocsInv'
<1>1. DocsType /\ LinkedOnce /\ RowsOwned /\ SharesBound
  BY DEF DocsInv
<1>2. /\ doc[d] # None /\ doc' = [doc EXCEPT ![d] = None]
      /\ share' = [p \in Doc \X Member |-> IF p[1] = d THEN None ELSE share[p]]
      /\ UNCHANGED <<link, drawn, owned, tuple, call, disturbed>>
  BY DEF D!DeleteDocument
<1>3. DocsType' /\ LinkedOnce'
  BY <1>1, <1>2 DEF DocsType, LinkedOnce
<1>4. doc'[d] = None /\ \A e \in Doc \ {d} : doc'[e] = doc[e]
  BY <1>1, <1>2 DEF DocsType
<1>5. \A b \in Client, e \in Doc : Creating(b, e)' <=> Creating(b, e)
  BY <1>2 DEF Creating
<1>6. RowsOwned'
  <2>1. \A e \in Doc : doc'[e] # None => e \in owned'
    BY <1>1, <1>2, <1>4 DEF RowsOwned
  <2>2. ASSUME NEW e \in Doc, NEW b \in Client, Creating(b, e)'
        PROVE  /\ e \in drawn' /\ doc'[e] = None
               /\ call'[b].at = "insert" => e \in owned'
               /\ \A a \in Client \ {b} : ~Creating(a, e)'
    BY <1>1, <1>2, <1>4, <1>5, <2>2 DEF RowsOwned
  <2> QED BY <2>1, <2>2 DEF RowsOwned
<1>7. ~MayLive(d)'
  <2>1. d \in drawn /\ \A b \in Client : ~Creating(b, d)
    BY <1>1, <1>2 DEF RowsOwned, DocsType
  <2> QED BY <1>2, <1>4, <1>5, <2>1 DEF MayLive
<1>8. SharesBound'
  <2> SUFFICES ASSUME NEW e \in Doc, MayLive(e)', Undisturbed(e)' PROVE DocBound(e)'
    BY DEF SharesBound
  <2>1. e # d
    BY <1>7
  <2>2. MayLive(e)' => MayLive(e)
    BY <1>2, <1>4, <1>5, <2>1 DEF MayLive
  <2>3. Undisturbed(e)' => Undisturbed(e)
    BY <1>2 DEF Undisturbed
  <2>4. \A n \in Member : share'[<<e, n>>] = share[<<e, n>>]
    BY <1>2, <2>1
  <2>5. /\ \A n \in Member : D!Busy(e, n)' = D!Busy(e, n)
        /\ \A n \in Member : \A b \in D!Busy(e, n) : call'[b] = call[b]
    BY <1>2 DEF D!Busy
  <2>6. \A rel \in D!Relation : \A x : <<e, rel, x>> \in tuple' <=> <<e, rel, x>> \in tuple
    BY <1>2
  <2>7. link' = link
    BY <1>2
  <2> QED BY <1>1, <2>2, <2>3, <2>4, <2>5, <2>6, <2>7, DocFrame
<1> QED BY <1>3, <1>6, <1>8 DEF DocsInv

-------------------------------------------------------------------------------

LEMMA BeginShareDocs ==
  ASSUME DocsInv, NEW c \in Client, NEW d \in Doc, NEW m \in Member, NEW k \in DocCall,
         call[c] = D!Idle, call' = [call EXCEPT ![c] = k],
         ShareOp(k), k.d = d, k.m = m, k.u = link[m],
         D!Overlap(d, m), UNCHANGED <<link, doc, drawn, owned, share, tuple>>,
         ShareBound(d, m) /\ D!Busy(d, m) = {} => link[m] # None /\ HeldAt(k, Rels(d, link[m]))
  PROVE  DocsInv'
<1>1. DocsType /\ LinkedOnce /\ RowsOwned /\ SharesBound
  BY DEF DocsInv
<1>2. call'[c] = k /\ call' \in [Client -> DocCall] /\ \A b \in Client \ {c} : call'[b] = call[b]
  BY <1>1, DocSet DEF DocsType
<1>3. DocsType' /\ LinkedOnce'
  BY <1>1, <1>2 DEF DocsType, LinkedOnce
<1>4. RowsOwned' /\ \A e \in Doc : MayLive(e)' => MayLive(e)
  <2>1. \A b \in Client : call'[b].op = "create" => call'[b] = call[b]
    BY <1>2 DEF ShareOp
  <2> QED BY <1>1, <2>1, RowsFrame
<1>5. ~ShareOp(call[c])
  BY DocIdle DEF ShareOp
<1>6. \A e \in Doc : Undisturbed(e)' => Undisturbed(e)
  BY DEF Undisturbed, D!Overlap
<1>7. \A e \in Doc, n \in Member : e # d \/ n # m =>
            /\ D!Busy(e, n)' = D!Busy(e, n)
            /\ \A b \in D!Busy(e, n) : call'[b] = call[b]
  BY <1>2, <1>5, BusyFocus
<1>8. ASSUME MayLive(d)', Undisturbed(d)' PROVE link[m] # None /\ ShareBound(d, m)'
  <2>1. DocBound(d)
    BY <1>1, <1>4, <1>6, <1>8 DEF SharesBound
  <2>2. ShareBound(d, m)
    BY <2>1 DEF DocBound
  <2>3. D!Busy(d, m) = {}
    BY <1>8 DEF Undisturbed, D!Overlap
  <2>4. link[m] # None /\ HeldAt(k, Rels(d, link[m]))
    BY <2>2, <2>3
  <2>5. D!Busy(d, m)' = {c}
    BY <1>2, <2>3 DEF D!Busy, ShareOp
  <2>6. Rels(d, link[m])' = Rels(d, link[m])
    BY DEF Rels
  <2>7. HeldAt(call[c], Rels(d, link[m]))'
    BY <1>2, <2>4, <2>6 DEF HeldAt
  <2> QED BY <1>2, <2>4, <2>5, <2>7 DEF ShareBound
<1>9. \A e \in Doc, n \in Member : e # d \/ n # m =>
            /\ share'[<<e, n>>] = share[<<e, n>>]
            /\ D!Busy(e, n)' = D!Busy(e, n)
            /\ \A b \in D!Busy(e, n) : call'[b] = call[b]
  BY <1>7
<1>10. \A e \in Doc, rel \in D!Relation : \A x :
            e # d \/ x # link[m] => (<<e, rel, x>> \in tuple' <=> <<e, rel, x>> \in tuple)
  OBVIOUS
<1>11. SharesBound'
  BY <1>1, <1>4, <1>6, <1>8, <1>9, <1>10, DocFocus
<1> QED BY <1>3, <1>4, <1>11 DEF DocsInv

LEMMA ShareLookupDocs ==
  ASSUME DocsInv, NEW c \in Client, NEW d \in Doc, NEW m \in Member, NEW rel \in D!Relation,
         NEW key1 \in Key \cup {None}, D!ShareLookup(c, d, m, rel, key1)
  PROVE  DocsInv'
<1>1. DocsType
  BY DEF DocsInv
<1>2. PICK old : old = IF share[<<d, m>>] = None THEN rel ELSE share[<<d, m>>].rel
  OBVIOUS
<1>3. PICK at : at = IF old = rel THEN "grant" ELSE "revoke"
  OBVIOUS
<1> DEFINE k == [op |-> "share", d |-> d, m |-> m, u |-> link[m], rel |-> rel, key |-> key1,
                 old |-> old, at |-> at]
<1>4. /\ call[c] = D!Idle /\ link[m] # None /\ call' = [call EXCEPT ![c] = k]
      /\ D!Overlap(d, m) /\ UNCHANGED <<link, doc, drawn, owned, share, tuple>>
  BY <1>2, <1>3 DEF D!ShareLookup, D!Begin
<1>5. share[<<d, m>>] # None => share[<<d, m>>].rel \in D!Relation
  BY <1>1 DEF DocsType, ShareRow
<1>6. old \in D!Relation /\ at \in {"revoke", "grant", "record"} /\ link[m] \in User
  BY <1>1, <1>2, <1>3, <1>4, <1>5 DEF DocsType
<1>7. k \in ShareCall
  BY <1>6 DEF ShareCall
<1>8. /\ k.op = "share" /\ k.d = d /\ k.m = m /\ k.u = link[m] /\ k.rel = rel
      /\ k.old = old /\ k.at = at
  OBVIOUS
<1> HIDE DEF k
<1>9. k \in DocCall /\ ShareOp(k)
  BY <1>7, <1>8 DEF DocCall, ShareOp
<1>10. ASSUME ShareBound(d, m), D!Busy(d, m) = {} PROVE HeldAt(k, Rels(d, link[m]))
  <2>1. Rels(d, link[m]) = IF share[<<d, m>>] = None THEN {} ELSE {share[<<d, m>>].rel}
    BY <1>4, <1>10 DEF ShareBound
  <2> QED BY <1>2, <1>3, <1>8, <2>1 DEF HeldAt
<1> QED BY <1>4, <1>8, <1>9, <1>10, BeginShareDocs

LEMMA RevokeReadDocs ==
  ASSUME DocsInv, NEW c \in Client, NEW d \in Doc, NEW m \in Member, D!RevokeRead(c, d, m)
  PROVE  DocsInv'
<1>1. DocsType
  BY DEF DocsInv
<1>2. PICK rel : rel = share[<<d, m>>].rel
  OBVIOUS
<1> DEFINE k == [op |-> "revoke", d |-> d, m |-> m, u |-> link[m], rel |-> rel, at |-> "revoke"]
<1>4. /\ call[c] = D!Idle /\ share[<<d, m>>] # None /\ call' = [call EXCEPT ![c] = k]
      /\ D!Overlap(d, m) /\ UNCHANGED <<link, doc, drawn, owned, share, tuple>>
  BY <1>2 DEF D!RevokeRead, D!Begin
<1>5. rel \in D!Relation /\ link[m] \in User \cup {None}
  BY <1>1, <1>2, <1>4 DEF DocsType, ShareRow
<1>7. k \in RevokeCall
  BY <1>5 DEF RevokeCall
<1>8. k.op = "revoke" /\ k.d = d /\ k.m = m /\ k.u = link[m] /\ k.rel = rel /\ k.at = "revoke"
  OBVIOUS
<1> HIDE DEF k
<1>9. k \in DocCall /\ ShareOp(k)
  BY <1>7, <1>8 DEF DocCall, ShareOp
<1>10. ASSUME ShareBound(d, m), D!Busy(d, m) = {}
       PROVE  link[m] # None /\ HeldAt(k, Rels(d, link[m]))
  <2>1. link[m] # None /\ Rels(d, link[m]) = {rel}
    BY <1>2, <1>4, <1>10 DEF ShareBound
  <2> QED BY <1>8, <2>1 DEF HeldAt
<1> QED BY <1>4, <1>8, <1>9, <1>10, BeginShareDocs

\* A later step of a share or a revoke by request c, of a document, member and user.
ShareStep(c, d, m, u) ==
    /\ ShareOp(call[c]) /\ call[c].d = d /\ call[c].m = m /\ call[c].u = u
    /\ \A b \in Client \ {c} : call'[b] = call[b]
    /\ call' \in [Client -> DocCall]
    /\ ShareOp(call'[c]) => call'[c].d = d /\ call'[c].m = m
    /\ call'[c].op # "create"
    /\ UNCHANGED <<link, doc, drawn, owned, disturbed>>
    /\ share' \in [Doc \X Member -> ShareRow \cup {None}]
    /\ \A e \in Doc, n \in Member : e # d \/ n # m => share'[<<e, n>>] = share[<<e, n>>]
    /\ tuple' \in SUBSET (Doc \X D!Relation \X User)
    /\ \A e \in Doc, rel \in D!Relation : \A x :
         e # d \/ x # u => (<<e, rel, x>> \in tuple' <=> <<e, rel, x>> \in tuple)
    /\ D!Busy(d, m) = {c} /\ link[m] = u /\ u # None /\ HeldAt(call[c], Rels(d, u))
         => ShareBound(d, m)'

LEMMA ShareStepDocs ==
  ASSUME DocsInv, NEW c \in Client, NEW d \in Doc, NEW m \in Member, NEW u,
         ShareStep(c, d, m, u)
  PROVE  DocsInv'
<1> USE DEF ShareStep
<1>1. DocsType /\ LinkedOnce /\ RowsOwned /\ SharesBound
  BY DEF DocsInv
<1>3. DocsType' /\ LinkedOnce'
  BY <1>1 DEF DocsType, LinkedOnce
<1>4. RowsOwned' /\ \A e \in Doc : MayLive(e)' => MayLive(e)
  <2>1. \A b \in Client : call'[b].op = "create" => call'[b] = call[b]
    OBVIOUS
  <2> QED BY <1>1, <2>1, RowsFrame
<1>6. \A e \in Doc : Undisturbed(e)' => Undisturbed(e)
  BY DEF Undisturbed
<1>7. \A e \in Doc, n \in Member : e # d \/ n # m =>
            /\ D!Busy(e, n)' = D!Busy(e, n)
            /\ \A b \in D!Busy(e, n) : call'[b] = call[b]
  <2>1. /\ \A b \in Client \ {c} : call'[b] = call[b]
        /\ ShareOp(call[c]) => call[c].d = d /\ call[c].m = m
        /\ ShareOp(call'[c]) => call'[c].d = d /\ call'[c].m = m
    OBVIOUS
  <2> HIDE DEF ShareStep
  <2> QED BY <2>1, BusyFocus
<1>8. ASSUME MayLive(d)', Undisturbed(d)' PROVE link[m] = u /\ u # None /\ ShareBound(d, m)'
  <2>1. DocBound(d)
    BY <1>1, <1>4, <1>6, <1>8 DEF SharesBound
  <2>2. ShareBound(d, m)
    BY <2>1 DEF DocBound
  <2>3. c \in D!Busy(d, m)
    BY DEF D!Busy, ShareOp
  <2>4. D!Busy(d, m) = {c} /\ link[m] # None /\ u = link[m] /\ HeldAt(call[c], Rels(d, link[m]))
    BY <2>2, <2>3 DEF ShareBound
  <2> QED BY <2>4
<1>9. \A e \in Doc, n \in Member : e # d \/ n # m =>
            /\ share'[<<e, n>>] = share[<<e, n>>]
            /\ D!Busy(e, n)' = D!Busy(e, n)
            /\ \A b \in D!Busy(e, n) : call'[b] = call[b]
  BY <1>7
<1>10. /\ link' = link
       /\ \A e \in Doc, rel \in D!Relation : \A x :
            e # d \/ x # u => (<<e, rel, x>> \in tuple' <=> <<e, rel, x>> \in tuple)
       /\ MayLive(d)' /\ Undisturbed(d)' => link[m] = u /\ u # None /\ ShareBound(d, m)'
       /\ \A e \in Doc : MayLive(e)' => MayLive(e)
  BY <1>4, <1>8
<1>11. SharesBound'
  BY ONLY <1>1, <1>6, <1>9, <1>10, DocFocus, d \in Doc, m \in Member
<1> QED BY <1>3, <1>4, <1>11 DEF DocsInv

\* What a request knows.
LEMMA ShareFields ==
  ASSUME DocsType, NEW c \in Client, ShareOp(call[c])
  PROVE  /\ call[c].d \in Doc /\ call[c].m \in Member /\ call[c].rel \in D!Relation
         /\ call[c].u \in User \cup {None}
         /\ call[c].op = "share" =>
              /\ call[c].u \in User /\ call[c].old \in D!Relation /\ call[c].key \in Key \cup {None}
<1>1. call[c] \in ShareCall \cup RevokeCall /\ (call[c].op = "share" => call[c] \in ShareCall)
  BY DocCallKinds DEF DocsType, ShareOp
<1> QED BY <1>1 DEF ShareCall, RevokeCall

LEMMA ShareRevokeOldDocs ==
  ASSUME DocsInv, NEW c \in Client, D!ShareRevokeOld(c)
  PROVE  DocsInv'
<1>1. DocsType
  BY DEF DocsInv
<1>2. PICK d, m, u, old : d = call[c].d /\ m = call[c].m /\ u = call[c].u /\ old = call[c].old
  OBVIOUS
<1>3. /\ call[c].op = "share" /\ call[c].at = "revoke"
      /\ tuple' = tuple \ {<<d, old, u>>} /\ D!Goto(c, "grant")
      /\ UNCHANGED <<link, doc, drawn, owned, share, disturbed>>
  BY <1>2 DEF D!ShareRevokeOld
<1>4. ShareOp(call[c])
  BY <1>3 DEF ShareOp
<1>5. d \in Doc /\ m \in Member /\ u \in User /\ old \in D!Relation
  BY <1>1, <1>2, <1>3, <1>4, ShareFields
<1>6. /\ call'[c].op = "share" /\ call'[c].at = "grant" /\ call'[c].d = d /\ call'[c].m = m
      /\ call'[c].u = u /\ call' \in [Client -> DocCall]
      /\ \A b \in Client \ {c} : call'[b] = call[b]
  BY <1>1, <1>2, <1>3, DocGoto DEF DocsType
<1>7. ASSUME D!Busy(d, m) = {c}, link[m] = u, u # None, HeldAt(call[c], Rels(d, u))
      PROVE  ShareBound(d, m)'
  <2>1. D!Busy(d, m)' = {c}
    BY <1>6, <1>7 DEF D!Busy
  <2>2. Rels(d, u) = {old}
    BY <1>2, <1>3, <1>7 DEF HeldAt
  <2>3. Rels(d, link[m])' = {}
    BY <1>3, <1>7, <2>2 DEF Rels
  <2>4. HeldAt(call[c], Rels(d, link[m]))'
    BY <1>6, <2>3 DEF HeldAt
  <2> QED BY <1>3, <1>6, <1>7, <2>1, <2>4 DEF ShareBound
<1>8. /\ tuple' \in SUBSET (Doc \X D!Relation \X User)
      /\ share' \in [Doc \X Member -> ShareRow \cup {None}]
      /\ \A e \in Doc, n \in Member : e # d \/ n # m => share'[<<e, n>>] = share[<<e, n>>]
      /\ \A e \in Doc, rel \in D!Relation : \A x :
            e # d \/ x # u => (<<e, rel, x>> \in tuple' <=> <<e, rel, x>> \in tuple)
  BY <1>1, <1>3 DEF DocsType
<1>9. call'[c].op # "create" /\ UNCHANGED <<link, doc, drawn, owned, disturbed>>
  BY <1>3, <1>6
<1>10. ShareStep(c, d, m, u)
  BY <1>2, <1>4, <1>5, <1>6, <1>7, <1>8, <1>9 DEF ShareStep
<1> QED BY <1>5, <1>10, ShareStepDocs

LEMMA ShareGrantDocs ==
  ASSUME DocsInv, NEW c \in Client, D!ShareGrant(c)
  PROVE  DocsInv'
<1>1. DocsType
  BY DEF DocsInv
<1>2. PICK d, m, u, rel1 : d = call[c].d /\ m = call[c].m /\ u = call[c].u /\ rel1 = call[c].rel
  OBVIOUS
<1>3. /\ call[c].op = "share" /\ call[c].at = "grant"
      /\ tuple' = tuple \cup {<<d, rel1, u>>} /\ D!Goto(c, "record")
      /\ UNCHANGED <<link, doc, drawn, owned, share, disturbed>>
  BY <1>2 DEF D!ShareGrant
<1>4. ShareOp(call[c])
  BY <1>3 DEF ShareOp
<1>5. d \in Doc /\ m \in Member /\ u \in User /\ rel1 \in D!Relation
  BY <1>1, <1>2, <1>3, <1>4, ShareFields
<1>6. /\ call'[c].op = "share" /\ call'[c].at = "record" /\ call'[c].d = d /\ call'[c].m = m
      /\ call'[c].u = u /\ call'[c].rel = rel1 /\ call' \in [Client -> DocCall]
      /\ \A b \in Client \ {c} : call'[b] = call[b]
  BY <1>1, <1>2, <1>3, DocGoto DEF DocsType
<1>7. ASSUME D!Busy(d, m) = {c}, link[m] = u, u # None, HeldAt(call[c], Rels(d, u))
      PROVE  ShareBound(d, m)'
  <2>1. D!Busy(d, m)' = {c}
    BY <1>6, <1>7 DEF D!Busy
  <2>2. Rels(d, u) \subseteq {rel1}
    BY <1>2, <1>3, <1>7 DEF HeldAt
  <2>3. Rels(d, link[m])' = {rel1}
    BY <1>3, <1>5, <1>7, <2>2 DEF Rels
  <2>4. HeldAt(call[c], Rels(d, link[m]))'
    BY <1>6, <2>3 DEF HeldAt
  <2> QED BY <1>3, <1>6, <1>7, <2>1, <2>4 DEF ShareBound
<1>8. /\ tuple' \in SUBSET (Doc \X D!Relation \X User)
      /\ share' \in [Doc \X Member -> ShareRow \cup {None}]
      /\ \A e \in Doc, n \in Member : e # d \/ n # m => share'[<<e, n>>] = share[<<e, n>>]
      /\ \A e \in Doc, rel \in D!Relation : \A x :
            e # d \/ x # u => (<<e, rel, x>> \in tuple' <=> <<e, rel, x>> \in tuple)
  BY <1>1, <1>3, <1>5 DEF DocsType
<1>9. call'[c].op # "create" /\ UNCHANGED <<link, doc, drawn, owned, disturbed>>
  BY <1>3, <1>6
<1>10. ShareStep(c, d, m, u)
  BY <1>2, <1>4, <1>5, <1>6, <1>7, <1>8, <1>9 DEF ShareStep
<1> QED BY <1>5, <1>10, ShareStepDocs

LEMMA RevokeTupleDocs ==
  ASSUME DocsInv, NEW c \in Client, D!RevokeTuple(c)
  PROVE  DocsInv'
<1>1. DocsType
  BY DEF DocsInv
<1>2. PICK d, m, u, rel1 : d = call[c].d /\ m = call[c].m /\ u = call[c].u /\ rel1 = call[c].rel
  OBVIOUS
<1>3. /\ call[c].op = "revoke" /\ call[c].at = "revoke"
      /\ tuple' = tuple \ {<<d, rel1, u>>} /\ D!Goto(c, "remove")
      /\ UNCHANGED <<link, doc, drawn, owned, share, disturbed>>
  BY <1>2 DEF D!RevokeTuple
<1>4. ShareOp(call[c])
  BY <1>3 DEF ShareOp
<1>5. d \in Doc /\ m \in Member
  BY <1>1, <1>2, <1>3, <1>4, ShareFields
<1>6. /\ call'[c].op = "revoke" /\ call'[c].at = "remove" /\ call'[c].d = d /\ call'[c].m = m
      /\ call'[c].u = u /\ call' \in [Client -> DocCall]
      /\ \A b \in Client \ {c} : call'[b] = call[b]
  BY <1>1, <1>2, <1>3, DocGoto DEF DocsType
<1>7. ASSUME D!Busy(d, m) = {c}, link[m] = u, u # None, HeldAt(call[c], Rels(d, u))
      PROVE  ShareBound(d, m)'
  <2>1. D!Busy(d, m)' = {c}
    BY <1>6, <1>7 DEF D!Busy
  <2>2. Rels(d, u) = {rel1}
    BY <1>2, <1>3, <1>7 DEF HeldAt
  <2>3. Rels(d, link[m])' = {}
    BY <1>3, <1>7, <2>2 DEF Rels
  <2>4. HeldAt(call[c], Rels(d, link[m]))'
    BY <1>6, <2>3 DEF HeldAt
  <2> QED BY <1>3, <1>6, <1>7, <2>1, <2>4 DEF ShareBound
<1>8. /\ tuple' \in SUBSET (Doc \X D!Relation \X User)
      /\ share' \in [Doc \X Member -> ShareRow \cup {None}]
      /\ \A e \in Doc, n \in Member : e # d \/ n # m => share'[<<e, n>>] = share[<<e, n>>]
      /\ \A e \in Doc, rel \in D!Relation : \A x :
            e # d \/ x # u => (<<e, rel, x>> \in tuple' <=> <<e, rel, x>> \in tuple)
  BY <1>1, <1>3 DEF DocsType
<1>9. call'[c].op # "create" /\ UNCHANGED <<link, doc, drawn, owned, disturbed>>
  BY <1>3, <1>6
<1>10. ShareStep(c, d, m, u)
  BY <1>2, <1>4, <1>5, <1>6, <1>7, <1>8, <1>9 DEF ShareStep
<1> QED BY <1>5, <1>10, ShareStepDocs

\* The last step of either writes or removes the row.
LEMMA ShareEndDocs ==
  ASSUME DocsInv, NEW c \in Client, NEW row \in ShareRow \cup {None}, ShareOp(call[c]),
         share' = [share EXCEPT ![<<call[c].d, call[c].m>>] = row],
         call' = [call EXCEPT ![c] = D!Idle],
         UNCHANGED <<link, doc, drawn, owned, tuple, disturbed>>,
         \A rels : HeldAt(call[c], rels) => rels = IF row = None THEN {} ELSE {row.rel}
  PROVE  DocsInv'
<1>1. DocsType
  BY DEF DocsInv
<1>2. PICK d, m, u : d = call[c].d /\ m = call[c].m /\ u = call[c].u
  OBVIOUS
<1>3. d \in Doc /\ m \in Member
  BY <1>1, <1>2, ShareFields
<1>4. share' = [share EXCEPT ![<<d, m>>] = row]
  BY <1>2
<1>5. /\ share'[<<d, m>>] = row
      /\ share' \in [Doc \X Member -> ShareRow \cup {None}]
      /\ \A e \in Doc, n \in Member : e # d \/ n # m => share'[<<e, n>>] = share[<<e, n>>]
  BY <1>1, <1>3, <1>4 DEF DocsType
<1>6. /\ call'[c] = D!Idle /\ call' \in [Client -> DocCall]
      /\ \A b \in Client \ {c} : call'[b] = call[b]
  BY <1>1, DocSet, DocIdle DEF DocsType
<1>7. ASSUME D!Busy(d, m) = {c}, link[m] = u, u # None, HeldAt(call[c], Rels(d, u))
      PROVE  ShareBound(d, m)'
  <2>1. D!Busy(d, m)' = {}
    BY <1>6, <1>7, DocIdle DEF D!Busy
  <2>2. Rels(d, u) = IF row = None THEN {} ELSE {row.rel}
    BY <1>7
  <2>3. Rels(d, link[m])' = Rels(d, u)
    BY <1>7 DEF Rels
  <2> QED BY <1>5, <1>7, <2>1, <2>2, <2>3 DEF ShareBound
<1>8. /\ tuple' \in SUBSET (Doc \X D!Relation \X User)
      /\ \A e \in Doc, rel \in D!Relation : \A x :
            e # d \/ x # u => (<<e, rel, x>> \in tuple' <=> <<e, rel, x>> \in tuple)
  BY <1>1 DEF DocsType
<1>9. call'[c].op # "create" /\ ~ShareOp(call'[c]) /\ UNCHANGED <<link, doc, drawn, owned, disturbed>>
  BY <1>6, DocIdle DEF ShareOp
<1>10. ShareStep(c, d, m, u)
  BY <1>2, <1>5, <1>6, <1>7, <1>8, <1>9 DEF ShareStep
<1> QED BY <1>3, <1>10, ShareStepDocs

LEMMA ShareRecordDocs ==
  ASSUME DocsInv, NEW c \in Client, D!ShareRecord(c)
  PROVE  DocsInv'
<1>1. call[c].op = "share" /\ call[c].at = "record"
  BY DEF D!ShareRecord
<1>2. ShareOp(call[c])
  BY <1>1 DEF ShareOp
<1> DEFINE row == [rel |-> call[c].rel, key |-> call[c].key]
<1>3. row \in ShareRow
  BY <1>1, <1>2, ShareFields DEF ShareRow, DocsInv
<1>4. row.rel = call[c].rel /\ row # None
  BY <1>3, DocsConstantFacts
<1>5. /\ share' = [share EXCEPT ![<<call[c].d, call[c].m>>] = row]
      /\ call' = [call EXCEPT ![c] = D!Idle]
      /\ UNCHANGED <<link, doc, drawn, owned, tuple, disturbed>>
  BY DEF D!ShareRecord, D!End
<1> HIDE DEF row
<1>6. \A rels : HeldAt(call[c], rels) => rels = IF row = None THEN {} ELSE {row.rel}
  BY <1>1, <1>4 DEF HeldAt
<1> QED BY <1>2, <1>3, <1>5, <1>6, ShareEndDocs

LEMMA RevokeRemoveDocs ==
  ASSUME DocsInv, NEW c \in Client, D!RevokeRemove(c)
  PROVE  DocsInv'
<1>1. call[c].op = "revoke" /\ call[c].at = "remove"
  BY DEF D!RevokeRemove
<1>2. ShareOp(call[c])
  BY <1>1 DEF ShareOp
<1>5. /\ share' = [share EXCEPT ![<<call[c].d, call[c].m>>] = None]
      /\ call' = [call EXCEPT ![c] = D!Idle]
      /\ UNCHANGED <<link, doc, drawn, owned, tuple, disturbed>>
  BY DEF D!RevokeRemove, D!End
<1>6. \A rels : HeldAt(call[c], rels) => rels = IF None = None THEN {} ELSE {None.rel}
  BY <1>1 DEF HeldAt
<1> QED BY <1>2, <1>5, <1>6, ShareEndDocs

LEMMA FailDocs ==
  ASSUME DocsInv, NEW c \in Client, D!Fail(c)
  PROVE  DocsInv'
<1>1. DocsType /\ LinkedOnce /\ RowsOwned /\ SharesBound
  BY DEF DocsInv
<1>2. /\ call' = [call EXCEPT ![c] = D!Idle]
      /\ UNCHANGED <<link, doc, drawn, owned, share, tuple>>
  BY DEF D!Fail, D!End
<1>3. CASE ~ShareOp(call[c])
  <2>1. disturbed' = disturbed
    BY <1>3 DEF D!Fail, ShareOp
  <2>2. ~ShareOp(D!Idle) /\ D!Idle.op # "create"
    BY DocIdle DEF ShareOp
  <2> QED BY <1>2, <1>3, <2>1, <2>2, DocIdle, UpdateDocs
<1>4. CASE ShareOp(call[c])
  <2>0. PICK d, m : d = call[c].d /\ m = call[c].m
    OBVIOUS
  <2>1. disturbed' = disturbed \cup {<<d, m>>}
    BY <1>4, <2>0 DEF D!Fail, ShareOp
  <2>2. d \in Doc /\ m \in Member
    BY <1>1, <1>4, <2>0, ShareFields
  <2>3. /\ call'[c] = D!Idle /\ call' \in [Client -> DocCall]
        /\ \A b \in Client \ {c} : call'[b] = call[b]
    BY <1>1, <1>2, DocSet, DocIdle DEF DocsType
  <2>4. DocsType' /\ LinkedOnce'
    BY <1>1, <1>2, <2>3 DEF DocsType, LinkedOnce
  <2>5. RowsOwned' /\ \A e \in Doc : MayLive(e)' => MayLive(e)
    <3>1. \A b \in Client : call'[b].op = "create" => call'[b] = call[b]
      BY <2>3, DocIdle
    <3> QED BY <1>1, <1>2, <3>1, RowsFrame
  <2>6. \A e \in Doc : Undisturbed(e)' => Undisturbed(e) /\ e # d
    BY <2>1, <2>2 DEF Undisturbed
  <2>7. ~ShareOp(call'[c])
    BY <2>3, DocIdle DEF ShareOp
  <2>8. \A e \in Doc, n \in Member : e # d \/ n # m =>
            /\ D!Busy(e, n)' = D!Busy(e, n)
            /\ \A b \in D!Busy(e, n) : call'[b] = call[b]
    BY <1>4, <2>0, <2>3, <2>7, BusyFocus
  <2>9. SharesBound'
    <3> SUFFICES ASSUME NEW e \in Doc, MayLive(e)', Undisturbed(e)' PROVE DocBound(e)'
      BY DEF SharesBound
    <3>1. e # d /\ (Undisturbed(e)' => Undisturbed(e)) /\ (MayLive(e)' => MayLive(e))
      BY <2>5, <2>6
    <3>2. /\ \A n \in Member : share'[<<e, n>>] = share[<<e, n>>]
          /\ \A n \in Member : D!Busy(e, n)' = D!Busy(e, n)
          /\ \A n \in Member : \A b \in D!Busy(e, n) : call'[b] = call[b]
      BY <1>2, <2>8, <3>1
    <3>3. /\ \A rel \in D!Relation : \A x : <<e, rel, x>> \in tuple' <=> <<e, rel, x>> \in tuple
          /\ link' = link
      BY <1>2
    <3> QED BY <1>1, <3>1, <3>2, <3>3, DocFrame
  <2> QED BY <2>4, <2>5, <2>9 DEF DocsInv
<1> QED BY <1>3, <1>4

\* The member is given another user: without a share and without a request at work
\* there is no tuple of the former user, and none yet of the new one.
LEMMA RelinkDocs ==
  ASSUME DocsInv, NEW m \in Member, NEW u \in User \cup {None}, D!Relink(m, u)
  PROVE  DocsInv'
<1>1. DocsType /\ LinkedOnce /\ RowsOwned /\ SharesBound
  BY DEF DocsInv
<1>2. /\ u # link[m] /\ (u # None => \A n \in Member : link[n] # u)
      /\ link' = [link EXCEPT ![m] = u]
      /\ disturbed' = disturbed \cup
            {p \in Doc \X {m} : share[p] # None \/ D!Busy(p[1], m) # {}}
      /\ UNCHANGED <<doc, drawn, owned, share, tuple, call>>
  BY DEF D!Relink
<1>3. link'[m] = u /\ \A n \in Member \ {m} : link'[n] = link[n]
  BY <1>1, <1>2 DEF DocsType
<1>4. DocsType'
  BY <1>1, <1>2 DEF DocsType
<1>5. LinkedOnce'
  BY <1>1, <1>2, <1>3 DEF LinkedOnce
<1>6. RowsOwned' /\ \A e \in Doc : MayLive(e)' => MayLive(e)
  BY <1>1, <1>2, RowsFrame
<1>7. SharesBound'
  <2> SUFFICES ASSUME NEW d \in Doc, MayLive(d)', Undisturbed(d)' PROVE DocBound(d)'
    BY DEF SharesBound
  <2>1. /\ Undisturbed(d) /\ share[<<d, m>>] = None /\ D!Busy(d, m) = {}
    <3>1. <<d, m>> \notin disturbed' /\ \A n \in Member : <<d, n>> \notin disturbed
      BY <1>2 DEF Undisturbed
    <3>2. <<d, m>> \in Doc \X {m} /\ <<d, m>>[1] = d
      OBVIOUS
    <3> QED BY <1>2, <3>1, <3>2 DEF Undisturbed
  <2>2. DocBound(d)
    BY <1>1, <1>6, <2>1 DEF SharesBound
  <2>3. \A n \in Member : D!Busy(d, n)' = D!Busy(d, n)
    BY <1>2 DEF D!Busy
  <2>4. link[m] # None => Rels(d, link[m]) = {}
    BY <2>1, <2>2 DEF DocBound, ShareBound
  <2>5. u # None => Rels(d, u) = {}
    <3>1. SUFFICES ASSUME u # None, NEW rel \in D!Relation, <<d, rel, u>> \in tuple PROVE FALSE
      BY DEF Rels
    <3>2. u \in User
      BY <3>1
    <3> QED BY <1>2, <2>2, <3>1, <3>2 DEF DocBound, TuplesLinked
  <2>6. TuplesLinked(d)'
    <3>1. SUFFICES ASSUME NEW rel \in D!Relation, NEW x \in User, <<d, rel, x>> \in tuple
                   PROVE  \E n \in Member : link'[n] = x
      BY <1>2 DEF TuplesLinked
    <3>2. PICK n \in Member : link[n] = x
      BY <2>2, <3>1 DEF DocBound, TuplesLinked
    <3>3. n # m
      BY <2>4, <3>1, <3>2, DocsConstantFacts DEF Rels
    <3> QED BY <1>3, <3>2, <3>3
  <2>7. ASSUME NEW n \in Member, n # m PROVE ShareBound(d, n)'
    <3>1. ShareBound(d, n) /\ link'[n] = link[n]
      BY <1>3, <2>2, <2>7 DEF DocBound
    <3>2. Rels(d, link[n])' = Rels(d, link[n])
      BY <1>2, <3>1 DEF Rels
    <3>3. ASSUME NEW c \in D!Busy(d, n)' PROVE HeldAt(call[c], Rels(d, link[n]))'
      <4>1. PICK k : k = call[c]
        OBVIOUS
      <4>2. HeldAt(k, Rels(d, link[n])) /\ call'[c] = k
        BY <1>2, <2>3, <3>1, <3>3, <4>1 DEF ShareBound
      <4> QED BY <3>2, <4>2 DEF HeldAt
    <3> QED BY <1>2, <2>3, <3>1, <3>2, <3>3 DEF ShareBound
  <2>8. ShareBound(d, m)'
    <3>1. link'[m] # None => Rels(d, link[m])' = {}
      BY <1>2, <1>3, <2>5 DEF Rels
    <3> QED BY <1>2, <2>1, <2>3, <3>1 DEF ShareBound
  <2> QED BY <2>6, <2>7, <2>8 DEF DocBound
<1> QED BY <1>4, <1>5, <1>6, <1>7 DEF DocsInv

LEMMA DocsInit == D!Init => DocsInv
<1> SUFFICES ASSUME D!Init PROVE DocsInv
  OBVIOUS
<1>1. \A c \in Client : call[c].op = "idle"
  BY DocIdle DEF D!Init
<1>2. DocsType
  BY DocIdle DEF D!Init, DocsType
<1>3. LinkedOnce
  BY DEF D!Init, LinkedOnce
<1>4. RowsOwned
  BY <1>1 DEF D!Init, RowsOwned, Creating
<1>5. \A d \in Doc, m \in Member : D!Busy(d, m) = {}
  BY <1>1 DEF D!Busy
<1>6. SharesBound
  <2> SUFFICES ASSUME NEW d \in Doc PROVE DocBound(d)
    BY DEF SharesBound
  <2>1. tuple = {} /\ \A m \in Member : share[<<d, m>>] = None
    BY DEF D!Init
  <2>2. \A x : Rels(d, x) = {}
    BY <2>1 DEF Rels
  <2> QED BY <1>5, <2>1, <2>2 DEF DocBound, TuplesLinked, ShareBound
<1> QED BY <1>2, <1>3, <1>4, <1>6 DEF DocsInv

LEMMA DocsNext == DocsInv /\ D!Next => DocsInv'
<1> SUFFICES ASSUME DocsInv, D!Next PROVE DocsInv'
  OBVIOUS
<1>0. call \in [Client -> DocCall]
  BY DEF DocsInv, DocsType
<1>1. ASSUME NEW c \in Client, D!handleCreateDocument(c) PROVE DocsInv'
  BY <1>1, CreateLookupDocs, CreateGrantDocs, CreateInsertDocs DEF D!handleCreateDocument
<1>2. ASSUME NEW c \in Client, D!handleUpdateDocument(c) PROVE DocsInv'
  <2>1. ASSUME NEW u \in User, NEW d \in Doc, D!UpdateGate(c, u, d) PROVE DocsInv'
    <3> DEFINE k == [op |-> "update", d |-> d, u |-> u]
    <3>1. /\ call[c] = D!Idle /\ call' = [call EXCEPT ![c] = k]
          /\ UNCHANGED <<link, doc, drawn, owned, share, tuple, disturbed>>
      BY <2>1 DEF D!UpdateGate, D!Begin
    <3>2. k \in UpdateCall /\ k.op = "update"
      BY DEF UpdateCall
    <3> HIDE DEF k
    <3>3. k \in DocCall /\ ~ShareOp(k) /\ ~ShareOp(call[c]) /\ k.op # "create"
      BY <3>1, <3>2, DocIdle DEF DocCall, ShareOp
    <3> QED BY <3>1, <3>3, UpdateDocs
  <2>2. CASE D!UpdateDocument(c)
    <3>1. /\ call[c].op = "update" /\ call' = [call EXCEPT ![c] = D!Idle]
          /\ UNCHANGED <<link, doc, drawn, owned, share, tuple, disturbed>>
      BY <2>2 DEF D!UpdateDocument, D!End
    <3>2. ~ShareOp(D!Idle) /\ ~ShareOp(call[c]) /\ D!Idle.op # "create"
      BY <3>1, DocIdle DEF ShareOp
    <3> QED BY <3>1, <3>2, DocIdle, UpdateDocs
  <2> QED BY <1>2, <2>1, <2>2 DEF D!handleUpdateDocument
<1>3. ASSUME NEW c \in Client, D!handleCreateShare(c) PROVE DocsInv'
  BY <1>3, ShareLookupDocs, ShareRevokeOldDocs, ShareGrantDocs, ShareRecordDocs
     DEF D!handleCreateShare
<1>4. ASSUME NEW c \in Client, D!handleRevokeShare(c) PROVE DocsInv'
  BY <1>4, RevokeReadDocs, RevokeTupleDocs, RevokeRemoveDocs DEF D!handleRevokeShare
<1>5. ASSUME NEW c \in Client, D!Fail(c) PROVE DocsInv'
  BY <1>5, FailDocs
<1>6. ASSUME NEW d \in Doc, D!handleDeleteDocument(d) PROVE DocsInv'
  BY <1>6, DeleteDocs DEF D!handleDeleteDocument
<1>7. ASSUME NEW m \in Member, NEW u \in User \cup {None}, D!Relink(m, u) PROVE DocsInv'
  BY <1>7, RelinkDocs
<1> QED BY <1>1, <1>2, <1>3, <1>4, <1>5, <1>6, <1>7 DEF D!Next

\* What the invariant says of the tuples and of the lists.
LEMMA DocsSafe == DocsInv => D!ShareExactUnlessDisturbed /\ D!ListedIsWhatOpens
<1> SUFFICES ASSUME DocsInv PROVE D!ShareExactUnlessDisturbed /\ D!ListedIsWhatOpens
  OBVIOUS
<1>1. DocsType /\ LinkedOnce /\ RowsOwned /\ SharesBound
  BY DEF DocsInv
<1>2. ASSUME NEW d \in Doc, NEW m \in Member, doc[d] # None, link[m] # None,
             Undisturbed(d), D!Busy(d, m) = {}
      PROVE  Rels(d, link[m]) = IF share[<<d, m>>] = None THEN {} ELSE {share[<<d, m>>].rel}
  <2>1. ShareBound(d, m)
    BY <1>1, <1>2 DEF SharesBound, MayLive, DocBound
  <2> QED BY <1>2, <2>1 DEF ShareBound
<1>3. D!ShareExactUnlessDisturbed
  <2> SUFFICES ASSUME NEW d \in Doc, NEW m \in Member, doc[d] # None, link[m] # None,
                      <<d, m>> \notin disturbed, D!Busy(d, m) = {},
                      \A n \in Member \ {m} : <<d, n>> \notin disturbed
               PROVE  {rel \in D!Relation : <<d, rel, link[m]>> \in tuple}
                        = IF share[<<d, m>>] = None THEN {} ELSE {share[<<d, m>>].rel}
    BY DEF D!ShareExactUnlessDisturbed
  <2>1. Undisturbed(d)
    BY DEF Undisturbed
  <2> QED BY <1>2, <2>1 DEF Rels
<1>4. ASSUME NEW u \in User, NEW d \in Doc
      PROVE  /\ d \in D!handleListDocuments(u).owned \cup D!handleListDocuments(u).shared
                  => D!handleGetDocument(u, d) # None
             /\ /\ D!handleGetDocument(u, d) # None
                /\ \E m \in Member : link[m] = u
                /\ \A m \in Member : D!Busy(d, m) = {} /\ <<d, m>> \notin disturbed
                => d \in D!handleListDocuments(u).owned \cup D!handleListDocuments(u).shared
  <2>1. D!handleListDocuments(u).owned = {e \in Doc : doc[e] # None /\ u = Owner}
    BY DEF D!handleListDocuments, D!ListOwnedDocuments
  <2>2. d \in D!handleListDocuments(u).shared <=>
          \E m \in Member : /\ link[m] = u /\ doc[d] # None /\ share[<<d, m>>] # None
                            /\ D!CanObject(u, "viewer", d)
    <3> DEFINE Verified(m) ==
          D!GetDocumentsByIDs(D!BatchCanObject(u, "viewer", D!SharedDocumentIDsForMember(m)))
    <3>1. D!handleListDocuments(u).shared = UNION {Verified(m) : m \in {n \in Member : link[n] = u}}
      BY DEF D!handleListDocuments
    <3>2. \A m \in Member : d \in Verified(m) <=>
             doc[d] # None /\ share[<<d, m>>] # None /\ D!CanObject(u, "viewer", d)
      BY DEF D!GetDocumentsByIDs, D!BatchCanObject, D!SharedDocumentIDsForMember
    <3> HIDE DEF Verified
    <3> QED BY <3>1, <3>2
  <2>3. D!handleGetDocument(u, d) # None <=> D!CanObject(u, "viewer", d) /\ doc[d] # None
    BY DocsConstantFacts DEF D!handleGetDocument, D!GetDocument, D!myRelation
  <2>4. ASSUME doc[d] # None, u = Owner PROVE D!CanObject(u, "viewer", d)
    BY <1>1, <2>4 DEF RowsOwned, D!CanObject
  <2>5. ASSUME NEW m \in Member, link[m] = u, doc[d] # None, D!CanObject(u, "viewer", d), u # Owner,
               \A n \in Member : D!Busy(d, n) = {} /\ <<d, n>> \notin disturbed
        PROVE  share[<<d, m>>] # None
    <3>1. Rels(d, u) # {}
      BY <2>5, DocsConstantFacts DEF Rels, D!CanObject
    <3>2. u # None /\ Undisturbed(d)
      BY <2>5, DocsConstantFacts DEF Undisturbed
    <3> QED BY <1>2, <2>5, <3>1, <3>2
  <2> QED BY <2>1, <2>2, <2>3, <2>4, <2>5
<1>5. D!ListedIsWhatOpens
  BY <1>4 DEF D!ListedIsWhatOpens
<1> QED BY <1>3, <1>5
-------------------------------------------------------------------------------
(* The request side of Notification. *)

InboxCall ==
    {N!Idle} \cup [op : {"anchor"}, ch : Channel] \cup [op : {"send"}, send : N!Send]
        \cup [op : {"event"}, to : SUBSET Bearer]

InboxType ==
    /\ call \in [Client -> InboxCall]
    /\ \A m \in msg : m = [id |-> m.id, ch |-> m.ch, key |-> m.key, pay |-> m.pay]
    /\ \A a \in answered : a.send \in N!Send

\* The unique index on (channel_id, idempotency_key).
KeysOnce ==
    \A m, n \in msg : m.key # None /\ m.key = n.key /\ m.ch = n.ch => m = n

\* What was answered has a message to show for it.
AnswersStored ==
    \A a \in answered :
        /\ a.what = "conflict" =>
             a.send \in overlapped
               \/ \E m \in N!Found(a.send.ch, a.send.key) : m.pay # a.send.pay
        /\ a.what # "conflict" =>
             \E m \in N!Found(a.send.ch, a.send.key) : m.pay = a.send.pay

InboxInv == InboxType /\ KeysOnce /\ AnswersStored

LEMMA InboxIdle == N!Idle \in InboxCall /\ N!Idle.op = "idle"
  BY DEF InboxCall, N!Idle

LEMMA SendCall ==
  ASSUME NEW k \in InboxCall, k.op = "send"
  PROVE  k.send \in N!Send
  BY DEF InboxCall, N!Idle

\* Messages come, none goes, and no answer is given.
LEMMA MessagesStay ==
  ASSUME AnswersStored, msg \subseteq msg', overlapped \subseteq overlapped',
         \A a \in answered' : a \in answered
            \/ /\ a.what = "conflict" =>
                    a.send \in overlapped'
                      \/ \E m \in N!Found(a.send.ch, a.send.key)' : m.pay # a.send.pay
               /\ a.what # "conflict" =>
                    \E m \in N!Found(a.send.ch, a.send.key)' : m.pay = a.send.pay
  PROVE  AnswersStored'
<1>1. \A ch, k : N!Found(ch, k) \subseteq N!Found(ch, k)'
  BY DEF N!Found
<1>2. ASSUME NEW a \in answered'
      PROVE  /\ a.what = "conflict" =>
                  a.send \in overlapped'
                    \/ \E m \in N!Found(a.send.ch, a.send.key)' : m.pay # a.send.pay
             /\ a.what # "conflict" =>
                  \E m \in N!Found(a.send.ch, a.send.key)' : m.pay = a.send.pay
  <2>1. CASE a \in answered
    <3>1. N!Found(a.send.ch, a.send.key) \subseteq N!Found(a.send.ch, a.send.key)'
      BY <1>1
    <3> QED BY <2>1, <3>1 DEF AnswersStored
  <2>2. CASE a \notin answered
    BY <1>2, <2>2
  <2> QED BY <2>1, <2>2
<1> QED BY <1>2 DEF AnswersStored

\* A step that stores no message and answers no send.
LEMMA InboxQuiet ==
  ASSUME InboxInv, call' \in [Client -> InboxCall], UNCHANGED <<msg, answered, overlapped>>
  PROVE  InboxInv'
<1>1. InboxType' /\ KeysOnce'
  BY DEF InboxInv, InboxType, KeysOnce
<1>2. AnswersStored'
  BY MessagesStay DEF InboxInv
<1> QED BY <1>1, <1>2 DEF InboxInv

LEMMA DeleteInbox ==
  ASSUME InboxInv, NEW ch, N!DeleteChannel(ch)
  PROVE  InboxInv'
<1>1. /\ msg' = msg \ {m \in msg : m.ch = ch} /\ answered' = {a \in answered : a.send.ch # ch}
      /\ UNCHANGED <<call, overlapped>>
  BY DEF N!DeleteChannel
<1>2. InboxType' /\ KeysOnce'
  BY <1>1 DEF InboxInv, InboxType, KeysOnce
<1>3. \A a \in answered' : N!Found(a.send.ch, a.send.key)' = N!Found(a.send.ch, a.send.key)
  BY <1>1 DEF N!Found
<1>4. AnswersStored'
  BY <1>1, <1>3 DEF InboxInv, AnswersStored
<1> QED BY <1>2, <1>4 DEF InboxInv

LEMMA LookupInbox ==
  ASSUME InboxInv, NEW c \in Client, NEW s \in N!Send, N!SendLookup(c, s)
  PROVE  InboxInv'
<1>1. InboxType /\ KeysOnce /\ AnswersStored
  BY DEF InboxInv
<1>2. UNCHANGED <<msg, overlapped>>
  BY DEF N!SendLookup
<1>3. CASE N!Found(s.ch, s.key) = {}
  <2> DEFINE k == [op |-> "send", send |-> s]
  <2>1. call' = [call EXCEPT ![c] = k] /\ answered' = answered
    BY <1>3 DEF N!SendLookup
  <2>2. k \in InboxCall
    BY DEF InboxCall
  <2>3. call' \in [Client -> InboxCall]
    BY <1>1, <2>1, <2>2 DEF InboxType
  <2> QED BY <1>2, <2>1, <2>3, InboxQuiet
<1>4. CASE N!Found(s.ch, s.key) # {}
  <2>1. PICK what : what = IF N!SamePayload(s) THEN "replayed" ELSE "conflict"
    OBVIOUS
  <2>2. call' = call /\ N!Answer(s, what)
    BY <1>4, <2>1 DEF N!SendLookup
  <2> DEFINE new == [send |-> s, what |-> what]
  <2>3. answered' \subseteq answered \cup {new}
    BY <2>2 DEF N!Answer
  <2>4. new.send = s /\ new.what = what
    OBVIOUS
  <2> HIDE DEF new
  <2>5. N!Found(s.ch, s.key)' = N!Found(s.ch, s.key)
    BY <1>2 DEF N!Found
  <2>6. IF what = "conflict" THEN \E m \in N!Found(s.ch, s.key)' : m.pay # s.pay
        ELSE \E m \in N!Found(s.ch, s.key)' : m.pay = s.pay
    BY <1>4, <2>1, <2>5 DEF N!SamePayload
  <2>7. AnswersStored'
    <3>1. msg \subseteq msg' /\ overlapped \subseteq overlapped'
      BY <1>2
    <3>2. ASSUME NEW a \in answered', a \notin answered
          PROVE  /\ a.what = "conflict" =>
                      a.send \in overlapped'
                        \/ \E m \in N!Found(a.send.ch, a.send.key)' : m.pay # a.send.pay
                 /\ a.what # "conflict" =>
                      \E m \in N!Found(a.send.ch, a.send.key)' : m.pay = a.send.pay
      <4>1. a.send = s /\ a.what = what
        BY <2>3, <2>4, <3>2
      <4> QED BY <2>6, <4>1
    <3> QED BY <1>1, <3>1, <3>2, MessagesStay
  <2>8. InboxType' /\ KeysOnce'
    BY <1>1, <1>2, <2>2, <2>3, <2>4 DEF InboxType, KeysOnce
  <2> QED BY <2>7, <2>8 DEF InboxInv
<1> QED BY <1>3, <1>4

\* A message of a key that no message has.
LEMMA StoreInbox ==
  ASSUME InboxInv, NEW c \in Client, N!SendStore(c)
  PROVE  InboxInv'
<1>1. InboxType /\ KeysOnce /\ AnswersStored
  BY DEF InboxInv
<1>2. PICK s : s = call[c].send
  OBVIOUS
<1> DEFINE row1 == [id |-> sends, ch |-> s.ch, key |-> s.key, pay |-> s.pay]
<1> DEFINE new == [send |-> s, what |-> "created"]
<1>3. /\ call[c].op = "send" /\ N!Found(s.ch, s.key) = {} /\ msg' = msg \cup {row1}
      /\ N!Answer(s, "created") /\ call' = [call EXCEPT ![c] = N!Idle]
      /\ overlapped' = overlapped
  BY <1>2 DEF N!SendStore
<1>4. s \in N!Send
  BY <1>1, <1>2, <1>3, SendCall DEF InboxType
<1>5. /\ row1 = [id |-> row1.id, ch |-> row1.ch, key |-> row1.key, pay |-> row1.pay]
      /\ row1.ch = s.ch /\ row1.key = s.key /\ row1.pay = s.pay
      /\ new.send = s /\ new.what = "created"
  OBVIOUS
<1>6. s.key # None => answered' = answered \cup {new}
  BY <1>3 DEF N!Answer
<1>7. s.key = None => answered' = answered
  BY <1>3 DEF N!Answer
<1> HIDE DEF row1, new
<1>8. InboxType'
  <2>1. call' \in [Client -> InboxCall]
    BY <1>1, <1>3, InboxIdle DEF InboxType
  <2> QED BY <1>1, <1>3, <1>4, <1>5, <1>6, <1>7, <2>1 DEF InboxType
<1>9. KeysOnce'
  <2>1. \A m \in msg : m.key = s.key /\ m.ch = s.ch => s.key = None
    BY <1>3 DEF N!Found
  <2> QED BY <1>1, <1>3, <1>5, <2>1 DEF KeysOnce
<1>10. AnswersStored'
  <2>1. msg \subseteq msg' /\ overlapped \subseteq overlapped'
    BY <1>3
  <2>2. ASSUME NEW a \in answered', a \notin answered
        PROVE  /\ a.what = "conflict" =>
                    a.send \in overlapped'
                      \/ \E m \in N!Found(a.send.ch, a.send.key)' : m.pay # a.send.pay
               /\ a.what # "conflict" =>
                    \E m \in N!Found(a.send.ch, a.send.key)' : m.pay = a.send.pay
    <3>1. s.key # None /\ a.send = s /\ a.what = "created"
      BY <1>5, <1>6, <1>7, <2>2
    <3>2. row1 \in N!Found(s.ch, s.key)'
      BY <1>3, <1>5, <3>1 DEF N!Found
    <3> QED BY <1>5, <3>1, <3>2
  <2> QED BY <1>1, <2>1, <2>2, MessagesStay
<1> QED BY <1>8, <1>9, <1>10 DEF InboxInv

LEMMA ConflictInbox ==
  ASSUME InboxInv, NEW c \in Client, N!SendConflict(c)
  PROVE  InboxInv'
<1>1. InboxType /\ KeysOnce /\ AnswersStored
  BY DEF InboxInv
<1>2. PICK s : s = call[c].send
  OBVIOUS
<1> DEFINE new == [send |-> s, what |-> "conflict"]
<1>3. /\ call[c].op = "send" /\ N!Answer(s, "conflict") /\ overlapped' = overlapped \cup {s}
      /\ call' = [call EXCEPT ![c] = N!Idle] /\ msg' = msg
  BY <1>2 DEF N!SendConflict
<1>4. s \in N!Send
  BY <1>1, <1>2, <1>3, SendCall DEF InboxType
<1>5. new.send = s /\ new.what = "conflict"
  OBVIOUS
<1>6. answered' \subseteq answered \cup {new}
  BY <1>3 DEF N!Answer
<1> HIDE DEF new
<1>7. InboxType' /\ KeysOnce'
  <2>1. call' \in [Client -> InboxCall]
    BY <1>1, <1>3, InboxIdle DEF InboxType
  <2> QED BY <1>1, <1>3, <1>4, <1>5, <1>6, <2>1 DEF InboxType, KeysOnce
<1>8. AnswersStored'
  <2>1. msg \subseteq msg' /\ overlapped \subseteq overlapped'
    BY <1>3
  <2>2. \A a \in answered' : a \in answered \/ (a.send \in overlapped' /\ a.what = "conflict")
    BY <1>3, <1>5, <1>6
  <2> QED BY <1>1, <2>1, <2>2, MessagesStay
<1> QED BY <1>7, <1>8 DEF InboxInv

LEMMA EventInbox ==
  ASSUME InboxInv, NEW c \in Client, N!EventStore(c)
  PROVE  InboxInv'
<1>1. InboxType /\ KeysOnce /\ AnswersStored
  BY DEF InboxInv
<1> DEFINE row1 == [id |-> sends, ch |-> N!EventChannel, key |-> None, pay |-> None]
<1>2. /\ msg' = msg \cup {row1} /\ call' = [call EXCEPT ![c] = N!Idle]
      /\ UNCHANGED <<answered, overlapped>>
  BY DEF N!EventStore
<1>3. /\ row1 = [id |-> row1.id, ch |-> row1.ch, key |-> row1.key, pay |-> row1.pay]
      /\ row1.key = None
  OBVIOUS
<1> HIDE DEF row1
<1>4. InboxType' /\ KeysOnce'
  <2>1. call' \in [Client -> InboxCall]
    BY <1>1, <1>2, InboxIdle DEF InboxType
  <2> QED BY <1>1, <1>2, <1>3, <2>1 DEF InboxType, KeysOnce
<1>5. AnswersStored'
  BY <1>1, <1>2, MessagesStay
<1> QED BY <1>4, <1>5 DEF InboxInv

LEMMA InboxInit == N!Init => InboxInv
  BY InboxIdle DEF N!Init, InboxInv, InboxType, KeysOnce, AnswersStored

LEMMA InboxNext == InboxInv /\ N!Next => InboxInv'
<1> SUFFICES ASSUME InboxInv, N!Next PROVE InboxInv'
  OBVIOUS
<1>0. call \in [Client -> InboxCall]
  BY DEF InboxInv, InboxType
<1>1. ASSUME NEW c \in Client, NEW k \in InboxCall, call' = [call EXCEPT ![c] = k],
             UNCHANGED <<msg, answered, overlapped>>
      PROVE  InboxInv'
  <2>1. call' \in [Client -> InboxCall]
    BY <1>0, <1>1
  <2> QED BY <1>1, <2>1, InboxQuiet
<1>2. ASSUME NEW c \in Client, N!handleCreateChannel(c) PROVE InboxInv'
  <2>1. ASSUME NEW ch \in Channel, NEW kind \in N!Kind, N!CreateChannel(c, ch, kind)
        PROVE  InboxInv'
    <3>1. [op |-> "anchor", ch |-> ch] \in InboxCall
      BY DEF InboxCall
    <3> QED BY <1>1, <2>1, <3>1 DEF N!CreateChannel
  <2>2. ASSUME NEW ok \in BOOLEAN, N!GrantChannelAnchor(c, ok) PROVE InboxInv'
    BY <1>1, <2>2, InboxIdle DEF N!GrantChannelAnchor
  <2> QED BY <1>2, <2>1, <2>2 DEF N!handleCreateChannel
<1>3. ASSUME NEW c \in Client, N!handleSendMessage(c) PROVE InboxInv'
  BY <1>3, LookupInbox, StoreInbox, ConflictInbox DEF N!handleSendMessage
<1>4. ASSUME NEW c \in Client, N!handleSendEvent(c) PROVE InboxInv'
  <2>1. ASSUME NEW to \in SUBSET Bearer, N!EventConfirm(c, to) PROVE InboxInv'
    <3>1. [op |-> "event", to |-> to] \in InboxCall
      BY DEF InboxCall
    <3> QED BY <1>1, <2>1, <3>1 DEF N!EventConfirm
  <2> QED BY <1>4, <2>1, EventInbox DEF N!handleSendEvent
<1>5. ASSUME NEW c \in Client, N!Fail(c) PROVE InboxInv'
  BY <1>1, <1>5, InboxIdle DEF N!Fail
<1>6. ASSUME NEW s \in Bearer, NEW ch, N!handleSubscribe(s, ch) \/ N!handleUnsubscribe(s, ch)
      PROVE  InboxInv'
  <2>1. UNCHANGED <<msg, answered, overlapped, call>>
    BY <1>6 DEF N!handleSubscribe, N!handleUnsubscribe, N!Subscribe, N!Unsubscribe
  <2> QED BY <1>0, <2>1, InboxQuiet
<1>7. ASSUME NEW s \in Bearer, NEW ch, N!handleDeleteChannel(s, ch) PROVE InboxInv'
  BY <1>7, DeleteInbox DEF N!handleDeleteChannel
<1>8. ASSUME NEW s \in Bearer, NEW id, N!handleMarkRead(s, id) PROVE InboxInv'
  <2>1. UNCHANGED <<msg, answered, overlapped, call>>
    BY <1>8 DEF N!handleMarkRead, N!MarkRead
  <2> QED BY <1>0, <2>1, InboxQuiet
<1>9. ASSUME NEW s \in Bearer, N!MembershipChanges(s) PROVE InboxInv'
  <2>1. UNCHANGED <<msg, answered, overlapped, call>>
    BY <1>9 DEF N!MembershipChanges
  <2> QED BY <1>0, <2>1, InboxQuiet
<1> QED BY <1>2, <1>3, <1>4, <1>5, <1>6, <1>7, <1>8, <1>9 DEF N!Next

LEMMA InboxSafe == InboxInv => N!AnswerIsTrue
<1> SUFFICES ASSUME InboxInv, NEW a \in answered
             PROVE  LET stored == N!Found(a.send.ch, a.send.key) IN
                    IF a.what = "conflict"
                    THEN a.send \in overlapped \/ \E m \in stored : m.pay # a.send.pay
                    ELSE N!Cardinality(stored) = 1 /\ \A m \in stored : m.pay = a.send.pay
  BY DEF N!AnswerIsTrue
<1> DEFINE stored == N!Found(a.send.ch, a.send.key)
<1>1. CASE a.what = "conflict"
  BY <1>1 DEF InboxInv, AnswersStored
<1>2. CASE a.what # "conflict"
  <2>1. PICK m \in stored : m.pay = a.send.pay
    BY <1>2 DEF InboxInv, AnswersStored
  <2>2. \A n \in stored : n = m
    BY <2>1 DEF InboxInv, KeysOnce, N!Found
  <2>3. stored = {m}
    BY <2>1, <2>2
  <2>4. N!Cardinality({m}) = Cardinality({m})
    BY Zenon DEF N!Cardinality, Cardinality
  <2>5. Cardinality({m}) = 1
    BY FS_Singleton
  <2>6. N!Cardinality(stored) = 1
    BY <2>3, <2>4, <2>5
  <2> QED BY <1>2, <2>1, <2>2, <2>6
<1> QED BY <1>1, <1>2
-------------------------------------------------------------------------------
(* Helpdesk. *)

HelpRequest ==
    [op : {"idle", "status", "assign", "make", "remove"},
     pc : {"idle", "check", "write", "agent", "grant", "record", "undo", "count", "revoke",
           "delete"},
     actor : User \cup {None}, ticket : Ticket \cup {None}, target : H!Target \cup {None},
     sub : User \cup {None}, from : H!Status \cup {None}, to : H!Status \cup {None}]

\* Requests that work on a target.
AgentOp(r) == r.op \in {"assign", "make", "remove"}

\* The steps of each kind of request.
StepsOf(r) ==
    /\ r.op = "idle" => r = H!Idle
    /\ r.op = "status" =>
         /\ r.pc \in {"check", "write"} /\ r.ticket \in Ticket
         /\ r.from \in H!Status /\ r.to \in H!Status
    /\ AgentOp(r) => r.target \in H!Target
    /\ r.op = "assign" =>
         /\ r.ticket \in Ticket
         /\ r.pc \in IF r.target \in Chair THEN {"agent", "write"}
                     ELSE {"agent", "grant", "record", "write"}
    /\ r.op = "make" => r.pc \in {"grant", "record", "undo"}
    /\ r.op = "remove" => r.pc \in {"count", "revoke", "delete"}

HelpType ==
    /\ status \in [Ticket -> H!Status \cup {"none"}]
    /\ assignee \in [Ticket -> H!Target \cup {None}]
    /\ assigneeSub \in [Ticket -> User \cup {None}]
    /\ link \in [Member -> User \cup {None}]
    /\ agents \in SUBSET H!Target
    /\ req \in [Client -> HelpRequest]
    /\ \A c \in Client : StepsOf(req[c])

\* A member that was never linked anew has the user it had; no other has had it since.
LinkedAlone ==
    /\ \A m, n \in Member : link[m] # None /\ link[m] = link[n] => m = n
    /\ \A m \in Member \ disturbed : link[m] # None

\* The subject of a target's tuple, as org's link names it now.
SubjectOf(a) == IF a \in Chair THEN a ELSE link[a]

\* A request about a target names the target's subject, one about another does not.
SubjectsApart ==
    \A c \in Client : AgentOp(req[c]) =>
        \A a \in H!Target \ disturbed :
            H!Subject(req[c]) = SubjectOf(a) <=> req[c].target = a

\* What is not created is not assigned, and is in no request.
TicketsCreated ==
    /\ \A t \in Ticket : status[t] = "none" => assignee[t] = None
    /\ \A c \in Client : req[c].op \in {"assign", "status"} => status[req[c].ticket] # "none"

\* A transition that did not cross another writes over the status that it read.
TransitionsSingle ==
    /\ \A c \in Client : req[c].op = "status" /\ req[c].pc = "write" =>
         <<req[c].from, req[c].to>> \in H!ValidEdges
    /\ \A c \in Client : req[c].op = "status" /\ req[c].ticket \notin crossed =>
         /\ req[c].from = status[req[c].ticket]
         /\ \A b \in Client \ {c} : ~(req[b].op = "status" /\ req[b].ticket = req[c].ticket)

\* The tickets that keep a target an agent.
OpenOf(a) ==
    {t \in Ticket \ crossed : status[t] \in H!Status \ {"closed"} /\ assignee[t] = a}

\* What row and tuple of a target are at each step of the request that works on it.
AgentAt(r, bound, powerful) ==
    /\ r.pc \in {"agent", "count"} => (bound <=> powerful)
    /\ r.pc = "record" /\ r.target \in Member => powerful
    /\ r.pc = "grant" /\ r.target \in Chair => bound
    /\ r.pc = "write" => bound /\ powerful
    /\ r.pc = "delete" => ~powerful
    /\ r.pc # "undo"

WorkedOn(c, a) == AgentOp(req[c]) /\ req[c].target = a

AgentBound(a) ==
    /\ \A c, b \in Client : WorkedOn(c, a) /\ WorkedOn(b, a) => b = c
    /\ (\A c \in Client : ~WorkedOn(c, a)) => (H!Bound(a) <=> H!Powerful(a))
    /\ \A c \in Client : WorkedOn(c, a) => AgentAt(req[c], H!Bound(a), H!Powerful(a))
    /\ OpenOf(a) # {} => H!Bound(a) /\ H!Powerful(a)
    /\ \A c \in Client : WorkedOn(c, a) /\ req[c].pc \in {"revoke", "delete"} => OpenOf(a) = {}

AgentsBound == \A a \in H!Target \ disturbed : AgentBound(a)

HelpInv ==
    /\ HelpType
    /\ LinkedAlone
    /\ SubjectsApart
    /\ TicketsCreated
    /\ TransitionsSingle
    /\ AgentsBound

LEMMA HelpConstantFacts ==
  /\ Member \cap Chair = {} /\ Chair \cap User = {} /\ Admin \subseteq User
  /\ None \notin Member /\ None \notin Chair /\ None \notin User /\ None \notin Ticket
  /\ H!Target = Member \cup Chair /\ IsFiniteSet(Ticket)
<1>1. H!IsFiniteSet(Ticket) = IsFiniteSet(Ticket)
  BY Zenon DEF H!IsFiniteSet, IsFiniteSet
<1> QED BY <1>1, HelpdeskConstants DEF H!HelpdeskAssumption, H!Target

LEMMA HelpIdle ==
  /\ H!Idle \in HelpRequest /\ StepsOf(H!Idle) /\ ~AgentOp(H!Idle)
  /\ H!Idle.op = "idle" /\ H!Idle.pc = "idle" /\ H!Idle.target = None
  BY DEF HelpRequest, StepsOf, AgentOp, H!Idle

\* A request after its step: answered, or the same at another step.
Kept(k, r) ==
    \/ k = H!Idle
    \/ /\ k.op = r.op /\ k.target = r.target /\ k.sub = r.sub /\ k.ticket = r.ticket
       /\ k.from = r.from /\ k.to = r.to

LEMMA HelpGoto ==
  ASSUME NEW r \in HelpRequest, NEW pc
  PROVE  /\ [r EXCEPT !.pc = pc].pc = pc
         /\ Kept([r EXCEPT !.pc = pc], r)
         /\ pc \in {"check", "write", "agent", "grant", "record", "undo", "count", "revoke",
                    "delete"} => [r EXCEPT !.pc = pc] \in HelpRequest
         /\ [r EXCEPT !.pc = pc].op = r.op /\ [r EXCEPT !.pc = pc].target = r.target
  BY DEF HelpRequest, Kept

\* The parts of the invariant that do not speak of rows and tuples, for a step of a
\* request that is under way.
LEMMA HelpRest ==
  ASSUME HelpInv, NEW c \in Client, NEW k \in HelpRequest, StepsOf(k), Kept(k, req[c]),
         req' = [req EXCEPT ![c] = k],
         k.op = "status" /\ k.pc = "write" => <<k.from, k.to>> \in H!ValidEdges,
         UNCHANGED <<link, status, crossed>>, disturbed \subseteq disturbed',
         agents' \in SUBSET H!Target,
         assignee' \in [Ticket -> H!Target \cup {None}],
         assigneeSub' \in [Ticket -> User \cup {None}],
         \A t \in Ticket : status[t] = "none" => assignee'[t] = None
  PROVE  HelpType' /\ LinkedAlone' /\ SubjectsApart' /\ TicketsCreated' /\ TransitionsSingle'
<1>1. HelpType /\ LinkedAlone /\ SubjectsApart /\ TicketsCreated /\ TransitionsSingle
  BY DEF HelpInv
<1>2. /\ req'[c] = k /\ req' \in [Client -> HelpRequest]
      /\ \A b \in Client \ {c} : req'[b] = req[b]
  BY <1>1 DEF HelpType
<1>3. HelpType'
  <2>1. \A b \in Client : StepsOf(req[b])'
    <3>1. ASSUME NEW b \in Client PROVE StepsOf(req[b])'
      <4>1. PICK r : r = req'[b] /\ StepsOf(r)
        BY <1>1, <1>2 DEF HelpType
      <4> QED BY <4>1 DEF StepsOf
    <3> QED BY <3>1
  <2> QED BY <1>1, <1>2, <2>1 DEF HelpType
<1>4. LinkedAlone'
  BY <1>1 DEF LinkedAlone
<1>5. k = H!Idle \/ (k.op = req[c].op /\ k.target = req[c].target /\ k.sub = req[c].sub)
  BY DEF Kept
<1>6. SubjectsApart'
  <2>1. SUFFICES ASSUME NEW b \in Client, AgentOp(req'[b]), NEW a \in H!Target \ disturbed'
                 PROVE  H!Subject(req'[b]) = SubjectOf(a)' <=> req'[b].target = a
    BY DEF SubjectsApart, AgentOp, H!Subject
  <2>2. SubjectOf(a)' = SubjectOf(a) /\ a \in H!Target \ disturbed
    BY DEF SubjectOf
  <2>3. req'[b].op = req[b].op /\ req'[b].target = req[b].target /\ req'[b].sub = req[b].sub
    BY <1>2, <1>5, <2>1, HelpIdle
  <2>4. AgentOp(req[b]) /\ H!Subject(req'[b]) = H!Subject(req[b])
    BY <2>1, <2>3 DEF AgentOp, H!Subject
  <2> QED BY <1>1, <2>2, <2>3, <2>4 DEF SubjectsApart
<1>7. \A b \in Client : req'[b].op # "idle" =>
         /\ req'[b].op = req[b].op /\ req'[b].ticket = req[b].ticket
         /\ req'[b].from = req[b].from /\ req'[b].to = req[b].to
  BY <1>2, HelpIdle DEF Kept
<1>8. TicketsCreated'
  BY <1>1, <1>7 DEF TicketsCreated
<1>9. TransitionsSingle'
  <2>1. \A b \in Client : req'[b].op = "status" /\ req'[b].pc = "write" =>
           <<req'[b].from, req'[b].to>> \in H!ValidEdges
    BY <1>1, <1>2 DEF TransitionsSingle
  <2>2. ASSUME NEW b \in Client, req'[b].op = "status", req'[b].ticket \notin crossed
        PROVE  /\ req'[b].from = status[req'[b].ticket]
               /\ \A d \in Client \ {b} : ~(req'[d].op = "status" /\ req'[d].ticket = req'[b].ticket)
    <3>1. req[b].op = "status" /\ req[b].ticket = req'[b].ticket /\ req[b].from = req'[b].from
      BY <1>7, <2>2
    <3>2. \A d \in Client : req'[d].op = "status" =>
             req[d].op = "status" /\ req'[d].ticket = req[d].ticket
      BY <1>7
    <3> QED BY <1>1, <2>2, <3>1, <3>2 DEF TransitionsSingle
  <2> QED BY <2>1, <2>2 DEF TransitionsSingle, H!ValidEdges
<1> QED BY <1>3, <1>4, <1>6, <1>8, <1>9

-------------------------------------------------------------------------------

\* A step of request c, which is about target b or, where b is None, about none.
AgentStep(c, b) ==
    /\ \A d \in Client \ {c} : req'[d] = req[d]
    /\ AgentOp(req[c]) => req[c].target = b
    /\ AgentOp(req'[c]) => req'[c].target = b
    /\ link' = link /\ disturbed \subseteq disturbed'
    /\ \A a \in H!Target \ {b} : a \in agents' <=> a \in agents
    /\ \A a \in H!Target \ disturbed' : a # b => (SubjectOf(a) \in editor' <=> SubjectOf(a) \in editor)
    /\ \A a \in H!Target \ {b} : OpenOf(a)' \subseteq OpenOf(a)
    /\ b \in H!Target \ disturbed' => AgentBound(b)'

LEMMA PowerfulIs == \A a : H!Powerful(a) <=> SubjectOf(a) \in editor
  BY DEF H!Powerful, SubjectOf

LEMMA AgentSteps ==
  ASSUME AgentsBound, NEW c \in Client, NEW b, AgentStep(c, b)
  PROVE  AgentsBound'
<1> USE DEF AgentStep
<1> SUFFICES ASSUME NEW a \in H!Target \ disturbed' PROVE AgentBound(a)'
  BY DEF AgentsBound
<1>1. CASE a = b
  BY <1>1
<1>2. CASE a # b
  <2>1. AgentBound(a)
    BY DEF AgentsBound
  <2>2. \A d \in Client : WorkedOn(d, a)' <=> WorkedOn(d, a)
    BY <1>2 DEF WorkedOn
  <2>3. \A d \in Client : WorkedOn(d, a) => req'[d] = req[d]
    BY <1>2 DEF WorkedOn
  <2>4. H!Bound(a)' <=> H!Bound(a)
    BY <1>2 DEF H!Bound
  <2>5. H!Powerful(a)' <=> H!Powerful(a)
    <3>1. SubjectOf(a)' = SubjectOf(a)
      BY DEF SubjectOf
    <3>2. SubjectOf(a) \in editor' <=> SubjectOf(a) \in editor
      BY <1>2
    <3> QED BY <3>1, <3>2 DEF H!Powerful, SubjectOf
  <2>6. OpenOf(a)' \subseteq OpenOf(a)
    BY <1>2
  <2>7. ASSUME NEW d \in Client, WorkedOn(d, a)'
        PROVE  AgentAt(req[d], H!Bound(a), H!Powerful(a))'
    <3>1. PICK r : r = req[d]
      OBVIOUS
    <3>2. AgentAt(r, H!Bound(a), H!Powerful(a)) /\ req'[d] = r
      BY <2>1, <2>2, <2>3, <2>7, <3>1 DEF AgentBound
    <3> QED BY <2>4, <2>5, <3>2 DEF AgentAt
  <2>8. (\A d \in Client : ~WorkedOn(d, a)') => (H!Bound(a)' <=> H!Powerful(a)')
    BY <2>1, <2>2, <2>4, <2>5 DEF AgentBound
  <2>9. OpenOf(a)' # {} => H!Bound(a)' /\ H!Powerful(a)'
    BY <2>1, <2>4, <2>5, <2>6 DEF AgentBound
  <2>10. \A d \in Client : WorkedOn(d, a)' /\ req'[d].pc \in {"revoke", "delete"} => OpenOf(a)' = {}
    BY <2>1, <2>2, <2>3, <2>6 DEF AgentBound
  <2>11. \A d, e \in Client : WorkedOn(d, a)' /\ WorkedOn(e, a)' => e = d
    BY <2>1, <2>2 DEF AgentBound
  <2> QED BY <2>7, <2>8, <2>9, <2>10, <2>11 DEF AgentBound
<1> QED BY <1>1, <1>2

\* What the step of the request on target b has to leave behind.
AgentNext(k, b) ==
    /\ k.op = "idle" => (H!Bound(b)' <=> H!Powerful(b)')
    /\ k.op # "idle" => AgentAt(k, H!Bound(b)', H!Powerful(b)')
    /\ OpenOf(b)' # {} => H!Bound(b)' /\ H!Powerful(b)'
    /\ k.op # "idle" /\ k.pc \in {"revoke", "delete"} => OpenOf(b)' = {}

\* A step of a request on a target, after its first.
UnderWay(c, k) ==
    /\ AgentOp(req[c]) /\ StepsOf(k) /\ Kept(k, req[c]) /\ req' = [req EXCEPT ![c] = k]
    /\ UNCHANGED <<link, status, crossed>> /\ disturbed \subseteq disturbed'
    /\ agents' \in {agents, agents \cup {req[c].target}, agents \ {req[c].target}}
    /\ editor' \in {editor, editor \cup {H!Subject(req[c])}, editor \ {H!Subject(req[c])}}
    /\ \/ assignee' = assignee
       \/ req[c].op = "assign" /\ assignee' = [assignee EXCEPT ![req[c].ticket] = req[c].target]
    /\ assigneeSub' \in [Ticket -> User \cup {None}]
    /\ req[c].target \notin disturbed' => AgentNext(k, req[c].target)

LEMMA UnderWaySteps ==
  ASSUME HelpInv, NEW c \in Client, NEW k \in HelpRequest, UnderWay(c, k)
  PROVE  HelpInv'
<1>1. HelpType /\ LinkedAlone /\ SubjectsApart /\ TicketsCreated /\ TransitionsSingle /\ AgentsBound
  BY DEF HelpInv
<1>2. PICK b : b = req[c].target
  OBVIOUS
<1>3. PICK s : s = H!Subject(req[c])
  OBVIOUS
<1>4. /\ AgentOp(req[c]) /\ StepsOf(k) /\ Kept(k, req[c]) /\ req' = [req EXCEPT ![c] = k]
      /\ UNCHANGED <<link, status, crossed>> /\ disturbed \subseteq disturbed'
      /\ agents' \in {agents, agents \cup {b}, agents \ {b}}
      /\ editor' \in {editor, editor \cup {s}, editor \ {s}}
      /\ \/ assignee' = assignee
         \/ req[c].op = "assign" /\ assignee' = [assignee EXCEPT ![req[c].ticket] = b]
      /\ assigneeSub' \in [Ticket -> User \cup {None}]
      /\ b \notin disturbed' => AgentNext(k, b)
  BY <1>2, <1>3 DEF UnderWay
<1>5. b \in H!Target /\ (req[c].op = "assign" => req[c].ticket \in Ticket)
  BY <1>1, <1>2, <1>4 DEF HelpType, StepsOf
<1>6. agents' \in SUBSET H!Target
  BY <1>1, <1>4, <1>5 DEF HelpType
<1>7. /\ assignee' \in [Ticket -> H!Target \cup {None}]
      /\ \A t \in Ticket : status[t] = "none" => assignee'[t] = None
      /\ \A t \in Ticket : assignee'[t] = assignee[t] \/ assignee'[t] = b
  <2>1. CASE assignee' = assignee
    BY <1>1, <2>1 DEF HelpType, TicketsCreated
  <2>2. CASE req[c].op = "assign" /\ assignee' = [assignee EXCEPT ![req[c].ticket] = b]
    <3>1. PICK t0 \in Ticket : t0 = req[c].ticket
      BY <1>5, <2>2
    <3>2. assignee' = [assignee EXCEPT ![t0] = b] /\ status[t0] # "none"
      BY <1>1, <2>2, <3>1 DEF TicketsCreated
    <3> QED BY <1>1, <1>5, <3>2 DEF HelpType, TicketsCreated
  <2> QED BY <1>4, <2>1, <2>2
<1>8. k.op = "status" => k = H!Idle
  BY <1>4 DEF Kept, AgentOp
<1>9. HelpType' /\ LinkedAlone' /\ SubjectsApart' /\ TicketsCreated' /\ TransitionsSingle'
  <2>1. k.op = "status" /\ k.pc = "write" => <<k.from, k.to>> \in H!ValidEdges
    BY <1>8, HelpIdle
  <2> QED BY <1>4, <1>6, <1>7, <2>1, HelpRest
<1>10. req'[c] = k /\ \A d \in Client \ {c} : req'[d] = req[d]
  BY <1>1, <1>4 DEF HelpType
<1>11. AgentOp(k) => k.target = b
  BY <1>2, <1>4, HelpIdle DEF Kept
<1>12. ASSUME b \notin disturbed' PROVE AgentBound(b)'
  <2>1. AgentBound(b)
    BY <1>1, <1>4, <1>5, <1>12 DEF AgentsBound
  <2>2. WorkedOn(c, b)
    BY <1>2, <1>4 DEF WorkedOn
  <2>3. \A d \in Client : WorkedOn(d, b) => d = c
    BY <2>1, <2>2 DEF AgentBound
  <2>4. \A d \in Client : WorkedOn(d, b)' => d = c
    BY <1>10, <2>3 DEF WorkedOn
  <2>5. WorkedOn(c, b)' <=> k.op # "idle"
    <3>1. k.op # "idle" => AgentOp(k) /\ k.target = b
      BY <1>2, <1>4, HelpIdle DEF Kept, AgentOp
    <3> QED BY <1>10, <3>1 DEF WorkedOn, AgentOp
  <2>6. AgentNext(k, b)
    BY <1>4, <1>12
  <2>7. (\A d \in Client : ~WorkedOn(d, b)') => (H!Bound(b)' <=> H!Powerful(b)')
    BY <2>5, <2>6 DEF AgentNext
  <2>8. ASSUME NEW d \in Client, WorkedOn(d, b)'
        PROVE  /\ AgentAt(req[d], H!Bound(b), H!Powerful(b))'
               /\ req'[d].pc \in {"revoke", "delete"} => OpenOf(b)' = {}
    <3>1. d = c /\ k.op # "idle"
      BY <2>4, <2>5, <2>8
    <3>2. AgentAt(k, H!Bound(b)', H!Powerful(b)') /\ req'[d] = k
      BY <1>10, <2>6, <3>1 DEF AgentNext
    <3>3. AgentAt(req[d], H!Bound(b), H!Powerful(b))'
      BY <3>2 DEF AgentAt
    <3> QED BY <2>6, <3>1, <3>2, <3>3 DEF AgentNext
  <2>9. OpenOf(b)' # {} => H!Bound(b)' /\ H!Powerful(b)'
    BY <2>6 DEF AgentNext
  <2>10. \A d, e \in Client : WorkedOn(d, b)' /\ WorkedOn(e, b)' => e = d
    BY <2>4
  <2> QED BY <2>7, <2>8, <2>9, <2>10 DEF AgentBound
<1>13. \A a \in H!Target \ disturbed' :
          a # b => (SubjectOf(a) \in editor' <=> SubjectOf(a) \in editor)
  <2>1. \A a \in H!Target \ disturbed' : a # b => s # SubjectOf(a)
    BY <1>1, <1>2, <1>3, <1>4 DEF SubjectsApart
  <2> QED BY <1>4, <2>1
<1>14. \A a \in H!Target \ {b} : OpenOf(a)' \subseteq OpenOf(a)
  BY <1>4, <1>7 DEF OpenOf
<1>15. AgentStep(c, b)
  <2>1. \A a \in H!Target \ {b} : a \in agents' <=> a \in agents
    BY <1>4
  <2>2. AgentOp(req'[c]) => req'[c].target = b
    BY <1>10, <1>11
  <2> QED BY <1>2, <1>4, <1>10, <1>12, <1>13, <1>14, <2>1, <2>2 DEF AgentStep
<1>16. AgentsBound'
  BY <1>1, <1>15, AgentSteps
<1> QED BY <1>9, <1>16 DEF HelpInv

\* What a request knows of its target, while that is undisturbed.
LEMMA AgentKnown ==
  ASSUME HelpInv, NEW c \in Client, AgentOp(req[c]), req[c].target \notin disturbed
  PROVE  /\ req[c].target \in H!Target
         /\ H!Subject(req[c]) = SubjectOf(req[c].target)
         /\ AgentAt(req[c], H!Bound(req[c].target), H!Powerful(req[c].target))
         /\ OpenOf(req[c].target) # {} => H!Bound(req[c].target) /\ H!Powerful(req[c].target)
         /\ req[c].pc \in {"revoke", "delete"} => OpenOf(req[c].target) = {}
<1>1. req[c].target \in H!Target
  BY DEF HelpInv, HelpType, StepsOf
<1>2. AgentBound(req[c].target) /\ WorkedOn(c, req[c].target)
  BY <1>1 DEF HelpInv, AgentsBound, WorkedOn
<1>3. H!Subject(req[c]) = SubjectOf(req[c].target)
  BY <1>1 DEF HelpInv, SubjectsApart
<1> QED BY <1>1, <1>2, <1>3 DEF AgentBound

\* A request is answered and leaves the tables alone.
LEMMA AnsweredHelp ==
  ASSUME HelpInv, NEW c \in Client, AgentOp(req[c]), H!Answer(c),
         UNCHANGED <<link, status, assignee, assigneeSub, crossed, agents, editor>>,
         disturbed \subseteq disturbed',
         req[c].target \in disturbed' \/ req[c].pc \in {"agent", "count", "write"}
  PROVE  HelpInv'
<1>1. req' = [req EXCEPT ![c] = H!Idle]
  BY DEF H!Answer
<1>2. Kept(H!Idle, req[c])
  BY DEF Kept
<1>3. PICK b : b = req[c].target
  OBVIOUS
<1>4. ASSUME b \notin disturbed' PROVE AgentNext(H!Idle, b)
  <2>1. b \notin disturbed
    BY <1>4
  <2>2. /\ AgentAt(req[c], H!Bound(b), H!Powerful(b))
        /\ OpenOf(b) # {} => H!Bound(b) /\ H!Powerful(b)
    BY <1>3, <2>1, AgentKnown
  <2>3. H!Bound(b)' = H!Bound(b) /\ H!Powerful(b)' = H!Powerful(b) /\ OpenOf(b)' = OpenOf(b)
    BY DEF H!Bound, H!Powerful, OpenOf
  <2> QED BY <1>3, <1>4, <2>2, <2>3, HelpIdle DEF AgentNext, AgentAt
<1>5. assigneeSub' \in [Ticket -> User \cup {None}]
  BY DEF HelpInv, HelpType
<1>6. UnderWay(c, H!Idle)
  BY <1>1, <1>2, <1>3, <1>4, <1>5, HelpIdle DEF UnderWay
<1> QED BY <1>6, HelpIdle, UnderWaySteps

\* Request c, which is about target b, goes on to step p.
Moved(c, p, b) ==
    /\ AgentOp(req[c]) /\ b = req[c].target /\ H!Goto(c, p)
    /\ p \in {"write", "grant", "record", "undo", "revoke", "delete"}
    /\ p = "write" => req[c].op = "assign"
    /\ p \in {"grant", "record"} =>
         req[c].op = "make" \/ (req[c].op = "assign" /\ b \in Member)
    /\ p = "undo" => req[c].op = "make"
    /\ p \in {"revoke", "delete"} => req[c].op = "remove"
    /\ UNCHANGED <<link, status, assignee, assigneeSub, crossed>> /\ disturbed \subseteq disturbed'
    /\ agents' \in {agents, agents \cup {b}, agents \ {b}}
    /\ editor' \in {editor, editor \cup {H!Subject(req[c])}, editor \ {H!Subject(req[c])}}
    /\ b \notin disturbed' =>
         /\ p # "undo"
         /\ p = "record" /\ b \in Member => H!Powerful(b)'
         /\ p = "grant" /\ b \in Chair => H!Bound(b)'
         /\ p = "write" => H!Bound(b)' /\ H!Powerful(b)'
         /\ p = "delete" => ~H!Powerful(b)'
         /\ p \in {"revoke", "delete"} => OpenOf(b) = {}
         /\ H!Bound(b) /\ H!Powerful(b) /\ OpenOf(b) # {} => H!Bound(b)' /\ H!Powerful(b)'

LEMMA MovedHelp ==
  ASSUME HelpInv, NEW c \in Client, NEW p, NEW b, Moved(c, p, b)
  PROVE  HelpInv'
<1> USE DEF Moved
<1>0. req[c] \in HelpRequest /\ StepsOf(req[c])
  BY DEF HelpInv, HelpType
<1> DEFINE k == [req[c] EXCEPT !.pc = p]
<1>1. /\ k.pc = p /\ Kept(k, req[c]) /\ k \in HelpRequest
      /\ k.op = req[c].op /\ k.target = req[c].target /\ k.ticket = req[c].ticket
  BY <1>0, HelpGoto DEF HelpRequest
<1>2. req' = [req EXCEPT ![c] = k]
  BY DEF H!Goto
<1> HIDE DEF k
<1>3. StepsOf(k)
  BY <1>0, <1>1, HelpConstantFacts DEF StepsOf, AgentOp
<1>4. b = req[c].target
  OBVIOUS
<1>5. ASSUME b \notin disturbed' PROVE AgentNext(k, b)
  <2>1. b \notin disturbed
    BY <1>5
  <2>2. OpenOf(b) # {} => H!Bound(b) /\ H!Powerful(b)
    BY <1>4, <2>1, AgentKnown
  <2>3. OpenOf(b)' = OpenOf(b)
    BY DEF OpenOf
  <2>4. k.op # "idle"
    BY <1>1 DEF AgentOp
  <2>5. OpenOf(b)' # {} => H!Bound(b)' /\ H!Powerful(b)'
    BY <1>4, <1>5, <2>2, <2>3
  <2>6. /\ k.pc = "record" /\ k.target \in Member => H!Powerful(b)'
        /\ k.pc = "grant" /\ k.target \in Chair => H!Bound(b)'
        /\ k.pc = "write" => H!Bound(b)' /\ H!Powerful(b)'
        /\ k.pc = "delete" => ~H!Powerful(b)'
        /\ k.pc \notin {"undo", "agent", "count"}
    BY <1>1, <1>4, <1>5
  <2>7. k.pc \in {"revoke", "delete"} => OpenOf(b)' = {}
    BY <1>1, <1>4, <1>5, <2>3
  <2> QED BY <2>4, <2>5, <2>6, <2>7 DEF AgentNext, AgentAt
<1>6. UnderWay(c, k)
  <2>1. assigneeSub' \in [Ticket -> User \cup {None}]
    BY DEF HelpInv, HelpType
  <2> QED BY <1>1, <1>2, <1>3, <1>4, <1>5, <2>1 DEF UnderWay
<1> QED BY <1>1, <1>6, UnderWaySteps

LEMMA GetAgentHelp ==
  ASSUME HelpInv, NEW c \in Client, H!GetAgent(c)
  PROVE  HelpInv'
<1>1. /\ req[c].op = "assign" /\ req[c].pc = "agent"
      /\ CASE req[c].target \in agents -> H!Goto(c, "write")
           [] req[c].target \in Member \ agents -> H!Goto(c, "grant")
           [] OTHER -> H!Answer(c)
      /\ UNCHANGED <<link, status, assignee, assigneeSub, crossed, disturbed, agents, editor>>
  BY DEF H!GetAgent, H!tickets, H!binding
<1>2. AgentOp(req[c]) /\ disturbed \subseteq disturbed'
  BY <1>1 DEF AgentOp
<1>3. PICK b : b = req[c].target
  OBVIOUS
<1>4. H!Bound(b)' = H!Bound(b) /\ H!Powerful(b)' = H!Powerful(b)
  BY <1>1 DEF H!Bound, H!Powerful
<1>5. b \notin disturbed => (H!Bound(b) <=> H!Powerful(b))
  BY <1>1, <1>2, <1>3, AgentKnown DEF AgentAt
<1>6. CASE b \in agents
  <2>1. H!Goto(c, "write") /\ H!Bound(b)
    BY <1>1, <1>3, <1>6 DEF H!Bound
  <2>2. Moved(c, "write", b)
    BY <1>1, <1>2, <1>3, <1>4, <1>5, <2>1 DEF Moved
  <2> QED BY <2>2, MovedHelp
<1>7. CASE b \in Member \ agents
  <2>1. H!Goto(c, "grant") /\ ~H!Bound(b) /\ b \notin Chair
    BY <1>1, <1>3, <1>7, HelpConstantFacts DEF H!Bound
  <2>2. Moved(c, "grant", b)
    BY <1>1, <1>2, <1>3, <1>4, <1>5, <1>7, <2>1 DEF Moved
  <2> QED BY <2>2, MovedHelp
<1>8. CASE b \notin agents /\ b \notin Member
  <2>1. H!Answer(c)
    BY <1>1, <1>3, <1>8
  <2> QED BY <1>1, <1>2, <2>1, AnsweredHelp
<1> QED BY <1>6, <1>7, <1>8

LEMMA WriteAssignmentHelp ==
  ASSUME HelpInv, NEW c \in Client, H!WriteAssignment(c)
  PROVE  HelpInv'
<1>0. PICK b, t0 : b = req[c].target /\ t0 = req[c].ticket
  OBVIOUS
<1>1. /\ req[c].op = "assign" /\ req[c].pc = "write" /\ req' = [req EXCEPT ![c] = H!Idle]
      /\ assignee' = [assignee EXCEPT ![t0] = b]
      /\ UNCHANGED <<link, status, crossed, disturbed, agents, editor>>
  BY <1>0 DEF H!WriteAssignment, H!AssignTicket, H!Answer, H!binding
<1>2. AgentOp(req[c]) /\ Kept(H!Idle, req[c])
  BY <1>1 DEF AgentOp, Kept
<1>3. ASSUME b \notin disturbed' PROVE AgentNext(H!Idle, b)
  <2>1. H!Bound(b) /\ H!Powerful(b)
    BY <1>0, <1>1, <1>2, <1>3, AgentKnown DEF AgentAt
  <2>2. H!Bound(b)' /\ H!Powerful(b)'
    BY <1>1, <2>1 DEF H!Bound, H!Powerful
  <2> QED BY <2>2, HelpIdle DEF AgentNext
<1>4. assigneeSub' \in [Ticket -> User \cup {None}]
  <2>1. PICK s : s = IF b \in Member THEN req[c].sub ELSE None
    OBVIOUS
  <2>2. assigneeSub' = [assigneeSub EXCEPT ![t0] = s]
    BY <1>0, <2>1 DEF H!WriteAssignment, H!AssignTicket
  <2>3. s \in User \cup {None}
    BY <2>1 DEF HelpInv, HelpType, HelpRequest
  <2> QED BY <2>2, <2>3 DEF HelpInv, HelpType
<1>5. UnderWay(c, H!Idle)
  BY <1>0, <1>1, <1>2, <1>3, <1>4, HelpIdle DEF UnderWay
<1> QED BY <1>5, HelpIdle, UnderWaySteps

LEMMA GrantHelp ==
  ASSUME HelpInv, NEW c \in Client, H!Grant(c)
  PROVE  HelpInv'
<1>0. PICK b, s : b = req[c].target /\ s = H!Subject(req[c])
  OBVIOUS
<1>1. /\ req[c].pc = "grant" /\ editor' = editor \cup {s} /\ agents' = agents
      /\ IF b \in Member THEN H!Goto(c, "record") ELSE H!Answer(c)
      /\ UNCHANGED <<link, status, assignee, assigneeSub, crossed, disturbed>>
  BY <1>0 DEF H!Grant, H!GrantAgent, H!tickets
<1>2. /\ AgentOp(req[c]) /\ b \in H!Target
      /\ req[c].op = "make" \/ (req[c].op = "assign" /\ b \in Member)
  <2>1. req[c] \in HelpRequest /\ StepsOf(req[c])
    BY DEF HelpInv, HelpType
  <2> QED BY <1>0, <1>1, <2>1, HelpConstantFacts, HelpIdle DEF StepsOf, AgentOp, HelpRequest
<1>3. ASSUME b \notin disturbed
      PROVE  H!Powerful(b)' /\ (H!Bound(b)' <=> H!Bound(b)) /\ (b \in Chair => H!Bound(b))
  <2>1. s = SubjectOf(b) /\ (b \in Chair => H!Bound(b))
    BY <1>0, <1>1, <1>2, <1>3, AgentKnown DEF AgentAt
  <2> QED BY <1>1, <2>1 DEF H!Powerful, H!Bound, SubjectOf
<1>4. CASE b \in Member
  <2>1. H!Goto(c, "record")
    BY <1>1, <1>4
  <2>2. Moved(c, "record", b)
    BY <1>0, <1>1, <1>2, <1>3, <1>4, <2>1 DEF Moved
  <2> QED BY <2>2, MovedHelp
<1>5. CASE b \notin Member
  <2>1. b \in Chair /\ req' = [req EXCEPT ![c] = H!Idle]
    BY <1>1, <1>2, <1>5, HelpConstantFacts DEF H!Answer
  <2>2. b \notin disturbed' => AgentNext(H!Idle, b)
    BY <1>1, <1>3, <2>1, HelpIdle DEF AgentNext
  <2>3. assigneeSub' \in [Ticket -> User \cup {None}]
    BY <1>1 DEF HelpInv, HelpType
  <2>4. UnderWay(c, H!Idle)
    BY <1>0, <1>1, <1>2, <2>1, <2>2, <2>3, HelpIdle DEF UnderWay, Kept
  <2> QED BY <2>4, HelpIdle, UnderWaySteps
<1> QED BY <1>4, <1>5

LEMMA RecordHelp ==
  ASSUME HelpInv, NEW c \in Client, H!Record(c)
  PROVE  HelpInv'
<1>0. PICK b : b = req[c].target
  OBVIOUS
<1>1. /\ req[c].pc = "record" /\ agents' = agents \cup {b} /\ editor' = editor
      /\ CASE req[c].op = "assign" -> H!Goto(c, "write")
           [] b \in Chair -> H!Goto(c, "grant")
           [] OTHER -> H!Answer(c)
      /\ UNCHANGED <<link, status, assignee, assigneeSub, crossed, disturbed>>
  BY <1>0 DEF H!Record, H!RecordAgent, H!tickets
<1>2. /\ AgentOp(req[c]) /\ b \in H!Target
      /\ req[c].op = "make" \/ (req[c].op = "assign" /\ b \in Member)
  <2>1. req[c] \in HelpRequest /\ StepsOf(req[c])
    BY DEF HelpInv, HelpType
  <2> QED BY <1>0, <1>1, <2>1, HelpConstantFacts, HelpIdle DEF StepsOf, AgentOp, HelpRequest
<1>3. ASSUME b \notin disturbed
      PROVE  H!Bound(b)' /\ (H!Powerful(b)' <=> H!Powerful(b)) /\ (b \in Member => H!Powerful(b))
  <2>1. b \in Member => H!Powerful(b)
    BY <1>0, <1>1, <1>2, <1>3, AgentKnown DEF AgentAt
  <2> QED BY <1>1, <2>1 DEF H!Powerful, H!Bound
<1>4. CASE req[c].op = "assign"
  <2>1. H!Goto(c, "write") /\ b \in Member
    BY <1>1, <1>2, <1>4, HelpConstantFacts
  <2>2. Moved(c, "write", b)
    BY <1>0, <1>1, <1>2, <1>3, <1>4, <2>1 DEF Moved
  <2> QED BY <2>2, MovedHelp
<1>5. CASE req[c].op # "assign" /\ b \in Chair
  <2>1. H!Goto(c, "grant") /\ req[c].op = "make"
    BY <1>1, <1>2, <1>5
  <2>2. b \notin Member
    BY <1>5, HelpConstantFacts
  <2>3. Moved(c, "grant", b)
    BY <1>0, <1>1, <1>2, <1>3, <2>1, <2>2 DEF Moved
  <2> QED BY <2>3, MovedHelp
<1>6. CASE req[c].op # "assign" /\ b \notin Chair
  <2>1. b \in Member /\ req' = [req EXCEPT ![c] = H!Idle]
    BY <1>1, <1>2, <1>6, HelpConstantFacts DEF H!Answer
  <2>2. b \notin disturbed' => AgentNext(H!Idle, b)
    BY <1>1, <1>3, <2>1, HelpIdle DEF AgentNext
  <2>3. assigneeSub' \in [Ticket -> User \cup {None}]
    BY <1>1 DEF HelpInv, HelpType
  <2>4. UnderWay(c, H!Idle)
    BY <1>0, <1>1, <1>2, <2>1, <2>2, <2>3, HelpIdle DEF UnderWay, Kept
  <2> QED BY <2>4, HelpIdle, UnderWaySteps
<1> QED BY <1>4, <1>5, <1>6

LEMMA UndoRecordHelp ==
  ASSUME HelpInv, NEW c \in Client, H!UndoRecord(c)
  PROVE  HelpInv'
<1>0. PICK b : b = req[c].target
  OBVIOUS
<1>1. /\ req[c].pc = "undo" /\ agents' = agents \ {b} /\ editor' = editor
      /\ req' = [req EXCEPT ![c] = H!Idle]
      /\ UNCHANGED <<link, status, assignee, assigneeSub, crossed, disturbed>>
  BY <1>0 DEF H!UndoRecord, H!RemoveAgent, H!tickets, H!Answer
<1>2. AgentOp(req[c])
  <2>1. req[c] \in HelpRequest /\ StepsOf(req[c])
    BY DEF HelpInv, HelpType
  <2> QED BY <1>1, <2>1, HelpIdle DEF StepsOf, AgentOp, HelpRequest
<1>3. b \in disturbed
  BY <1>0, <1>1, <1>2, AgentKnown DEF AgentAt
<1>4. assigneeSub' \in [Ticket -> User \cup {None}]
  BY <1>1 DEF HelpInv, HelpType
<1>5. UnderWay(c, H!Idle)
  BY <1>0, <1>1, <1>2, <1>3, <1>4, HelpIdle DEF UnderWay, Kept
<1> QED BY <1>5, HelpIdle, UnderWaySteps

\* No ticket counted, no ticket that keeps the target.
LEMMA NoneCounted ==
  ASSUME NEW a, ~(H!CountOpenAssignedTickets(a) > 0)
  PROVE  OpenOf(a) = {}
<1> DEFINE S == {t \in Ticket : assignee[t] = a /\ status[t] # "closed"}
<1>1. IsFiniteSet(S)
  <2>1. S \subseteq Ticket
    OBVIOUS
  <2> QED BY <2>1, HelpConstantFacts, FS_Subset
<1>2. H!Cardinality(S) = Cardinality(S)
  BY Zenon DEF H!Cardinality, Cardinality
<1>3. H!CountOpenAssignedTickets(a) = H!Cardinality(S)
  BY DEF H!CountOpenAssignedTickets
<1> HIDE DEF S
<1>4. Cardinality(S) = 0
  BY <1>1, <1>2, <1>3, FS_CardinalityType
<1>5. S = {}
  BY <1>1, <1>4, FS_EmptySet
<1> QED BY <1>5 DEF S, OpenOf

LEMMA CheckUnassignedHelp ==
  ASSUME HelpInv, NEW c \in Client, H!CheckUnassigned(c)
  PROVE  HelpInv'
<1>0. PICK b : b = req[c].target
  OBVIOUS
<1>1. /\ req[c].op = "remove" /\ req[c].pc = "count"
      /\ IF H!CountOpenAssignedTickets(b) > 0 THEN H!Answer(c) ELSE H!Goto(c, "revoke")
      /\ UNCHANGED <<link, status, assignee, assigneeSub, crossed, disturbed, agents, editor>>
  BY <1>0 DEF H!CheckUnassigned, H!tickets, H!binding
<1>2. AgentOp(req[c])
  BY <1>1 DEF AgentOp
<1>3. CASE H!Answer(c)
  BY <1>1, <1>2, <1>3, AnsweredHelp
<1>4. CASE H!Goto(c, "revoke") /\ ~(H!CountOpenAssignedTickets(b) > 0)
  <2>1. OpenOf(b) = {}
    BY <1>4, NoneCounted
  <2>2. Moved(c, "revoke", b)
    BY <1>0, <1>1, <1>2, <1>4, <2>1 DEF Moved
  <2> QED BY <2>2, MovedHelp
<1> QED BY <1>1, <1>3, <1>4

LEMMA RevokeHelp ==
  ASSUME HelpInv, NEW c \in Client, H!Revoke(c)
  PROVE  HelpInv'
<1>0. PICK b, s : b = req[c].target /\ s = H!Subject(req[c])
  OBVIOUS
<1>1. /\ req[c].op = "remove" /\ req[c].pc = "revoke" /\ H!Goto(c, "delete")
      /\ editor' = editor \ {s} /\ agents' = agents
      /\ UNCHANGED <<link, status, assignee, assigneeSub, crossed, disturbed>>
  BY <1>0 DEF H!Revoke, H!RevokeAgent, H!tickets
<1>2. AgentOp(req[c])
  BY <1>1 DEF AgentOp
<1>3. ASSUME b \notin disturbed PROVE ~H!Powerful(b)' /\ OpenOf(b) = {}
  <2>1. s = SubjectOf(b) /\ OpenOf(b) = {}
    BY <1>0, <1>1, <1>2, <1>3, AgentKnown
  <2> QED BY <1>1, <2>1 DEF H!Powerful, SubjectOf
<1>4. Moved(c, "delete", b)
  BY <1>0, <1>1, <1>2, <1>3 DEF Moved
<1> QED BY <1>4, MovedHelp

LEMMA DeleteRecordHelp ==
  ASSUME HelpInv, NEW c \in Client, H!DeleteRecord(c)
  PROVE  HelpInv'
<1>0. PICK b : b = req[c].target
  OBVIOUS
<1>1. /\ req[c].op = "remove" /\ req[c].pc = "delete" /\ req' = [req EXCEPT ![c] = H!Idle]
      /\ agents' = agents \ {b} /\ editor' = editor
      /\ UNCHANGED <<link, status, assignee, assigneeSub, crossed, disturbed>>
  BY <1>0 DEF H!DeleteRecord, H!RemoveAgent, H!tickets, H!Answer
<1>2. AgentOp(req[c])
  BY <1>1 DEF AgentOp
<1>3. ASSUME b \notin disturbed' PROVE AgentNext(H!Idle, b)
  <2>1. ~H!Powerful(b) /\ OpenOf(b) = {}
    BY <1>0, <1>1, <1>2, <1>3, AgentKnown DEF AgentAt
  <2>2. ~H!Powerful(b)' /\ ~H!Bound(b)' /\ OpenOf(b)' = {}
    BY <1>1, <2>1 DEF H!Powerful, H!Bound, OpenOf
  <2> QED BY <2>2, HelpIdle DEF AgentNext
<1>4. assigneeSub' \in [Ticket -> User \cup {None}]
  BY <1>1 DEF HelpInv, HelpType
<1>5. UnderWay(c, H!Idle)
  BY <1>0, <1>1, <1>2, <1>3, <1>4, HelpIdle DEF UnderWay, Kept
<1> QED BY <1>5, HelpIdle, UnderWaySteps

\* A step of a request about no target, which writes no status.
LEMMA StatusHelp ==
  ASSUME HelpInv, NEW c \in Client, ~AgentOp(req[c]), NEW k \in HelpRequest, StepsOf(k),
         Kept(k, req[c]), req' = [req EXCEPT ![c] = k],
         k.op = "status" /\ k.pc = "write" => <<k.from, k.to>> \in H!ValidEdges,
         UNCHANGED <<link, status, assignee, assigneeSub, crossed, disturbed, agents, editor>>
  PROVE  HelpInv'
<1>1. HelpType /\ TicketsCreated /\ AgentsBound
  BY DEF HelpInv
<1>2. HelpType' /\ LinkedAlone' /\ SubjectsApart' /\ TicketsCreated' /\ TransitionsSingle'
  <2>1. /\ agents' \in SUBSET H!Target
        /\ assigneeSub' \in [Ticket -> User \cup {None}]
        /\ assignee' \in [Ticket -> H!Target \cup {None}]
        /\ \A t \in Ticket : status[t] = "none" => assignee'[t] = None
        /\ disturbed \subseteq disturbed'
    BY <1>1 DEF HelpType, TicketsCreated
  <2> QED BY <2>1, HelpRest
<1>3. req'[c] = k /\ \A d \in Client \ {c} : req'[d] = req[d]
  BY <1>1 DEF HelpType
<1>4. ~AgentOp(req'[c])
  BY <1>3, HelpIdle DEF Kept, AgentOp
<1>5. AgentStep(c, None)
  BY <1>3, <1>4, HelpConstantFacts DEF AgentStep, OpenOf
<1> QED BY <1>1, <1>2, <1>5, AgentSteps DEF HelpInv

\* A call fails, and the request is answered or, for a chair's grant, goes on to its
\* compensation; the tuple was or was not written.
LEMMA FailHelp ==
  ASSUME HelpInv, NEW c \in Client, req[c] # H!Idle, H!Failed(c) \/ H!Answer(c),
         H!Disturb(c), UNCHANGED <<link, status, assignee, assigneeSub, crossed, agents>>,
         editor' \in {editor, editor \cup {H!Subject(req[c])}, editor \ {H!Subject(req[c])}},
         ~AgentOp(req[c]) => editor' = editor
  PROVE  HelpInv'
<1>0. PICK b : b = req[c].target
  OBVIOUS
<1>1. req[c] \in HelpRequest /\ StepsOf(req[c])
  BY DEF HelpInv, HelpType
<1>2. CASE AgentOp(req[c])
  <2>1. b \in disturbed' /\ disturbed \subseteq disturbed'
    BY <1>0, <1>1, <1>2, HelpConstantFacts DEF H!Disturb, H!WorksOn, AgentOp, StepsOf
  <2>2. CASE H!Answer(c)
    <3>1. req' = [req EXCEPT ![c] = H!Idle]
      BY <2>2 DEF H!Answer
    <3>2. assigneeSub' \in [Ticket -> User \cup {None}]
      BY DEF HelpInv, HelpType
    <3>3. UnderWay(c, H!Idle)
      BY <1>0, <1>2, <2>1, <3>1, <3>2, HelpIdle DEF UnderWay, Kept
    <3> QED BY <3>3, HelpIdle, UnderWaySteps
  <2>3. CASE H!Goto(c, "undo") /\ req[c].op = "make"
    <3>1. Moved(c, "undo", b)
      BY <1>0, <1>2, <2>1, <2>3 DEF Moved
    <3> QED BY <3>1, MovedHelp
  <2> QED BY <2>2, <2>3 DEF H!Failed
<1>3. CASE ~AgentOp(req[c])
  <2>1. req[c].op = "status"
    BY <1>1, <1>3 DEF HelpRequest, AgentOp, StepsOf
  <2>2. req' = [req EXCEPT ![c] = H!Idle] /\ disturbed' = disturbed
    BY <2>1 DEF H!Failed, H!Answer, H!Disturb, H!WorksOn
  <2>3. Kept(H!Idle, req[c])
    BY DEF Kept
  <2> QED BY <1>3, <2>2, <2>3, HelpIdle, StatusHelp
<1> QED BY <1>2, <1>3

LEMMA CheckTransitionHelp ==
  ASSUME HelpInv, NEW c \in Client, H!CheckTransition(c)
  PROVE  HelpInv'
<1>0. req[c] \in HelpRequest /\ StepsOf(req[c])
  BY DEF HelpInv, HelpType
<1>1. /\ req[c].op = "status" /\ req[c].pc = "check"
      /\ \/ H!Goto(c, "write") /\ <<req[c].from, req[c].to>> \in H!ValidEdges
         \/ H!Answer(c)
      /\ UNCHANGED <<link, status, assignee, assigneeSub, crossed, disturbed, agents, editor>>
  BY DEF H!CheckTransition, H!tickets, H!binding
<1>2. ~AgentOp(req[c])
  BY <1>1 DEF AgentOp
<1>3. CASE H!Answer(c)
  <2>1. req' = [req EXCEPT ![c] = H!Idle] /\ Kept(H!Idle, req[c])
    BY <1>3 DEF H!Answer, Kept
  <2> QED BY <1>1, <1>2, <2>1, HelpIdle, StatusHelp
<1>4. CASE H!Goto(c, "write") /\ <<req[c].from, req[c].to>> \in H!ValidEdges
  <2> DEFINE k == [req[c] EXCEPT !.pc = "write"]
  <2>1. req' = [req EXCEPT ![c] = k]
    BY <1>4 DEF H!Goto
  <2>2. k \in HelpRequest /\ Kept(k, req[c]) /\ k.pc = "write" /\ k.op = "status"
    BY <1>0, <1>1, HelpGoto
  <2>3. k.from = req[c].from /\ k.to = req[c].to /\ k.ticket = req[c].ticket
    BY <1>0 DEF HelpRequest
  <2> HIDE DEF k
  <2>4. StepsOf(k)
    BY <1>0, <1>1, <2>2, <2>3 DEF StepsOf, AgentOp
  <2>5. <<k.from, k.to>> \in H!ValidEdges
    BY <1>4, <2>3
  <2> QED BY <1>1, <1>2, <2>1, <2>2, <2>4, <2>5, StatusHelp
<1> QED BY <1>1, <1>3, <1>4

LEMMA TransitionStatusHelp ==
  ASSUME HelpInv, NEW c \in Client, H!TransitionStatus(c)
  PROVE  HelpInv'
<1>1. HelpType /\ LinkedAlone /\ SubjectsApart /\ TicketsCreated /\ TransitionsSingle /\ AgentsBound
  BY DEF HelpInv
<1>2. PICK t0, to : t0 = req[c].ticket /\ to = req[c].to
  OBVIOUS
<1>3. /\ req[c].op = "status" /\ req[c].pc = "write" /\ status' = [status EXCEPT ![t0] = to]
      /\ req' = [req EXCEPT ![c] = H!Idle]
      /\ UNCHANGED <<link, assignee, assigneeSub, crossed, disturbed, agents, editor>>
  BY <1>2 DEF H!TransitionStatus, H!UpdateTicketStatus, H!Answer, H!binding
<1>4. t0 \in Ticket /\ to \in H!Status
  BY <1>1, <1>2, <1>3 DEF HelpType, StepsOf
<1>5. /\ req'[c] = H!Idle /\ req' \in [Client -> HelpRequest]
      /\ \A d \in Client \ {c} : req'[d] = req[d]
  BY <1>1, <1>3, HelpIdle DEF HelpType
<1>6. status'[t0] = to /\ \A t \in Ticket \ {t0} : status'[t] = status[t]
  BY <1>1, <1>3, <1>4 DEF HelpType
<1>7. \A d \in Client : req'[d].op # "idle" => d # c /\ req'[d] = req[d]
  BY <1>5, HelpIdle
<1>8. HelpType'
  <2>1. \A d \in Client : StepsOf(req[d])'
    <3>1. ASSUME NEW d \in Client PROVE StepsOf(req[d])'
      <4>1. PICK r : r = req'[d] /\ StepsOf(r)
        BY <1>1, <1>5, HelpIdle DEF HelpType
      <4> QED BY <4>1 DEF StepsOf
    <3> QED BY <3>1
  <2> QED BY <1>1, <1>3, <1>4, <1>5, <2>1 DEF HelpType
<1>9. LinkedAlone'
  BY <1>1, <1>3 DEF LinkedAlone
<1>10. SubjectsApart'
  <2>1. SUFFICES ASSUME NEW d \in Client, AgentOp(req'[d]), NEW a \in H!Target \ disturbed
                 PROVE  H!Subject(req'[d]) = SubjectOf(a)' <=> req'[d].target = a
    BY <1>3 DEF SubjectsApart, AgentOp, H!Subject
  <2>2. req'[d] = req[d] /\ SubjectOf(a)' = SubjectOf(a)
    BY <1>3, <1>7, <2>1 DEF AgentOp, SubjectOf
  <2> QED BY <1>1, <2>1, <2>2 DEF SubjectsApart
<1>11. to # "none"
  BY <1>4 DEF H!Status
<1>12. TicketsCreated'
  BY <1>1, <1>3, <1>6, <1>7, <1>11, <1>8 DEF TicketsCreated, HelpType, StepsOf
<1>13. TransitionsSingle'
  <2>1. ASSUME NEW d \in Client, req'[d].op = "status"
        PROVE  /\ req'[d].pc = "write" => <<req'[d].from, req'[d].to>> \in H!ValidEdges
               /\ req'[d].ticket \notin crossed =>
                    /\ req'[d].from = status'[req'[d].ticket]
                    /\ \A e \in Client \ {d} :
                         ~(req'[e].op = "status" /\ req'[e].ticket = req'[d].ticket)
    <3>1. d # c /\ req'[d] = req[d] /\ req[d].ticket \in Ticket
      BY <1>1, <1>7, <2>1 DEF HelpType, StepsOf
    <3>2. req[d].pc = "write" => <<req[d].from, req[d].to>> \in H!ValidEdges
      BY <1>1, <2>1, <3>1 DEF TransitionsSingle
    <3>3. ASSUME req[d].ticket \notin crossed
          PROVE  /\ req[d].from = status'[req[d].ticket]
                 /\ \A e \in Client \ {d} :
                      ~(req'[e].op = "status" /\ req'[e].ticket = req[d].ticket)
      <4>1. /\ req[d].from = status[req[d].ticket]
            /\ \A e \in Client \ {d} : ~(req[e].op = "status" /\ req[e].ticket = req[d].ticket)
        BY <1>1, <2>1, <3>1, <3>3 DEF TransitionsSingle
      <4>2. req[d].ticket # t0
        BY <1>2, <1>3, <3>1, <4>1
      <4> QED BY <1>6, <1>7, <3>1, <4>1, <4>2
    <3> QED BY <3>1, <3>2, <3>3
  <2> QED BY <1>3, <2>1 DEF TransitionsSingle, H!ValidEdges
<1>14. \A a \in H!Target : OpenOf(a)' \subseteq OpenOf(a)
  <2>1. t0 \notin crossed => status[t0] \in H!Status \ {"closed"}
    BY <1>1, <1>2, <1>3 DEF TransitionsSingle, H!ValidEdges, H!Status
  <2> QED BY <1>3, <1>6, <2>1 DEF OpenOf
<1>15. AgentStep(c, None)
  <2>1. ~AgentOp(req[c]) /\ ~AgentOp(req'[c])
    BY <1>3, <1>5, HelpIdle DEF AgentOp
  <2> QED BY <1>3, <1>5, <1>14, <2>1, HelpConstantFacts DEF AgentStep
<1> QED BY <1>1, <1>8, <1>9, <1>10, <1>12, <1>13, <1>15, AgentSteps DEF HelpInv

LEMMA LoadTicketHelp ==
  ASSUME HelpInv, NEW c \in Client, NEW u \in User, NEW t0 \in Ticket, NEW to \in H!Status,
         H!LoadTicket(c, u, t0, to)
  PROVE  HelpInv'
<1>1. HelpType /\ LinkedAlone /\ SubjectsApart /\ TicketsCreated /\ TransitionsSingle /\ AgentsBound
  BY DEF HelpInv
<1> DEFINE k == [H!Idle EXCEPT !.op = "status", !.pc = "check", !.actor = u,
                               !.ticket = t0, !.from = status[t0], !.to = to,
                               !.target = assignee[t0], !.sub = assigneeSub[t0]]
<1>2. /\ req[c] = H!Idle /\ status[t0] # "none" /\ req' = [req EXCEPT ![c] = k]
      /\ crossed' = IF \E d \in Client \ {c} : req[d].op = "status" /\ req[d].ticket = t0
                    THEN crossed \cup {t0} ELSE crossed
      /\ UNCHANGED <<link, status, assignee, assigneeSub, disturbed, agents, editor>>
  BY DEF H!LoadTicket, H!tickets, H!binding
<1>3. k.op = "status" /\ k.pc = "check" /\ k.ticket = t0 /\ k.from = status[t0] /\ k.to = to
  BY DEF H!Idle
<1>4. status[t0] \in H!Status
  BY <1>1, <1>2 DEF HelpType
<1>5. assigneeSub[t0] \in User \cup {None}
  BY <1>1 DEF HelpType
<1>6. k \in HelpRequest
  BY <1>1, <1>4, <1>5 DEF HelpType, HelpRequest, H!Idle
<1> HIDE DEF k
<1>7. StepsOf(k) /\ ~AgentOp(k)
  BY <1>3, <1>4 DEF StepsOf, AgentOp
<1>8. /\ req'[c] = k /\ req' \in [Client -> HelpRequest]
      /\ \A d \in Client \ {c} : req'[d] = req[d]
  BY <1>1, <1>2, <1>6 DEF HelpType
<1>9. HelpType'
  <2>1. \A d \in Client : StepsOf(req[d])'
    <3>1. ASSUME NEW d \in Client PROVE StepsOf(req[d])'
      <4>1. PICK r : r = req'[d] /\ StepsOf(r)
        BY <1>1, <1>7, <1>8 DEF HelpType
      <4> QED BY <4>1 DEF StepsOf
    <3> QED BY <3>1
  <2> QED BY <1>1, <1>2, <1>8, <2>1 DEF HelpType
<1>10. LinkedAlone'
  BY <1>1, <1>2 DEF LinkedAlone
<1>11. SubjectsApart'
  <2>1. SUFFICES ASSUME NEW d \in Client, AgentOp(req'[d]), NEW a \in H!Target \ disturbed
                 PROVE  H!Subject(req'[d]) = SubjectOf(a)' <=> req'[d].target = a
    BY <1>2 DEF SubjectsApart, AgentOp, H!Subject
  <2>2. req'[d] = req[d] /\ SubjectOf(a)' = SubjectOf(a)
    BY <1>2, <1>7, <1>8, <2>1 DEF SubjectOf
  <2> QED BY <1>1, <2>1, <2>2 DEF SubjectsApart
<1>12. TicketsCreated'
  BY <1>1, <1>2, <1>3, <1>8 DEF TicketsCreated
<1>13. TransitionsSingle'
  <2>1. ASSUME NEW d \in Client, req'[d].op = "status"
        PROVE  /\ req'[d].pc = "write" => <<req'[d].from, req'[d].to>> \in H!ValidEdges
               /\ req'[d].ticket \notin crossed' =>
                    /\ req'[d].from = status[req'[d].ticket]
                    /\ \A e \in Client \ {d} :
                         ~(req'[e].op = "status" /\ req'[e].ticket = req'[d].ticket)
    <3>1. CASE d = c
      <4>1. t0 \notin crossed' =>
              \A e \in Client \ {c} : ~(req[e].op = "status" /\ req[e].ticket = t0)
        BY <1>2
      <4> QED BY <1>3, <1>8, <3>1, <4>1
    <3>2. CASE d # c
      <4>1. req'[d] = req[d]
        BY <1>8, <3>2
      <4>2. req[d].ticket \notin crossed' => req[d].ticket \notin crossed /\ req[d].ticket # t0
        BY <1>2, <2>1, <3>2, <4>1
      <4>3. req[d].pc = "write" => <<req[d].from, req[d].to>> \in H!ValidEdges
        BY <1>1, <2>1, <4>1 DEF TransitionsSingle
      <4>4. ASSUME req[d].ticket \notin crossed'
            PROVE  /\ req[d].from = status[req[d].ticket]
                   /\ \A e \in Client \ {d} :
                        ~(req'[e].op = "status" /\ req'[e].ticket = req[d].ticket)
        <5>1. /\ req[d].from = status[req[d].ticket]
              /\ \A e \in Client \ {d} : ~(req[e].op = "status" /\ req[e].ticket = req[d].ticket)
          BY <1>1, <2>1, <4>1, <4>2, <4>4 DEF TransitionsSingle
        <5> QED BY <1>3, <1>8, <4>2, <4>4, <5>1
      <4> QED BY <4>1, <4>3, <4>4
    <3> QED BY <3>1, <3>2
  <2> QED BY <1>2, <2>1 DEF TransitionsSingle, H!ValidEdges
<1>14. \A a \in H!Target : OpenOf(a)' \subseteq OpenOf(a)
  BY <1>2 DEF OpenOf
<1>15. AgentStep(c, None)
  <2>1. ~AgentOp(req[c]) /\ ~AgentOp(req'[c])
    BY <1>2, <1>7, <1>8, HelpIdle
  <2> QED BY <1>2, <1>8, <1>14, <2>1, HelpConstantFacts DEF AgentStep
<1> QED BY <1>1, <1>9, <1>10, <1>11, <1>12, <1>13, <1>15, AgentSteps DEF HelpInv

\* A request about a target begins: where the target is undisturbed, it is alone.
LEMMA BeginHelp ==
  ASSUME HelpInv, NEW c \in Client, NEW r \in HelpRequest, StepsOf(r), AgentOp(r), H!Begin(c, r),
         H!Subject(r) = SubjectOf(r.target),
         \/ r.pc \in {"agent", "count"}
         \/ r.pc = "grant" /\ r.target \in Member
         \/ r.pc = "record" /\ r.target \in Chair,
         r.op = "assign" => status[r.ticket] # "none",
         UNCHANGED <<link, status, assignee, assigneeSub, crossed, agents, editor>>
  PROVE  HelpInv'
<1>1. HelpType /\ LinkedAlone /\ SubjectsApart /\ TicketsCreated /\ TransitionsSingle /\ AgentsBound
  BY DEF HelpInv
<1>2. PICK b : b = r.target
  OBVIOUS
<1>3. /\ req[c] = H!Idle /\ req' = [req EXCEPT ![c] = r]
      /\ disturbed' = IF b \in H!Busy(c) THEN disturbed \cup {b} ELSE disturbed
  BY <1>2 DEF H!Begin
<1>4. /\ req'[c] = r /\ req' \in [Client -> HelpRequest]
      /\ \A d \in Client \ {c} : req'[d] = req[d]
  BY <1>1, <1>3 DEF HelpType
<1>5. b \in H!Target /\ disturbed \subseteq disturbed'
  BY <1>2, <1>3 DEF StepsOf
<1>6. HelpType'
  <2>1. \A d \in Client : StepsOf(req[d])'
    <3>1. ASSUME NEW d \in Client PROVE StepsOf(req[d])'
      <4>1. PICK q : q = req'[d] /\ StepsOf(q)
        BY <1>1, <1>4 DEF HelpType
      <4> QED BY <4>1 DEF StepsOf
    <3> QED BY <3>1
  <2> QED BY <1>1, <1>4, <2>1 DEF HelpType
<1>7. LinkedAlone'
  BY <1>1, <1>5 DEF LinkedAlone
<1>8. SubjectsApart'
  <2>1. SUFFICES ASSUME NEW d \in Client, AgentOp(req'[d]), NEW a \in H!Target \ disturbed'
                 PROVE  H!Subject(req'[d]) = SubjectOf(a) <=> req'[d].target = a
    BY DEF SubjectsApart, AgentOp, H!Subject, SubjectOf
  <2>2. CASE d = c
    <3>1. H!Subject(req'[d]) = SubjectOf(b) /\ req'[d].target = b
      BY <1>2, <1>4, <2>2
    <3>2. SubjectOf(b) = SubjectOf(a) => a = b
      BY <1>1, <1>5, <2>1, HelpConstantFacts DEF SubjectOf, LinkedAlone, HelpType
    <3> QED BY <3>1, <3>2
  <2>3. CASE d # c
    BY <1>1, <1>4, <1>5, <2>1, <2>3 DEF SubjectsApart
  <2> QED BY <2>2, <2>3
<1>9. r.op # "status"
  BY DEF AgentOp
<1>10. TicketsCreated'
  BY <1>1, <1>4, <1>9 DEF TicketsCreated
<1>11. TransitionsSingle'
  <2>1. \A d \in Client : req'[d].op = "status" => d # c /\ req'[d] = req[d]
    BY <1>4, <1>9
  <2>2. ASSUME NEW d \in Client, req'[d].op = "status"
        PROVE  /\ req'[d].pc = "write" => <<req'[d].from, req'[d].to>> \in H!ValidEdges
               /\ req'[d].ticket \notin crossed =>
                    /\ req'[d].from = status[req'[d].ticket]
                    /\ \A e \in Client \ {d} :
                         ~(req'[e].op = "status" /\ req'[e].ticket = req'[d].ticket)
    <3>1. req'[d] = req[d]
      BY <2>1, <2>2
    <3>2. /\ req[d].pc = "write" => <<req[d].from, req[d].to>> \in H!ValidEdges
          /\ req[d].ticket \notin crossed =>
               /\ req[d].from = status[req[d].ticket]
               /\ \A e \in Client \ {d} : ~(req[e].op = "status" /\ req[e].ticket = req[d].ticket)
      BY <1>1, <2>2, <3>1 DEF TransitionsSingle
    <3> QED BY <2>1, <3>1, <3>2
  <2> QED BY <2>2 DEF TransitionsSingle, H!ValidEdges
<1>12. ASSUME b \notin disturbed' PROVE AgentBound(b)'
  <2>1. b \notin disturbed /\ b \notin H!Busy(c)
    BY <1>3, <1>12
  <2>2. AgentBound(b)
    BY <1>1, <1>5, <2>1 DEF AgentsBound
  <2>3. \A d \in Client : ~WorkedOn(d, b)
    <3>1. ~WorkedOn(c, b)
      BY <1>3, HelpIdle DEF WorkedOn
    <3>2. ASSUME NEW d \in Client \ {c}, WorkedOn(d, b) PROVE b \in H!Busy(c)
      <4>1. b \in H!WorksOn(d)
        BY <1>5, <3>2, HelpConstantFacts DEF WorkedOn, AgentOp, H!WorksOn
      <4> QED BY <4>1 DEF H!Busy
    <3> QED BY <2>1, <3>1, <3>2
  <2>4. H!Bound(b) <=> H!Powerful(b)
    BY <2>2, <2>3 DEF AgentBound
  <2>5. (H!Bound(b)' <=> H!Bound(b)) /\ (H!Powerful(b)' <=> H!Powerful(b)) /\ OpenOf(b)' = OpenOf(b)
    BY DEF H!Bound, H!Powerful, OpenOf
  <2>6. \A d \in Client : WorkedOn(d, b)' <=> d = c
    BY <1>2, <1>4, <2>3 DEF WorkedOn
  <2>7. AgentAt(r, H!Bound(b)', H!Powerful(b)') /\ r.pc \notin {"revoke", "delete"}
    BY <1>2, <2>4, <2>5, HelpConstantFacts DEF AgentAt
  <2>8. AgentAt(req[c], H!Bound(b), H!Powerful(b))'
    BY <1>4, <2>7 DEF AgentAt
  <2>9. OpenOf(b)' # {} => H!Bound(b)' /\ H!Powerful(b)'
    BY <2>2, <2>5 DEF AgentBound
  <2>10. /\ \A d \in Client : WorkedOn(d, b)' => AgentAt(req[d], H!Bound(b), H!Powerful(b))'
         /\ \A d \in Client : WorkedOn(d, b)' => req'[d].pc \notin {"revoke", "delete"}
         /\ \A d, e \in Client : WorkedOn(d, b)' /\ WorkedOn(e, b)' => e = d
         /\ \E d \in Client : WorkedOn(d, b)'
    BY <1>4, <2>6, <2>7, <2>8
  <2> QED BY <2>9, <2>10 DEF AgentBound
<1>13. AgentStep(c, b)
  <2>1. ~AgentOp(req[c]) /\ (AgentOp(req'[c]) => req'[c].target = b)
    BY <1>2, <1>3, <1>4, HelpIdle
  <2>2. \A a \in H!Target : OpenOf(a)' \subseteq OpenOf(a)
    BY DEF OpenOf
  <2> QED BY <1>4, <1>5, <1>12, <2>1, <2>2 DEF AgentStep
<1> QED BY <1>1, <1>6, <1>7, <1>8, <1>10, <1>11, <1>13, AgentSteps DEF HelpInv

\* The requests about a target: each names the target's subject of that moment.
LEMMA RequestHelp ==
  ASSUME HelpInv, NEW c \in Client, H!Request(c)
  PROVE  HelpInv'
<1>0. /\ link \in [Member -> User \cup {None}] /\ status \in [Ticket -> H!Status \cup {"none"}]
  BY DEF HelpInv, HelpType
<1>1. ASSUME NEW u \in User, NEW t \in Ticket, NEW to \in H!Status, H!LoadTicket(c, u, t, to)
      PROVE  HelpInv'
  BY <1>1, LoadTicketHelp
<1>2. ASSUME NEW u \in User, NEW t \in Ticket, NEW a \in H!Target, H!HandleAssignTicket(c, u, t, a)
      PROVE  HelpInv'
  <2>0. PICK s : s = IF a \in Member THEN link[a] ELSE None
    OBVIOUS
  <2> DEFINE r == [H!Idle EXCEPT !.op = "assign", !.pc = "agent", !.actor = u, !.ticket = t,
                                 !.target = a, !.sub = s]
  <2>1. /\ status[t] # "none" /\ H!Begin(c, r)
        /\ UNCHANGED <<link, status, assignee, assigneeSub, crossed, agents, editor>>
    BY <1>2, <2>0 DEF H!HandleAssignTicket, H!tickets, H!binding
  <2>2. s \in User \cup {None}
    BY <1>0, <2>0
  <2>3. r \in HelpRequest
    BY <2>2 DEF HelpRequest, H!Idle
  <2>4. r.op = "assign" /\ r.pc = "agent" /\ r.ticket = t /\ r.target = a /\ r.sub = s
    BY DEF H!Idle
  <2> HIDE DEF r
  <2>5. StepsOf(r) /\ AgentOp(r)
    BY <2>4 DEF StepsOf, AgentOp
  <2>6. H!Subject(r) = SubjectOf(r.target)
    BY <2>0, <2>4, HelpConstantFacts DEF H!Subject, SubjectOf
  <2>7. r.pc \in {"agent", "count"} /\ (r.op = "assign" => status[r.ticket] # "none")
    BY <2>1, <2>4
  <2> QED BY <2>1, <2>3, <2>5, <2>6, <2>7, BeginHelp
<1>3. ASSUME NEW u \in User, NEW m \in Member, H!HandleMakeMemberAgent(c, u, m) PROVE HelpInv'
  <2> DEFINE r == [H!Idle EXCEPT !.op = "make", !.pc = "grant", !.actor = u,
                                 !.target = m, !.sub = link[m]]
  <2>1. /\ H!Begin(c, r)
        /\ UNCHANGED <<link, status, assignee, assigneeSub, crossed, agents, editor>>
    BY <1>3 DEF H!HandleMakeMemberAgent, H!tickets, H!binding
  <2>2. m \in H!Target /\ m \notin Chair
    BY HelpConstantFacts
  <2>3. r \in HelpRequest
    BY <1>0, <2>2 DEF HelpRequest, H!Idle
  <2>4. r.op = "make" /\ r.pc = "grant" /\ r.target = m /\ r.sub = link[m]
    BY DEF H!Idle
  <2> HIDE DEF r
  <2>5. StepsOf(r) /\ AgentOp(r)
    BY <2>2, <2>4 DEF StepsOf, AgentOp
  <2>6. H!Subject(r) = SubjectOf(r.target)
    BY <2>2, <2>4 DEF H!Subject, SubjectOf
  <2>7. (r.pc = "grant" /\ r.target \in Member) /\ (r.op = "assign" => status[r.ticket] # "none")
    BY <2>4
  <2> QED BY <2>1, <2>3, <2>5, <2>6, <2>7, BeginHelp
<1>4. ASSUME NEW u \in User, NEW h \in Chair, H!HandleMakeChairAgent(c, u, h) PROVE HelpInv'
  <2> DEFINE r == [H!Idle EXCEPT !.op = "make", !.pc = "record", !.actor = u, !.target = h]
  <2>1. /\ H!Begin(c, r)
        /\ UNCHANGED <<link, status, assignee, assigneeSub, crossed, agents, editor>>
    BY <1>4 DEF H!HandleMakeChairAgent, H!tickets, H!binding
  <2>2. h \in H!Target
    BY HelpConstantFacts
  <2>3. r \in HelpRequest
    BY <2>2 DEF HelpRequest, H!Idle
  <2>4. r.op = "make" /\ r.pc = "record" /\ r.target = h
    BY DEF H!Idle
  <2> HIDE DEF r
  <2>5. StepsOf(r) /\ AgentOp(r)
    BY <2>2, <2>4 DEF StepsOf, AgentOp
  <2>6. H!Subject(r) = SubjectOf(r.target)
    BY <2>4 DEF H!Subject, SubjectOf
  <2>7. (r.pc = "record" /\ r.target \in Chair) /\ (r.op = "assign" => status[r.ticket] # "none")
    BY <2>4
  <2> QED BY <2>1, <2>3, <2>5, <2>6, <2>7, BeginHelp
<1>5. ASSUME NEW u \in User, NEW a \in H!Target, H!HandleRemoveAgent(c, u, a) PROVE HelpInv'
  <2>0. PICK s : s = IF a \in Member THEN link[a] ELSE None
    OBVIOUS
  <2> DEFINE r == [H!Idle EXCEPT !.op = "remove", !.pc = "count", !.actor = u, !.target = a,
                                 !.sub = s]
  <2>1. /\ H!Begin(c, r)
        /\ UNCHANGED <<link, status, assignee, assigneeSub, crossed, agents, editor>>
    BY <1>5, <2>0 DEF H!HandleRemoveAgent, H!tickets, H!binding
  <2>2. s \in User \cup {None}
    BY <1>0, <2>0
  <2>3. r \in HelpRequest
    BY <2>2 DEF HelpRequest, H!Idle
  <2>4. r.op = "remove" /\ r.pc = "count" /\ r.target = a /\ r.sub = s
    BY DEF H!Idle
  <2> HIDE DEF r
  <2>5. StepsOf(r) /\ AgentOp(r)
    BY <2>4 DEF StepsOf, AgentOp
  <2>6. H!Subject(r) = SubjectOf(r.target)
    BY <2>0, <2>4, HelpConstantFacts DEF H!Subject, SubjectOf
  <2>7. r.pc \in {"agent", "count"} /\ (r.op = "assign" => status[r.ticket] # "none")
    BY <2>4
  <2> QED BY <2>1, <2>3, <2>5, <2>6, <2>7, BeginHelp
<1> QED BY <1>1, <1>2, <1>3, <1>4, <1>5 DEF H!Request

\* No request moves, and the target keeps its row, its tuple and its tickets.
LEMMA AgentUntouched ==
  ASSUME NEW a, AgentBound(a), UNCHANGED <<req, agents, editor>>, SubjectOf(a)' = SubjectOf(a),
         OpenOf(a)' \subseteq OpenOf(a)
  PROVE  AgentBound(a)'
<1>1. (H!Bound(a)' <=> H!Bound(a)) /\ (H!Powerful(a)' <=> H!Powerful(a))
  BY DEF H!Bound, H!Powerful, SubjectOf
<1>2. \A c \in Client : WorkedOn(c, a)' <=> WorkedOn(c, a)
  BY DEF WorkedOn
<1>3. ASSUME NEW c \in Client, WorkedOn(c, a)' PROVE AgentAt(req[c], H!Bound(a), H!Powerful(a))'
  <2>1. AgentAt(req[c], H!Bound(a), H!Powerful(a))
    BY <1>2, <1>3 DEF AgentBound
  <2> QED BY <1>1, <2>1 DEF AgentAt
<1>4. /\ (\A c \in Client : ~WorkedOn(c, a)') => (H!Bound(a)' <=> H!Powerful(a)')
      /\ OpenOf(a)' # {} => H!Bound(a)' /\ H!Powerful(a)'
      /\ \A c \in Client : WorkedOn(c, a)' /\ req'[c].pc \in {"revoke", "delete"} => OpenOf(a)' = {}
      /\ \A c, b \in Client : WorkedOn(c, a)' /\ WorkedOn(b, a)' => b = c
  BY <1>1, <1>2 DEF AgentBound
<1> QED BY <1>3, <1>4 DEF AgentBound

LEMMA CreateTicketHelp ==
  ASSUME HelpInv, NEW t0 \in Ticket, NEW u \in User, H!CreateTicket(t0, u)
  PROVE  HelpInv'
<1>1. HelpType /\ LinkedAlone /\ SubjectsApart /\ TicketsCreated /\ TransitionsSingle /\ AgentsBound
  BY DEF HelpInv
<1>2. /\ status[t0] = "none" /\ status' = [status EXCEPT ![t0] = "open"]
      /\ UNCHANGED <<assignee, assigneeSub, link, agents, editor, req, disturbed, crossed>>
  BY DEF H!CreateTicket, H!binding
<1>3. status'[t0] = "open" /\ \A t \in Ticket \ {t0} : status'[t] = status[t]
  BY <1>1, <1>2 DEF HelpType
<1>4. HelpType'
  <2>1. "open" \in H!Status
    BY DEF H!Status
  <2> QED BY <1>1, <1>2, <2>1 DEF HelpType, StepsOf
<1>5. LinkedAlone' /\ SubjectsApart'
  BY <1>1, <1>2 DEF LinkedAlone, SubjectsApart, SubjectOf, AgentOp, H!Subject
<1>6. \A c \in Client : req[c].op \in {"assign", "status"} =>
         req[c].ticket \in Ticket /\ req[c].ticket # t0
  BY <1>1, <1>2 DEF HelpType, StepsOf, TicketsCreated
<1>7. TicketsCreated'
  BY <1>1, <1>2, <1>3, <1>6 DEF TicketsCreated
<1>8. TransitionsSingle'
  BY <1>1, <1>2, <1>3, <1>6 DEF TransitionsSingle, H!ValidEdges
<1>9. AgentsBound'
  <2> SUFFICES ASSUME NEW a \in H!Target \ disturbed PROVE AgentBound(a)'
    BY <1>2 DEF AgentsBound
  <2>1. assignee[t0] # a
    BY <1>1, <1>2, HelpConstantFacts DEF TicketsCreated
  <2>2. OpenOf(a)' \subseteq OpenOf(a)
    BY <1>2, <1>3, <2>1 DEF OpenOf
  <2>3. SubjectOf(a)' = SubjectOf(a) /\ UNCHANGED <<req, agents, editor>>
    BY <1>2 DEF SubjectOf
  <2> QED BY <1>1, <2>2, <2>3, AgentUntouched DEF AgentsBound
<1> QED BY <1>4, <1>5, <1>7, <1>8, <1>9 DEF HelpInv

LEMMA RelinkHelp ==
  ASSUME HelpInv, NEW m \in Member, NEW u \in User \cup {None}, H!Relink(m, u)
  PROVE  HelpInv'
<1>1. HelpType /\ LinkedAlone /\ SubjectsApart /\ TicketsCreated /\ TransitionsSingle /\ AgentsBound
  BY DEF HelpInv
<1>2. /\ u # None => \A n \in Member : link[n] # u
      /\ link' = [link EXCEPT ![m] = u] /\ disturbed' = disturbed \cup {m}
      /\ UNCHANGED <<status, assignee, assigneeSub, agents, editor, req, crossed>>
  BY DEF H!Relink, H!tickets, H!binding
<1>3. link'[m] = u /\ \A n \in Member \ {m} : link'[n] = link[n]
  BY <1>1, <1>2 DEF HelpType
<1>4. HelpType'
  BY <1>1, <1>2 DEF HelpType, StepsOf
<1>5. LinkedAlone'
  BY <1>1, <1>2, <1>3 DEF LinkedAlone
<1>6. \A a \in H!Target \ disturbed' : SubjectOf(a)' = SubjectOf(a) /\ a \notin disturbed
  BY <1>2, <1>3, HelpConstantFacts DEF SubjectOf
<1>7. SubjectsApart'
  <2>1. SUFFICES ASSUME NEW c \in Client, AgentOp(req[c]), NEW a \in H!Target \ disturbed'
                 PROVE  H!Subject(req[c]) = SubjectOf(a)' <=> req[c].target = a
    BY <1>2 DEF SubjectsApart, AgentOp, H!Subject
  <2> QED BY <1>1, <1>6, <2>1 DEF SubjectsApart
<1>8. TicketsCreated' /\ TransitionsSingle'
  BY <1>1, <1>2 DEF TicketsCreated, TransitionsSingle, H!ValidEdges
<1>9. AgentsBound'
  <2> SUFFICES ASSUME NEW a \in H!Target \ disturbed' PROVE AgentBound(a)'
    BY DEF AgentsBound
  <2>1. OpenOf(a)' \subseteq OpenOf(a)
    BY <1>2 DEF OpenOf
  <2>2. UNCHANGED <<req, agents, editor>> /\ AgentBound(a)
    BY <1>1, <1>2, <1>6 DEF AgentsBound
  <2> QED BY <1>6, <2>1, <2>2, AgentUntouched
<1> QED BY <1>4, <1>5, <1>7, <1>8, <1>9 DEF HelpInv

LEMMA HelpInit == H!Init => HelpInv
<1> SUFFICES ASSUME H!Init PROVE HelpInv
  OBVIOUS
<1>1. \A c \in Client : req[c] = H!Idle
  BY DEF H!Init
<1>2. HelpType
  BY <1>1, HelpIdle DEF H!Init, HelpType
<1>3. LinkedAlone
  BY HelpConstantFacts DEF H!Init, LinkedAlone
<1>4. SubjectsApart /\ TicketsCreated /\ TransitionsSingle
  BY <1>1, HelpIdle DEF H!Init, SubjectsApart, TicketsCreated, TransitionsSingle
<1>5. AgentsBound
  <2> SUFFICES ASSUME NEW a \in H!Target PROVE AgentBound(a)
    BY DEF AgentsBound
  <2>1. \A c \in Client : ~WorkedOn(c, a)
    BY <1>1, HelpIdle DEF WorkedOn
  <2>2. ~H!Bound(a) /\ ~H!Powerful(a)
    BY DEF H!Init, H!Bound, H!Powerful
  <2>3. OpenOf(a) = {}
    BY DEF H!Init, OpenOf, H!Status
  <2> QED BY <2>1, <2>2, <2>3 DEF AgentBound
<1> QED BY <1>2, <1>3, <1>4, <1>5 DEF HelpInv

LEMMA HelpNext == HelpInv /\ H!Next => HelpInv'
<1> SUFFICES ASSUME HelpInv, H!Next PROVE HelpInv'
  OBVIOUS
<1>1. ASSUME NEW c \in Client, H!Step(c) PROVE HelpInv'
  BY <1>1, CheckTransitionHelp, TransitionStatusHelp, GetAgentHelp, WriteAssignmentHelp, GrantHelp,
     RecordHelp, UndoRecordHelp, CheckUnassignedHelp, RevokeHelp, DeleteRecordHelp DEF H!Step
<1>2. ASSUME NEW c \in Client, H!Fail(c) PROVE HelpInv'
  <2>1. /\ req[c] # H!Idle /\ (H!Failed(c) \/ H!Answer(c)) /\ H!Disturb(c) /\ editor' = editor
        /\ UNCHANGED <<link, status, assignee, assigneeSub, crossed, agents>>
    BY <1>2 DEF H!Fail, H!tickets, H!binding
  <2> QED BY <2>1, FailHelp
<1>3. ASSUME NEW c \in Client, H!AnswerLost(c) PROVE HelpInv'
  <2>1. /\ req[c].pc \in {"grant", "revoke"} /\ H!Failed(c) /\ H!Disturb(c) /\ agents' = agents
        /\ editor' \in {editor \cup {H!Subject(req[c])}, editor \ {H!Subject(req[c])}}
        /\ UNCHANGED <<link, status, assignee, assigneeSub, crossed>>
    BY <1>3 DEF H!AnswerLost, H!tickets, H!GrantAgent, H!RevokeAgent
  <2>2. req[c] # H!Idle
    BY <2>1, HelpIdle
  <2>3. AgentOp(req[c])
    BY <2>1, HelpIdle DEF HelpInv, HelpType, StepsOf, HelpRequest, AgentOp
  <2> QED BY <2>1, <2>2, <2>3, FailHelp
<1> QED BY <1>1, <1>2, <1>3, CreateTicketHelp, RequestHelp, RelinkHelp DEF H!Next

LEMMA HelpSafe ==
  HelpInv => H!BindingExactUnlessDisturbed /\ H!AssigneeIsAgentUnlessDisturbed
<1> SUFFICES ASSUME HelpInv
             PROVE  H!BindingExactUnlessDisturbed /\ H!AssigneeIsAgentUnlessDisturbed
  OBVIOUS
<1>1. ASSUME NEW a \in H!Target \ disturbed, \A c \in Client : a \notin H!WorksOn(c)
      PROVE  H!Bound(a) <=> H!Powerful(a)
  <2>1. \A c \in Client : ~WorkedOn(c, a)
    BY <1>1, HelpConstantFacts DEF WorkedOn, AgentOp, H!WorksOn
  <2> QED BY <2>1 DEF HelpInv, AgentsBound, AgentBound
<1>2. ASSUME NEW t \in Ticket \ crossed, status[t] \in H!Status \ {"closed"},
             assignee[t] \in H!Target \ disturbed
      PROVE  H!Bound(assignee[t]) /\ H!Powerful(assignee[t])
  <2>1. t \in OpenOf(assignee[t])
    BY <1>2 DEF OpenOf
  <2> QED BY <1>2, <2>1 DEF HelpInv, AgentsBound, AgentBound
<1> QED BY <1>1, <1>2 DEF H!BindingExactUnlessDisturbed, H!AssigneeIsAgentUnlessDisturbed
-------------------------------------------------------------------------------
(* The lists. *)

LEMMA ListFacts ==
  /\ IsFiniteSet(Item)
  /\ SortKey \subseteq Nat /\ None \notin SortKey
  /\ MaxPageSize \in Nat /\ Default \in 1 .. MaxPageSize
  /\ Asked \subseteq Int /\ MaxPage \in Nat
<1>1. L!IsFiniteSet(Item) = IsFiniteSet(Item)
  BY Zenon DEF L!IsFiniteSet, IsFiniteSet
<1> QED BY <1>1, ListConstants DEF L!DirectoryAssumption

LEMMA ListCounts == \A S : L!Cardinality(S) = Cardinality(S)
  BY Zenon DEF L!Cardinality, Cardinality

\* A page short of the last one leaves rows to ask for, and the last one leaves none.
LEMMA PagesCover ==
  ASSUME NEW total \in Nat, NEW size \in Nat \ {0}, NEW page \in Nat \ {0},
         ~(page < L!TotalPages(total, size))
  PROVE  total <= page * size
<1> DEFINE q == (total + size - 1) \div size
<1>1. q \in Nat /\ total + size - 1 < (q + 1) * size
  OBVIOUS
<1>2. q <= page
  BY <1>1 DEF L!TotalPages
<1> HIDE DEF q
<1>3. total <= q * size
  BY <1>1
<1>4. q * size <= page * size
  BY <1>1, <1>2
<1> QED BY <1>1, <1>3, <1>4

\* The rows that come before row i.
Before(i) == {j \in L!Rows : key[j] < key[i]}

Place(i) == Cardinality(Before(i)) + 1

\* A row whose key no other has.
Alone(i) == i \in L!Rows /\ \A j \in L!Rows \ {i} : key[j] # key[i]

LEMMA RowsFinite ==
  /\ IsFiniteSet(L!Rows) /\ Cardinality(L!Rows) \in Nat
  /\ \A i : IsFiniteSet(Before(i)) /\ Place(i) \in Nat \ {0}
<1>1. IsFiniteSet(L!Rows)
  BY ListFacts, FS_Subset DEF L!Rows
<1>2. ASSUME NEW i PROVE IsFiniteSet(Before(i)) /\ Place(i) \in Nat \ {0}
  <2>1. IsFiniteSet(Before(i))
    BY <1>1, FS_Subset DEF Before
  <2> QED BY <2>1, FS_CardinalityType DEF Place
<1> QED BY <1>1, <1>2, FS_CardinalityType

\* In every order that ORDER BY allows, such a row has its place, and no other.
LEMMA SortedPlace ==
  ASSUME key \in [Item -> SortKey \cup {None}], NEW s \in L!Sorted(L!Rows), NEW i, Alone(i)
  PROVE  /\ s \in Seq(Item) /\ Len(s) = Cardinality(L!Rows)
         /\ Place(i) \in 1 .. Len(s)
         /\ \A n \in 1 .. Len(s) : s[n] = i <=> n = Place(i)
<1> DEFINE n == Cardinality(L!Rows)
<1>1. n \in Nat /\ IsFiniteSet(L!Rows)
  BY RowsFinite
<1>2. /\ s \in [1 .. n -> L!Rows]
      /\ \A x, y \in 1 .. n : x < y => s[x] # s[y] /\ key[s[x]] <= key[s[y]]
  BY ListCounts DEF L!Sorted
<1> HIDE DEF n
<1>3. \A j \in L!Rows : j \in Item /\ key[j] \in Nat
  BY ListFacts DEF L!Rows
<1>4. s \in Seq(Item) /\ Len(s) = n
  BY <1>1, <1>2, <1>3
<1>5. \A x, y \in 1 .. n : s[x] = s[y] => x = y
  BY <1>1, <1>2
<1>6. \E p \in 1 .. n : s[p] = i
  <2>1. s \in Injection(1 .. n, L!Rows)
    BY <1>2, <1>5 DEF Injection, IsInjective
  <2>2. Cardinality(1 .. n) = n
    BY <1>1, FS_Interval
  <2>3. s \in Surjection(1 .. n, L!Rows)
    BY <1>1, <2>1, <2>2, FS_Injection DEF n
  <2> QED BY <2>3 DEF Surjection, Alone
<1>7. PICK p \in 1 .. n : s[p] = i
  BY <1>6
<1>8. Place(i) = p
  <2>1. \A x \in 1 .. n : key[s[x]] < key[i] <=> x < p
    <3>1. ASSUME NEW x \in 1 .. n PROVE key[s[x]] < key[i] <=> x < p
      <4>1. s[x] \in L!Rows /\ key[s[x]] \in Nat /\ key[i] \in Nat
        BY <1>2, <1>3 DEF Alone
      <4>2. x < p => key[s[x]] <= key[i] /\ s[x] # i
        BY <1>2, <1>7
      <4>3. s[x] # i => key[s[x]] # key[i]
        BY <4>1 DEF Alone
      <4>4. p < x => key[i] <= key[s[x]]
        BY <1>2, <1>7
      <4>5. x < p \/ x = p \/ p < x
        BY <1>1
      <4> QED BY <1>7, <4>1, <4>2, <4>3, <4>4, <4>5
    <3> QED BY <3>1
  <2> DEFINE f == [x \in 1 .. p - 1 |-> s[x]]
  <2>2. f \in Bijection(1 .. p - 1, Before(i))
    <3>1. \A x \in 1 .. p - 1 : x \in 1 .. n /\ f[x] = s[x] /\ s[x] \in Before(i)
      BY <1>1, <1>2, <2>1 DEF Before
    <3>2. \A j \in Before(i) : \E x \in 1 .. p - 1 : f[x] = j
      <4>1. ASSUME NEW j \in Before(i) PROVE \E x \in 1 .. p - 1 : f[x] = j
        <5>1. s \in Injection(1 .. n, L!Rows)
          BY <1>2, <1>5 DEF Injection, IsInjective
        <5>2. Cardinality(1 .. n) = n
          BY <1>1, FS_Interval
        <5>3. s \in Surjection(1 .. n, L!Rows)
          BY <1>1, <5>1, <5>2, FS_Injection DEF n
        <5>4. PICK x \in 1 .. n : s[x] = j
          BY <5>3 DEF Surjection, Before
        <5>5. x < p
          BY <2>1, <5>4 DEF Before
        <5> QED BY <1>1, <5>4, <5>5
      <4> QED BY <4>1
    <3>3. \A x, y \in 1 .. p - 1 : f[x] = f[y] => x = y
      BY <1>5, <3>1
    <3>4. f \in [1 .. p - 1 -> Before(i)]
      BY <3>1
    <3> HIDE DEF f
    <3> QED BY <3>2, <3>3, <3>4 DEF Bijection, Injection, Surjection, IsInjective
  <2>3. Cardinality(1 .. p - 1) = p - 1 /\ IsFiniteSet(1 .. p - 1)
    BY <1>1, FS_Interval
  <2>4. Cardinality(Before(i)) = p - 1
    BY <2>2, <2>3, FS_Bijection DEF ExistsBijection
  <2> QED BY <1>1, <2>4 DEF Place
<1> QED BY <1>1, <1>4, <1>5, <1>7, <1>8 DEF n

-------------------------------------------------------------------------------

Counts == {"first", "last", "never"}

\* What has been fetched of the page that the walk is at.
Fetched == walk.at = "answer" \/ (walk.at = "count" /\ list.store.count = "last")

\* The rows that lie behind the walk.
Behind == IF Fetched THEN walk.page * walk.size
          ELSE IF walk.page = 0 THEN 0 ELSE (walk.page - 1) * walk.size

\* The walk has come to row i.
Met(i) == \/ \E n \in 1 .. Len(walk.got) : walk.got[n] = i
          \/ \E n \in 1 .. Len(walk.view) : walk.view[n] = i

\* The walk has come to it once.
MetOnce(i) ==
    /\ \A n, m \in 1 .. Len(walk.got) : walk.got[n] = i /\ walk.got[m] = i => n = m
    /\ \A n, m \in 1 .. Len(walk.view) : walk.view[n] = i /\ walk.view[m] = i => n = m
    /\ \A n \in 1 .. Len(walk.got), m \in 1 .. Len(walk.view) :
         ~(walk.got[n] = i /\ walk.view[m] = i)

WalkStep == {"start", "gate", "count", "fetch", "answer", "refused", "done"}

WalkRec == [at : WalkStep, page : Nat, size : Int, total : Nat, view : Seq(Item), got : Seq(Item)]

WalkType ==
    /\ list.store.count \in Counts
    /\ key \in [Item -> SortKey \cup {None}]
    /\ walk \in WalkRec
    /\ removed \in BOOLEAN /\ added \in BOOLEAN /\ between \in BOOLEAN
    /\ walk.page # 0 => walk.size \in 1 .. MaxPageSize
    /\ walk.at \in {"count", "fetch", "answer"} => walk.page # 0
    /\ walk.at \in {"start", "gate", "count", "fetch"} /\ ~Fetched => walk.view = <<>>
    /\ walk.at = "start" \/ walk.page = 0 => walk.got = <<>>
    /\ walk.at \in {"count", "answer"} \/ (walk.at = "gate" /\ walk.page # 0)
         => list.store.count # "never"
    /\ walk.at = "fetch" /\ list.store.count = "never" => walk.got = <<>>
    /\ walk.at = "done" => walk.view = <<>>

Walks == walk.at \in {"gate", "count", "fetch", "answer"}

\* A list that is counted first is no longer than its count, unless a row came.
CountHolds ==
    walk.at = "fetch" /\ list.store.count = "first" /\ ~between =>
        Cardinality(L!Rows) <= walk.total

\* Unless a row went, the walk has come to a row or the row is still ahead; if the
\* walk has the answer, the count says so.
NoneMissed(i) ==
    ~removed /\ ~between =>
        /\ Met(i) \/ Behind < Place(i)
        /\ walk.at = "answer" => Met(i) \/ Behind < walk.total

\* Unless a row came, what the walk has come to lies behind it.
NoneTwice(i) == ~added => MetOnce(i) /\ (Met(i) => Place(i) <= Behind)

WalkHolds ==
    /\ Walks => CountHolds /\ \A i \in stayed : Alone(i) /\ NoneMissed(i) /\ NoneTwice(i)
    /\ walk.at = "done" =>
         \A i \in stayed : (~removed /\ ~between => Met(i)) /\ (~added => MetOnce(i))

ListInv == WalkType /\ WalkHolds

-------------------------------------------------------------------------------

LEMMA ListInit == L!Init => ListInv
<1> SUFFICES ASSUME L!Init PROVE ListInv
  OBVIOUS
<1>1. walk = L!Start /\ removed = FALSE /\ added = FALSE /\ between = FALSE /\ list \in L!List
  BY DEF L!Init
<1>2. key \in [Item -> SortKey \cup {None}]
  BY DEF L!Init
<1>3. list.store.count \in Counts
  <2>1. /\ \A name, store, gate : L!Org(name, store, gate).store = store
        /\ \A name, store : L!Module(name, store).store = store
    BY DEF L!Org, L!Module
  <2>2. \A sql : /\ L!CountFirst(sql).count \in Counts /\ L!CountLast(sql).count \in Counts
                 /\ L!NoCount(sql).count \in Counts
    BY DEF L!CountFirst, L!CountLast, L!NoCount, Counts
  <2>3. \A x \in {L!handleListMembers, L!handleMemberDirectory, L!handlePositionDirectory,
                L!handleGroupDirectory, L!handleListPositions, L!handleAdminPositionList,
                L!handleAdminGroupList, L!handleListGroupMembers} :
          x.store.count \in Counts
    <3>1. /\ L!ListMembers.count \in Counts /\ L!MemberDirectory.count \in Counts
          /\ L!ListPositions.count \in Counts /\ L!ListActiveGroups.count \in Counts
          /\ L!ListPositionsWithHolder.count \in Counts /\ L!ListGroupMembers.count \in Counts
          /\ L!ListGroupsWithMemberCount.count \in Counts
      BY <2>2 DEF L!ListMembers, L!MemberDirectory, L!ListPositions, L!ListActiveGroups,
         L!ListPositionsWithHolder, L!ListGroupsWithMemberCount, L!ListGroupMembers
    <3>2. /\ L!handleListMembers.store = L!ListMembers
          /\ L!handleMemberDirectory.store = L!MemberDirectory
          /\ L!handlePositionDirectory.store = L!ListPositions
          /\ L!handleGroupDirectory.store = L!ListActiveGroups
      BY <2>1 DEF L!handleListMembers, L!handleMemberDirectory, L!handlePositionDirectory,
         L!handleGroupDirectory
    <3>3. /\ L!handleListPositions.store = L!ListPositions
          /\ L!handleAdminPositionList.store = L!ListPositionsWithHolder
          /\ L!handleAdminGroupList.store = L!ListGroupsWithMemberCount
          /\ L!handleListGroupMembers.store = L!ListGroupMembers
      BY <2>1 DEF L!handleListPositions, L!handleAdminPositionList, L!handleAdminGroupList,
         L!handleListGroupMembers
    <3> QED BY <3>1, <3>2, <3>3
  <2>4. \A x \in {L!handleListChannels, L!handleListInbox, L!handleListProjects,
                L!handleListSubmissions, L!handleListApprovers, L!handleGetModuleAudit} :
          x.store.count \in Counts
    BY <2>1, <2>2 DEF L!handleListChannels, L!handleListInbox, L!handleListProjects,
           L!handleListSubmissions, L!handleListApprovers, L!handleGetModuleAudit,
       L!ListApproverAssignments, L!ListChannels, L!ListInbox, L!ListProjects,
              L!ListSubmissions, L!ModuleAudit
  <2> QED BY <1>1, <2>3, <2>4 DEF L!List
<1>4. walk \in WalkRec /\ walk.at = "start" /\ walk.page = 0 /\ walk.got = <<>> /\ walk.view = <<>>
  BY <1>1 DEF L!Start, WalkRec, WalkStep
<1>5. WalkType
  BY <1>1, <1>2, <1>3, <1>4 DEF WalkType
<1>6. WalkHolds
  BY <1>4 DEF WalkHolds, Walks
<1> QED BY <1>5, <1>6 DEF ListInv

\* The walk begins: nothing is behind it.
LEMMA AskSteps ==
  ASSUME ListInv, NEW size \in Asked, L!Ask(size)
  PROVE  ListInv'
<1>1. /\ walk' = [L!Start EXCEPT !.at = "gate", !.size = size]
      /\ stayed' = {i \in L!Rows : \A j \in L!Rows \ {i} : key[j] # key[i]}
      /\ UNCHANGED <<list, key, active, removed, added, between>>
  BY DEF L!Ask, L!Rest
<1>2. /\ walk' \in WalkRec /\ walk'.at = "gate" /\ walk'.page = 0
      /\ walk'.got = <<>> /\ walk'.view = <<>>
  <2>1. walk' = [at |-> "gate", page |-> 0, size |-> size, total |-> 0, view |-> <<>>, got |-> <<>>]
    BY <1>1 DEF L!Start
  <2>2. size \in Int /\ <<>> \in Seq(Item)
    BY ListFacts
  <2> QED BY <2>1, <2>2 DEF WalkRec, WalkStep
<1>3. WalkType'
  BY <1>1, <1>2 DEF ListInv, WalkType, Fetched
<1>4. \A i \in stayed' : Alone(i)'
  BY <1>1 DEF Alone, L!Rows
<1>5. \A i : Met(i)' = FALSE /\ MetOnce(i)'
  BY <1>2 DEF Met, MetOnce
<1>6. Behind' = 0
  BY <1>2 DEF Behind, Fetched
<1>7. \A i : 0 < Place(i)'
  <2>1. \A i : Place(i)' = Place(i)
    BY <1>1 DEF Place, Before, L!Rows
  <2> QED BY <2>1, RowsFinite
<1>8. WalkHolds'
  BY <1>2, <1>4, <1>5, <1>6, <1>7 DEF WalkHolds, Walks, CountHolds, NoneMissed, NoneTwice
<1> QED BY <1>3, <1>8 DEF ListInv

\* Steps that leave the rows alone.
LEMMA SameRows ==
  ASSUME UNCHANGED <<list, key, active>>
  PROVE  /\ L!Rows' = L!Rows
         /\ \A i : Place(i)' = Place(i)
         /\ \A i : Alone(i)' <=> Alone(i)
  BY DEF L!Rows, Place, Before, Alone

LEMMA SmallerOf ==
  ASSUME NEW a \in Int, NEW b \in Int
  PROVE  L!Min({a, b}) = IF a <= b THEN a ELSE b
<1>1. \E x \in {a, b} : \A y \in {a, b} : x <= y
  OBVIOUS
<1>2. L!Min({a, b}) \in {a, b} /\ \A y \in {a, b} : L!Min({a, b}) <= y
  BY <1>1 DEF L!Min
<1> QED BY <1>2

LEMMA GateSteps ==
  ASSUME ListInv, L!Gate
  PROVE  ListInv'
<1>1. /\ walk.at = "gate"
      /\ UNCHANGED <<list, key, active, stayed, removed, added, between>>
  BY DEF L!Gate, L!Rest, L!history
<1>2. WalkType /\ WalkHolds /\ walk \in WalkRec
  BY DEF ListInv, WalkType
<1>3. CASE walk' = [walk EXCEPT !.at = "refused"]
  <2>1. /\ walk' \in WalkRec /\ walk'.at = "refused" /\ walk'.got = walk.got
        /\ walk'.page = walk.page /\ walk'.size = walk.size
    BY <1>2, <1>3 DEF WalkRec, WalkStep
  <2>2. WalkType'
    BY <1>1, <1>2, <2>1 DEF WalkType, Fetched
  <2> QED BY <2>1, <2>2 DEF ListInv, WalkHolds, Walks
<1>4. CASE walk' # [walk EXCEPT !.at = "refused"]
  <2>1. PICK p : p = L!ClampPage(walk.page, walk.size)
    OBVIOUS
  <2>2. /\ walk' = [walk EXCEPT !.at = IF list.store.count = "first" THEN "count" ELSE "fetch",
                                !.page = p.page, !.size = p.size]
    BY <1>4, <2>1 DEF L!Gate, L!Goto, L!Counted
  <2>3. walk.page \in Nat /\ walk.size \in Int /\ (walk.page # 0 => walk.size \in 1 .. MaxPageSize)
    BY <1>2 DEF WalkType, WalkRec
  <2>4. /\ p.page = IF walk.page = 0 THEN 1 ELSE walk.page
        /\ p.size \in 1 .. MaxPageSize /\ (walk.page # 0 => p.size = walk.size)
    <3>1. /\ p.page = IF walk.page < 1 THEN 1 ELSE walk.page
          /\ p.size = IF walk.size < 1 THEN Default ELSE L!Min({walk.size, MaxPageSize})
      BY <2>1 DEF L!ClampPage
    <3>2. MaxPageSize \in Nat /\ Default \in 1 .. MaxPageSize
      BY ListFacts
    <3>3. L!Min({walk.size, MaxPageSize})
            = IF walk.size <= MaxPageSize THEN walk.size ELSE MaxPageSize
      BY <2>3, <3>2, SmallerOf
    <3> QED BY <2>3, <3>1, <3>2, <3>3
  <2>5. PICK pg, sz : pg = p.page /\ sz = p.size
    OBVIOUS
  <2>6. pg \in Nat \ {0} /\ sz \in Int
    BY <2>3, <2>4, <2>5, ListFacts
  <2>7. /\ walk' \in WalkRec /\ walk'.page = pg /\ walk'.size = sz
        /\ walk'.at = (IF list.store.count = "first" THEN "count" ELSE "fetch")
        /\ walk'.got = walk.got /\ walk'.view = walk.view
    BY <1>2, <2>2, <2>5, <2>6 DEF WalkRec, WalkStep
  <2>8. walk.view = <<>> /\ ~Fetched /\ ~Fetched'
    BY <1>1, <1>2, <2>7 DEF WalkType, Fetched
  <2>9. WalkType'
    <3>1. walk'.at = "fetch" /\ list.store.count = "never" => walk'.got = <<>>
      BY <1>1, <1>2, <2>7 DEF WalkType
    <3> QED BY <1>1, <1>2, <2>4, <2>5, <2>6, <2>7, <2>8, <3>1 DEF WalkType
  <2>10. Behind' = Behind
    <3>1. CASE walk.page = 0
      <4>1. pg = 1
        BY <2>4, <2>5, <3>1
      <4>2. Behind' = (pg - 1) * sz
        BY <2>6, <2>7, <2>8 DEF Behind
      <4>3. Behind = 0
        BY <2>8, <3>1 DEF Behind
      <4> QED BY <2>6, <4>1, <4>2, <4>3
    <3>2. CASE walk.page # 0
      BY <2>4, <2>5, <2>7, <2>8, <3>2 DEF Behind
    <3> QED BY <3>1, <3>2
  <2>11. \A i : (Met(i)' <=> Met(i)) /\ (MetOnce(i)' <=> MetOnce(i))
    BY <2>7 DEF Met, MetOnce
  <2>12. CountHolds'
    BY <1>1, <2>7 DEF CountHolds
  <2>13. \A i \in stayed : Alone(i)' /\ NoneMissed(i)' /\ NoneTwice(i)'
    <3>1. ASSUME NEW i \in stayed PROVE Alone(i)' /\ NoneMissed(i)' /\ NoneTwice(i)'
      <4>1. Alone(i) /\ NoneMissed(i) /\ NoneTwice(i)
        BY <1>1, <1>2 DEF WalkHolds, Walks
      <4> QED
        BY <1>1, <2>7, <2>10, <2>11, <4>1, SameRows DEF NoneMissed, NoneTwice
    <3> QED BY <3>1
  <2>14. WalkHolds'
    BY <1>1, <2>7, <2>12, <2>13 DEF WalkHolds, Walks
  <2> QED BY <2>9, <2>14 DEF ListInv
<1> QED BY <1>3, <1>4

LEMMA CountSteps ==
  ASSUME ListInv, L!Count
  PROVE  ListInv'
<1>1. /\ walk.at = "count"
      /\ UNCHANGED <<list, key, active, stayed, removed, added, between>>
  BY DEF L!Count, L!Rest, L!history
<1>2. WalkType /\ WalkHolds /\ walk \in WalkRec
  BY DEF ListInv, WalkType
<1>3. PICK n : n = Cardinality(L!Rows)
  OBVIOUS
<1>4. n \in Nat
  BY <1>3, RowsFinite
<1>5. walk' = [walk EXCEPT !.at = IF list.store.count = "first" THEN "fetch" ELSE "answer",
                           !.total = n]
  BY <1>3, ListCounts DEF L!Count, L!Counted
<1>6. /\ walk' \in WalkRec /\ walk'.page = walk.page /\ walk'.size = walk.size
      /\ walk'.at = (IF list.store.count = "first" THEN "fetch" ELSE "answer")
      /\ walk'.got = walk.got /\ walk'.view = walk.view /\ walk'.total = n
  BY <1>2, <1>4, <1>5 DEF WalkRec, WalkStep
<1>7. list.store.count \in {"first", "last"}
  BY <1>1, <1>2 DEF WalkType, Counts
<1>8. Fetched' <=> Fetched
  BY <1>1, <1>6, <1>7 DEF Fetched
<1>9. WalkType'
  BY <1>1, <1>2, <1>6, <1>7, <1>8 DEF WalkType, Fetched
<1>10. Behind' = Behind
  BY <1>6, <1>8 DEF Behind
<1>11. \A i : (Met(i)' <=> Met(i)) /\ (MetOnce(i)' <=> MetOnce(i))
  BY <1>6 DEF Met, MetOnce
<1>12. CountHolds'
  BY <1>1, <1>3, <1>4, <1>6, SameRows DEF CountHolds
<1>13. Behind \in Int
  <2>1. walk.page \in Nat /\ walk.size \in Int
    BY <1>2 DEF WalkRec
  <2> QED BY <2>1 DEF Behind
<1>14. ASSUME NEW i \in stayed PROVE Alone(i)' /\ NoneMissed(i)' /\ NoneTwice(i)'
  <2>1. Alone(i) /\ NoneMissed(i) /\ NoneTwice(i)
    BY <1>1, <1>2, <1>14 DEF WalkHolds, Walks
  <2>2. Place(i) \in Nat /\ Place(i) <= n
    <3>1. Before(i) \in SUBSET (L!Rows \ {i})
      <4>1. i \in L!Rows /\ key[i] \in Nat
        BY <1>2, <2>1, ListFacts DEF Alone, L!Rows, WalkType
      <4> QED BY <4>1 DEF Before
    <3>2. IsFiniteSet(L!Rows \ {i}) /\ Cardinality(L!Rows \ {i}) = n - 1
      BY <1>3, <2>1, RowsFinite, FS_RemoveElement DEF Alone
    <3>3. Cardinality(Before(i)) <= n - 1
      BY <3>1, <3>2, FS_Subset
    <3>4. Cardinality(Before(i)) \in Nat
      BY RowsFinite, FS_CardinalityType
    <3> QED BY <1>4, <3>3, <3>4 DEF Place
  <2>3. NoneMissed(i)'
    <3>1. ~removed /\ ~between => Met(i) \/ Behind < Place(i)
      BY <2>1 DEF NoneMissed
    <3>2. ~removed /\ ~between => Met(i) \/ Behind < n
      BY <1>4, <1>13, <2>2, <3>1
    <3> QED BY <1>1, <1>6, <1>10, <1>11, <3>1, <3>2, SameRows DEF NoneMissed
  <2> QED BY <1>1, <1>10, <1>11, <2>1, <2>3, SameRows DEF NoneTwice
<1>15. WalkHolds'
  BY <1>1, <1>6, <1>7, <1>12, <1>14 DEF WalkHolds, Walks
<1> QED BY <1>9, <1>15 DEF ListInv

\* A page holds the rows whose place is on it, each once.
LEMMA WindowHolds ==
  ASSUME key \in [Item -> SortKey \cup {None}], NEW s \in L!Sorted(L!Rows),
         NEW page \in Nat \ {0}, NEW size \in Nat \ {0},
         NEW v, v = L!Window(s, page, size)
  PROVE  /\ v \in Seq(Item)
         /\ \A i : Alone(i) =>
              /\ \A n \in 1 .. Len(v) : v[n] = i <=> (page - 1) * size + n = Place(i)
              /\ (\E n \in 1 .. Len(v) : v[n] = i) <=>
                   (page - 1) * size < Place(i) /\ Place(i) <= page * size
<1>1. PICK off : off = (page - 1) * size
  OBVIOUS
<1>2. off \in Nat /\ page * size = off + size
  BY <1>1
<1>3. PICK rows : rows = Cardinality(L!Rows)
  OBVIOUS
<1>4. rows \in Nat /\ s \in [1 .. rows -> L!Rows] /\ s \in Seq(Item) /\ Len(s) = rows
  <2>1. rows \in Nat /\ s \in [1 .. rows -> L!Rows]
    BY <1>3, RowsFinite, ListCounts DEF L!Sorted
  <2>2. \A j \in L!Rows : j \in Item
    BY DEF L!Rows
  <2> QED BY <2>1, <2>2
<1>5. PICK hi : hi = IF off + size <= rows THEN off + size ELSE rows
  OBVIOUS
<1>7. v = SubSeq(s, off + 1, hi)
  <2>1. L!Min({off + size, rows}) = hi
    BY <1>2, <1>4, <1>5, SmallerOf
  <2> QED BY <1>1, <1>4, <2>1 DEF L!Window, L!Offset
<1>8. /\ v \in Seq(Item) /\ Len(v) = (IF off + 1 <= hi THEN hi - off ELSE 0)
      /\ \A n \in 1 .. Len(v) : v[n] = s[off + n]
  <2>1. \A x \in off + 1 .. hi : s[x] \in Item
    BY <1>2, <1>4, <1>5
  <2>2. off + 1 \in Int /\ hi \in Int
    BY <1>2, <1>4, <1>5
  <2>3. /\ SubSeq(s, off + 1, hi) \in Seq(Item)
        /\ Len(SubSeq(s, off + 1, hi)) = (IF off + 1 <= hi THEN hi - (off + 1) + 1 ELSE 0)
        /\ \A n \in 1 .. hi - (off + 1) + 1 : SubSeq(s, off + 1, hi)[n] = s[off + 1 + n - 1]
    BY <2>1, <2>2, SubSeqProperties
  <2> QED BY <1>2, <1>7, <2>2, <2>3
<1>9. ASSUME NEW i, Alone(i)
      PROVE  /\ \A n \in 1 .. Len(v) : v[n] = i <=> off + n = Place(i)
             /\ (\E n \in 1 .. Len(v) : v[n] = i) <=>
                  off < Place(i) /\ Place(i) <= off + size
  <2>1. /\ Place(i) \in 1 .. rows
        /\ \A n \in 1 .. rows : s[n] = i <=> n = Place(i)
    BY <1>4, <1>9, SortedPlace
  <2>2. \A n \in 1 .. Len(v) : off + n \in 1 .. rows
    BY <1>2, <1>4, <1>5, <1>8
  <2>3. \A n \in 1 .. Len(v) : v[n] = i <=> off + n = Place(i)
    BY <1>8, <2>1, <2>2
  <2>4. ASSUME off < Place(i), Place(i) <= off + size
        PROVE  \E n \in 1 .. Len(v) : v[n] = i
    <3>1. Place(i) - off \in 1 .. Len(v)
      BY <1>2, <1>4, <1>5, <1>8, <2>1, <2>4
    <3>2. off + (Place(i) - off) = Place(i)
      BY <1>2, <2>1
    <3> QED BY <2>3, <3>1, <3>2
  <2>5. ASSUME NEW n \in 1 .. Len(v), v[n] = i
        PROVE  off < Place(i) /\ Place(i) <= off + size
    <3>1. off + n = Place(i)
      BY <2>3, <2>5
    <3> QED BY <1>2, <1>4, <1>5, <1>8, <2>5, <3>1
  <2> QED BY <2>3, <2>4, <2>5
<1> QED BY <1>1, <1>2, <1>8, <1>9

LEMMA FetchSteps ==
  ASSUME ListInv, L!Fetch
  PROVE  ListInv'
<1>1. /\ walk.at = "fetch" /\ list.store.count # "never"
      /\ UNCHANGED <<list, key, active, stayed, removed, added, between>>
  BY DEF L!Fetch, L!Rest, L!history, L!Counted
<1>2. WalkType /\ WalkHolds /\ walk \in WalkRec /\ key \in [Item -> SortKey \cup {None}]
  BY DEF ListInv, WalkType
<1>3. PICK s \in L!Sorted(L!Rows) :
        walk' = [walk EXCEPT !.at = IF list.store.count = "first" THEN "answer" ELSE "count",
                             !.view = L!Window(s, walk.page, walk.size)]
  BY DEF L!Fetch, L!Counted
<1>4. PICK v, pg, sz : v = L!Window(s, walk.page, walk.size) /\ pg = walk.page /\ sz = walk.size
  OBVIOUS
<1>5. v = L!Window(s, pg, sz) /\ pg \in Nat \ {0} /\ sz \in Nat \ {0} /\ sz \in 1 .. MaxPageSize
  BY <1>1, <1>2, <1>4, ListFacts DEF WalkType, WalkRec
<1>6. /\ v \in Seq(Item)
      /\ \A i : Alone(i) =>
           /\ \A n \in 1 .. Len(v) : v[n] = i <=> (pg - 1) * sz + n = Place(i)
           /\ (\E n \in 1 .. Len(v) : v[n] = i) <=>
                (pg - 1) * sz < Place(i) /\ Place(i) <= pg * sz
  BY <1>2, <1>5, WindowHolds
<1>7. /\ walk' \in WalkRec /\ walk'.page = pg /\ walk'.size = sz
      /\ walk'.at = (IF list.store.count = "first" THEN "answer" ELSE "count")
      /\ walk'.got = walk.got /\ walk'.view = v /\ walk'.total = walk.total
  BY <1>2, <1>3, <1>4, <1>6 DEF WalkRec, WalkStep
<1>8. list.store.count \in {"first", "last"}
  BY <1>1, <1>2 DEF WalkType, Counts
<1>9. walk.view = <<>> /\ ~Fetched /\ Fetched'
  BY <1>1, <1>2, <1>7, <1>8 DEF WalkType, Fetched
<1>10. WalkType'
  BY <1>1, <1>2, <1>5, <1>7, <1>8, <1>9 DEF WalkType
<1>11. Behind = (pg - 1) * sz /\ Behind' = pg * sz
  BY <1>4, <1>5, <1>7, <1>9 DEF Behind
<1>12. (pg - 1) * sz \in Nat /\ pg * sz \in Nat /\ (pg - 1) * sz <= pg * sz
  BY <1>5
<1>13. CountHolds'
  BY <1>7, <1>8 DEF CountHolds
<1>14. ASSUME NEW i \in stayed PROVE Alone(i)' /\ NoneMissed(i)' /\ NoneTwice(i)'
  <2>1. Alone(i) /\ NoneMissed(i) /\ NoneTwice(i) /\ CountHolds
    BY <1>1, <1>2, <1>14 DEF WalkHolds, Walks
  <2>2. Place(i) \in Nat /\ Place(i) <= Cardinality(L!Rows) /\ Cardinality(L!Rows) \in Nat
    BY <1>2, <2>1, RowsFinite, SortedPlace
  <2>3. Met(i) <=> \E n \in 1 .. Len(walk.got) : walk.got[n] = i
    BY <1>9 DEF Met
  <2>4. Met(i)' <=> Met(i) \/ \E n \in 1 .. Len(v) : v[n] = i
    BY <1>7, <2>3 DEF Met
  <2>5. NoneMissed(i)'
    <3>1. SUFFICES ASSUME ~removed, ~between
                   PROVE  /\ Met(i)' \/ pg * sz < Place(i)
                          /\ walk'.at = "answer" => Met(i)' \/ pg * sz < walk.total
      BY <1>1, <1>7, <1>11, SameRows DEF NoneMissed
    <3>2. Met(i) \/ (pg - 1) * sz < Place(i)
      BY <1>11, <2>1, <3>1 DEF NoneMissed
    <3>3. Met(i)' \/ pg * sz < Place(i)
      BY <1>6, <1>12, <2>1, <2>2, <2>4, <3>2
    <3>4. walk'.at = "answer" => Cardinality(L!Rows) <= walk.total
      BY <1>1, <1>7, <1>8, <2>1, <3>1 DEF CountHolds
    <3>5. walk.total \in Nat
      BY <1>2 DEF WalkRec
    <3> QED BY <1>12, <2>2, <3>3, <3>4, <3>5
  <2>6. NoneTwice(i)'
    <3>1. SUFFICES ASSUME ~added PROVE MetOnce(i)' /\ (Met(i)' => Place(i) <= pg * sz)
      BY <1>1, <1>11, SameRows DEF NoneTwice
    <3>2. MetOnce(i) /\ (Met(i) => Place(i) <= (pg - 1) * sz)
      BY <1>11, <2>1, <3>1 DEF NoneTwice
    <3>3. Met(i)' => Place(i) <= pg * sz
      BY <1>6, <1>12, <2>1, <2>2, <2>4, <3>2
    <3>4. \A n, m \in 1 .. Len(v) : v[n] = i /\ v[m] = i => n = m
      <4>1. ASSUME NEW n \in 1 .. Len(v), NEW m \in 1 .. Len(v), v[n] = i, v[m] = i PROVE n = m
        <5>1. (pg - 1) * sz + n = Place(i) /\ (pg - 1) * sz + m = Place(i)
          BY <1>6, <2>1, <4>1
        <5>2. n \in Int /\ m \in Int
          OBVIOUS
        <5> QED BY <1>12, <2>2, <5>1, <5>2
      <4> QED BY <4>1
    <3>5. \A n \in 1 .. Len(walk.got), m \in 1 .. Len(v) : ~(walk.got[n] = i /\ v[m] = i)
      <4>1. Met(i) => ~\E m \in 1 .. Len(v) : v[m] = i
        BY <1>6, <1>12, <2>1, <2>2, <3>2
      <4> QED BY <2>3, <4>1
    <3> QED BY <1>7, <3>2, <3>3, <3>4, <3>5 DEF MetOnce
  <2> QED BY <1>1, <2>1, <2>5, <2>6, SameRows
<1>15. WalkHolds'
  BY <1>1, <1>7, <1>8, <1>13, <1>14 DEF WalkHolds, Walks
<1> QED BY <1>10, <1>15 DEF ListInv

LEMMA FetchAllSteps ==
  ASSUME ListInv, L!FetchAll
  PROVE  ListInv'
<1>1. /\ walk.at = "fetch" /\ list.store.count = "never"
      /\ UNCHANGED <<list, key, active, stayed, removed, added, between>>
  BY DEF L!FetchAll, L!Rest, L!history, L!Counted
<1>2. WalkType /\ WalkHolds /\ walk \in WalkRec /\ key \in [Item -> SortKey \cup {None}]
  BY DEF ListInv, WalkType
<1>3. PICK s \in L!Sorted(L!Rows) : walk' = [walk EXCEPT !.at = "done", !.got = s]
  BY DEF L!FetchAll
<1>4. s \in Seq(Item)
  <2>1. PICK n : n = Cardinality(L!Rows)
    OBVIOUS
  <2>2. n \in Nat /\ s \in [1 .. n -> L!Rows]
    BY <2>1, RowsFinite, ListCounts DEF L!Sorted
  <2>3. \A j \in L!Rows : j \in Item
    BY DEF L!Rows
  <2> QED BY <2>2, <2>3
<1>5. /\ walk' \in WalkRec /\ walk'.at = "done" /\ walk'.got = s /\ walk'.view = <<>>
      /\ walk'.page = walk.page /\ walk'.size = walk.size
  BY <1>1, <1>2, <1>3, <1>4 DEF WalkRec, WalkStep, WalkType, Fetched
<1>6. WalkType'
  BY <1>1, <1>2, <1>5 DEF WalkType, Fetched
<1>7. ASSUME NEW i \in stayed PROVE Met(i)' /\ MetOnce(i)'
  <2>1. Alone(i)
    BY <1>1, <1>2, <1>7 DEF WalkHolds, Walks
  <2>2. Place(i) \in 1 .. Len(s) /\ \A n \in 1 .. Len(s) : s[n] = i <=> n = Place(i)
    BY <1>2, <2>1, SortedPlace
  <2> QED BY <1>5, <2>2 DEF Met, MetOnce
<1>8. WalkHolds'
  BY <1>1, <1>5, <1>7 DEF WalkHolds, Walks
<1> QED BY <1>6, <1>8 DEF ListInv

Among(s, i) == \E n \in 1 .. Len(s) : s[n] = i
Once(s, i) == \A n, m \in 1 .. Len(s) : s[n] = i /\ s[m] = i => n = m

\* The rows of a page behind those of the pages before it.
LEMMA KeepsPage ==
  ASSUME NEW g \in Seq(Item), NEW v \in Seq(Item), NEW c, c = g \o v, NEW i
  PROVE  /\ Among(c, i) <=> Among(g, i) \/ Among(v, i)
         /\ Once(g, i) /\ Once(v, i) /\ ~(Among(g, i) /\ Among(v, i)) => Once(c, i)
<1>1. PICK a, b : a = Len(g) /\ b = Len(v)
  OBVIOUS
<1>2. a \in Nat /\ b \in Nat
  BY <1>1
<1>3. /\ c \in Seq(Item) /\ Len(c) = a + b
      /\ \A n \in 1 .. a : c[n] = g[n]
      /\ \A n \in a + 1 .. a + b : c[n] = v[n - a]
  BY <1>1, <1>2
<1>4. \A n \in 1 .. b : c[a + n] = v[n] /\ a + n \in 1 .. a + b
  <2>1. ASSUME NEW n \in 1 .. b PROVE c[a + n] = v[n] /\ a + n \in 1 .. a + b
    <3>1. a + n \in a + 1 .. a + b /\ (a + n) - a = n /\ a + n \in 1 .. a + b
      BY <1>2
    <3> QED BY <1>3, <3>1
  <2> QED BY <2>1
<1>5. \A n \in 1 .. a + b : n \in 1 .. a \/ (n - a \in 1 .. b /\ n \in a + 1 .. a + b)
  BY <1>2
<1>6. Among(c, i) <=> Among(g, i) \/ Among(v, i)
  <2>1. ASSUME NEW n \in 1 .. a + b, c[n] = i
        PROVE  (\E x \in 1 .. a : g[x] = i) \/ \E x \in 1 .. b : v[x] = i
    BY <1>3, <1>5, <2>1
  <2>2. ASSUME NEW n \in 1 .. a, g[n] = i PROVE \E x \in 1 .. a + b : c[x] = i
    <3>1. n \in 1 .. a + b
      BY <1>2
    <3> QED BY <1>3, <2>2, <3>1
  <2>3. ASSUME NEW n \in 1 .. b, v[n] = i PROVE \E x \in 1 .. a + b : c[x] = i
    BY <1>4, <2>3
  <2> QED BY <1>1, <1>3, <2>1, <2>2, <2>3 DEF Among
<1>7. ASSUME \A n, m \in 1 .. a : g[n] = i /\ g[m] = i => n = m,
             \A n, m \in 1 .. b : v[n] = i /\ v[m] = i => n = m,
             \A n \in 1 .. a, m \in 1 .. b : ~(g[n] = i /\ v[m] = i),
             NEW n \in 1 .. a + b, NEW m \in 1 .. a + b, c[n] = i, c[m] = i
      PROVE  n = m
  <2>1. n \in 1 .. a => g[n] = i
    BY <1>3, <1>7
  <2>2. m \in 1 .. a => g[m] = i
    BY <1>3, <1>7
  <2>3. n \notin 1 .. a => n - a \in 1 .. b /\ v[n - a] = i
    BY <1>3, <1>5, <1>7
  <2>4. m \notin 1 .. a => m - a \in 1 .. b /\ v[m - a] = i
    BY <1>3, <1>5, <1>7
  <2>5. n \in 1 .. a <=> m \in 1 .. a
    BY <1>7, <2>1, <2>2, <2>3, <2>4
  <2>6. n \notin 1 .. a => n - a = m - a
    BY <1>7, <2>3, <2>4, <2>5
  <2> QED BY <1>2, <1>7, <2>1, <2>2, <2>5, <2>6
<1> QED BY <1>1, <1>3, <1>6, <1>7 DEF Among, Once

\* The client asks on while the count leaves rows; at its end none is left.
LEMMA NextPageSteps ==
  ASSUME ListInv, L!NextPage
  PROVE  ListInv'
<1>1. /\ walk.at = "answer"
      /\ UNCHANGED <<list, key, active, stayed, removed, added, between>>
  BY DEF L!NextPage, L!Rest, L!history
<1>2. WalkType /\ WalkHolds /\ walk \in WalkRec
  BY DEF ListInv, WalkType
<1>3. PICK pg, sz, tot, g, v : pg = walk.page /\ sz = walk.size /\ tot = walk.total
                               /\ g = walk.got /\ v = walk.view
  OBVIOUS
<1>4. /\ pg \in Nat \ {0} /\ sz \in Nat \ {0} /\ sz \in 1 .. MaxPageSize /\ tot \in Nat
      /\ g \in Seq(Item) /\ v \in Seq(Item) /\ list.store.count # "never"
  BY <1>1, <1>2, <1>3, ListFacts DEF WalkType, WalkRec
<1>5. PICK c : c = g \o v
  OBVIOUS
<1>6. PICK more : more = (pg < L!TotalPages(tot, sz))
  OBVIOUS
<1>7. walk' = [walk EXCEPT !.at = IF more THEN "gate" ELSE "done",
                           !.page = IF more THEN pg + 1 ELSE pg,
                           !.got = c, !.view = <<>>]
  BY <1>3, <1>5, <1>6 DEF L!NextPage
<1>8. c \in Seq(Item) /\ <<>> \in Seq(Item)
  BY <1>4, <1>5
<1>9. /\ walk' \in WalkRec /\ walk'.at = (IF more THEN "gate" ELSE "done")
      /\ walk'.page = (IF more THEN pg + 1 ELSE pg) /\ walk'.size = sz
      /\ walk'.got = c /\ walk'.view = <<>>
  <2>1. PICK a, p : /\ a = (IF more THEN "gate" ELSE "done")
                    /\ p = (IF more THEN pg + 1 ELSE pg)
    OBVIOUS
  <2>2. a \in WalkStep /\ p \in Nat
    BY <1>4, <2>1 DEF WalkStep
  <2>3. walk' = [walk EXCEPT !.at = a, !.page = p, !.got = c, !.view = <<>>]
    BY <1>7, <2>1
  <2> QED BY <1>2, <1>3, <1>8, <2>1, <2>2, <2>3 DEF WalkRec
<1>10. Fetched /\ ~Fetched'
  BY <1>1, <1>9 DEF Fetched
<1>11. walk'.page # 0
  BY <1>4, <1>9
<1>12. WalkType'
  BY <1>1, <1>2, <1>4, <1>9, <1>10, <1>11 DEF WalkType
<1>13. Behind = pg * sz /\ pg * sz \in Nat
  BY <1>3, <1>4, <1>10 DEF Behind
<1>14. \A i : Met(i)' <=> Met(i)
  <2>1. ASSUME NEW i PROVE Met(i)' <=> Met(i)
    <3>1. Among(c, i) <=> Among(g, i) \/ Among(v, i)
      BY <1>4, <1>5, KeepsPage
    <3> QED BY <1>3, <1>9, <3>1 DEF Met, Among
  <2> QED BY <2>1
<1>15. \A i : MetOnce(i) => MetOnce(i)'
  <2>1. ASSUME NEW i, MetOnce(i) PROVE MetOnce(i)'
    <3>1. Once(g, i) /\ Once(v, i) /\ ~(Among(g, i) /\ Among(v, i))
      BY <1>3, <2>1 DEF MetOnce, Once, Among
    <3>2. Once(c, i)
      BY <1>4, <1>5, <3>1, KeepsPage
    <3> QED BY <1>9, <3>2 DEF MetOnce, Once
  <2> QED BY <2>1
<1>16. ASSUME NEW i \in stayed PROVE Alone(i) /\ NoneMissed(i) /\ NoneTwice(i)
  BY <1>1, <1>2, <1>16 DEF WalkHolds, Walks
<1>17. CASE more
  <2>1. walk'.at = "gate" /\ walk'.page = pg + 1
    BY <1>9, <1>17
  <2>2. Behind' = Behind
    <3>1. Behind' = (pg + 1 - 1) * sz
      BY <1>4, <1>9, <1>10, <2>1 DEF Behind
    <3> QED BY <1>4, <1>13, <3>1
  <2>3. ASSUME NEW i \in stayed PROVE Alone(i)' /\ NoneMissed(i)' /\ NoneTwice(i)'
    BY <1>1, <1>14, <1>15, <1>16, <2>1, <2>2, <2>3, SameRows DEF NoneMissed, NoneTwice
  <2>4. WalkHolds'
    BY <1>1, <2>1, <2>3 DEF WalkHolds, Walks, CountHolds
  <2> QED BY <1>12, <2>4 DEF ListInv
<1>18. CASE ~more
  <2>1. walk'.at = "done"
    BY <1>9, <1>18
  <2>2. tot <= pg * sz
    BY <1>4, <1>6, <1>18, PagesCover
  <2>3. ASSUME NEW i \in stayed
        PROVE  (~removed /\ ~between => Met(i)') /\ (~added => MetOnce(i)')
    <3>1. ~removed /\ ~between => Met(i) \/ pg * sz < tot
      BY <1>1, <1>3, <1>13, <1>16, <2>3 DEF NoneMissed
    <3>2. ~added => MetOnce(i)
      BY <1>16, <2>3 DEF NoneTwice
    <3> QED BY <1>4, <1>13, <1>14, <1>15, <2>2, <3>1, <3>2
  <2>4. WalkHolds'
    BY <1>1, <2>1, <2>3 DEF WalkHolds, Walks
  <2> QED BY <1>12, <2>4 DEF ListInv
<1> QED BY <1>17, <1>18

\* One row comes, goes or is renamed, and every other one keeps its key.
LEMMA RowSteps ==
  ASSUME ListInv, NEW r \in Item, Walks, L!Disturb(r),
         key' \in [Item -> SortKey \cup {None}],
         \A j \in Item \ {r} : key'[j] = key[j] /\ (j \in L!Rows' <=> j \in L!Rows)
  PROVE  ListInv'
<1>1. /\ list' = list /\ walk' = walk
      /\ stayed' = {j \in stayed \ {r} : key[j] # key'[r]}
      /\ removed' = (removed \/ r \in L!Rows)
      /\ added' = (added \/ r \in L!Rows')
      /\ between' = (between \/ (list.store.count = "first" /\ walk.at = "fetch" /\ r \in L!Rows'))
  BY DEF L!Disturb, L!Counted
<1>2. WalkType /\ WalkHolds /\ CountHolds
  BY DEF ListInv, WalkHolds
<1>3. L!Rows \subseteq Item /\ L!Rows' \subseteq Item /\ IsFiniteSet(Item)
  BY ListFacts DEF L!Rows
<1>4. WalkType'
  <2>1. removed' \in BOOLEAN /\ added' \in BOOLEAN /\ between' \in BOOLEAN
    BY <1>1, <1>2 DEF WalkType
  <2>2. Fetched' <=> Fetched
    BY <1>1 DEF Fetched
  <2> QED BY <1>1, <1>2, <2>1, <2>2 DEF WalkType
<1>5. Behind' = Behind /\ Walks'
  BY <1>1 DEF Behind, Fetched, Walks
<1>6. \A i : (Met(i)' <=> Met(i)) /\ (MetOnce(i)' <=> MetOnce(i))
  BY <1>1 DEF Met, MetOnce
<1>7. CountHolds'
  <2>1. SUFFICES ASSUME walk.at = "fetch", list.store.count = "first", ~between'
                 PROVE  Cardinality(L!Rows') <= walk.total
    BY <1>1 DEF CountHolds
  <2>2. ~between /\ r \notin L!Rows'
    BY <1>1, <2>1
  <2>3. L!Rows' \subseteq L!Rows
    BY <1>3, <2>2
  <2>4. /\ Cardinality(L!Rows') <= Cardinality(L!Rows)
        /\ Cardinality(L!Rows') \in Nat /\ Cardinality(L!Rows) \in Nat
    BY <1>3, <2>3, FS_Subset, FS_CardinalityType
  <2>5. Cardinality(L!Rows) <= walk.total /\ walk.total \in Nat
    BY <1>2, <2>1, <2>2 DEF CountHolds, WalkType, WalkRec
  <2> QED BY <2>4, <2>5
<1>8. Behind \in Int
  <2>1. walk.page \in Nat /\ walk.size \in Int
    BY <1>2 DEF WalkType, WalkRec
  <2> QED BY <2>1 DEF Behind
<1>9. ASSUME NEW i \in stayed' PROVE Alone(i)' /\ NoneMissed(i)' /\ NoneTwice(i)'
  <2>1. i \in stayed /\ i # r /\ key[i] # key'[r]
    BY <1>1, <1>9
  <2>2. Alone(i) /\ NoneMissed(i) /\ NoneTwice(i)
    BY <1>2, <2>1 DEF WalkHolds
  <2>3. i \in L!Rows' /\ i \in Item /\ key'[i] = key[i]
    BY <1>3, <2>1, <2>2 DEF Alone
  <2>4. Alone(i)'
    <3>1. ASSUME NEW j \in L!Rows' \ {i} PROVE key'[j] # key'[i]
      <4>1. CASE j = r
        BY <2>1, <2>3, <4>1
      <4>2. CASE j # r
        <5>1. j \in L!Rows \ {i} /\ key'[j] = key[j]
          BY <1>3, <4>2
        <5> QED BY <2>2, <2>3, <5>1 DEF Alone
      <4> QED BY <4>1, <4>2
    <3> QED BY <2>3, <3>1 DEF Alone
  <2>5. /\ Place(i) \in Int /\ Place(i)' \in Int
        /\ r \notin L!Rows => Place(i) <= Place(i)'
        /\ r \notin L!Rows' => Place(i)' <= Place(i)
    <3>1. IsFiniteSet(Before(i)) /\ IsFiniteSet(Before(i)')
      <4>1. Before(i) \subseteq Item /\ Before(i)' \subseteq Item
        BY <1>3 DEF Before
      <4> QED BY <1>3, <4>1, FS_Subset
    <3>2. r \notin L!Rows => Before(i) \subseteq Before(i)'
      BY <1>3, <2>3 DEF Before
    <3>3. r \notin L!Rows' => Before(i)' \subseteq Before(i)
      BY <1>3, <2>3 DEF Before
    <3>4. PICK a, b : a = Cardinality(Before(i)) /\ b = Cardinality(Before(i)')
      OBVIOUS
    <3>5. /\ a \in Nat /\ b \in Nat /\ (r \notin L!Rows => a <= b) /\ (r \notin L!Rows' => b <= a)
      BY <3>1, <3>2, <3>3, <3>4, FS_Subset, FS_CardinalityType
    <3>6. Place(i) = a + 1 /\ Place(i)' = b + 1
      BY <3>4 DEF Place
    <3> QED BY <3>5, <3>6
  <2>6. NoneMissed(i)'
    <3>1. SUFFICES ASSUME ~removed', ~between'
                   PROVE  /\ Met(i) \/ Behind < Place(i)'
                          /\ walk.at = "answer" => Met(i) \/ Behind < walk.total
      BY <1>1, <1>5, <1>6 DEF NoneMissed
    <3>2. ~removed /\ ~between /\ r \notin L!Rows
      BY <1>1, <3>1
    <3>3. /\ Met(i) \/ Behind < Place(i)
          /\ walk.at = "answer" => Met(i) \/ Behind < walk.total
      BY <2>2, <3>2 DEF NoneMissed
    <3> QED BY <1>8, <2>5, <3>2, <3>3
  <2>7. NoneTwice(i)'
    <3>1. SUFFICES ASSUME ~added' PROVE MetOnce(i) /\ (Met(i) => Place(i)' <= Behind)
      BY <1>5, <1>6 DEF NoneTwice
    <3>2. ~added /\ r \notin L!Rows'
      BY <1>1, <3>1
    <3>3. MetOnce(i) /\ (Met(i) => Place(i) <= Behind)
      BY <2>2, <3>2 DEF NoneTwice
    <3> QED BY <1>8, <2>5, <3>2, <3>3
  <2> QED BY <2>4, <2>6, <2>7
<1>10. WalkHolds'
  BY <1>1, <1>5, <1>7, <1>9 DEF WalkHolds, Walks
<1> QED BY <1>4, <1>10 DEF ListInv

LEMMA ChangeSteps ==
  ASSUME ListInv, NEW r \in Item, NEW k \in SortKey \cup {None}, L!Change(r, k)
  PROVE  ListInv'
<1>1. /\ Walks /\ L!Disturb(r) /\ key' = [key EXCEPT ![r] = k] /\ list' = list
      /\ active' = IF k = None THEN active \ {r} ELSE active \cup {r}
  BY DEF L!Change, L!Walking, Walks, L!Disturb
<1>2. key \in [Item -> SortKey \cup {None}]
  BY DEF ListInv, WalkType
<1>3. key' \in [Item -> SortKey \cup {None}] /\ \A j \in Item \ {r} : key'[j] = key[j]
  BY <1>1, <1>2
<1>4. \A j \in Item \ {r} : j \in active' <=> j \in active
  BY <1>1
<1>5. \A j \in Item \ {r} : j \in L!Rows' <=> j \in L!Rows
  BY <1>1, <1>3, <1>4 DEF L!Rows
<1> QED BY <1>1, <1>3, <1>5, RowSteps

LEMMA ToggleSteps ==
  ASSUME ListInv, NEW r \in Item, L!Toggle(r)
  PROVE  ListInv'
<1>1. /\ Walks /\ L!Disturb(r) /\ key' = key /\ list' = list
      /\ active' = IF r \in active THEN active \ {r} ELSE active \cup {r}
  BY DEF L!Toggle, L!Walking, Walks, L!Disturb
<1>2. key' \in [Item -> SortKey \cup {None}] /\ \A j \in Item \ {r} : key'[j] = key[j]
  BY <1>1 DEF ListInv, WalkType
<1>3. \A j \in Item \ {r} : j \in active' <=> j \in active
  BY <1>1
<1>4. \A j \in Item \ {r} : j \in L!Rows' <=> j \in L!Rows
  BY <1>1, <1>3 DEF L!Rows
<1> QED BY <1>1, <1>2, <1>4, RowSteps

\* Steps that leave rows and walk alone.
LEMMA ListSame ==
  ASSUME ListInv, UNCHANGED <<list, key, active, walk, stayed, removed, added, between>>
  PROVE  ListInv'
<1>1. WalkType'
  BY DEF ListInv, WalkType, Fetched
<1>2. /\ Behind' = Behind /\ (Walks' <=> Walks) /\ (CountHolds' <=> CountHolds)
      /\ \A i : (Met(i)' <=> Met(i)) /\ (MetOnce(i)' <=> MetOnce(i))
  BY SameRows DEF Behind, Fetched, Walks, CountHolds, Met, MetOnce
<1>3. \A i : (NoneMissed(i)' <=> NoneMissed(i)) /\ (NoneTwice(i)' <=> NoneTwice(i))
  BY <1>2, SameRows DEF NoneMissed, NoneTwice
<1>4. WalkHolds'
  BY <1>2, <1>3, SameRows DEF ListInv, WalkHolds
<1> QED BY <1>1, <1>4 DEF ListInv

LEMMA ListNext ==
  ASSUME ListInv, L!Next
  PROVE  ListInv'
<1>1. CASE \E size \in Asked : L!Ask(size)
  BY <1>1, AskSteps
<1>2. CASE L!Gate
  BY <1>2, GateSteps
<1>3. CASE L!Count
  BY <1>3, CountSteps
<1>4. CASE L!Fetch
  BY <1>4, FetchSteps
<1>5. CASE L!FetchAll
  BY <1>5, FetchAllSteps
<1>6. CASE L!NextPage
  BY <1>6, NextPageSteps
<1>7. CASE \E i \in Item, k \in SortKey \cup {None} : L!Change(i, k)
  BY <1>7, ChangeSteps
<1>8. CASE \E i \in Item : L!Toggle(i)
  BY <1>8, ToggleSteps
<1>9. CASE \E who \in {"stranger", "member", "allowed"} : L!ChangeReader(who)
  BY <1>9, ListSame DEF L!ChangeReader, L!history
<1> QED BY <1>1, <1>2, <1>3, <1>4, <1>5, <1>6, <1>7, <1>8, <1>9 DEF L!Next

\* Times counts the places where a row was met.
LEMMA ListSafe == ListInv => L!WalkComplete
<1> SUFFICES ASSUME ListInv, walk.at = "done", NEW i \in stayed
             PROVE  /\ L!Times(i) = 0 => removed \/ between
                    /\ L!Times(i) > 1 => added
  BY DEF L!WalkComplete
<1>1. /\ walk.got \in Seq(Item) /\ walk.view = <<>>
      /\ ~removed /\ ~between => Met(i)
      /\ ~added => MetOnce(i)
  BY DEF ListInv, WalkType, WalkRec, WalkHolds
<1>2. PICK S : S = {n \in 1 .. Len(walk.got) : walk.got[n] = i}
  OBVIOUS
<1>3. L!Times(i) = Cardinality(S)
  <2>1. DOMAIN walk.got = 1 .. Len(walk.got)
    BY <1>1
  <2>2. L!Times(i) = L!Cardinality({n \in DOMAIN walk.got : walk.got[n] = i})
    BY Zenon DEF L!Times
  <2>3. L!Times(i) = L!Cardinality(S)
    BY <1>2, <2>1, <2>2, Zenon
  <2> QED BY <2>3, ListCounts
<1>4. IsFiniteSet(S) /\ Cardinality(S) \in Nat
  <2>1. IsFiniteSet(1 .. Len(walk.got)) /\ S \subseteq 1 .. Len(walk.got)
    <3>1. PICK len : len = Len(walk.got)
      OBVIOUS
    <3>2. len \in Nat
      BY <1>1, <3>1
    <3>3. IsFiniteSet(1 .. len)
      BY <3>2, FS_Interval
    <3> QED BY <1>2, <3>1, <3>3
  <2> QED BY <2>1, FS_Subset, FS_CardinalityType
<1>5. Met(i) => Cardinality(S) # 0
  <2>1. Met(i) => S # {}
    BY <1>1, <1>2 DEF Met
  <2> QED BY <1>4, <2>1, FS_EmptySet
<1>6. MetOnce(i) => Cardinality(S) <= 1
  <2>1. SUFFICES ASSUME MetOnce(i) PROVE Cardinality(S) <= 1
    OBVIOUS
  <2>2. CASE S = {}
    BY <2>2, FS_EmptySet
  <2>3. CASE S # {}
    <3>1. PICK n : n \in S
      BY <2>3
    <3>2. S = {n}
      BY <1>2, <2>1, <3>1 DEF MetOnce
    <3>3. Cardinality({n}) = 1
      BY FS_Singleton
    <3> QED BY <3>2, <3>3
  <2> QED BY <2>2, <2>3
<1> QED BY <1>1, <1>3, <1>4, <1>5, <1>6
-------------------------------------------------------------------------------
(* The modules side by side. *)

\* A behaviour is one module's, and its invariant is that module's.
ModulesInv ==
    /\ which = "helpdesk" => HelpInv
    /\ which = "docs" => DocsInv
    /\ which = "notification" => InboxInv
    /\ which = "directory" => ListInv

LEMMA ModulesStart == ModulesInit => ModulesInv
  BY HelpInit, DocsInit, InboxInit, ListInit DEF ModulesInit, ModulesInv

LEMMA ModulesStutter == ModulesInv /\ UNCHANGED modules => ModulesInv'
  <1> SUFFICES ASSUME ModulesInv, UNCHANGED modules PROVE ModulesInv'
    OBVIOUS
  <1> USE DEF modules, helpdesk, docs, notification, shared
  <1>1. HelpInv => HelpInv'
    <2> SUFFICES ASSUME HelpInv PROVE HelpInv'
      OBVIOUS
    <2>1. /\ \A a : H!Bound(a)' <=> H!Bound(a)
          /\ \A a : H!Powerful(a)' <=> H!Powerful(a)
          /\ \A a : OpenOf(a)' = OpenOf(a)
          /\ \A a : SubjectOf(a)' = SubjectOf(a)
          /\ \A c, a : WorkedOn(c, a)' <=> WorkedOn(c, a)
      BY DEF H!Bound, H!Powerful, OpenOf, SubjectOf, WorkedOn
    <2>2. req' = req /\ disturbed' = disturbed
      OBVIOUS
    <2>3. HelpType' /\ LinkedAlone' /\ TicketsCreated' /\ TransitionsSingle'
      BY DEF HelpInv, HelpType, LinkedAlone, TicketsCreated, TransitionsSingle, StepsOf, AgentOp
    <2>4. SubjectsApart'
      BY <2>1, <2>2 DEF HelpInv, SubjectsApart, AgentOp, H!Subject
    <2>5. AgentsBound'
      BY <2>1, <2>2 DEF HelpInv, AgentsBound, AgentBound, AgentAt
    <2> QED
      BY <2>3, <2>4, <2>5 DEF HelpInv
  <1>2. DocsInv => DocsInv'
    <2> SUFFICES ASSUME DocsInv PROVE DocsInv'
      OBVIOUS
    <2>1. DocsType' /\ LinkedOnce' /\ RowsOwned'
      BY DEF DocsInv, DocsType, LinkedOnce, RowsOwned, Creating
    <2>2. /\ call' = call /\ link' = link /\ share' = share /\ tuple' = tuple
          /\ \A d, m : D!Busy(d, m)' = D!Busy(d, m)
          /\ \A d, x : Rels(d, x)' = Rels(d, x)
          /\ \A d : MayLive(d)' <=> MayLive(d)
          /\ \A d : Undisturbed(d)' <=> Undisturbed(d)
          /\ \A d : TuplesLinked(d)' <=> TuplesLinked(d)
      BY DEF D!Busy, Rels, MayLive, Undisturbed, TuplesLinked, Creating
    <2>3. \A d, m : ShareBound(d, m) => ShareBound(d, m)'
      BY <2>2 DEF ShareBound, HeldAt
    <2> QED
      BY <2>1, <2>2, <2>3 DEF DocsInv, SharesBound, DocBound
  <1>3. InboxInv => InboxInv'
    BY DEF InboxInv, InboxType, KeysOnce, AnswersStored, N!Found
  <1>4. ListInv => ListInv'
    BY ListSame DEF directory
  <1> QED
    BY <1>1, <1>2, <1>3, <1>4 DEF ModulesInv

LEMMA ModulesStep == ModulesInv /\ [ModulesNext]_modules => ModulesInv'
  <1> SUFFICES ASSUME ModulesInv, [ModulesNext]_modules PROVE ModulesInv'
    OBVIOUS
  <1>1. CASE ModulesNext
    BY <1>1, HelpNext, DocsNext, InboxNext, ListNext DEF ModulesNext, ModulesInv
  <1>2. CASE UNCHANGED modules
    BY <1>2, ModulesStutter
  <1> QED
    BY <1>1, <1>2

\* Whichever module a behaviour is of, its invariant holds throughout.
THEOREM ModulesInvariant == ModulesSpec => []ModulesInv
  BY ModulesStart, ModulesStep, PTL DEF ModulesSpec

\* An agent has a row exactly when the subject has the editor tuple, but for
\* targets whose requests overlapped or failed half way, or whose member was
\* linked anew (handleMakeAgent, handleRemoveAgent, handleAssignTicket).
THEOREM AgentsExact == ModulesSpec => []AgentsExactUnlessDisturbed
  <1>1. ModulesInv => AgentsExactUnlessDisturbed
    BY HelpSafe DEF ModulesInv, AgentsExactUnlessDisturbed
  <1> QED
    BY <1>1, ModulesInvariant, PTL

\* Who is assigned an open ticket is an agent who can work on it, with the same
\* exceptions and that of tickets whose transitions crossed (handleAssignTicket,
\* handleRemoveAgent, CountOpenAssignedTickets).
THEOREM AssigneesStayAgents == ModulesSpec => []AssigneesAreAgents
  <1>1. ModulesInv => AssigneesAreAgents
    BY HelpSafe DEF ModulesInv, AssigneesAreAgents
  <1> QED
    BY <1>1, ModulesInvariant, PTL

\* A user's list has what the user can open, whatever request failed, overlapped
\* or was repeated (handleCreateDocument, handleListDocuments).
THEOREM ListedOpens == ModulesSpec => []ListedIsWhatOpens
  <1>1. ModulesInv => ListedIsWhatOpens
    BY DocsSafe DEF ModulesInv, ListedIsWhatOpens
  <1> QED
    BY <1>1, ModulesInvariant, PTL

\* The viewer and editor tuples of a document are those of its share rows, but
\* for members whose requests overlapped or failed half way, or who were linked
\* anew (handleCreateShare, handleRevokeShare).
THEOREM SharesExact == ModulesSpec => []ShareExactUnlessDisturbed
  <1>1. ModulesInv => ShareExactUnlessDisturbed
    BY DocsSafe DEF ModulesInv, ShareExactUnlessDisturbed
  <1> QED
    BY <1>1, ModulesInvariant, PTL

\* A send answered as created or replayed is stored once with its own payload,
\* and one refused as a conflict had a rival, however retries overlap
\* (SendMessage).
THEOREM AnswersTrue == ModulesSpec => []AnswerIsTrue
  <1>1. ModulesInv => AnswerIsTrue
    BY InboxSafe DEF ModulesInv, AnswerIsTrue
  <1> QED
    BY <1>1, ModulesInvariant, PTL

\* A walk to the last page lists a row that kept its place and its key: at least
\* once unless a row went during the walk or came between a count and its fetch,
\* at most once unless a row came, whatever the list, the page size and the
\* number of rows (pageWindow, clampPage, pageParams).
THEOREM WalksComplete == ModulesSpec => []WalkComplete
  <1>1. ModulesInv => WalkComplete
    BY ListSafe DEF ModulesInv, WalkComplete
  <1> QED
    BY <1>1, ModulesInvariant, PTL

===============================================================================
