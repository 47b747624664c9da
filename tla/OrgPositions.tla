----------------------------- MODULE OrgPositions -----------------------------
(***************************************************************************)
(* Positions and tenures of the org service (internal/org/store.go,         *)
(* handover.go).  A position is a slot; an assignment gives it to a member  *)
(* for a window of days [from, to), open while `to` is NULL.  The database   *)
(* refuses overlapping windows of one position.  Beside the rows the        *)
(* service keeps, in the same transaction, the tuples                        *)
(*                                                                          *)
(*   position:P#holder  @ member:M#mapped_user    "M holds P"               *)
(*   position:P#company @ company:C               the company anchor        *)
(*                                                                          *)
(* A transaction-scoped advisory lock, lock_org_tree, serializes writers:   *)
(* AssignNow and Handover take it before they read, EndAssignment only      *)
(* through the trigger of its UPDATE, CreateAndAssign after it has read the *)
(* date, DeletePosition never (it locks the position row instead).  Steps   *)
(* a transaction takes before it has the lock, and the clock, interleave    *)
(* with everything; what follows the lock is split only where something     *)
(* outside the lock can still change: the date, and the position row.       *)
(*                                                                          *)
(* Whether a member is active, and whether an org unit lies beneath the     *)
(* company, is decided elsewhere: such a refusal is a request that stops.   *)
(* Titles, codes and audit events are left out; a request that fails at     *)
(* any point rolls back (Abort).                                            *)
(***************************************************************************)
EXTENDS Naturals, Sequences

CONSTANTS
    Position,   \* position ids; an id is never used twice
    Member,     \* members, each with an existing row
    CompanyOf,  \* the company of each position and member
    Client,     \* concurrent requests
    None,       \* nobody has the lock
    Open,       \* valid_to IS NULL
    MaxDay,     \* bound: the last day
    MaxAsg,     \* bound: assignment rows
    MaxCalls    \* bound: requests made

Day == 0..MaxDay

ASSUME PositionAssumption ==
    /\ DOMAIN CompanyOf = Position \cup Member
    /\ None \notin Client
    /\ Open \notin Nat
    /\ MaxDay \in Nat /\ MaxAsg \in Nat /\ MaxCalls \in Nat

VARIABLES
    day,        \* today in the tenant's time zone
    pos,        \* org.position: "new", "live" or "deleted"
    asg,        \* org.position_assignment, in order of creation
    holderT,    \* <<position, member>> pairs with a holder tuple
    anchorT,    \* positions with a company anchor
    boundT,     \* positions some module's tuple names as position#holder
    lock,       \* who has lock_org_tree across steps
    call,       \* the request each client has in progress
    calls,      \* requests made so far
    list,       \* positions OrgObjectCompanyBackfill still has to visit
    windowed,   \* history: assignments whose end came with their creation
    handed,     \* history: how often each assignment was handed over
    raced       \* history: positions bound, or anchored by the backfill,
                \* while or after they were being deleted

vars == <<day, pos, asg, holderT, anchorT, boundT, lock, call, calls, list,
          windowed, handed, raced>>

-------------------------------------------------------------------------------
Window == [pos : Position, mem : Member, from : Day, to : Day \cup {Open}]

Idle == [op |-> "idle"]

Call ==
    {Idle}
      \cup [op : {"assign"}, p : Position, m : Member, today : Day]
      \cup [op : {"handover"}, p : Position, m : Member, today : Day, held : Nat]
      \cup [op : {"end"}, a : Nat]
      \cup [op : {"endOn"}, a : Nat, today : Day]
      \cup [op : {"create"}, p : Position, m : Member, from : Day,
            to : Day \cup {Open}, today : Day]
      \cup [op : {"delete"}, p : Position]

(* Type correctness of rows, tuples, locks and requests. *)
TypeOK ==
    /\ day \in Day
    /\ pos \in [Position -> {"new", "live", "deleted"}]
    /\ asg \in Seq(Window) /\ Len(asg) <= MaxAsg
    /\ holderT \subseteq Position \X Member
    /\ anchorT \subseteq Position
    /\ boundT \subseteq Position
    /\ lock \in Client \cup {None}
    /\ call \in [Client -> Call]
    /\ calls \in 0..MaxCalls
    /\ list \subseteq Position
    /\ windowed \subseteq 1..MaxAsg
    /\ handed \in [1..MaxAsg -> Nat]
    /\ raced \subseteq Position

Init ==
    /\ day = 0
    /\ pos = [p \in Position |-> "new"]
    /\ asg = <<>>
    /\ holderT = {}
    /\ anchorT = {}
    /\ boundT = {}
    /\ lock = None
    /\ call = [c \in Client |-> Idle]
    /\ calls = 0
    /\ list = {}
    /\ windowed = {}
    /\ handed = [a \in 1..MaxAsg |-> 0]
    /\ raced = {}

\* GetAssignmentOnDate: the half-open window contains day d.
Covers(w, d) == w.from <= d /\ (w.to = Open \/ d < w.to)

\* Two half-open windows share a day; an empty one shares none.
Overlap(v, w) == \E d \in Day : Covers(v, d) /\ Covers(w, d)

Assignments == DOMAIN asg

HeldOn(p, d) == {a \in Assignments : asg[a].pos = p /\ Covers(asg[a], d)}

\* The exclusion constraint, for window w in place of row `except` (0: none).
NoOverlap(w, except) ==
    \A a \in Assignments \ {except} :
        asg[a].pos = w.pos => ~Overlap(asg[a], w)

\* Some transaction has the position's row FOR UPDATE.
RowLocked(p) == \E c \in Client : call[c] = [op |-> "delete", p |-> p]

Start(c, request) ==
    /\ call[c] = Idle
    /\ calls < MaxCalls
    /\ calls' = calls + 1
    /\ call' = [call EXCEPT ![c] = request]

Done(c) == call' = [call EXCEPT ![c] = Idle] /\ UNCHANGED calls

History == <<windowed, handed, raced>>

Others == <<day, boundT, list>>

-------------------------------------------------------------------------------
(* Writing tenures. *)

\* createAssignmentTx: the open window and the holder tuple.
OpenWindow(p, m, today) == [pos |-> p, mem |-> m, from |-> today, to |-> Open]

\* endAssignmentTx on row a of table t: valid_to is overwritten.
EndRow(t, a, today) == [t EXCEPT ![a].to = today]

\* Mutated form: the tuple is taken for a fact of the assignment row.
OtherNever(a) == FALSE /\ a \in Assignments

\* The pair's tuple goes only when no other open window of it remains
\* (CountOtherOpenAssignments).
OtherOpen(a) ==
    \E b \in Assignments \ {a} :
        asg[b].pos = asg[a].pos /\ asg[b].mem = asg[a].mem /\ asg[b].to = Open

TuplesAfterEnd(a) ==
    IF OtherOpen(a) THEN holderT ELSE holderT \ {<<asg[a].pos, asg[a].mem>>}

\* AssignNow up to its INSERT: the tree lock, the member and the position of
\* one company, and nobody holding the position today.
AssignCheck(c, p, m) ==
    /\ lock = None
    /\ pos[p] = "live"
    /\ CompanyOf[p] = CompanyOf[m]
    /\ HeldOn(p, day) = {}
    /\ Start(c, [op |-> "assign", p |-> p, m |-> m, today |-> day])
    /\ lock' = c
    /\ UNCHANGED <<pos, asg, holderT, anchorT, History, Others>>

\* The INSERT: the foreign key waits for the position row and needs it, the
\* exclusion constraint holds; the holder tuple; the commit.
AssignWrite(c) ==
    /\ call[c].op = "assign"
    /\ Len(asg) < MaxAsg
    /\ LET r == call[c]
           w == OpenWindow(r.p, r.m, r.today)
       IN  /\ pos[r.p] = "live"
           /\ ~RowLocked(r.p)
           /\ NoOverlap(w, 0)
           /\ asg' = Append(asg, w)
           /\ holderT' = holderT \cup {<<r.p, r.m>>}
    /\ lock' = None
    /\ Done(c)
    /\ UNCHANGED <<pos, anchorT, History, Others>>

\* Mutated form: the checks are made before the lock is taken.
HandoverCheckUnlocked(c, p, m, expected) ==
    /\ pos[p] = "live"
    /\ CompanyOf[p] = CompanyOf[m]
    /\ \E held \in HeldOn(p, day) :
         /\ asg[held].mem # m
         /\ expected \in {0, held}
         /\ Start(c, [op |-> "handover", p |-> p, m |-> m, today |-> day,
                      held |-> held])
    /\ UNCHANGED <<pos, asg, holderT, anchorT, lock, History, Others>>

\* Handover up to its writes: the tree lock, the current holder, who is not
\* the member already, and the assignment the caller expects (0: any).
HandoverCheck(c, p, m, expected) ==
    /\ lock = None
    /\ pos[p] = "live"
    /\ CompanyOf[p] = CompanyOf[m]
    /\ \E held \in HeldOn(p, day) :
         /\ asg[held].mem # m
         /\ expected \in {0, held}
         /\ Start(c, [op |-> "handover", p |-> p, m |-> m, today |-> day,
                      held |-> held])
    /\ lock' = c
    /\ UNCHANGED <<pos, asg, holderT, anchorT, History, Others>>

\* The current window ends today, the new one starts today, and both tuples
\* follow, in one transaction.
HandoverWrite(c) ==
    /\ call[c].op = "handover"
    /\ Len(asg) < MaxAsg
    /\ LET r == call[c]
           w == OpenWindow(r.p, r.m, r.today)
           ended == EndRow(asg, r.held, r.today)
       IN  /\ pos[r.p] = "live"
           /\ ~RowLocked(r.p)
           /\ \A a \in Assignments :
                ended[a].pos = r.p => ~Overlap(ended[a], w)
           /\ asg' = Append(ended, w)
           /\ holderT' = TuplesAfterEnd(r.held) \cup {<<r.p, r.m>>}
           /\ windowed' = windowed \ {r.held}
           /\ handed' = [handed EXCEPT ![r.held] = @ + 1]
    /\ lock' = None
    /\ Done(c)
    /\ UNCHANGED <<pos, anchorT, raced, Others>>

\* EndAssignment reads the row, with no lock: it must be open.
EndRead(c, a) ==
    /\ asg[a].to = Open
    /\ Start(c, [op |-> "end", a |-> a])
    /\ UNCHANGED <<pos, asg, holderT, anchorT, lock, History, Others>>

\* It then reads the date, which may not precede the start of the window.
EndToday(c) ==
    /\ call[c].op = "end"
    /\ asg[call[c].a].from <= day
    /\ call' = [call EXCEPT ![c] = [op |-> "endOn", a |-> call[c].a, today |-> day]]
    /\ UNCHANGED <<pos, asg, holderT, anchorT, lock, calls, History, Others>>

\* The UPDATE, whose trigger takes the tree lock and which does not look at
\* valid_to again, with the CHECK and the exclusion constraint on the new
\* window; the revoke; the commit.
EndWrite(c) ==
    /\ call[c].op = "endOn"
    /\ lock = None
    /\ LET r == call[c] IN
         /\ r.today >= asg[r.a].from
         /\ NoOverlap([asg[r.a] EXCEPT !.to = r.today], r.a)
         /\ asg' = EndRow(asg, r.a, r.today)
         /\ holderT' = TuplesAfterEnd(r.a)
         /\ windowed' = windowed \ {r.a}
    /\ Done(c)
    /\ UNCHANGED <<pos, anchorT, lock, handed, raced, Others>>

\* CreateAndAssign reads the date first: the window may not start later, and
\* may be in the past.
CreateAndAssignRead(c, p, m, from, to) ==
    /\ pos[p] = "new"
    /\ from <= day
    /\ Start(c, [op |-> "create", p |-> p, m |-> m, from |-> from, to |-> to,
                 today |-> day])
    /\ UNCHANGED <<pos, asg, holderT, anchorT, lock, History, Others>>

\* Then the tree lock, the company check, the position, its first assignment
\* and, when that window covers today, the holder tuple.
CreateAndAssignWrite(c) ==
    /\ call[c].op = "create"
    /\ lock = None
    /\ Len(asg) < MaxAsg
    /\ LET r == call[c]
           w == [pos |-> r.p, mem |-> r.m, from |-> r.from, to |-> r.to]
       IN  /\ pos[r.p] = "new"
           /\ CompanyOf[r.p] = CompanyOf[r.m]
           /\ w.to \in {Open} \cup (w.from..MaxDay)
           /\ pos' = [pos EXCEPT ![r.p] = "live"]
           /\ asg' = Append(asg, w)
           /\ holderT' = IF Covers(w, r.today)
                         THEN holderT \cup {<<r.p, r.m>>} ELSE holderT
           /\ windowed' = IF w.to = Open THEN windowed
                          ELSE windowed \cup {Len(asg) + 1}
    /\ Done(c)
    /\ UNCHANGED <<anchorT, lock, handed, raced, Others>>

-------------------------------------------------------------------------------
(* Positions. *)

\* CreatePosition: the lock, the row and the company anchor.
CreatePosition(c, p) ==
    /\ call[c] = Idle
    /\ calls < MaxCalls
    /\ lock = None
    /\ pos[p] = "new"
    /\ calls' = calls + 1
    /\ pos' = [pos EXCEPT ![p] = "live"]
    /\ anchorT' = anchorT \cup {p}
    /\ UNCHANGED <<asg, holderT, lock, call, History, Others>>

\* DeletePosition: the row FOR UPDATE, then the count of tuples that bind the
\* position's holder, which must be zero.
DeleteCheck(c, p) ==
    /\ pos[p] = "live"
    /\ ~RowLocked(p)
    /\ p \notin boundT
    /\ Start(c, [op |-> "delete", p |-> p])
    /\ UNCHANGED <<pos, asg, holderT, anchorT, lock, History, Others>>

\* Mutated form: the row goes, its anchor stays.
DeleteRowOnly(c) ==
    /\ call[c].op = "delete"
    /\ LET p == call[c].p IN
         /\ \A a \in Assignments : asg[a].pos # p
         /\ pos' = [pos EXCEPT ![p] = "deleted"]
    /\ Done(c)
    /\ UNCHANGED <<asg, holderT, anchorT, lock, History, Others>>

\* The anchor is revoked and the row deleted, unless an assignment refers to
\* it.
DeleteWrite(c) ==
    /\ call[c].op = "delete"
    /\ LET p == call[c].p IN
         /\ \A a \in Assignments : asg[a].pos # p
         /\ pos' = [pos EXCEPT ![p] = "deleted"]
         /\ anchorT' = anchorT \ {p}
    /\ Done(c)
    /\ UNCHANGED <<asg, holderT, lock, History, Others>>

\* A refusal, a constraint violation, a failed audit append, a lost client:
\* the transaction rolls back and its locks go.
Abort(c) ==
    /\ call[c] # Idle
    /\ lock' = IF lock = c THEN None ELSE lock
    /\ Done(c)
    /\ UNCHANGED <<pos, asg, holderT, anchorT, History, Others>>

-------------------------------------------------------------------------------
(* What goes on around the requests. *)

\* A module binds an access tier to the holder of a position, or removes the
\* binding.  These are grant requests of authz, with no lock of org's: the
\* position's anchor was there when the request checked it, and the position
\* may have gone before the request writes.
Bind(p) ==
    /\ p \in anchorT \/ pos[p] = "deleted"
    /\ p \notin boundT
    /\ boundT' = boundT \cup {p}
    /\ raced' = IF pos[p] # "live" \/ RowLocked(p) THEN raced \cup {p} ELSE raced
    /\ UNCHANGED <<day, pos, asg, holderT, anchorT, lock, call, calls, list,
                   windowed, handed>>

Unbind(p) ==
    /\ p \in boundT
    /\ boundT' = boundT \ {p}
    /\ UNCHANGED <<day, pos, asg, holderT, anchorT, lock, call, calls, list, History>>

\* OrgObjectCompanyBackfill lists the positions, then anchors one at a time.
BackfillList ==
    /\ list = {}
    /\ list' = {p \in Position : pos[p] = "live"}
    /\ UNCHANGED <<day, pos, asg, holderT, anchorT, boundT, lock, call, calls, History>>

BackfillAnchor(p) ==
    /\ p \in list
    /\ list' = list \ {p}
    /\ anchorT' = anchorT \cup {p}
    /\ raced' = IF pos[p] = "live" THEN raced ELSE raced \cup {p}
    /\ UNCHANGED <<day, pos, asg, holderT, boundT, lock, call, calls, windowed, handed>>

Midnight ==
    /\ day < MaxDay
    /\ day' = day + 1
    /\ UNCHANGED <<pos, asg, holderT, anchorT, boundT, lock, call, calls, list, History>>

Request(c) ==
    \/ \E p \in Position, m \in Member : AssignCheck(c, p, m)
    \/ AssignWrite(c)
    \/ \E p \in Position, m \in Member, e \in 0..Len(asg) : HandoverCheck(c, p, m, e)
    \/ HandoverWrite(c)
    \/ \E a \in Assignments : EndRead(c, a)
    \/ EndToday(c)
    \/ EndWrite(c)
    \/ \E p \in Position, m \in Member, from \in Day, to \in Day \cup {Open} :
         CreateAndAssignRead(c, p, m, from, to)
    \/ CreateAndAssignWrite(c)
    \/ \E p \in Position : CreatePosition(c, p) \/ DeleteCheck(c, p)
    \/ DeleteWrite(c)
    \/ Abort(c)

Environment ==
    \/ \E p \in Position : Bind(p) \/ Unbind(p) \/ BackfillAnchor(p)
    \/ BackfillList
    \/ Midnight

Next == (\E c \in Client : Request(c)) \/ Environment

Spec == Init /\ [][Next]_vars

-------------------------------------------------------------------------------
(* Properties. *)

(* The holder tuples are the tenures.  Whoever holds a position today, by    *)
(* the assignment rows, has its tuple: no overlap of ends, assigns and       *)
(* handovers, and no request that finishes after midnight with yesterday's   *)
(* date, takes the access of the current holder away.  And a tuple is there  *)
(* only for a tenure nobody has ended: an open assignment of the pair, or    *)
(* one whose end was given when it was created and which no EndAssignment    *)
(* or Handover has closed since.                                             *)
HoldersAreTenures ==
    /\ \A a \in Assignments :
         Covers(asg[a], day) => <<asg[a].pos, asg[a].mem>> \in holderT
    /\ \A h \in holderT :
         \E a \in Assignments :
            /\ h = <<asg[a].pos, asg[a].mem>>
            /\ asg[a].to = Open \/ a \in windowed

(* "Two administrators cannot both think they handed the position over"      *)
(* (Handover): one assignment is handed over at most once.                   *)
HandedOnce == \A a \in 1..MaxAsg : handed[a] <= 1

(* A deleted position leaves nothing behind, neither assignment rows nor     *)
(* holder tuples nor its anchor nor a module's binding, except a binding or  *)
(* an anchor the backfill wrote while or after it was being deleted.         *)
DeletedIsGone ==
    \A p \in Position : pos[p] = "deleted" =>
        /\ \A a \in Assignments : asg[a].pos # p
        /\ \A m \in Member : <<p, m>> \notin holderT
        /\ p \in anchorT \cup boundT => p \in raced

(* What the comment of orgObjectCompanyTuple says of the anchor: "Written in *)
(* the same transaction as the row", so that every position that exists has  *)
(* it.                                                                       *)
LiveIsAnchored == \A p \in Position : pos[p] = "live" => p \in anchorT

=============================================================================
