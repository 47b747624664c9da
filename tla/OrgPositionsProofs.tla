------------------------- MODULE OrgPositionsProofs -------------------------
(***************************************************************************)
(* Proofs about positions and tenures, for any number of positions, members,*)
(* assignments and concurrent requests, and any calendar.                   *)
(***************************************************************************)
EXTENDS OrgPositions, SequenceTheorems, TLAPS

\* An assignment whose end was given ahead and has not come.
EndsLater(a) == asg[a].to # Open /\ asg[a].to > day

\* Assignments belong to live positions and have begun.  One that ends later got
\* its end with its creation, and is its position's only assignment: whatever
\* followed would have overlapped it.
RowInv ==
    /\ \A a \in Assignments : pos[asg[a].pos] = "live" /\ asg[a].from <= day
    /\ \A a \in Assignments : EndsLater(a) =>
         /\ a \in windowed
         /\ \A b \in Assignments \ {a} : asg[b].pos # asg[a].pos

\* An assignment that was handed over is closed for good.
HandedInv ==
    \A a \in 1..MaxAsg :
        /\ handed[a] <= 1
        /\ handed[a] > 0 => a \in Assignments /\ asg[a].to # Open /\ a \notin windowed

\* What a request in progress remembers is still so.
CallOK(c) ==
    LET r == call[c] IN
    /\ r.op = "assign" =>
         /\ lock = c /\ r.today <= day
         /\ \A a \in Assignments : asg[a].pos = r.p => asg[a].from <= r.today
    /\ r.op = "handover" =>
         /\ lock = c /\ r.today <= day
         /\ r.held \in Assignments /\ asg[r.held].pos = r.p /\ handed[r.held] = 0
    /\ r.op \in {"end", "endOn"} => r.a \in Assignments
    /\ r.op = "endOn" => r.today <= day
    /\ r.op = "create" => r.from <= r.today /\ r.today <= day
    /\ r.op = "delete" => (r.p \in boundT => r.p \in raced)

CallInv == \A c \in Client : CallOK(c)

\* A deleted position keeps an anchor or a binding only by a race.
GoneInv ==
    \A p \in Position : pos[p] = "deleted" /\ p \in anchorT \cup boundT => p \in raced

IInv == TypeOK /\ RowInv /\ HandedInv /\ CallInv /\ HoldersAreTenures /\ GoneInv

-----------------------------------------------------------------------------
(* Rows: what appending and ending one does to the table. *)

\* The table gets one more row and keeps the others.
LEMMA AppendRow ==
  ASSUME NEW t \in Seq(Window), NEW w \in Window
  PROVE  /\ Append(t, w) \in Seq(Window)
         /\ DOMAIN t = 1..Len(t) /\ Len(t) \in Nat
         /\ Len(Append(t, w)) = Len(t) + 1
         /\ DOMAIN Append(t, w) = 1..(Len(t) + 1)
         /\ \A a \in 1..Len(t) : Append(t, w)[a] = t[a]
         /\ Append(t, w)[Len(t) + 1] = w
BY AppendProperties, LenProperties

\* Ending a row changes its last day and nothing else.
LEMMA EndRowFacts ==
  ASSUME NEW t \in Seq(Window), NEW a \in DOMAIN t, NEW d \in Day
  PROVE  /\ EndRow(t, a, d) \in Seq(Window)
         /\ Len(EndRow(t, a, d)) = Len(t)
         /\ DOMAIN t = 1..Len(t) /\ Len(t) \in Nat
         /\ DOMAIN EndRow(t, a, d) = DOMAIN t
         /\ \A b \in DOMAIN t \ {a} : EndRow(t, a, d)[b] = t[b]
         /\ EndRow(t, a, d)[a].pos = t[a].pos /\ EndRow(t, a, d)[a].mem = t[a].mem
         /\ EndRow(t, a, d)[a].from = t[a].from /\ EndRow(t, a, d)[a].to = d
<1>1. DOMAIN t = 1..Len(t) /\ Len(t) \in Nat /\ t[a] \in Window
  BY LenProperties, ElementOfSeq
<1> DEFINE e == [t[a] EXCEPT !.to = d]
<1>2. /\ e \in Window
      /\ e.pos = t[a].pos /\ e.mem = t[a].mem /\ e.from = t[a].from /\ e.to = d
  BY <1>1 DEF Window
<1>3. EndRow(t, a, d) = [t EXCEPT ![a] = e]
  BY DEF EndRow
<1> HIDE DEF e
<1> QED
  BY <1>1, <1>2, <1>3, ExceptSeq, LenProperties

\* The fields of a request in progress, by its kind.
LEMMA CallFields ==
  ASSUME TypeOK, NEW c \in Client
  PROVE  LET r == call[c] IN
         /\ r.op \in {"idle", "assign", "handover", "end", "endOn", "create", "delete"}
         /\ r.op = "idle" => r = Idle
         /\ r.op = "assign" => r.p \in Position /\ r.m \in Member /\ r.today \in Day
         /\ r.op = "handover" =>
              r.p \in Position /\ r.m \in Member /\ r.today \in Day /\ r.held \in Nat
         /\ r.op = "end" => r.a \in Nat
         /\ r.op = "endOn" => r.a \in Nat /\ r.today \in Day
         /\ r.op = "create" => /\ r.p \in Position /\ r.m \in Member /\ r.from \in Day
                               /\ r.to \in Day \cup {Open} /\ r.today \in Day
         /\ r.op = "delete" => r.p \in Position
<1>1. call[c] \in Call
  BY DEF TypeOK
<1> QED
  BY <1>1 DEF Call, Idle

\* An empty table without requests satisfies the invariant.
LEMMA InitInv == Init => IInv
<1> SUFFICES ASSUME Init PROVE IInv
  OBVIOUS
<1> USE PositionAssumption DEF Init
<1>1. asg \in Seq(Window) /\ Len(asg) = 0 /\ Assignments = {}
  BY EmptySeq DEF Assignments
<1>2. TypeOK
  BY <1>1 DEF TypeOK, Call, Day
<1>3. RowInv /\ HoldersAreTenures
  BY <1>1 DEF RowInv, HoldersAreTenures
<1>4. HandedInv /\ CallInv /\ GoneInv
  BY DEF HandedInv, CallInv, CallOK, GoneInv, Idle
<1> QED
  BY <1>2, <1>3, <1>4 DEF IInv

-----------------------------------------------------------------------------
(* The four writers of the table, by what they do to its rows. *)

\* n is the new row of an append; the others stay.
Appended(n, w) ==
    /\ Assignments = 1..Len(asg) /\ n = Len(asg) + 1 /\ n \in 1..MaxAsg
    /\ n \notin Assignments /\ Assignments' = Assignments \cup {n}
    /\ \A a \in Assignments : asg'[a] = asg[a]
    /\ asg'[n] = w
    /\ asg' \in Seq(Window) /\ Len(asg') <= MaxAsg

\* Row a ends on day d; the others stay.
Ended(a, d) ==
    /\ a \in Assignments /\ Assignments' = Assignments
    /\ \A b \in Assignments \ {a} : asg'[b] = asg[b]
    /\ asg'[a].pos = asg[a].pos /\ asg'[a].mem = asg[a].mem
    /\ asg'[a].from = asg[a].from /\ asg'[a].to = d
    /\ asg' \in Seq(Window) /\ Len(asg') <= MaxAsg

\* Every row is a window of its position and member.
LEMMA RowType ==
  ASSUME TypeOK
  PROVE  /\ Assignments = 1..Len(asg) /\ Len(asg) \in Nat /\ Len(asg) <= MaxAsg
         /\ \A a \in Assignments :
              /\ asg[a] \in Window
              /\ asg[a].pos \in Position /\ asg[a].mem \in Member
              /\ asg[a].from \in Day /\ asg[a].to \in Day \cup {Open}
<1>1. asg \in Seq(Window) /\ Len(asg) <= MaxAsg
  BY DEF TypeOK
<1>2. Assignments = 1..Len(asg) /\ Len(asg) \in Nat
  BY <1>1, LenProperties DEF Assignments
<1>3. \A a \in Assignments : asg[a] \in Window
  BY <1>1, <1>2, ElementOfSeq
<1> QED
  BY <1>1, <1>2, <1>3 DEF Window

\* AssignNow appends an open window that begins on the day it read.
LEMMA AssignRow ==
  ASSUME IInv, NEW c \in Client, AssignWrite(c)
  PROVE  LET r == call[c]
             w == OpenWindow(r.p, r.m, r.today)
         IN  /\ Appended(Len(asg) + 1, w)
             /\ w.pos = r.p /\ w.mem = r.m /\ w.from = r.today /\ w.to = Open
<1> DEFINE w == OpenWindow(call[c].p, call[c].m, call[c].today)
<1>1. asg \in Seq(Window) /\ call[c].op = "assign" /\ asg' = Append(asg, w)
  BY DEF AssignWrite, IInv, TypeOK
<1>2. w \in Window
  BY <1>1, CallFields DEF IInv, OpenWindow, Window
<1>3. Len(asg) < MaxAsg /\ MaxAsg \in Nat
  BY PositionAssumption DEF AssignWrite
<1> HIDE DEF w
<1>4. Appended(Len(asg) + 1, w)
  BY <1>1, <1>2, <1>3, AppendRow DEF Appended, Assignments
<1> QED
  BY <1>4 DEF w, OpenWindow

\* Handover ends the row it found and appends an open window.
LEMMA HandoverRow ==
  ASSUME IInv, NEW c \in Client, HandoverWrite(c)
  PROVE  LET r == call[c]
             n == Len(asg) + 1
         IN  /\ r.held \in Assignments /\ n \notin Assignments /\ n \in 1..MaxAsg
             /\ Assignments' = Assignments \cup {n}
             /\ \A a \in Assignments \ {r.held} : asg'[a] = asg[a]
             /\ asg'[r.held].pos = asg[r.held].pos /\ asg'[r.held].mem = asg[r.held].mem
             /\ asg'[r.held].from = asg[r.held].from /\ asg'[r.held].to = r.today
             /\ asg'[n].pos = r.p /\ asg'[n].mem = r.m
             /\ asg'[n].from = r.today /\ asg'[n].to = Open
             /\ asg' \in Seq(Window) /\ Len(asg') <= MaxAsg
<1> DEFINE r == call[c]
           w == OpenWindow(r.p, r.m, r.today)
           t == EndRow(asg, r.held, r.today)
<1>1. asg \in Seq(Window) /\ r.op = "handover" /\ asg' = Append(t, w)
  BY DEF HandoverWrite, IInv, TypeOK
<1>2. w \in Window /\ r.today \in Day
  BY <1>1, CallFields DEF IInv, OpenWindow, Window
<1>3. Len(asg) < MaxAsg /\ MaxAsg \in Nat
  BY PositionAssumption DEF HandoverWrite
<1>4. r.held \in Assignments
  BY <1>1 DEF IInv, CallInv, CallOK
<1>5. /\ t \in Seq(Window) /\ Len(t) = Len(asg) /\ DOMAIN t = Assignments
      /\ Assignments = 1..Len(asg) /\ Len(asg) \in Nat
      /\ \A b \in Assignments \ {r.held} : t[b] = asg[b]
      /\ t[r.held].pos = asg[r.held].pos /\ t[r.held].mem = asg[r.held].mem
      /\ t[r.held].from = asg[r.held].from /\ t[r.held].to = r.today
  BY <1>1, <1>2, <1>4, EndRowFacts DEF Assignments
<1> HIDE DEF w, t
<1>6. /\ Append(t, w) \in Seq(Window) /\ Len(Append(t, w)) = Len(t) + 1
      /\ DOMAIN Append(t, w) = 1..(Len(t) + 1)
      /\ \A a \in 1..Len(t) : Append(t, w)[a] = t[a]
      /\ Append(t, w)[Len(t) + 1] = w
  BY <1>2, <1>5, AppendRow
<1>7. Assignments' = 1..(Len(asg) + 1)
  BY <1>1, <1>5, <1>6 DEF Assignments
<1>8. \A a \in Assignments : asg'[a] = t[a]
  BY <1>1, <1>5, <1>6
<1>9. asg'[Len(asg) + 1] = w
  BY <1>1, <1>5, <1>6
<1>10. w.pos = r.p /\ w.mem = r.m /\ w.from = r.today /\ w.to = Open
  BY DEF w, OpenWindow
<1>11. Len(asg) + 1 \notin Assignments /\ Len(asg) + 1 \in 1..MaxAsg /\ Len(asg') <= MaxAsg
  BY <1>1, <1>3, <1>5, <1>6
<1>12. Assignments' = Assignments \cup {Len(asg) + 1}
  BY <1>5, <1>7
<1> QED
  BY <1>1, <1>4, <1>5, <1>6, <1>8, <1>9, <1>10, <1>11, <1>12

\* EndAssignment ends the row it read.
LEMMA EndWriteRow ==
  ASSUME IInv, NEW c \in Client, EndWrite(c)
  PROVE  Ended(call[c].a, call[c].today)
<1>1. /\ asg \in Seq(Window) /\ Len(asg) <= MaxAsg /\ call[c].op = "endOn"
      /\ asg' = EndRow(asg, call[c].a, call[c].today)
  BY DEF EndWrite, IInv, TypeOK
<1>2. call[c].a \in Assignments /\ call[c].today \in Day
  BY <1>1, CallFields DEF IInv, CallInv, CallOK
<1> QED
  BY <1>1, <1>2, EndRowFacts DEF Ended, Assignments

\* CreateAndAssign appends the window of its request.
LEMMA CreateRow ==
  ASSUME IInv, NEW c \in Client, CreateAndAssignWrite(c)
  PROVE  LET r == call[c]
         IN Appended(Len(asg) + 1, [pos |-> r.p, mem |-> r.m, from |-> r.from, to |-> r.to])
<1> DEFINE r == call[c]
           w == [pos |-> r.p, mem |-> r.m, from |-> r.from, to |-> r.to]
<1>1. asg \in Seq(Window) /\ r.op = "create" /\ asg' = Append(asg, w)
  BY DEF CreateAndAssignWrite, IInv, TypeOK
<1>2. w \in Window
  BY <1>1, CallFields DEF IInv, Window
<1>3. Len(asg) < MaxAsg /\ MaxAsg \in Nat
  BY PositionAssumption DEF CreateAndAssignWrite
<1> HIDE DEF w
<1>4. Appended(Len(asg) + 1, w)
  BY <1>1, <1>2, <1>3, AppendRow DEF Appended, Assignments
<1> QED
  BY <1>4 DEF w

-----------------------------------------------------------------------------
(* Preservation, one conjunct of the invariant at a time. *)

\* The actions of Next, each with its witnesses.
LEMMA NextCases ==
  ASSUME [Next]_vars
  PROVE  \/ \E c \in Client :
              \/ \E p \in Position, m \in Member : AssignCheck(c, p, m)
              \/ \E p \in Position, m \in Member, e \in 0..Len(asg) : HandoverCheck(c, p, m, e)
              \/ \E a \in Assignments : EndRead(c, a)
              \/ EndToday(c)
              \/ \E p \in Position, m \in Member, from \in Day, to \in Day \cup {Open} :
                   CreateAndAssignRead(c, p, m, from, to)
              \/ \E p \in Position : DeleteCheck(c, p)
              \/ Abort(c)
         \/ \E c \in Client : AssignWrite(c) \/ HandoverWrite(c) \/ EndWrite(c)
                              \/ CreateAndAssignWrite(c)
         \/ \E c \in Client : DeleteWrite(c) \/ \E p \in Position : CreatePosition(c, p)
         \/ Environment
         \/ UNCHANGED vars
BY DEF Next, Request

\* Types are kept by every request, by the modules, the backfill and the clock.
LEMMA NextType == IInv /\ [Next]_vars => TypeOK'
<1> SUFFICES ASSUME IInv, [Next]_vars PROVE TypeOK'
  OBVIOUS
<1> TypeOK
  BY DEF IInv
<1> USE PositionAssumption DEF History, Others
<1>1. ASSUME NEW c \in Client, NEW p \in Position, NEW m \in Member, AssignCheck(c, p, m)
      PROVE TypeOK'
  BY <1>1 DEF AssignCheck, Start, TypeOK, Call
<1>2. ASSUME NEW c \in Client, NEW p \in Position, NEW m \in Member, NEW e \in 0..Len(asg),
             HandoverCheck(c, p, m, e)
      PROVE TypeOK'
  <2>1. \A a \in HeldOn(p, day) : a \in Nat
    BY RowType DEF HeldOn
  <2> QED
    BY <1>2, <2>1 DEF HandoverCheck, Start, TypeOK, Call
<1>3. ASSUME NEW c \in Client, NEW a \in Assignments, EndRead(c, a) PROVE TypeOK'
  <2>1. a \in Nat
    BY RowType
  <2> QED
    BY <1>3, <2>1 DEF EndRead, Start, TypeOK, Call
<1>4. ASSUME NEW c \in Client, EndToday(c) PROVE TypeOK'
  <2>1. call[c].a \in Nat
    BY <1>4, CallFields DEF EndToday
  <2> QED
    BY <1>4, <2>1 DEF EndToday, TypeOK, Call
<1>5. ASSUME NEW c \in Client, NEW p \in Position, NEW m \in Member, NEW from \in Day,
             NEW to \in Day \cup {Open}, CreateAndAssignRead(c, p, m, from, to)
      PROVE TypeOK'
  BY <1>5 DEF CreateAndAssignRead, Start, TypeOK, Call
<1>6. ASSUME NEW c \in Client, NEW p \in Position, DeleteCheck(c, p) PROVE TypeOK'
  BY <1>6 DEF DeleteCheck, Start, TypeOK, Call
<1>7. ASSUME NEW c \in Client, Abort(c) PROVE TypeOK'
  BY <1>7 DEF Abort, Done, TypeOK, Call
<1>8. ASSUME NEW c \in Client, AssignWrite(c) PROVE TypeOK'
  <2>1. asg' \in Seq(Window) /\ Len(asg') <= MaxAsg
    BY <1>8, AssignRow DEF Appended
  <2>2. call[c].p \in Position /\ call[c].m \in Member
    BY <1>8, CallFields DEF AssignWrite
  <2> QED
    BY <1>8, <2>1, <2>2 DEF AssignWrite, Done, TypeOK, Call
<1>9. ASSUME NEW c \in Client, HandoverWrite(c) PROVE TypeOK'
  <2>1. asg' \in Seq(Window) /\ Len(asg') <= MaxAsg
    BY <1>9, HandoverRow
  <2>2. call[c].p \in Position /\ call[c].m \in Member
    BY <1>9, CallFields DEF HandoverWrite
  <2>3. holderT' \subseteq Position \X Member
    BY <1>9, <2>2 DEF HandoverWrite, TuplesAfterEnd, TypeOK
  <2>4. call[c].held \in 1..MaxAsg
    <3>1. call[c].held \in Assignments
      BY <1>9, HandoverRow
    <3>2. Assignments = 1..Len(asg) /\ Len(asg) \in Nat /\ Len(asg) <= MaxAsg
      BY RowType
    <3> QED
      BY <3>1, <3>2
  <2>5. handed' \in [1..MaxAsg -> Nat]
    BY <1>9, <2>4 DEF HandoverWrite, TypeOK
  <2> QED
    BY <1>9, <2>1, <2>3, <2>5 DEF HandoverWrite, Done, TypeOK, Call
<1>10. ASSUME NEW c \in Client, EndWrite(c) PROVE TypeOK'
  <2>1. asg' \in Seq(Window) /\ Len(asg') <= MaxAsg
    BY <1>10, EndWriteRow DEF Ended
  <2>2. holderT' \subseteq Position \X Member
    BY <1>10 DEF EndWrite, TuplesAfterEnd, TypeOK
  <2> QED
    BY <1>10, <2>1, <2>2 DEF EndWrite, Done, TypeOK, Call
<1>11. ASSUME NEW c \in Client, CreateAndAssignWrite(c) PROVE TypeOK'
  <2>1. asg' \in Seq(Window) /\ Len(asg') <= MaxAsg /\ Len(asg) + 1 \in 1..MaxAsg
    BY <1>11, CreateRow DEF Appended
  <2>2. call[c].p \in Position /\ call[c].m \in Member
    BY <1>11, CallFields DEF CreateAndAssignWrite
  <2>3. holderT' \subseteq Position \X Member
    <3>1. holderT' \in {holderT, holderT \cup {<<call[c].p, call[c].m>>}}
      BY <1>11 DEF CreateAndAssignWrite
    <3> QED
      BY <2>2, <3>1 DEF TypeOK
  <2>4. windowed' \subseteq 1..MaxAsg
    <3>1. windowed' \in {windowed, windowed \cup {Len(asg) + 1}}
      BY <1>11 DEF CreateAndAssignWrite
    <3> QED
      BY <2>1, <3>1 DEF TypeOK
  <2>5. pos' \in [Position -> {"new", "live", "deleted"}]
    BY <1>11, <2>2 DEF CreateAndAssignWrite, TypeOK
  <2> QED
    BY <1>11, <2>1, <2>3, <2>4, <2>5 DEF CreateAndAssignWrite, Done, TypeOK, Call
<1>12. ASSUME NEW c \in Client, DeleteWrite(c) PROVE TypeOK'
  BY <1>12 DEF DeleteWrite, Done, TypeOK, Call
<1>13. ASSUME NEW c \in Client, NEW p \in Position, CreatePosition(c, p) PROVE TypeOK'
  BY <1>13 DEF CreatePosition, TypeOK
<1>14. CASE Environment
  <2>1. ASSUME NEW p \in Position, Bind(p) PROVE TypeOK'
    BY <2>1 DEF Bind, TypeOK
  <2>2. ASSUME NEW p \in Position, Unbind(p) PROVE TypeOK'
    BY <2>2 DEF Unbind, TypeOK
  <2>3. ASSUME NEW p \in Position, BackfillAnchor(p) PROVE TypeOK'
    BY <2>3 DEF BackfillAnchor, TypeOK
  <2>4. CASE BackfillList
    BY <2>4 DEF BackfillList, TypeOK
  <2>5. CASE Midnight
    BY <2>5 DEF Midnight, TypeOK, Day
  <2> QED
    BY <1>14, <2>1, <2>2, <2>3, <2>4, <2>5 DEF Environment
<1>15. CASE UNCHANGED vars
  BY <1>15 DEF vars, TypeOK
<1> QED
  BY <1>1, <1>2, <1>3, <1>4, <1>5, <1>6, <1>7, <1>8, <1>9, <1>10, <1>11, <1>12, <1>13,
     <1>14, <1>15, NextCases

\* What is left of Next for the rows and the holder tuples.
LEMMA RowSteps ==
  ASSUME [Next]_vars
  PROVE  \/ \E c \in Client : \/ AssignWrite(c) \/ HandoverWrite(c) \/ EndWrite(c)
                              \/ CreateAndAssignWrite(c) \/ DeleteWrite(c)
                              \/ \E p \in Position : CreatePosition(c, p)
         \/ Midnight
         \/ UNCHANGED <<day, pos, asg, holderT, windowed, handed>>
<1> USE DEF History, Others
<1>1. ASSUME NEW c \in Client,
             \/ \E p \in Position, m \in Member : AssignCheck(c, p, m)
             \/ \E p \in Position, m \in Member, e \in 0..Len(asg) : HandoverCheck(c, p, m, e)
             \/ \E a \in Assignments : EndRead(c, a)
             \/ EndToday(c)
             \/ \E p \in Position, m \in Member, from \in Day, to \in Day \cup {Open} :
                  CreateAndAssignRead(c, p, m, from, to)
             \/ \E p \in Position : DeleteCheck(c, p)
             \/ Abort(c)
      PROVE  UNCHANGED <<day, pos, asg, holderT, windowed, handed>>
  BY <1>1 DEF AssignCheck, HandoverCheck, EndRead, EndToday, CreateAndAssignRead,
              DeleteCheck, Abort
<1>2. CASE Environment
  BY <1>2 DEF Environment, Bind, Unbind, BackfillAnchor, BackfillList
<1>3. CASE UNCHANGED vars
  BY <1>3 DEF vars
<1> QED
  BY <1>1, <1>2, <1>3, NextCases

\* AssignNow finds no assignment of its position with an end ahead: it would
\* cover the day that was read, and the exclusion constraint refuses the insert.
LEMMA AssignAlone ==
  ASSUME IInv, NEW c \in Client, AssignWrite(c), NEW a \in Assignments,
         asg[a].pos = call[c].p
  PROVE  ~EndsLater(a)
<1> SUFFICES ASSUME EndsLater(a) PROVE FALSE
  OBVIOUS
<1> DEFINE r == call[c]
           w == OpenWindow(r.p, r.m, r.today)
<1>1. r.op = "assign" /\ NoOverlap(w, 0)
  BY DEF AssignWrite
<1>2. r.today \in Day /\ day \in Day /\ r.today <= day /\ asg[a].from <= r.today
  BY <1>1, CallFields DEF IInv, CallInv, CallOK, TypeOK
<1>3. a # 0 /\ asg[a].to \in Day
  BY RowType DEF IInv, EndsLater
<1>4. asg[a].to > r.today
  BY <1>2, <1>3 DEF EndsLater, Day
<1>5. Covers(asg[a], r.today) /\ Covers(w, r.today)
  BY <1>2, <1>3, <1>4 DEF Covers, OpenWindow, Day
<1> QED
  BY <1>1, <1>2, <1>3, <1>5 DEF NoOverlap, Overlap, OpenWindow

\* The rows keep their live position, their past start and the uniqueness of
\* an end that lies ahead.
LEMMA NextRow == IInv /\ TypeOK' /\ [Next]_vars => RowInv'
<1> SUFFICES ASSUME IInv, TypeOK', [Next]_vars PROVE RowInv'
  OBVIOUS
<1> TypeOK /\ RowInv /\ day \in Nat /\ Open \notin Nat
  BY PositionAssumption DEF IInv, TypeOK, Day
<1>0. \A a \in Assignments : /\ asg[a].pos \in Position /\ asg[a].from \in Nat
                             /\ asg[a].to \in Nat \cup {Open}
  BY RowType DEF Day
<1>1. ASSUME NEW c \in Client, AssignWrite(c) PROVE RowInv'
  <2> DEFINE r == call[c]
             n == Len(asg) + 1
  <2>1. /\ Appended(n, OpenWindow(r.p, r.m, r.today))
        /\ asg'[n].pos = r.p /\ asg'[n].from = r.today /\ asg'[n].to = Open
    BY <1>1, AssignRow DEF Appended
  <2>2. r.today <= day /\ pos[r.p] = "live" /\ UNCHANGED <<day, pos, windowed>>
    BY <1>1 DEF AssignWrite, IInv, CallInv, CallOK, History, Others
  <2>3. \A a \in Assignments : asg[a].pos = r.p => ~EndsLater(a)
    BY <1>1, AssignAlone
  <2>4. Assignments' = Assignments \cup {n} /\ \A a \in Assignments : asg'[a] = asg[a]
    BY <2>1 DEF Appended
  <2> HIDE DEF r, n
  <2> QED
    BY <2>1, <2>2, <2>3, <2>4 DEF RowInv, EndsLater
<1>2. ASSUME NEW c \in Client, HandoverWrite(c) PROVE RowInv'
  <2> DEFINE r == call[c]
             n == Len(asg) + 1
  <2>1. /\ r.held \in Assignments /\ n \notin Assignments
        /\ Assignments' = Assignments \cup {n}
        /\ \A a \in Assignments \ {r.held} : asg'[a] = asg[a]
        /\ asg'[r.held].pos = asg[r.held].pos /\ asg'[r.held].from = asg[r.held].from
        /\ asg'[r.held].to = r.today
        /\ asg'[n].pos = r.p /\ asg'[n].from = r.today /\ asg'[n].to = Open
    BY <1>2, HandoverRow
  <2>2. /\ r.today <= day /\ asg[r.held].pos = r.p /\ pos[r.p] = "live"
        /\ UNCHANGED <<day, pos>> /\ windowed' = windowed \ {r.held}
    BY <1>2 DEF HandoverWrite, IInv, CallInv, CallOK, Others
  <2>3. r.today \in Nat
    BY <1>2, CallFields DEF HandoverWrite, Day
  <2>4. \A a \in Assignments \ {r.held} : asg[a].pos = r.p => ~EndsLater(a)
    BY <2>1, <2>2 DEF RowInv
  <2> HIDE DEF r, n
  <2>5. \A a \in Assignments' : pos'[asg'[a].pos] = "live" /\ asg'[a].from <= day'
    BY <2>1, <2>2 DEF RowInv
  <2>6. \A a \in Assignments' : EndsLater(a)' => a \in Assignments \ {r.held} /\ EndsLater(a)
    BY <2>1, <2>2, <2>3 DEF EndsLater
  <2>7. ASSUME NEW a \in Assignments \ {r.held}, EndsLater(a)
        PROVE  a \in windowed' /\ \A b \in Assignments' \ {a} : asg'[b].pos # asg'[a].pos
    BY <2>1, <2>2, <2>4, <2>7 DEF RowInv
  <2> QED
    BY <2>5, <2>6, <2>7 DEF RowInv, EndsLater
<1>3. ASSUME NEW c \in Client, EndWrite(c) PROVE RowInv'
  <2> DEFINE r == call[c]
  <2>1. /\ r.a \in Assignments /\ Assignments' = Assignments
        /\ \A b \in Assignments \ {r.a} : asg'[b] = asg[b]
        /\ asg'[r.a].pos = asg[r.a].pos /\ asg'[r.a].mem = asg[r.a].mem
        /\ asg'[r.a].from = asg[r.a].from /\ asg'[r.a].to = r.today
    BY <1>3, EndWriteRow DEF Ended
  <2>2. r.today <= day /\ UNCHANGED <<day, pos>> /\ windowed' = windowed \ {r.a}
    BY <1>3 DEF EndWrite, IInv, CallInv, CallOK, Others
  <2>3. r.today \in Nat
    BY <1>3, CallFields DEF EndWrite, Day
  <2> HIDE DEF r
  <2>4. \A a \in Assignments' : pos'[asg'[a].pos] = "live" /\ asg'[a].from <= day'
    BY <2>1, <2>2 DEF RowInv
  <2>5. \A a \in Assignments' : EndsLater(a)' => a \in Assignments \ {r.a} /\ EndsLater(a)
    BY <2>1, <2>2, <2>3 DEF EndsLater
  <2>6. ASSUME NEW a \in Assignments \ {r.a}, EndsLater(a)
        PROVE  a \in windowed' /\ \A b \in Assignments' \ {a} : asg'[b].pos # asg'[a].pos
    BY <2>1, <2>2, <2>6 DEF RowInv
  <2> QED
    BY <2>4, <2>5, <2>6 DEF RowInv, EndsLater
<1>4. ASSUME NEW c \in Client, CreateAndAssignWrite(c) PROVE RowInv'
  <2> DEFINE r == call[c]
             n == Len(asg) + 1
  <2>1. /\ Appended(n, [pos |-> r.p, mem |-> r.m, from |-> r.from, to |-> r.to])
        /\ asg'[n].pos = r.p /\ asg'[n].from = r.from /\ asg'[n].to = r.to
    BY <1>4, CreateRow DEF Appended
  <2>2. /\ r.p \in Position /\ r.from \in Nat /\ r.today \in Nat
        /\ r.from <= r.today /\ r.today <= day
    BY <1>4, CallFields DEF CreateAndAssignWrite, IInv, CallInv, CallOK, Day
  <2>3. /\ pos[r.p] = "new" /\ pos' = [pos EXCEPT ![r.p] = "live"] /\ day' = day
        /\ windowed' = IF r.to = Open THEN windowed ELSE windowed \cup {n}
    BY <1>4 DEF CreateAndAssignWrite, Others
  <2>4. pos'[r.p] = "live" /\ \A p \in Position : pos[p] = "live" => pos'[p] = "live"
    BY <2>2, <2>3 DEF TypeOK
  <2>5. Assignments' = Assignments \cup {n} /\ \A a \in Assignments : asg'[a] = asg[a]
    BY <2>1 DEF Appended
  <2>6. \A a \in Assignments : asg[a].pos # r.p
    BY <2>3 DEF RowInv
  <2>7. r.from <= day
    BY <2>2
  <2> HIDE DEF r, n
  <2> QED
    BY <1>0, <2>1, <2>3, <2>4, <2>5, <2>6, <2>7 DEF RowInv, EndsLater
<1>5. ASSUME NEW c \in Client, DeleteWrite(c) PROVE RowInv'
  <2>1. /\ \A a \in Assignments : asg[a].pos # call[c].p
        /\ pos' = [pos EXCEPT ![call[c].p] = "deleted"]
        /\ UNCHANGED <<day, asg, windowed>>
    BY <1>5 DEF DeleteWrite, History, Others
  <2>2. \A a \in Assignments : pos'[asg[a].pos] = pos[asg[a].pos]
    BY <1>0, <2>1 DEF TypeOK
  <2> QED
    BY <2>1, <2>2 DEF RowInv, EndsLater, Assignments
<1>6. ASSUME NEW c \in Client, NEW p \in Position, CreatePosition(c, p) PROVE RowInv'
  <2>1. pos' = [pos EXCEPT ![p] = "live"] /\ UNCHANGED <<day, asg, windowed>>
    BY <1>6 DEF CreatePosition, History, Others
  <2>2. \A q \in Position : pos[q] = "live" => pos'[q] = "live"
    BY <2>1 DEF TypeOK
  <2> QED
    BY <1>0, <2>1, <2>2 DEF RowInv, EndsLater, Assignments
<1>7. CASE Midnight
  <2>1. day' = day + 1 /\ UNCHANGED <<pos, asg, windowed>>
    BY <1>7 DEF Midnight, History
  <2> QED
    BY <1>0, <2>1 DEF RowInv, EndsLater, Assignments
<1>8. CASE UNCHANGED <<day, pos, asg, holderT, windowed, handed>>
  BY <1>8 DEF RowInv, EndsLater, Assignments
<1> QED
  BY <1>1, <1>2, <1>3, <1>4, <1>5, <1>6, <1>7, <1>8, RowSteps

\* A row that was handed over stays closed: only a new row is open or has its
\* end given ahead, and a handover needs a row that was not handed over yet.
LEMMA NextHanded == IInv /\ TypeOK' /\ [Next]_vars => HandedInv'
<1> SUFFICES ASSUME IInv, TypeOK', [Next]_vars PROVE HandedInv'
  OBVIOUS
<1> TypeOK /\ HandedInv
  BY DEF IInv
<1>1. ASSUME NEW c \in Client, AssignWrite(c) PROVE HandedInv'
  <2>1. /\ \A a \in Assignments : asg'[a] = asg[a] /\ a \in Assignments'
        /\ UNCHANGED <<windowed, handed>>
    BY <1>1, AssignRow DEF Appended, AssignWrite, History
  <2> QED
    BY <2>1 DEF HandedInv
<1>2. ASSUME NEW c \in Client, HandoverWrite(c) PROVE HandedInv'
  <2> DEFINE r == call[c]
  <2>1. /\ r.held \in Assignments
        /\ \A a \in Assignments : a \in Assignments'
        /\ \A a \in Assignments \ {r.held} : asg'[a] = asg[a]
        /\ asg'[r.held].to = r.today
    BY <1>2, HandoverRow
  <2>2. /\ handed[r.held] = 0 /\ windowed' = windowed \ {r.held}
        /\ handed' = [handed EXCEPT ![r.held] = @ + 1]
    BY <1>2 DEF HandoverWrite, IInv, CallInv, CallOK
  <2>3. r.today # Open
    BY <1>2, CallFields, PositionAssumption DEF HandoverWrite, Day
  <2> HIDE DEF r
  <2>4. ASSUME NEW a \in 1..MaxAsg, a # r.held
        PROVE  /\ handed'[a] <= 1
               /\ handed'[a] > 0 => a \in Assignments' /\ asg'[a].to # Open /\ a \notin windowed'
    BY <2>1, <2>2, <2>4 DEF HandedInv, TypeOK
  <2>5. r.held \in 1..MaxAsg => handed'[r.held] = 1
    BY <2>2 DEF TypeOK
  <2>6. r.held \in Assignments' /\ asg'[r.held].to # Open /\ r.held \notin windowed'
    BY <2>1, <2>2, <2>3
  <2> QED
    BY <2>4, <2>5, <2>6 DEF HandedInv
<1>3. ASSUME NEW c \in Client, EndWrite(c) PROVE HandedInv'
  <2> DEFINE r == call[c]
  <2>1. /\ r.a \in Assignments /\ Assignments' = Assignments
        /\ \A b \in Assignments \ {r.a} : asg'[b] = asg[b]
        /\ asg'[r.a].pos = asg[r.a].pos /\ asg'[r.a].mem = asg[r.a].mem
        /\ asg'[r.a].from = asg[r.a].from /\ asg'[r.a].to = r.today
    BY <1>3, EndWriteRow DEF Ended
  <2>2. windowed' = windowed \ {r.a} /\ handed' = handed
    BY <1>3 DEF EndWrite
  <2>3. r.today # Open
    BY <1>3, CallFields, PositionAssumption DEF EndWrite, Day
  <2> HIDE DEF r
  <2> QED
    BY <2>1, <2>2, <2>3 DEF HandedInv
<1>4. ASSUME NEW c \in Client, CreateAndAssignWrite(c) PROVE HandedInv'
  <2> DEFINE n == Len(asg) + 1
  <2>1. n \notin Assignments /\ \A a \in Assignments : asg'[a] = asg[a] /\ a \in Assignments'
    BY <1>4, CreateRow DEF Appended
  <2>2. windowed' \subseteq windowed \cup {n} /\ handed' = handed
    BY <1>4 DEF CreateAndAssignWrite
  <2> HIDE DEF n
  <2> QED
    BY <2>1, <2>2 DEF HandedInv
<1>5. ASSUME NEW c \in Client, DeleteWrite(c) PROVE HandedInv'
  BY <1>5 DEF DeleteWrite, History, HandedInv, Assignments
<1>6. ASSUME NEW c \in Client, NEW p \in Position, CreatePosition(c, p) PROVE HandedInv'
  BY <1>6 DEF CreatePosition, History, HandedInv, Assignments
<1>7. CASE Midnight
  BY <1>7 DEF Midnight, History, HandedInv, Assignments
<1>8. CASE UNCHANGED <<day, pos, asg, holderT, windowed, handed>>
  BY <1>8 DEF HandedInv, Assignments
<1> QED
  BY <1>1, <1>2, <1>3, <1>4, <1>5, <1>6, <1>7, <1>8, RowSteps

\* Ending a row takes the pair's tuple only when no other tenure of the pair is
\* left: one with its end ahead would be the position's only row.
LEMMA EndKeepsOthers ==
  ASSUME IInv, NEW a \in Assignments
  PROVE  /\ \A b \in Assignments \ {a} :
              Covers(asg[b], day) => <<asg[b].pos, asg[b].mem>> \in TuplesAfterEnd(a)
         /\ \A h \in TuplesAfterEnd(a) : \E b \in Assignments \ {a} :
              /\ h = <<asg[b].pos, asg[b].mem>>
              /\ asg[b].to = Open \/ b \in windowed \ {a}
<1> RowInv /\ HoldersAreTenures
  BY DEF IInv
<1>1. ASSUME NEW b \in Assignments \ {a}, Covers(asg[b], day),
             <<asg[b].pos, asg[b].mem>> \notin TuplesAfterEnd(a)
      PROVE  FALSE
  <2>1. <<asg[b].pos, asg[b].mem>> \in holderT
    BY <1>1 DEF HoldersAreTenures
  <2>2. ~OtherOpen(a) /\ asg[b].pos = asg[a].pos /\ asg[b].mem = asg[a].mem
    BY <1>1, <2>1 DEF TuplesAfterEnd
  <2>3. asg[b].to # Open
    BY <2>2 DEF OtherOpen
  <2>4. EndsLater(b)
    <3>1. day < asg[b].to
      BY <1>1, <2>3 DEF Covers
    <3>2. asg[b].to \in Nat /\ day \in Nat
      BY <2>3, RowType DEF IInv, TypeOK, Day
    <3> QED
      BY <2>3, <3>1, <3>2 DEF EndsLater
  <2> QED
    BY <2>2, <2>4 DEF RowInv
<1>2. ASSUME NEW h \in TuplesAfterEnd(a)
      PROVE  \E b \in Assignments \ {a} : /\ h = <<asg[b].pos, asg[b].mem>>
                                          /\ asg[b].to = Open \/ b \in windowed \ {a}
  <2>1. h \in holderT
    BY <1>2 DEF TuplesAfterEnd
  <2>2. PICK b \in Assignments : /\ h = <<asg[b].pos, asg[b].mem>>
                                 /\ asg[b].to = Open \/ b \in windowed
    BY <2>1 DEF HoldersAreTenures
  <2>3. CASE b # a
    BY <2>2, <2>3
  <2>4. CASE b = a
    <3>1. OtherOpen(a)
      BY <1>2, <2>2, <2>4 DEF TuplesAfterEnd
    <3> QED
      BY <2>2, <2>4, <3>1 DEF OtherOpen
  <2> QED
    BY <2>3, <2>4
<1> QED
  BY <1>1, <1>2

\* Each write of a tenure keeps holder tuples and tenures together.
LEMMA NextTenure == IInv /\ TypeOK' /\ [Next]_vars => HoldersAreTenures'
<1> SUFFICES ASSUME IInv, TypeOK', [Next]_vars PROVE HoldersAreTenures'
  OBVIOUS
<1> TypeOK /\ RowInv /\ HoldersAreTenures /\ day \in Nat /\ Open \notin Nat
  BY PositionAssumption DEF IInv, TypeOK, Day
<1>0. \A a \in Assignments : asg[a].from \in Nat /\ asg[a].to \in Nat \cup {Open}
  BY RowType DEF Day
<1>1. ASSUME NEW c \in Client, AssignWrite(c) PROVE HoldersAreTenures'
  <2> DEFINE r == call[c]
             n == Len(asg) + 1
  <2>1. /\ Appended(n, OpenWindow(r.p, r.m, r.today))
        /\ asg'[n].pos = r.p /\ asg'[n].mem = r.m /\ asg'[n].to = Open
    BY <1>1, AssignRow DEF Appended
  <2>2. Assignments' = Assignments \cup {n} /\ \A a \in Assignments : asg'[a] = asg[a]
    BY <2>1 DEF Appended
  <2>3. holderT' = holderT \cup {<<r.p, r.m>>} /\ UNCHANGED <<day, windowed>>
    BY <1>1 DEF AssignWrite, History, Others
  <2> HIDE DEF r, n
  <2> QED
    BY <2>1, <2>2, <2>3 DEF HoldersAreTenures
<1>2. ASSUME NEW c \in Client, HandoverWrite(c) PROVE HoldersAreTenures'
  <2> DEFINE r == call[c]
             n == Len(asg) + 1
  <2>1. /\ r.held \in Assignments /\ Assignments' = Assignments \cup {n}
        /\ \A a \in Assignments \ {r.held} : asg'[a] = asg[a]
        /\ asg'[r.held].to = r.today
        /\ asg'[n].pos = r.p /\ asg'[n].mem = r.m /\ asg'[n].to = Open
    BY <1>2, HandoverRow
  <2>2. /\ r.today <= day /\ day' = day /\ windowed' = windowed \ {r.held}
        /\ holderT' = TuplesAfterEnd(r.held) \cup {<<r.p, r.m>>}
    BY <1>2 DEF HandoverWrite, IInv, CallInv, CallOK, Others
  <2>3. r.today \in Nat
    BY <1>2, CallFields DEF HandoverWrite, Day
  <2> HIDE DEF r, n
  <2>4. ~Covers(asg'[r.held], day)
    BY <2>1, <2>2, <2>3 DEF Covers
  <2> QED
    BY <2>1, <2>2, <2>4, EndKeepsOthers DEF HoldersAreTenures
<1>3. ASSUME NEW c \in Client, EndWrite(c) PROVE HoldersAreTenures'
  <2> DEFINE r == call[c]
  <2>1. /\ r.a \in Assignments /\ Assignments' = Assignments
        /\ \A b \in Assignments \ {r.a} : asg'[b] = asg[b]
        /\ asg'[r.a].pos = asg[r.a].pos /\ asg'[r.a].mem = asg[r.a].mem
        /\ asg'[r.a].from = asg[r.a].from /\ asg'[r.a].to = r.today
    BY <1>3, EndWriteRow DEF Ended
  <2>2. /\ r.today <= day /\ day' = day /\ windowed' = windowed \ {r.a}
        /\ holderT' = TuplesAfterEnd(r.a)
    BY <1>3 DEF EndWrite, IInv, CallInv, CallOK, Others
  <2>3. r.today \in Nat
    BY <1>3, CallFields DEF EndWrite, Day
  <2> HIDE DEF r
  <2>4. ~Covers(asg'[r.a], day)
    BY <2>1, <2>2, <2>3 DEF Covers
  <2> QED
    BY <2>1, <2>2, <2>4, EndKeepsOthers DEF HoldersAreTenures
<1>4. ASSUME NEW c \in Client, CreateAndAssignWrite(c) PROVE HoldersAreTenures'
  <2> DEFINE r == call[c]
             n == Len(asg) + 1
             w == [pos |-> r.p, mem |-> r.m, from |-> r.from, to |-> r.to]
  <2>1. Appended(n, w) /\ asg'[n] = w
    BY <1>4, CreateRow DEF Appended
  <2>2. Assignments' = Assignments \cup {n} /\ \A a \in Assignments : asg'[a] = asg[a]
    BY <2>1 DEF Appended
  <2>3. /\ r.from \in Nat /\ r.today \in Nat /\ r.to \in Nat \cup {Open}
        /\ r.from <= r.today /\ r.today <= day
    BY <1>4, CallFields DEF CreateAndAssignWrite, IInv, CallInv, CallOK, Day
  <2>4. /\ day' = day
        /\ holderT' = IF Covers(w, r.today) THEN holderT \cup {<<r.p, r.m>>} ELSE holderT
        /\ windowed' = IF w.to = Open THEN windowed ELSE windowed \cup {n}
    BY <1>4 DEF CreateAndAssignWrite, Others
  <2>5. Covers(w, day) => Covers(w, r.today)
    BY <2>3 DEF Covers
  <2>6. <<w.pos, w.mem>> = <<r.p, r.m>>
    OBVIOUS
  <2> HIDE DEF r, n, w
  <2> QED
    BY <2>1, <2>2, <2>4, <2>5, <2>6 DEF HoldersAreTenures
<1>5. ASSUME NEW c \in Client, DeleteWrite(c) PROVE HoldersAreTenures'
  BY <1>5 DEF DeleteWrite, History, Others, HoldersAreTenures, Assignments
<1>6. ASSUME NEW c \in Client, NEW p \in Position, CreatePosition(c, p)
      PROVE  HoldersAreTenures'
  BY <1>6 DEF CreatePosition, History, Others, HoldersAreTenures, Assignments
<1>7. CASE Midnight
  <2>1. day' = day + 1 /\ UNCHANGED <<asg, holderT, windowed>>
    BY <1>7 DEF Midnight, History
  <2>2. \A a \in Assignments : Covers(asg[a], day + 1) => Covers(asg[a], day)
    BY <1>0 DEF Covers, RowInv
  <2> QED
    BY <2>1, <2>2 DEF HoldersAreTenures, Assignments
<1>8. CASE UNCHANGED <<day, pos, asg, holderT, windowed, handed>>
  BY <1>8 DEF HoldersAreTenures, Assignments
<1> QED
  BY <1>1, <1>2, <1>3, <1>4, <1>5, <1>6, <1>7, <1>8, RowSteps

\* A request stays as it was while others act: the holder of the tree lock
\* keeps the rows, and a binding made during a deletion is a race.
LEMMA CallKept ==
  ASSUME IInv, NEW d \in Client, call'[d] = call[d],
         day' \in Day, day <= day', Assignments \subseteq Assignments',
         lock = d => UNCHANGED <<lock, asg, handed>>,
         raced \subseteq raced',
         \A p \in boundT' \ boundT : call[d] = [op |-> "delete", p |-> p] => p \in raced'
  PROVE  CallOK(d)'
<1> DEFINE r == call[d]
<1>1. CallOK(d) /\ day \in Nat /\ day' \in Nat
  BY DEF IInv, CallInv, TypeOK, Day
<1>2. r.op \in {"assign", "handover", "endOn", "create"} => r.today \in Nat
  BY CallFields DEF IInv, Day
<1>3. ASSUME r.op = "assign" PROVE CallOK(d)'
  BY <1>1, <1>2, <1>3 DEF CallOK, Assignments
<1>4. ASSUME r.op = "handover" PROVE CallOK(d)'
  BY <1>1, <1>2, <1>4 DEF CallOK, Assignments
<1>5. ASSUME r.op \in {"end", "endOn", "create", "idle"} PROVE CallOK(d)'
  BY <1>1, <1>2, <1>5 DEF CallOK
<1>6. ASSUME r.op = "delete" PROVE CallOK(d)'
  <2>1. r = [op |-> "delete", p |-> r.p]
    BY <1>6 DEF IInv, TypeOK, Call, Idle
  <2>2. r.p \in boundT' => r.p \in raced'
    BY <1>1, <1>6, <2>1 DEF CallOK
  <2> QED
    BY <1>6, <2>2 DEF CallOK
<1> QED
  BY <1>3, <1>4, <1>5, <1>6, CallFields DEF IInv

\* An idle client has nothing to remember.
LEMMA CallDone == ASSUME NEW d \in Client, call'[d] = Idle PROVE CallOK(d)'
BY DEF CallOK, Idle

\* Every request in progress keeps, or gains at its start, what it relies on.
LEMMA NextCall == IInv /\ TypeOK' /\ [Next]_vars => CallInv'
<1> SUFFICES ASSUME IInv, TypeOK', [Next]_vars, NEW d \in Client PROVE CallOK(d)'
  BY DEF CallInv
<1> TypeOK /\ RowInv /\ HandedInv /\ CallOK(d) /\ None \notin Client
  BY PositionAssumption DEF IInv, CallInv
<1>0. day \in Nat /\ day' \in Day /\ d # None
  BY DEF TypeOK, Day
<1> USE DEF History, Others
<1>1. ASSUME NEW c \in Client, NEW p \in Position, NEW m \in Member, AssignCheck(c, p, m)
      PROVE CallOK(d)'
  <2>1. CASE d = c
    <3>1. /\ call'[d] = [op |-> "assign", p |-> p, m |-> m, today |-> day]
          /\ lock' = d /\ UNCHANGED <<day, asg>>
      BY <1>1, <2>1 DEF AssignCheck, Start, TypeOK
    <3>2. \A a \in Assignments : asg[a].from <= day
      BY DEF RowInv
    <3> QED
      BY <1>0, <3>1, <3>2 DEF CallOK, Assignments
  <2>2. CASE d # c
    BY <1>0, <1>1, <2>2, CallKept DEF AssignCheck, Start, TypeOK, Assignments
  <2> QED
    BY <2>1, <2>2
<1>2. ASSUME NEW c \in Client, NEW p \in Position, NEW m \in Member, NEW e \in 0..Len(asg),
             HandoverCheck(c, p, m, e)
      PROVE CallOK(d)'
  <2>1. CASE d = c
    <3>1. PICK held \in HeldOn(p, day) :
             Start(c, [op |-> "handover", p |-> p, m |-> m, today |-> day, held |-> held])
      BY <1>2 DEF HandoverCheck
    <3>2. /\ call'[d] = [op |-> "handover", p |-> p, m |-> m, today |-> day, held |-> held]
          /\ lock' = d /\ UNCHANGED <<day, asg, handed>>
      BY <1>2, <2>1, <3>1 DEF HandoverCheck, Start, TypeOK
    <3>3. held \in Assignments /\ asg[held].pos = p /\ Covers(asg[held], day)
      BY <3>1 DEF HeldOn
    <3>4. handed[held] = 0
      <4>1. held \in 1..MaxAsg /\ handed[held] \in Nat
        <5>1. Assignments = 1..Len(asg) /\ Len(asg) \in Nat /\ Len(asg) <= MaxAsg
          BY RowType
        <5>2. held \in 1..MaxAsg
          BY <3>3, <5>1, PositionAssumption
        <5> QED
          BY <5>2 DEF TypeOK
      <4>2. asg[held].to = Open \/ held \in windowed
        <5>1. asg[held].to \in Nat \cup {Open}
          BY <3>3, RowType DEF Day
        <5>2. asg[held].to # Open => EndsLater(held)
          BY <1>0, <3>3, <5>1 DEF Covers, EndsLater
        <5> QED
          BY <3>3, <5>2 DEF RowInv
      <4> QED
        BY <4>1, <4>2 DEF HandedInv
    <3> QED
      BY <1>0, <3>2, <3>3, <3>4 DEF CallOK, Assignments
  <2>2. CASE d # c
    BY <1>0, <1>2, <2>2, CallKept DEF HandoverCheck, Start, TypeOK, Assignments
  <2> QED
    BY <2>1, <2>2
<1>3. ASSUME NEW c \in Client, NEW a \in Assignments, EndRead(c, a) PROVE CallOK(d)'
  <2>1. CASE d = c
    BY <1>3, <2>1 DEF EndRead, Start, TypeOK, CallOK, Assignments
  <2>2. CASE d # c
    BY <1>0, <1>3, <2>2, CallKept DEF EndRead, Start, TypeOK, Assignments
  <2> QED
    BY <2>1, <2>2
<1>4. ASSUME NEW c \in Client, EndToday(c) PROVE CallOK(d)'
  <2>1. CASE d = c
    <3>1. /\ call[c].a \in Assignments /\ UNCHANGED <<day, asg>>
          /\ call'[d] = [op |-> "endOn", a |-> call[c].a, today |-> day]
      BY <1>4, <2>1 DEF EndToday, TypeOK, CallOK
    <3> QED
      BY <1>0, <3>1 DEF CallOK, Assignments
  <2>2. CASE d # c
    BY <1>0, <1>4, <2>2, CallKept DEF EndToday, TypeOK, Assignments
  <2> QED
    BY <2>1, <2>2
<1>5. ASSUME NEW c \in Client, NEW p \in Position, NEW m \in Member, NEW from \in Day,
             NEW to \in Day \cup {Open}, CreateAndAssignRead(c, p, m, from, to)
      PROVE CallOK(d)'
  <2>1. CASE d = c
    BY <1>0, <1>5, <2>1 DEF CreateAndAssignRead, Start, TypeOK, CallOK
  <2>2. CASE d # c
    BY <1>0, <1>5, <2>2, CallKept DEF CreateAndAssignRead, Start, TypeOK, Assignments
  <2> QED
    BY <2>1, <2>2
<1>6. ASSUME NEW c \in Client, NEW p \in Position, DeleteCheck(c, p) PROVE CallOK(d)'
  <2>1. CASE d = c
    BY <1>6, <2>1 DEF DeleteCheck, Start, TypeOK, CallOK
  <2>2. CASE d # c
    BY <1>0, <1>6, <2>2, CallKept DEF DeleteCheck, Start, TypeOK, Assignments
  <2> QED
    BY <2>1, <2>2
<1>7. ASSUME NEW c \in Client,
             \/ AssignWrite(c) \/ HandoverWrite(c) \/ EndWrite(c) \/ CreateAndAssignWrite(c)
             \/ DeleteWrite(c) \/ Abort(c)
      PROVE CallOK(d)'
  <2>1. CASE d = c
    <3>1. call'[d] = Idle
      BY <1>7, <2>1 DEF AssignWrite, HandoverWrite, EndWrite, CreateAndAssignWrite,
                        DeleteWrite, Abort, Done, TypeOK
    <3> QED
      BY <3>1, CallDone
  <2>2. CASE d # c
    <3>1. call'[d] = call[d] /\ UNCHANGED <<day, boundT, raced>>
      BY <1>7, <2>2 DEF AssignWrite, HandoverWrite, EndWrite, CreateAndAssignWrite,
                        DeleteWrite, Abort, Done, TypeOK
    <3>2. Assignments \subseteq Assignments'
      <4>1. ASSUME AssignWrite(c) PROVE Assignments \subseteq Assignments'
        BY <4>1, AssignRow DEF Appended
      <4>2. ASSUME HandoverWrite(c) PROVE Assignments \subseteq Assignments'
        BY <4>2, HandoverRow
      <4>3. ASSUME EndWrite(c) PROVE Assignments \subseteq Assignments'
        BY <4>3, EndWriteRow DEF Ended
      <4>4. ASSUME CreateAndAssignWrite(c) PROVE Assignments \subseteq Assignments'
        BY <4>4, CreateRow DEF Appended
      <4>5. ASSUME DeleteWrite(c) \/ Abort(c) PROVE Assignments \subseteq Assignments'
        BY <4>5 DEF DeleteWrite, Abort, Assignments
      <4> QED
        BY <1>7, <4>1, <4>2, <4>3, <4>4, <4>5
    <3>3. AssignWrite(c) \/ HandoverWrite(c) => lock = c
      BY DEF AssignWrite, HandoverWrite, IInv, CallInv, CallOK
    <3>4. lock = d => UNCHANGED <<lock, asg, handed>>
      BY <1>0, <1>7, <2>2, <3>3 DEF EndWrite, CreateAndAssignWrite, DeleteWrite, Abort
    <3> QED
      BY <1>0, <3>1, <3>2, <3>4, CallKept
  <2> QED
    BY <2>1, <2>2
<1>8. ASSUME NEW c \in Client, NEW p \in Position, CreatePosition(c, p) PROVE CallOK(d)'
  BY <1>0, <1>8, CallKept DEF CreatePosition, TypeOK, Assignments
<1>9. CASE Environment
  <2>1. UNCHANGED <<call, asg, lock, handed>> /\ Assignments' = Assignments
    BY <1>9 DEF Environment, Bind, Unbind, BackfillAnchor, BackfillList, Midnight, Assignments
  <2>2. day <= day' /\ raced \subseteq raced'
    BY <1>0, <1>9 DEF Environment, Bind, Unbind, BackfillAnchor, BackfillList, Midnight
  <2>3. \A p \in boundT' \ boundT : call[d] = [op |-> "delete", p |-> p] => p \in raced'
    BY <1>9 DEF Environment, Bind, Unbind, BackfillAnchor, BackfillList, Midnight, RowLocked
  <2> QED
    BY <1>0, <2>1, <2>2, <2>3, CallKept
<1>10. CASE UNCHANGED vars
  BY <1>0, <1>10, CallKept DEF vars, Assignments
<1> QED
  BY <1>1, <1>2, <1>3, <1>4, <1>5, <1>6, <1>7, <1>8, <1>9, <1>10, NextCases

\* What outlives a deleted position was written by a race with its deletion.
LEMMA NextGone == IInv /\ TypeOK' /\ [Next]_vars => GoneInv'
<1> SUFFICES ASSUME IInv, TypeOK', [Next]_vars PROVE GoneInv'
  OBVIOUS
<1> TypeOK /\ GoneInv
  BY DEF IInv
<1> USE DEF History, Others
<1>1. ASSUME NEW c \in Client,
             \/ \E p \in Position, m \in Member : AssignCheck(c, p, m)
             \/ \E p \in Position, m \in Member, e \in 0..Len(asg) : HandoverCheck(c, p, m, e)
             \/ \E a \in Assignments : EndRead(c, a)
             \/ EndToday(c)
             \/ \E p \in Position, m \in Member, from \in Day, to \in Day \cup {Open} :
                  CreateAndAssignRead(c, p, m, from, to)
             \/ \E p \in Position : DeleteCheck(c, p)
             \/ Abort(c)
             \/ AssignWrite(c) \/ HandoverWrite(c) \/ EndWrite(c)
      PROVE  GoneInv'
  <2>1. UNCHANGED <<pos, anchorT, boundT, raced>>
    BY <1>1 DEF AssignCheck, HandoverCheck, EndRead, EndToday, CreateAndAssignRead,
                DeleteCheck, Abort, AssignWrite, HandoverWrite, EndWrite
  <2> QED
    BY <2>1 DEF GoneInv
<1>2. ASSUME NEW c \in Client, CreateAndAssignWrite(c) PROVE GoneInv'
  <2>1. pos' = [pos EXCEPT ![call[c].p] = "live"] /\ UNCHANGED <<anchorT, boundT, raced>>
    BY <1>2 DEF CreateAndAssignWrite
  <2> QED
    BY <2>1 DEF GoneInv, TypeOK
<1>3. ASSUME NEW c \in Client, NEW p \in Position, CreatePosition(c, p) PROVE GoneInv'
  BY <1>3 DEF CreatePosition, GoneInv, TypeOK
<1>4. ASSUME NEW c \in Client, DeleteWrite(c) PROVE GoneInv'
  <2>1. /\ pos' = [pos EXCEPT ![call[c].p] = "deleted"] /\ anchorT' = anchorT \ {call[c].p}
        /\ UNCHANGED <<boundT, raced>>
    BY <1>4 DEF DeleteWrite
  <2>2. call[c].p \in boundT => call[c].p \in raced
    BY <1>4 DEF DeleteWrite, IInv, CallInv, CallOK
  <2> QED
    BY <2>1, <2>2 DEF GoneInv, TypeOK
<1>5. CASE Environment
  BY <1>5 DEF Environment, Bind, Unbind, BackfillAnchor, BackfillList, Midnight, GoneInv
<1>6. CASE UNCHANGED vars
  BY <1>6 DEF vars, GoneInv
<1> QED
  BY <1>1, <1>2, <1>3, <1>4, <1>5, <1>6, NextCases

-----------------------------------------------------------------------------
(* Theorems. *)

(* The inductive invariant of positions and tenures: types, rows, handovers,  *)
(* what requests in progress rely on, the holder tuples, and what a deletion  *)
(* leaves.                                                                    *)
THEOREM Invariant == Spec => []IInv
<1>1. Init => IInv
  BY InitInv
<1>2. IInv /\ [Next]_vars => IInv'
  BY NextType, NextRow, NextHanded, NextCall, NextTenure, NextGone DEF IInv
<1> QED
  BY <1>1, <1>2, PTL DEF Spec

(* Positions, assignment rows, tuples, the lock and requests keep their types. *)
THEOREM TypeCorrect == Spec => []TypeOK
<1>1. IInv => TypeOK
  BY DEF IInv
<1> QED
  BY <1>1, Invariant, PTL

(* Whoever holds a position today has its holder tuple, and a holder tuple    *)
(* stands for a tenure nobody has ended, whatever assigns, handovers, ends    *)
(* and creations overlap and wherever midnight falls.                         *)
THEOREM HoldersAreTenuresHolds == Spec => []HoldersAreTenures
<1>1. IInv => HoldersAreTenures
  BY DEF IInv
<1> QED
  BY <1>1, Invariant, PTL

(* No assignment is handed over twice. *)
THEOREM HandedOnceHolds == Spec => []HandedOnce
<1>1. IInv => HandedOnce
  BY DEF IInv, HandedInv, HandedOnce
<1> QED
  BY <1>1, Invariant, PTL

(* A deleted position leaves no rows and no holder tuples, and an anchor or a *)
(* binding only where one was written while or after it was being deleted.    *)
THEOREM DeletedIsGoneHolds == Spec => []DeletedIsGone
<1>1. ASSUME IInv PROVE DeletedIsGone
  <2>1. \A a \in Assignments : pos[asg[a].pos] = "live"
    BY <1>1 DEF IInv, RowInv
  <2>2. \A p \in Position, m \in Member : <<p, m>> \in holderT => pos[p] = "live"
    BY <1>1, <2>1 DEF IInv, HoldersAreTenures
  <2>3. GoneInv
    BY <1>1 DEF IInv
  <2> QED
    BY <2>1, <2>2, <2>3 DEF DeletedIsGone, GoneInv
<1> QED
  BY <1>1, Invariant, PTL

=============================================================================
