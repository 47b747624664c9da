-------------------------- MODULE OrgMembersProofs --------------------------
(***************************************************************************)
(* Proofs about the member directory, for any number of members, users and  *)
(* concurrent requests.                                                     *)
(***************************************************************************)
EXTENDS OrgMembers, TLAPS

\* A request in progress and the backfill's lists name rows that exist: rows
\* are never deleted.
ExistingRows ==
    /\ \A c \in Client : call[c] # Idle => Exists(call[c].m)
    /\ \A p \in backfill.users : Exists(p[1])

\* The inductive invariant.
IInv == TypeOK /\ ExistingRows /\ LinkedIsMapped /\ ExactUnlessRaced

\* An empty directory without tuples satisfies the invariant.
LEMMA InitInv == Init => IInv
BY MemberAssumption
DEF Init, IInv, TypeOK, ExistingRows, LinkedIsMapped, ExactUnlessRaced, ExactFor,
    Linked, Active, Exists, Stage, Call, Idle

\* Every request and backfill step keeps the types of rows, tuples and calls.
LEMMA NextType == TypeOK /\ ExistingRows /\ [Next]_vars => TypeOK'
<1> SUFFICES ASSUME TypeOK, ExistingRows, [Next]_vars PROVE TypeOK'
  OBVIOUS
<1> USE MemberAssumption
<1>1. ASSUME NEW c \in Client, NEW m \in Member, NEW active \in BOOLEAN,
             CreateMember(c, m, active)
      PROVE TypeOK'
  BY <1>1 DEF CreateMember, TypeOK, Row
<1>2. ASSUME NEW c \in Client, NEW m \in Member, NEW active \in BOOLEAN,
             UpdateRead(c, m, active)
      PROVE TypeOK'
  BY <1>2 DEF UpdateRead, Start, Exists, TypeOK, Call
<1>3. ASSUME NEW c \in Client, UpdateWrite(c) PROVE TypeOK'
  BY <1>3 DEF UpdateWrite, Done, Race, MemberTuples, TypeOK, ExistingRows, Exists, Call, Idle, Row
<1>4. ASSUME NEW c \in Client, NEW m \in Member, NEW u \in User, LinkRead(c, m, u)
      PROVE TypeOK'
  BY <1>4 DEF LinkRead, Start, TypeOK, Call
<1>5. ASSUME NEW c \in Client, LinkWrite(c) PROVE TypeOK'
  BY <1>5 DEF LinkWrite, Done, Race, TypeOK, ExistingRows, Exists, Call, Idle, Row
<1>6. ASSUME NEW c \in Client, NEW m \in Member, UnlinkRead(c, m) PROVE TypeOK'
  BY <1>6 DEF UnlinkRead, Start, Exists, TypeOK, Call
<1>7. ASSUME NEW c \in Client, UnlinkWrite(c) PROVE TypeOK'
  BY <1>7 DEF UnlinkWrite, Done, Race, TypeOK, ExistingRows, Exists, Call, Idle, Row
<1>8. ASSUME NEW c \in Client, NEW m \in Member, AddRead(c, m) PROVE TypeOK'
  BY <1>8 DEF AddRead, Start, TypeOK, Call
<1>9. ASSUME NEW c \in Client, NEW m \in Member, RemoveGroupMember(c, m) PROVE TypeOK'
  BY <1>9 DEF RemoveGroupMember, TypeOK
<1>10. ASSUME NEW c \in Client, AddInsert(c) PROVE TypeOK'
  BY <1>10 DEF AddInsert, Done, TypeOK, Call, Idle
<1>11. ASSUME NEW c \in Client, AddRegrant(c) PROVE TypeOK'
  BY <1>11 DEF AddRegrant, Done, Race, TypeOK, Call, Idle
<1>12. ASSUME NEW c \in Client, Abort(c) PROVE TypeOK'
  BY <1>12 DEF Abort, Done, TypeOK, Call
<1>13. CASE Backfill
  BY <1>13 DEF Backfill, BackfillListUsers, BackfillUser, BackfillListMembers,
     BackfillMember, BackfillEnd, Race, Linked, Active, TypeOK, Stage
<1>14. CASE UNCHANGED vars
  BY <1>14 DEF vars, TypeOK
<1> QED
  BY <1>1, <1>2, <1>3, <1>4, <1>5, <1>6, <1>7, <1>8, <1>9, <1>10, <1>11, <1>12,
     <1>13, <1>14 DEF Next, Request

\* No action removes a row, and a request starts on a row that exists.
LEMMA NextRows == IInv /\ [Next]_vars => ExistingRows'
<1> SUFFICES ASSUME IInv, [Next]_vars PROVE ExistingRows'
  OBVIOUS
<1> USE MemberAssumption DEF IInv
<1>1. \A m \in Member : Exists(m) => Exists(m)'
  <2>1. ASSUME NEW c \in Client, Request(c)
        PROVE  \A m \in Member : Exists(m) => Exists(m)'
    <3>1. ASSUME NEW m \in Member, NEW active \in BOOLEAN, CreateMember(c, m, active)
          PROVE  \A n \in Member : Exists(n) => Exists(n)'
      BY <3>1 DEF CreateMember, Exists, TypeOK
    <3>2. ASSUME UpdateWrite(c) \/ LinkWrite(c) \/ UnlinkWrite(c)
          PROVE  \A n \in Member : Exists(n) => Exists(n)'
      <4>1. call[c].m \in Member /\ row[call[c].m] \in Row
        BY <3>2 DEF UpdateWrite, LinkWrite, UnlinkWrite, ExistingRows, TypeOK, Exists, Call, Idle
      <4>2. \E r \in Row : row' = [row EXCEPT ![call[c].m] = r]
        <5>1. CASE UpdateWrite(c)
          <6>1. call[c].active \in BOOLEAN
            BY <5>1 DEF UpdateWrite, TypeOK, Call, Idle
          <6> QED BY <4>1, <5>1, <6>1 DEF UpdateWrite, Row
        <5>2. CASE LinkWrite(c)
          <6>1. call[c].user \in User
            BY <5>2 DEF LinkWrite, TypeOK, Call, Idle
          <6> QED BY <4>1, <5>2, <6>1 DEF LinkWrite, Row
        <5>3. CASE UnlinkWrite(c)
          BY <4>1, <5>3 DEF UnlinkWrite, Row
        <5> QED BY <3>2, <5>1, <5>2, <5>3
      <4> QED BY <4>1, <4>2 DEF Exists, TypeOK
    <3> QED BY <2>1, <3>1, <3>2
           DEF Request, UpdateRead, LinkRead, UnlinkRead, AddRead, RemoveGroupMember,
               AddInsert, AddRegrant, Abort, Exists
  <2>2. ASSUME Backfill \/ UNCHANGED vars PROVE row' = row
    BY <2>2 DEF Backfill, BackfillListUsers, BackfillUser, BackfillListMembers,
       BackfillMember, BackfillEnd, vars
  <2> QED BY <2>1, <2>2 DEF Next, Exists
<1>2. (\A c \in Client : call[c] # Idle => Exists(call[c].m))'
  <2>1. ASSUME NEW c \in Client, Request(c), NEW d \in Client, call'[d] # Idle
        PROVE  \/ call[d] # Idle /\ call'[d].m = call[d].m
               \/ call'[d].m \in Member /\ Exists(call'[d].m)
    <3>1. CASE call'[d] = call[d]
      BY <2>1, <3>1
    <3>2. ASSUME NEW r, \/ Start(c, r) /\ r.m \in Member /\ Exists(r.m)
                        \/ Done(c)
                        \/ call[c].op = "add" /\ call' = [call EXCEPT ![c].op = "regrant"]
                        \/ call' = call
          PROVE  \/ call'[d] = call[d]
                 \/ call[d] # Idle /\ call'[d].m = call[d].m
                 \/ call'[d].m \in Member /\ Exists(call'[d].m)
      BY <2>1, <3>2 DEF Start, Done, TypeOK, Call, Idle
    <3>3. \E r : \/ Start(c, r) /\ r.m \in Member /\ Exists(r.m)
                 \/ Done(c)
                 \/ call[c].op = "add" /\ call' = [call EXCEPT ![c].op = "regrant"]
                 \/ call' = call
      <4>1. ASSUME NEW m \in Member, NEW active \in BOOLEAN, UpdateRead(c, m, active)
            PROVE  \E r : Start(c, r) /\ r.m \in Member /\ Exists(r.m)
        BY <4>1 DEF UpdateRead
      <4>2. ASSUME NEW m \in Member, NEW u \in User, LinkRead(c, m, u)
            PROVE  \E r : Start(c, r) /\ r.m \in Member /\ Exists(r.m)
        BY <4>2 DEF LinkRead
      <4>3. ASSUME NEW m \in Member, UnlinkRead(c, m)
            PROVE  \E r : Start(c, r) /\ r.m \in Member /\ Exists(r.m)
        BY <4>3 DEF UnlinkRead
      <4>4. ASSUME NEW m \in Member, AddRead(c, m)
            PROVE  \E r : Start(c, r) /\ r.m \in Member /\ Exists(r.m)
        BY <4>4 DEF AddRead, Active
      <4> QED BY <2>1, <4>1, <4>2, <4>3, <4>4
             DEF Request, CreateMember, UpdateWrite, LinkWrite, UnlinkWrite,
                 RemoveGroupMember, AddInsert, AddRegrant, Abort
    <3> QED BY <3>1, <3>2, <3>3
  <2>2. ASSUME Backfill \/ UNCHANGED vars PROVE call' = call
    BY <2>2 DEF Backfill, BackfillListUsers, BackfillUser, BackfillListMembers,
       BackfillMember, BackfillEnd, vars
  <2>3. \A d \in Client : call[d] # Idle => call[d].m \in Member
    BY DEF TypeOK, Call, Idle
  <2> QED BY <1>1, <2>1, <2>2, <2>3 DEF Next, ExistingRows, Exists
<1>3. (\A p \in backfill.users : Exists(p[1]))'
  <2>1. ASSUME NEW c \in Client, Request(c) PROVE backfill' = backfill
    BY <2>1 DEF Request, CreateMember, UpdateRead, UpdateWrite, LinkRead, LinkWrite,
       UnlinkRead, UnlinkWrite, AddRead, RemoveGroupMember, AddInsert, AddRegrant, Abort
  <2>2. ASSUME Backfill \/ UNCHANGED vars
        PROVE  \A p \in backfill'.users : p \in backfill.users \/ p \in Linked
    BY <2>2 DEF Backfill, BackfillListUsers, BackfillUser, BackfillListMembers,
       BackfillMember, BackfillEnd, vars, TypeOK
  <2>3. backfill.users \subseteq Member \X User
    BY DEF TypeOK
  <2>4. \A p \in backfill'.users : p[1] \in Member /\ Exists(p[1])
    BY <2>1, <2>2, <2>3 DEF Next, ExistingRows, Linked
  <2> QED BY <1>1, <2>4
<1> QED BY <1>2, <1>3 DEF ExistingRows

\* Reads, aborts and the listing steps leave rows, tuples and history alone.
Directory == <<row, grp, memberT, mappedT, groupT, raced>>

\* One step for each action that touches a row or a tuple.
LEMMA NextTuples ==
    IInv /\ [Next]_vars => LinkedIsMapped' /\ ExactUnlessRaced'
<1> SUFFICES ASSUME IInv, [Next]_vars PROVE LinkedIsMapped' /\ ExactUnlessRaced'
  OBVIOUS
<1> USE MemberAssumption DEF IInv
<1>1. ASSUME NEW c \in Client, NEW m \in Member, NEW active \in BOOLEAN,
             CreateMember(c, m, active)
      PROVE LinkedIsMapped' /\ ExactUnlessRaced'
  BY <1>1 DEF CreateMember, TypeOK, LinkedIsMapped, ExactUnlessRaced, ExactFor,
     Linked, Active, Exists, Row
<1>2. ASSUME NEW c \in Client, UpdateWrite(c)
      PROVE LinkedIsMapped' /\ ExactUnlessRaced'
  <2>1. /\ call[c].m \in Member
        /\ call[c].active \in BOOLEAN
        /\ call[c].before \in Row
        /\ row[call[c].m] \in Row
    BY <1>2 DEF UpdateWrite, TypeOK, ExistingRows, Exists, Call, Idle
  <2>2. \A n \in Member : /\ n # call[c].m => row'[n] = row[n]
                          /\ n = call[c].m => /\ row'[n] \in Row
                                              /\ row'[n].active = call[c].active
                                              /\ row'[n].user = row[n].user
    BY <1>2, <2>1 DEF UpdateWrite, TypeOK, Row
  <2>3. Linked' = Linked
    BY <2>1, <2>2 DEF Linked, Exists
  <2>4. LinkedIsMapped'
    BY <1>2, <2>3 DEF UpdateWrite, LinkedIsMapped
  <2>5. ASSUME NEW n \in Member, n \notin raced' PROVE ExactFor(n)'
    <3>1. n \notin raced
      BY <1>2, <2>5 DEF UpdateWrite, Race
    <3>2. ExactFor(n)
      BY <3>1 DEF ExactUnlessRaced
    <3>3. n \in memberT' <=> n \in Active'
      <4>1. CASE n = call[c].m
        <5>1. call[c].before.active = row[n].active
          BY <1>2, <2>5, <4>1 DEF UpdateWrite, Race
        <5>2. n \in memberT <=> row[n].active
          BY <2>1, <3>2, <4>1 DEF ExactFor, Active, Exists
        <5>3. n \in Active' <=> call[c].active
          BY <2>1, <2>2, <4>1 DEF Active, Exists
        <5> QED BY <1>2, <2>1, <4>1, <5>1, <5>2, <5>3
               DEF UpdateWrite, MemberTuples, Row
      <4>2. CASE n # call[c].m
        BY <1>2, <2>2, <3>2, <4>2
           DEF UpdateWrite, MemberTuples, ExactFor, Active, Exists
      <4> QED BY <4>1, <4>2
    <3> QED BY <1>2, <2>3, <3>2, <3>3 DEF UpdateWrite, ExactFor
  <2> QED BY <2>4, <2>5, <1>2 DEF ExactUnlessRaced
<1>3. ASSUME NEW c \in Client, LinkWrite(c)
      PROVE LinkedIsMapped' /\ ExactUnlessRaced'
  <2>1. call[c].m \in Member /\ call[c].user \in User /\ row[call[c].m] \in Row
    BY <1>3 DEF LinkWrite, TypeOK, ExistingRows, Exists, Call, Idle
  <2>2. Active' = Active
    BY <1>3, <2>1 DEF LinkWrite, TypeOK, Active, Exists, Row
  <2>3. Linked' = {p \in Linked : p[1] # call[c].m} \cup {<<call[c].m, call[c].user>>}
    BY <1>3, <2>1 DEF LinkWrite, TypeOK, Linked, Exists, Row
  <2>4. LinkedIsMapped'
    BY <1>3, <2>3 DEF LinkWrite, LinkedIsMapped
  <2>5. ASSUME NEW n \in Member, n \notin raced' PROVE ExactFor(n)'
    <3>1. n \notin raced /\ (n = call[c].m => row[n].user \in {None, call[c].user})
      BY <1>3, <2>5 DEF LinkWrite, Race
    <3>2. ExactFor(n)
      BY <3>1 DEF ExactUnlessRaced
    <3> QED BY <1>3, <2>1, <2>2, <2>3, <3>1, <3>2 DEF LinkWrite, ExactFor, Linked
  <2> QED BY <2>4, <2>5 DEF ExactUnlessRaced
<1>4. ASSUME NEW c \in Client, UnlinkWrite(c)
      PROVE LinkedIsMapped' /\ ExactUnlessRaced'
  <2>1. call[c].m \in Member /\ call[c].before \in Row /\ row[call[c].m] \in Row
    BY <1>4 DEF UnlinkWrite, TypeOK, ExistingRows, Exists, Call, Idle
  <2>2. Active' = Active
    BY <1>4, <2>1 DEF UnlinkWrite, TypeOK, Active, Exists, Row
  <2>3. Linked' = {p \in Linked : p[1] # call[c].m}
    BY <1>4, <2>1 DEF UnlinkWrite, TypeOK, Linked, Exists, Row
  <2>4. LinkedIsMapped'
    BY <1>4, <2>3 DEF UnlinkWrite, LinkedIsMapped
  <2>5. ASSUME NEW n \in Member, n \notin raced' PROVE ExactFor(n)'
    <3>1. n \notin raced /\ (n = call[c].m => call[c].before.user = row[n].user)
      BY <1>4, <2>5 DEF UnlinkWrite, Race
    <3>2. ExactFor(n)
      BY <3>1 DEF ExactUnlessRaced
    <3> QED BY <1>4, <2>1, <2>2, <2>3, <3>1, <3>2 DEF UnlinkWrite, ExactFor, Linked
  <2> QED BY <2>4, <2>5 DEF ExactUnlessRaced
<1>5. ASSUME NEW c \in Client, NEW m \in Member, RemoveGroupMember(c, m)
      PROVE LinkedIsMapped' /\ ExactUnlessRaced'
  BY <1>5 DEF RemoveGroupMember, LinkedIsMapped, ExactUnlessRaced, ExactFor,
     Linked, Active, Exists
<1>6. ASSUME NEW c \in Client, AddInsert(c) PROVE LinkedIsMapped' /\ ExactUnlessRaced'
  BY <1>6 DEF AddInsert, LinkedIsMapped, ExactUnlessRaced, ExactFor, Linked, Active, Exists
<1>7. ASSUME NEW c \in Client, AddRegrant(c) PROVE LinkedIsMapped' /\ ExactUnlessRaced'
  BY <1>7 DEF AddRegrant, Race, LinkedIsMapped, ExactUnlessRaced, ExactFor,
     Linked, Active, Exists
<1>8. ASSUME NEW p \in backfill.users, BackfillUser(p)
      PROVE LinkedIsMapped' /\ ExactUnlessRaced'
  <2>1. p \in Member \X User
    BY DEF TypeOK
  <2> QED BY <1>8, <2>1 DEF BackfillUser, Race, LinkedIsMapped, ExactUnlessRaced,
     ExactFor, Linked, Active, Exists
<1>9. ASSUME NEW m \in backfill.members, BackfillMember(m)
      PROVE LinkedIsMapped' /\ ExactUnlessRaced'
  BY <1>9 DEF BackfillMember, Race, LinkedIsMapped, ExactUnlessRaced, ExactFor,
     Linked, Active, Exists
<1>10. ASSUME UNCHANGED Directory PROVE LinkedIsMapped' /\ ExactUnlessRaced'
  BY <1>10 DEF Directory, LinkedIsMapped, ExactUnlessRaced, ExactFor, Linked, Active, Exists
<1>11. ASSUME NEW c \in Client, NEW m \in Member,
              \/ \E active \in BOOLEAN : UpdateRead(c, m, active)
              \/ \E u \in User : LinkRead(c, m, u)
              \/ UnlinkRead(c, m)
              \/ AddRead(c, m)
       PROVE UNCHANGED Directory
  BY <1>11 DEF UpdateRead, LinkRead, UnlinkRead, AddRead, Directory
<1>12. ASSUME \/ BackfillListUsers \/ BackfillListMembers \/ BackfillEnd
              \/ (\E c \in Client : Abort(c)) \/ UNCHANGED vars
       PROVE UNCHANGED Directory
  BY <1>12 DEF BackfillListUsers, BackfillListMembers, BackfillEnd, Abort, vars, Directory
<1> QED
  BY <1>1, <1>2, <1>3, <1>4, <1>5, <1>6, <1>7, <1>8, <1>9, <1>10, <1>11, <1>12
     DEF Next, Request, Backfill

(* The inductive invariant holds in every reachable state.  Without          *)
(* ExistingRows an UPDATE could be assumed to touch a row that is not there. *)
THEOREM Invariant == Spec => []IInv
<1>1. IInv /\ [Next]_vars => IInv'
  BY NextType, NextRows, NextTuples DEF IInv
<1> QED BY InitInv, <1>1, PTL DEF Spec

(* Every state of the directory is type correct.                             *)
THEOREM TypeCorrect == Spec => []TypeOK
<1>1. IInv => TypeOK
  BY DEF IInv
<1> QED BY Invariant, <1>1, PTL

(* For any number of members, users, requests and backfills: whoever is      *)
(* linked or in the group has the tuple that says so.                        *)
THEOREM LinkedAlwaysMapped == Spec => []LinkedIsMapped
<1>1. IInv => LinkedIsMapped
  BY DEF IInv
<1> QED BY Invariant, <1>1, PTL

(* For any number of members, users, requests and backfills: only the        *)
(* recorded races make a member's tuples differ from its row.                *)
THEOREM OnlyRacesDiverge == Spec => []ExactUnlessRaced
<1>1. IInv => ExactUnlessRaced
  BY DEF IInv
<1> QED BY Invariant, <1>1, PTL

=============================================================================
