--------------------------- MODULE BootstrapProofs ---------------------------
(***************************************************************************)
(* Proofs about kiban-bootstrap, for any number of containers, runs and     *)
(* faults, and any roles, attributes and browser flows.                     *)
(***************************************************************************)
EXTENDS Bootstrap, SequenceTheorems, TLAPS

-------------------------------------------------------------------------------
(* The invariant. *)

\* A position in Steps, and its place among the 27 parts.
Position == {<<i, j>> : i \in 1..6, j \in 1..14}

Valid(at) == at \in Position /\ at[2] <= Len(Steps[at[1]])

Place(at) ==
    CASE at[1] = 1 -> at[2]
      [] at[1] = 2 -> 1 + at[2]
      [] at[1] = 3 -> 6 + at[2]
      [] at[1] = 4 -> 20 + at[2]
      [] at[1] = 5 -> 21 + at[2]
      [] OTHER -> 26 + at[2]

KC == [settings : {"other", "target"}, bound : BOOLEAN,
       direct : {"absent", "copied", "DISABLED", "REQUIRED"},
       client : [Client -> {"right", "wrong", "absent"}],
       mapper : [Client -> {"none", "api", "other"}],
       browser : Flow, profile : SUBSET Attr, roles : SUBSET (Right \cup Other),
       foreign : BOOLEAN, secret : Nat]

DB == [schema : SUBSET {"registry", "authz", "identity", "org"}, passwords : BOOLEAN,
       superadmin : BOOLEAN,
       seeded : SUBSET {"modules", "defaultGrants", "mappedUsers", "companyMembers",
                        "anchors"}]

\* A run; what it saw last is of the type of the part it is at.
IsRun(r) ==
    /\ r = [at |-> r.at, seen |-> r.seen, applied |-> r.applied, results |-> r.results,
            rotate |-> r.rotate, env |-> r.env, wrote |-> r.wrote, clean |-> r.clean]
    /\ Valid(r.at)
    /\ r.applied \in BOOLEAN /\ r.clean \in BOOLEAN /\ r.rotate \in BOOLEAN
    /\ r.results \in Seq({"applied", "converged"})
    /\ r.env \in {None, 1} /\ (r.rotate => r.env = None)
    /\ r.seen # None /\ Place(r.at) = 18 => r.seen \in SUBSET Attr
    /\ r.seen # None /\ Place(r.at) = 20 => r.seen \in Nat

TypeOK ==
    /\ kc \in KC
    /\ db \in DB
    /\ disk \in Nat \cup {None}
    /\ lock \in Process \cup {None}
    /\ loose \in BOOLEAN
    /\ DOMAIN proc = Process
    /\ \A p \in Process : Running(p) => IsRun(proc[p])

Clean(p) == Running(p) /\ proc[p].clean

\* A run that is followed has the lock and is alone; a report is of a moment when
\* nothing runs.
Exclusive ==
    /\ \A p \in Process : Clean(p) =>
          lock = p /\ \A q \in Process \ {p} : ~Running(q)
    /\ report # None => \A p \in Process : ~Running(p)

\* What a part at place n read is still so.
SeenTrue(n, s) ==
    /\ n = 7 => s = kc.settings
    /\ n = 8 => s = kc.client["api"]
    /\ n = 9 => s = kc.client["frontend"]
    /\ n = 10 => s = kc.mapper["frontend"]
    /\ n = 11 => s = kc.client["service"]
    /\ n = 12 => s = kc.mapper["service"]
    /\ n = 13 => s = <<kc.settings, kc.browser>>
    /\ n = 14 => s = (kc.direct # "absent")
    /\ n \in {15, 16} => s = kc.direct
    /\ n = 17 => s = kc.bound
    /\ n = 18 => s = kc.profile
    /\ n = 19 => s = [roles |-> kc.roles, foreign |-> kc.foreign]

TheSecret(env) == IF env = None THEN kc.secret ELSE env

\* The parts before place n are at their targets.
RealmDone(n) ==
    /\ n > 7 => kc.settings = "target"
    /\ n > 8 => kc.client["api"] = "right"
    /\ n > 9 => kc.client["frontend"] = "right"
    /\ n > 10 => kc.mapper["frontend"] = "api"
    /\ n > 11 => kc.client["service"] = "right"
    /\ n > 12 => kc.mapper["service"] = "api"
    /\ n > 13 => MFAWired(kc.browser)
    /\ n > 14 => kc.direct # "absent"
    /\ n > 15 => kc.direct \in {"DISABLED", "REQUIRED"}
    /\ n > 16 => kc.direct = "REQUIRED"
    /\ n > 17 => kc.bound
    /\ n > 18 => Attr \subseteq kc.profile
    /\ n > 19 => kc.roles = Right /\ ~kc.foreign

DatabaseDone(n) ==
    /\ n > 2 => "registry" \in db.schema /\ db.passwords
    /\ n > 3 => "authz" \in db.schema
    /\ n > 4 => "identity" \in db.schema
    /\ n > 5 => "org" \in db.schema
    /\ n > 21 => db.superadmin
    /\ n > 22 => "modules" \in db.seeded
    /\ n > 23 => "defaultGrants" \in db.seeded
    /\ n > 24 => "mappedUsers" \in db.seeded
    /\ n > 25 => "companyMembers" \in db.seeded
    /\ n > 26 => "anchors" \in db.seeded

\* What the realm step wrote, other than missing roles.
Counted(wrote) == (wrote \cap RealmParts) \ {"roles"} # {}

\* What a run that is followed has to say of its realm step.
CountTrue(r) ==
    /\ Len(r.results) = r.at[1] - 1
    /\ r.at[1] < 3 => ~Counted(r.wrote)
    /\ r.at[1] = 3 => (r.applied <=> Counted(r.wrote))
    /\ r.at[1] > 3 => (r.results[3] = "applied" <=> Counted(r.wrote))
    /\ r.at[2] = 1 => ~r.applied

CleanInv(p) ==
    Clean(p) =>
        LET n == Place(proc[p].at) IN
        /\ HasRead(p) => SeenTrue(n, Seen(p))
        /\ HasRead(p) /\ n = 20 => Seen(p) = TheSecret(proc[p].env)
        /\ RealmDone(n) /\ DatabaseDone(n)
        /\ n > 20 => disk = TheSecret(proc[p].env)
        /\ CountTrue(proc[p])

\* The authenticator is required, or an administrator has loosened it since.
RequiredOrLoose == loose \/ kc.direct = "REQUIRED"

\* Who has seen that the authenticator is required, or is about to bind the flow.
FlowInv(p) ==
    Running(p) =>
        LET n == Place(proc[p].at) IN
        n = 17 \/ (n \in {15, 16} /\ HasRead(p) /\ Seen(p) = "REQUIRED") => RequiredOrLoose

IInv ==
    /\ TypeOK
    /\ Exclusive
    /\ \A p \in Process : CleanInv(p) /\ FlowInv(p)
    /\ RequiredBeforeBound
    /\ ReportIsTrue

-------------------------------------------------------------------------------
(* The table of steps. *)

\* The six steps of main.go, spelled out.
LEMMA StepTable ==
  /\ Len(Steps) = 6
  /\ Steps[1] = <<"preflight">>
  /\ Steps[2] = <<"registry", "authz", "identity", "org", "grants">>
  /\ Steps[3] = <<"settings", "api", "frontend", "frontendMapper", "service",
                  "serviceMapper", "browser", "flow", "execution", "required", "bind",
                  "profile", "roles", "secret">>
  /\ Steps[4] = <<"superadmin">>
  /\ Steps[5] = <<"modules", "defaultGrants", "mappedUsers", "companyMembers", "anchors">>
  /\ Steps[6] = <<"verify">>
<1>1. MigrationServiceOrder \o <<"grants">>
        = <<"registry", "authz", "identity", "org", "grants">>
  <2> DEFINE N == {"registry", "authz", "identity", "org", "grants"}
  <2>1. /\ MigrationServiceOrder \in Seq(N) /\ Len(MigrationServiceOrder) = 4
        /\ MigrationServiceOrder[1] = "registry" /\ MigrationServiceOrder[2] = "authz"
        /\ MigrationServiceOrder[3] = "identity" /\ MigrationServiceOrder[4] = "org"
    BY DEF MigrationServiceOrder
  <2>2. <<"grants">> \in Seq(N) /\ Len(<<"grants">>) = 1 /\ <<"grants">>[1] = "grants"
    OBVIOUS
  <2>3. PICK t : t = MigrationServiceOrder \o <<"grants">>
    OBVIOUS
  <2>4. /\ t \in Seq(N) /\ Len(t) = 5 /\ t[1] = "registry" /\ t[2] = "authz"
        /\ t[3] = "identity" /\ t[4] = "org" /\ t[5] = "grants"
    <3>1. /\ t \in Seq(N) /\ Len(t) = 4 + 1
          /\ \A i \in 1..4 + 1 : t[i] = IF i <= 4 THEN MigrationServiceOrder[i]
                                       ELSE <<"grants">>[i - 4]
      BY <2>1, <2>2, <2>3, ConcatProperties
    <3> QED BY <2>1, <2>2, <3>1
  <2>5. PICK u : u = <<"registry", "authz", "identity", "org", "grants">>
    OBVIOUS
  <2>6. /\ u \in Seq(N) /\ Len(u) = 5 /\ u[1] = "registry" /\ u[2] = "authz"
        /\ u[3] = "identity" /\ u[4] = "org" /\ u[5] = "grants"
    BY <2>5
  <2>7. \A i \in 1..5 : t[i] = u[i]
    <3>1. \A i \in 1..5 : i = 1 \/ i = 2 \/ i = 3 \/ i = 4 \/ i = 5
      OBVIOUS
    <3> QED BY <2>4, <2>6, <3>1
  <2>8. t = u
    BY <2>4, <2>6, <2>7, SeqEqual
  <2> QED BY <2>3, <2>5, <2>8
<1> QED BY <1>1 DEF Steps, SeedParts

\* How many parts each step has.
LEMMA StepLengths ==
  /\ Len(Steps[1]) = 1 /\ Len(Steps[2]) = 5 /\ Len(Steps[3]) = 14
  /\ Len(Steps[4]) = 1 /\ Len(Steps[5]) = 5 /\ Len(Steps[6]) = 1
BY StepTable

\* The part at every place.
LEMMA PlaceOf ==
  ASSUME NEW at, Valid(at), NEW s, Steps[at[1]][at[2]] = s
  PROVE  /\ Place(at) \in 1..27
         /\ s = "preflight" <=> Place(at) = 1
         /\ s = "registry" <=> Place(at) = 2
         /\ s = "authz" <=> Place(at) = 3
         /\ s = "identity" <=> Place(at) = 4
         /\ s = "org" <=> Place(at) = 5
         /\ s = "grants" <=> Place(at) = 6
         /\ s = "settings" <=> Place(at) = 7
         /\ s = "api" <=> Place(at) = 8
         /\ s = "frontend" <=> Place(at) = 9
         /\ s = "frontendMapper" <=> Place(at) = 10
         /\ s = "service" <=> Place(at) = 11
         /\ s = "serviceMapper" <=> Place(at) = 12
         /\ s = "browser" <=> Place(at) = 13
         /\ s = "flow" <=> Place(at) = 14
         /\ s = "execution" <=> Place(at) = 15
         /\ s = "required" <=> Place(at) = 16
         /\ s = "bind" <=> Place(at) = 17
         /\ s = "profile" <=> Place(at) = 18
         /\ s = "roles" <=> Place(at) = 19
         /\ s = "secret" <=> Place(at) = 20
         /\ s = "superadmin" <=> Place(at) = 21
         /\ s = "modules" <=> Place(at) = 22
         /\ s = "defaultGrants" <=> Place(at) = 23
         /\ s = "mappedUsers" <=> Place(at) = 24
         /\ s = "companyMembers" <=> Place(at) = 25
         /\ s = "anchors" <=> Place(at) = 26
         /\ s = "verify" <=> Place(at) = 27
<1>0. PICK i \in 1..6, j \in 1..14 : at = <<i, j>>
  BY DEF Valid, Position
<1>1. at = <<i, j>> /\ at[1] = i /\ at[2] = j /\ j <= Len(Steps[i]) /\ Steps[i][j] = s
  BY <1>0 DEF Valid
<1>2. CASE i = 1
  BY <1>1, <1>2, StepTable, StepLengths DEF Place
<1>3. CASE i = 2
  BY <1>1, <1>3, StepTable, StepLengths DEF Place
<1>4. CASE i = 3
  BY <1>1, <1>4, StepTable, StepLengths DEF Place
<1>5. CASE i = 4
  BY <1>1, <1>5, StepTable, StepLengths DEF Place
<1>6. CASE i = 5
  BY <1>1, <1>6, StepTable, StepLengths DEF Place
<1>7. CASE i = 6
  BY <1>1, <1>7, StepTable, StepLengths DEF Place
<1> QED BY <1>1, <1>2, <1>3, <1>4, <1>5, <1>6, <1>7

\* The parts of the realm step.
LEMMA RealmPartsAre ==
  RealmParts = {"settings", "api", "frontend", "frontendMapper", "service",
                "serviceMapper", "browser", "flow", "execution", "required", "bind",
                "profile", "roles", "secret"}
<1>1. DOMAIN Steps[3] = 1..14
  BY StepTable
<1>2. RealmParts = {Steps[3][i] : i \in 1..14}
  BY <1>1 DEF RealmParts, Elements, Realm
<1>3. \A i \in 1..14 : i = 1 \/ i = 2 \/ i = 3 \/ i = 4 \/ i = 5 \/ i = 6 \/ i = 7 \/ i = 8
        \/ i = 9 \/ i = 10 \/ i = 11 \/ i = 12 \/ i = 13 \/ i = 14
  OBVIOUS
<1> QED BY <1>2, <1>3, StepTable

\* One part further, in the same step or in the next.
LEMMA AfterFacts ==
  ASSUME NEW at, Valid(at)
  PROVE  /\ at[1] = Len(Steps) /\ at[2] = Len(Steps[at[1]]) <=> Place(at) = 27
         /\ Place(at) # 27 => Valid(After(at)) /\ Place(After(at)) = Place(at) + 1
         /\ at[1] \in 1..6 /\ at[2] \in 1..14
         /\ at[2] < Len(Steps[at[1]]) <=> Place(at) \notin {1, 6, 20, 21, 26, 27}
         /\ at[1] < 3 <=> Place(at) < 7
         /\ at[1] > 3 <=> Place(at) > 20
         /\ Place(at) \in 1..27
<1>1. PICK i \in 1..6, j \in 1..14 : at = <<i, j>>
  BY DEF Valid, Position
<1>2. at[1] = i /\ at[2] = j /\ j <= Len(Steps[i]) /\ Len(Steps) = 6
  BY <1>1, StepTable DEF Valid
<1>3. \A k \in 1..6, l \in 1..14 : <<k, l>> \in Position
  BY DEF Position
<1>4. CASE i = 1
  <2>1. Len(Steps[i]) = 1 /\ j <= 1
    BY <1>2, <1>4, StepLengths
  <2>2. Place(at) = 0 + j
    BY <1>2, <1>4 DEF Place
  <2>4. ASSUME ~(j < 1) PROVE Valid(After(at)) /\ Place(After(at)) = Place(at) + 1
    <3>1. After(at) = <<2, 1>>
      BY <1>2, <1>4, <2>1, <2>4 DEF After
    <3>2. After(at) \in Position /\ After(at)[1] = 2 /\ After(at)[2] = 1
      BY <1>3, <3>1
    <3> QED BY <2>1, <2>2, <2>4, <3>2, StepLengths DEF Valid, Place
  <2> QED BY <1>2, <1>4, <2>1, <2>2, <2>4
<1>5. CASE i = 2
  <2>1. Len(Steps[i]) = 5 /\ j <= 5
    BY <1>2, <1>5, StepLengths
  <2>2. Place(at) = 1 + j
    BY <1>2, <1>5 DEF Place
  <2>3. ASSUME j < 5 PROVE Valid(After(at)) /\ Place(After(at)) = Place(at) + 1
    <3>0. PICK k \in 1..14 : k = j + 1
      BY <2>3
    <3>1. After(at) = <<2, k>>
      BY <1>2, <1>5, <2>1, <2>3, <3>0 DEF After
    <3>2. After(at) \in Position
      BY <3>1 DEF Position
    <3>3. After(at)[1] = 2 /\ After(at)[2] = k
      BY <3>1
    <3>4. Valid(After(at))
      BY <2>3, <3>0, <3>2, <3>3, StepLengths DEF Valid
    <3>5. Place(After(at)) = Place(at) + 1
      BY <2>2, <3>0, <3>3 DEF Place
    <3> QED BY <3>4, <3>5
  <2>4. ASSUME ~(j < 5) PROVE Valid(After(at)) /\ Place(After(at)) = Place(at) + 1
    <3>1. After(at) = <<3, 1>>
      BY <1>2, <1>5, <2>1, <2>4 DEF After
    <3>2. After(at) \in Position /\ After(at)[1] = 3 /\ After(at)[2] = 1
      BY <1>3, <3>1
    <3> QED BY <2>1, <2>2, <2>4, <3>2, StepLengths DEF Valid, Place
  <2> QED BY <1>2, <1>5, <2>1, <2>2, <2>3, <2>4
<1>6. CASE i = 3
  <2>1. Len(Steps[i]) = 14 /\ j <= 14
    BY <1>2, <1>6, StepLengths
  <2>2. Place(at) = 6 + j
    BY <1>2, <1>6 DEF Place
  <2>3. ASSUME j < 14 PROVE Valid(After(at)) /\ Place(After(at)) = Place(at) + 1
    <3>0. PICK k \in 1..14 : k = j + 1
      BY <2>3
    <3>1. After(at) = <<3, k>>
      BY <1>2, <1>6, <2>1, <2>3, <3>0 DEF After
    <3>2. After(at) \in Position
      BY <3>1 DEF Position
    <3>3. After(at)[1] = 3 /\ After(at)[2] = k
      BY <3>1
    <3>4. Valid(After(at))
      BY <2>3, <3>0, <3>2, <3>3, StepLengths DEF Valid
    <3>5. Place(After(at)) = Place(at) + 1
      BY <2>2, <3>0, <3>3 DEF Place
    <3> QED BY <3>4, <3>5
  <2>4. ASSUME ~(j < 14) PROVE Valid(After(at)) /\ Place(After(at)) = Place(at) + 1
    <3>1. After(at) = <<4, 1>>
      BY <1>2, <1>6, <2>1, <2>4 DEF After
    <3>2. After(at) \in Position /\ After(at)[1] = 4 /\ After(at)[2] = 1
      BY <1>3, <3>1
    <3> QED BY <2>1, <2>2, <2>4, <3>2, StepLengths DEF Valid, Place
  <2> QED BY <1>2, <1>6, <2>1, <2>2, <2>3, <2>4
<1>7. CASE i = 4
  <2>1. Len(Steps[i]) = 1 /\ j <= 1
    BY <1>2, <1>7, StepLengths
  <2>2. Place(at) = 20 + j
    BY <1>2, <1>7 DEF Place
  <2>4. ASSUME ~(j < 1) PROVE Valid(After(at)) /\ Place(After(at)) = Place(at) + 1
    <3>1. After(at) = <<5, 1>>
      BY <1>2, <1>7, <2>1, <2>4 DEF After
    <3>2. After(at) \in Position /\ After(at)[1] = 5 /\ After(at)[2] = 1
      BY <1>3, <3>1
    <3> QED BY <2>1, <2>2, <2>4, <3>2, StepLengths DEF Valid, Place
  <2> QED BY <1>2, <1>7, <2>1, <2>2, <2>4
<1>8. CASE i = 5
  <2>1. Len(Steps[i]) = 5 /\ j <= 5
    BY <1>2, <1>8, StepLengths
  <2>2. Place(at) = 21 + j
    BY <1>2, <1>8 DEF Place
  <2>3. ASSUME j < 5 PROVE Valid(After(at)) /\ Place(After(at)) = Place(at) + 1
    <3>0. PICK k \in 1..14 : k = j + 1
      BY <2>3
    <3>1. After(at) = <<5, k>>
      BY <1>2, <1>8, <2>1, <2>3, <3>0 DEF After
    <3>2. After(at) \in Position
      BY <3>1 DEF Position
    <3>3. After(at)[1] = 5 /\ After(at)[2] = k
      BY <3>1
    <3>4. Valid(After(at))
      BY <2>3, <3>0, <3>2, <3>3, StepLengths DEF Valid
    <3>5. Place(After(at)) = Place(at) + 1
      BY <2>2, <3>0, <3>3 DEF Place
    <3> QED BY <3>4, <3>5
  <2>4. ASSUME ~(j < 5) PROVE Valid(After(at)) /\ Place(After(at)) = Place(at) + 1
    <3>1. After(at) = <<6, 1>>
      BY <1>2, <1>8, <2>1, <2>4 DEF After
    <3>2. After(at) \in Position /\ After(at)[1] = 6 /\ After(at)[2] = 1
      BY <1>3, <3>1
    <3> QED BY <2>1, <2>2, <2>4, <3>2, StepLengths DEF Valid, Place
  <2> QED BY <1>2, <1>8, <2>1, <2>2, <2>3, <2>4
<1>9. CASE i = 6
  <2>1. Len(Steps[i]) = 1 /\ j <= 1
    BY <1>2, <1>9, StepLengths
  <2>2. Place(at) = 26 + j
    BY <1>2, <1>9 DEF Place
  <2> QED BY <1>2, <1>9, <2>1, <2>2
<1> QED BY <1>4, <1>5, <1>6, <1>7, <1>8, <1>9

-------------------------------------------------------------------------------
(* A run that stops, and a run that goes on. *)

\* What a step may do to the direct-grant flow.
FlowStep ==
    /\ RequiredOrLoose => RequiredOrLoose'
    /\ kc'.bound => kc.bound \/ RequiredOrLoose'

\* What a part may do to what is stored.
Stored ==
    /\ kc' \in KC
    /\ db' \in DB
    /\ disk' \in Nat \cup {None}
    /\ loose' \in BOOLEAN

\* Such a step keeps the flow that is bound complete.
LEMMA FlowStepBound ==
  ASSUME IInv, FlowStep
  PROVE  RequiredBeforeBound'
BY DEF IInv, FlowStep, RequiredBeforeBound, RequiredOrLoose

\* The run at the place At says.
LEMMA AtFacts ==
  ASSUME IInv, NEW p \in Process, NEW s, At(p, s)
  PROVE  /\ Running(p) /\ IsRun(proc[p]) /\ Valid(proc[p].at)
         /\ Steps[proc[p].at[1]][proc[p].at[2]] = s
BY DEF IInv, TypeOK, At, IsRun

\* A run that fails or dies leaves nobody who is followed, and no report.
LEMMA StopSteps ==
  ASSUME IInv, NEW p \in Process, Running(p), Fail(p), Stored, FlowStep
  PROVE  IInv'
<1>1. TypeOK /\ Exclusive /\ \A q \in Process : CleanInv(q) /\ FlowInv(q)
  BY DEF IInv
<1>2. /\ proc' = [proc EXCEPT ![p] = None] /\ DOMAIN proc' = Process
      /\ \A q \in Process \ {p} : proc'[q] = proc[q]
      /\ proc'[p] = None
      /\ lock' = IF lock = p THEN None ELSE lock
      /\ report' = report
  BY <1>1 DEF Fail, Unlock, TypeOK
<1>3. ~Running(p)' /\ \A q \in Process : Running(q)' => q # p /\ Running(q) /\ proc'[q] = proc[q]
  BY <1>2 DEF Running
<1>4. TypeOK'
  <2>1. \A q \in Process : lock' = q => lock = q /\ q # p
    BY <1>2, BootstrapAssumption
  <2>2. \A q \in Process : Running(q)' => IsRun(proc'[q])
    BY <1>1, <1>2, <1>3, <2>1 DEF TypeOK
  <2> QED BY <1>1, <1>2, <2>2 DEF TypeOK, Stored
<1>5. \A q \in Process : ~Clean(q)'
  BY <1>1, <1>3 DEF Exclusive, Clean
<1>6. report' = None
  BY <1>1, <1>2 DEF Exclusive
<1>7. Exclusive' /\ ReportIsTrue'
  BY <1>5, <1>6 DEF Exclusive, ReportIsTrue
<1>8. \A q \in Process : CleanInv(q)' /\ FlowInv(q)'
  BY <1>1, <1>3, <1>5 DEF CleanInv, FlowInv, FlowStep, Seen, HasRead
<1> QED BY <1>4, <1>7, <1>8, FlowStepBound DEF IInv

\* The realm parts written in two lots.
LEMMA CountedUnion ==
  ASSUME NEW A, NEW B
  PROVE  Counted(A \cup B) <=> Counted(A) \/ Counted(B)
BY DEF Counted

\* The run at its next part, field by field.
WentOn(m, r, changed, wrote, seen) ==
    /\ m = [at |-> m.at, seen |-> m.seen, applied |-> m.applied, results |-> m.results,
            rotate |-> m.rotate, env |-> m.env, wrote |-> m.wrote, clean |-> m.clean]
    /\ m.at = After(r.at) /\ m.seen = seen
    /\ m.applied = (r.clean /\ r.at[2] < Len(Steps[r.at[1]]) /\ (r.applied \/ changed))
    /\ m.results = IF r.at[2] < Len(Steps[r.at[1]]) THEN r.results
                   ELSE Results(r, changed)
    /\ m.wrote = IF r.clean THEN r.wrote \cup wrote ELSE {}
    /\ m.rotate = r.rotate /\ m.env = r.env /\ m.clean = r.clean

\* GoOn gives these fields.
LEMMA GoOnFacts ==
  ASSUME NEW r, IsRun(r), NEW changed, NEW wrote, NEW seen
  PROVE  WentOn(GoOn(r, changed, wrote, seen), r, changed, wrote, seen)
<1>1. r = [at |-> r.at, seen |-> r.seen, applied |-> r.applied, results |-> r.results,
           rotate |-> r.rotate, env |-> r.env, wrote |-> r.wrote, clean |-> r.clean]
  BY DEF IsRun
<1>2. PICK at, app, res, wr :
        /\ at = After(r.at)
        /\ app = (r.clean /\ r.at[2] < Len(Steps[r.at[1]]) /\ (r.applied \/ changed))
        /\ res = IF r.at[2] < Len(Steps[r.at[1]]) THEN r.results ELSE Results(r, changed)
        /\ wr = IF r.clean THEN r.wrote \cup wrote ELSE {}
  OBVIOUS
<1>3. PICK n : n = [r EXCEPT !.seen = seen, !.at = at, !.wrote = wr, !.applied = app,
                             !.results = res]
  OBVIOUS
<1>4. GoOn(r, changed, wrote, seen) = n
  BY <1>2, <1>3 DEF GoOn
<1>5. /\ n = [at |-> n.at, seen |-> n.seen, applied |-> n.applied,
              results |-> n.results, rotate |-> n.rotate, env |-> n.env,
              wrote |-> n.wrote, clean |-> n.clean]
      /\ n.at = at /\ n.seen = seen /\ n.applied = app /\ n.results = res /\ n.wrote = wr
      /\ n.rotate = r.rotate /\ n.env = r.env /\ n.clean = r.clean
  BY <1>1, <1>3
<1> QED BY <1>2, <1>4, <1>5 DEF WentOn

\* MoveOn, for the run and for the others.
LEMMA MoveOnFacts ==
  ASSUME IInv, NEW p \in Process, Running(p), NEW changed, NEW wrote, NEW seen,
         MoveOn(p, changed, wrote, seen)
  PROVE  /\ DOMAIN proc' = Process /\ \A q \in Process \ {p} : proc'[q] = proc[q]
         /\ Place(proc[p].at) = 27 =>
              /\ proc'[p] = None
              /\ lock' = IF lock = p THEN None ELSE lock
              /\ report' = IF ~proc[p].clean THEN None
                           ELSE [results |-> Results(proc[p], changed),
                                 wrote |-> proc[p].wrote \cup wrote, given |-> proc[p].env]
         /\ Place(proc[p].at) # 27 =>
              /\ proc'[p] = GoOn(proc[p], changed, wrote, seen)
              /\ lock' = lock /\ report' = report
<1>1. DOMAIN proc = Process /\ IsRun(proc[p])
  BY DEF IInv, TypeOK
<1>2. Valid(proc[p].at)
  BY <1>1 DEF IsRun
<1>3. proc[p].at[1] = Len(Steps) /\ proc[p].at[2] = Len(Steps[proc[p].at[1]])
         <=> Place(proc[p].at) = 27
  BY <1>2, AfterFacts
<1>4. CASE Place(proc[p].at) = 27
  BY <1>1, <1>3, <1>4 DEF MoveOn, Unlock
<1>5. CASE Place(proc[p].at) # 27
  BY <1>1, <1>3, <1>5 DEF MoveOn
<1> QED BY <1>4, <1>5

\* What a run that is followed may count on after the part at place n: the part is
\* done, and what it says of itself is what it did.
PartDone(p, n, changed, wrote) ==
    /\ RealmDone(n + 1)' /\ DatabaseDone(n + 1)'
    /\ n >= 20 => disk' = IF proc[p].env = None THEN kc'.secret ELSE proc[p].env
    /\ n \in 7..20 => (changed <=> Counted(wrote))
    /\ n \notin 7..20 => ~Counted(wrote)

\* What a run says of its realm step stays true from part to part.
LEMMA CountSteps ==
  ASSUME NEW r, IsRun(r), r.clean, CountTrue(r), NEW changed \in BOOLEAN, NEW wrote, NEW seen,
         Place(r.at) \in 7..20 => (changed <=> Counted(wrote)),
         Place(r.at) \notin 7..20 => ~Counted(wrote)
  PROVE  /\ Place(r.at) # 27 => CountTrue(GoOn(r, changed, wrote, seen))
         /\ Place(r.at) = 27 =>
              (Results(r, changed)[3] = "applied" <=> Counted(r.wrote \cup wrote))
<1>1. PICK i, j, n, m :
        /\ i = r.at[1] /\ j = r.at[2] /\ n = Place(r.at)
        /\ m = GoOn(r, changed, wrote, seen)
  OBVIOUS
<1>2. Valid(r.at) /\ r.results \in Seq({"applied", "converged"}) /\ r.applied \in BOOLEAN
  BY DEF IsRun
<1>3. /\ n \in 1..27 /\ i \in 1..6 /\ j \in 1..14
      /\ i < 3 <=> n < 7
      /\ i > 3 <=> n > 20
      /\ j < Len(Steps[i]) <=> n \notin {1, 6, 20, 21, 26, 27}
  BY <1>1, <1>2, AfterFacts
<1>a. i = 3 <=> n \in 7..20
  BY <1>3
<1>b. /\ i = 3 => (changed <=> Counted(wrote))
      /\ i # 3 => ~Counted(wrote)
  BY <1>1, <1>a, Zenon
<1>c. i < 3 \/ i = 3 \/ i > 3
  BY <1>3
<1>4. Counted(r.wrote \cup wrote) <=> Counted(r.wrote) \/ Counted(wrote)
  BY CountedUnion
<1>5. PICK o \in {"applied", "converged"} :
         /\ Results(r, changed) = Append(r.results, o)
         /\ o = "applied" <=> r.applied \/ changed
  BY DEF Results, Outcome
<1>6. /\ Len(Append(r.results, o)) = Len(r.results) + 1
      /\ Append(r.results, o)[Len(r.results) + 1] = o
      /\ \A k \in 1..Len(r.results) : Append(r.results, o)[k] = r.results[k]
      /\ Len(r.results) = i - 1
  BY <1>1, <1>2, AppendProperties DEF CountTrue
<1>7. i > 3 => Append(r.results, o)[3] = r.results[3]
  BY <1>3, <1>6
<1>8. /\ i < 3 => ~Counted(r.wrote)
      /\ i = 3 => (r.applied <=> Counted(r.wrote))
      /\ i > 3 => (r.results[3] = "applied" <=> Counted(r.wrote))
  BY <1>1 DEF CountTrue
<1>9. CASE n = 27
  <2>1. i > 3 /\ i # 3
    BY <1>3, <1>9
  <2>2. Results(r, changed)[3] = r.results[3]
    BY <1>5, <1>7, <2>1
  <2>3. Counted(r.wrote \cup wrote) <=> Counted(r.wrote)
    BY <1>4, <1>b, <2>1
  <2> QED BY <1>1, <1>8, <1>9, <2>1, <2>2, <2>3
<1>10. CASE n # 27
  <2>0. PICK more \in BOOLEAN : more <=> j < Len(Steps[i])
    OBVIOUS
  <2>1. /\ m.at = After(r.at) /\ m.wrote = r.wrote \cup wrote
        /\ m.applied <=> more /\ (r.applied \/ changed)
        /\ m.results = IF more THEN r.results ELSE Append(r.results, o)
    <3>1. /\ m.at = After(r.at) /\ m.wrote = IF r.clean THEN r.wrote \cup wrote ELSE {}
          /\ m.applied = (r.clean /\ r.at[2] < Len(Steps[r.at[1]]) /\ (r.applied \/ changed))
          /\ m.results = IF r.at[2] < Len(Steps[r.at[1]]) THEN r.results
                         ELSE Results(r, changed)
      <4>1. WentOn(m, r, changed, wrote, seen)
        BY <1>1, GoOnFacts
      <4> QED BY <4>1 DEF WentOn
    <3> QED BY <1>1, <1>5, <2>0, <3>1
  <2>2. CASE more
    <3>0. PICK k : k = j + 1
      OBVIOUS
    <3>1. m.at = <<i, k>>
      BY <1>1, <2>0, <2>1, <2>2, <3>0 DEF After
    <3>2. m.at[1] = i /\ m.at[2] = k /\ k # 1
      BY <1>3, <3>0, <3>1
    <3>3. m.results = r.results /\ (m.applied <=> r.applied \/ changed)
      BY <2>1, <2>2
    <3>4. i < 3 => ~Counted(m.wrote)
      BY <1>3, <1>4, <1>8, <1>b, <2>1
    <3>5. i = 3 => (m.applied <=> Counted(m.wrote))
      BY <1>4, <1>8, <1>b, <2>1, <3>3
    <3>6. i > 3 => (m.results[3] = "applied" <=> Counted(m.wrote))
      <4>1. i > 3 => i # 3
        BY <1>3
      <4> QED BY <1>4, <1>8, <1>b, <2>1, <3>3, <4>1
    <3>7. CountTrue(m)
      BY <1>3, <1>6, <3>2, <3>3, <3>4, <3>5, <3>6 DEF CountTrue
    <3> QED BY <1>1, <1>10, <3>7
  <2>3. CASE ~more
    <3>0. PICK k : k = i + 1
      OBVIOUS
    <3>1. m.at = <<k, 1>>
      BY <1>1, <2>0, <2>1, <2>3, <3>0 DEF After
    <3>2. m.at[1] = k /\ m.at[2] = 1
      BY <3>1
    <3>3. m.results = Append(r.results, o) /\ ~m.applied
      BY <2>1, <2>3
    <3>4. Len(m.results) = k - 1
      BY <1>3, <1>6, <3>0, <3>3
    <3>5. k > 3 => (m.results[3] = "applied" <=> Counted(m.wrote))
      <4>1. CASE i = 3
        <5>1. m.results[3] = o
          BY <1>6, <3>3, <4>1
        <5> QED BY <1>4, <1>5, <1>8, <1>b, <2>1, <4>1, <5>1
      <4>2. CASE i > 3
        <5>1. i # 3
          BY <1>3, <4>2
        <5> QED BY <1>4, <1>7, <1>8, <1>b, <2>1, <3>3, <4>2, <5>1
      <4> QED BY <1>3, <3>0, <4>1, <4>2
    <3>6. k <= 3 => ~Counted(m.wrote)
      <4>1. k <= 3 => i < 3 /\ i # 3
        BY <1>3, <3>0
      <4> QED BY <1>4, <1>8, <1>b, <2>1, <4>1
    <3>7. k \in Int
      BY <1>3, <3>0
    <3>8. CountTrue(m)
      BY <3>2, <3>3, <3>4, <3>5, <3>6, <3>7 DEF CountTrue
    <3> QED BY <1>1, <1>10, <3>8
  <2> QED BY <1>1, <1>10, <2>2, <2>3
<1> QED BY <1>9, <1>10, <1>1

\* All parts done is the target reached.
LEMMA AllDone ==
  ASSUME TypeOK', RealmDone(28)', DatabaseDone(28)'
  PROVE  Reached'
<1>1. Elements(MigrationServiceOrder) = {"registry", "authz", "identity", "org"}
  <2>1. \A i \in 1..4 : i = 1 \/ i = 2 \/ i = 3 \/ i = 4
    OBVIOUS
  <2> QED BY <2>1 DEF Elements, MigrationServiceOrder
<1>2. Elements(SeedParts)
        = {"modules", "defaultGrants", "mappedUsers", "companyMembers", "anchors"}
  <2>1. \A i \in 1..5 : i = 1 \/ i = 2 \/ i = 3 \/ i = 4 \/ i = 5
    OBVIOUS
  <2> QED BY <2>1 DEF Elements, SeedParts
<1>3. db'.schema = Elements(MigrationServiceOrder) /\ db'.seeded = Elements(SeedParts)
  BY <1>1, <1>2 DEF TypeOK, DB, DatabaseDone
<1>4. db'.passwords = TRUE /\ db'.superadmin = TRUE
  BY DEF TypeOK, DB, DatabaseDone
<1>5. db' = [schema |-> Elements(MigrationServiceOrder), passwords |-> TRUE,
             superadmin |-> TRUE, seeded |-> Elements(SeedParts)]
  BY <1>3, <1>4 DEF TypeOK, DB
<1>6. \A c \in Client : kc'.client[c] = "right"
  BY DEF RealmDone, Client
<1> QED BY <1>5, <1>6 DEF Reached, RealmDone, realmTargetSettings

\* A run that goes on after its part, or ends: whatever the part did, the invariant
\* holds if the part is done, was reported as it was, and left the flow in order.
LEMMA MoveSteps ==
  ASSUME IInv, NEW p \in Process, Running(p), NEW changed \in BOOLEAN, NEW wrote, NEW seen,
         MoveOn(p, changed, wrote, seen), Stored, FlowStep,
         NEW n, n = Place(proc[p].at),
         Clean(p) => PartDone(p, n, changed, wrote),
         seen # None => n = 15 /\ seen = Seen(p) /\ kc' = kc /\ loose' = loose,
         n = 16 => RequiredOrLoose'
  PROVE  IInv'
<1>1. TypeOK /\ Exclusive /\ \A q \in Process : CleanInv(q) /\ FlowInv(q)
  BY DEF IInv
<1>2. PICK r : r = proc[p]
  OBVIOUS
<1>3. IsRun(r) /\ Valid(r.at) /\ n \in 1..27
  BY <1>1, <1>2, AfterFacts DEF TypeOK, IsRun
<1>4. DOMAIN proc' = Process /\ \A q \in Process \ {p} : proc'[q] = proc[q]
  BY MoveOnFacts
<1>5. \A q \in Process \ {p} : /\ Running(q)' => Running(q)
                               /\ ~Clean(q)'
                               /\ Clean(p) => ~Running(q)
  BY <1>1, <1>4 DEF Running, Clean, Exclusive
<1>6. \A q \in Process \ {p} : CleanInv(q)' /\ FlowInv(q)'
  BY <1>1, <1>4, <1>5 DEF CleanInv, FlowInv, FlowStep, Seen, HasRead
<1>7. report = None
  BY <1>1 DEF Exclusive
<1>8. CASE n = 27
  <2>1. /\ proc'[p] = None
        /\ lock' = IF lock = p THEN None ELSE lock
        /\ report' = IF ~r.clean THEN None
                     ELSE [results |-> Results(r, changed),
                           wrote |-> r.wrote \cup wrote, given |-> r.env]
    <3>1. Place(proc[p].at) = 27
      BY <1>8
    <3> QED BY <1>2, <3>1, MoveOnFacts
  <2>2. ~Running(p)'
    BY <2>1 DEF Running
  <2>3. TypeOK'
    <3>1. \A q \in Process : lock' = q => lock = q /\ q # p
      BY <2>1, BootstrapAssumption
    <3>2. \A q \in Process : Running(q)' => IsRun(proc'[q])
      BY <1>1, <1>4, <1>5, <2>2, <3>1 DEF TypeOK
    <3>3. lock' \in Process \cup {None}
      BY <1>1, <2>1 DEF TypeOK
    <3> QED BY <1>4, <3>2, <3>3 DEF TypeOK, Stored
  <2>4. Exclusive'
    <3>1. report' # None => Clean(p)
      BY <1>2, <2>1 DEF Clean
    <3> QED BY <1>5, <2>2, <3>1 DEF Exclusive, Clean
  <2>5. CleanInv(p)' /\ FlowInv(p)'
    BY <2>2 DEF CleanInv, FlowInv, Clean
  <2>6. ReportIsTrue'
    <3>1. SUFFICES ASSUME r.clean PROVE ReportIsTrue'
      BY <2>1 DEF ReportIsTrue
    <3>2. PartDone(p, 27, changed, wrote)
      BY <1>2, <1>8, <3>1 DEF Clean
    <3>3. Reached'
      <4>1. RealmDone(28)' /\ DatabaseDone(28)'
        BY <3>2 DEF PartDone, RealmDone, DatabaseDone
      <4> QED BY <2>3, <4>1, AllDone
    <3>4. /\ report'.results = Results(r, changed) /\ report'.wrote = r.wrote \cup wrote
          /\ report'.given = r.env
      BY <2>1, <3>1
    <3>5. disk' = IF report'.given = None THEN kc'.secret ELSE report'.given
      BY <1>2, <3>2, <3>4 DEF PartDone
    <3>6. CountTrue(r)
      BY <1>1, <1>2, <3>1 DEF CleanInv, Clean
    <3>7. ~Counted(wrote)
      BY <3>2 DEF PartDone
    <3>8. Results(r, changed)[3] = "applied" <=> Counted(r.wrote \cup wrote)
      <4>1. Place(r.at) = 27
        BY <1>2, <1>8
      <4> QED BY <1>3, <3>1, <3>6, <3>7, <4>1, CountSteps
    <3>9. report'.results[Realm] = "applied"
            <=> (report'.wrote \cap RealmParts) \ {"roles"} # {}
      BY <3>4, <3>8 DEF Counted, Realm
    <3> QED BY <3>3, <3>5, <3>9 DEF ReportIsTrue
  <2>7. \A q \in Process : CleanInv(q)' /\ FlowInv(q)'
    BY <1>6, <2>5
  <2> QED BY <2>3, <2>4, <2>6, <2>7, FlowStepBound DEF IInv
<1>9. CASE n # 27
  <2>1. PICK m : m = proc'[p]
    OBVIOUS
  <2>2. m = GoOn(r, changed, wrote, seen) /\ lock' = lock /\ report' = None
    BY <1>2, <1>7, <1>9, <2>1, MoveOnFacts
  <2>3. WentOn(m, r, changed, wrote, seen)
    BY <1>3, <2>2, GoOnFacts
  <2>4. Valid(m.at) /\ Place(m.at) = n + 1
    BY <1>2, <1>3, <1>9, <2>3, AfterFacts DEF WentOn
  <2>5. IsRun(m)
    <3>1. seen # None => Place(m.at) = 16
      BY <2>4
    <3>2. m.results \in Seq({"applied", "converged"})
      <4>1. r.results \in Seq({"applied", "converged"})
        BY <1>3 DEF IsRun
      <4>2. Outcome(r, changed) \in {"applied", "converged"}
        BY DEF Outcome
      <4>3. Append(r.results, Outcome(r, changed)) \in Seq({"applied", "converged"})
        BY <4>1, <4>2, AppendProperties
      <4>4. Results(r, changed) \in Seq({"applied", "converged"})
        BY <4>3 DEF Results
      <4> QED BY <2>3, <4>1, <4>4 DEF WentOn
    <3>3. m.applied \in BOOLEAN
      BY <2>3 DEF WentOn
    <3>4. m.clean \in BOOLEAN /\ m.rotate \in BOOLEAN /\ m.env \in {None, 1}
            /\ (m.rotate => m.env = None)
      BY <1>3, <2>3 DEF WentOn, IsRun
    <3>5. m = [at |-> m.at, seen |-> m.seen, applied |-> m.applied, results |-> m.results,
               rotate |-> m.rotate, env |-> m.env, wrote |-> m.wrote, clean |-> m.clean]
      BY <2>3 DEF WentOn
    <3>6. m.seen = seen
      BY <2>3 DEF WentOn
    <3> QED BY <2>4, <3>1, <3>2, <3>3, <3>4, <3>5, <3>6 DEF IsRun
  <2>6. TypeOK'
    <3>1. \A q \in Process : Running(q)' => IsRun(proc'[q])
      BY <1>1, <1>4, <1>5, <2>1, <2>2, <2>5 DEF TypeOK
    <3> QED BY <1>1, <1>4, <2>2, <3>1 DEF TypeOK, Stored
  <2>7. Clean(p)' => Clean(p) /\ m.clean
    BY <1>2, <2>1, <2>3 DEF WentOn, Clean, Running
  <2>8. Exclusive'
    <3>1. Clean(p)' => lock' = p /\ \A q \in Process \ {p} : ~Running(q)'
      BY <1>1, <1>5, <2>2, <2>7 DEF Exclusive
    <3> QED BY <1>5, <2>2, <3>1 DEF Exclusive
  <2>9. CleanInv(p)'
    <3>1. SUFFICES ASSUME Clean(p)' PROVE CleanInv(p)'
      BY DEF CleanInv
    <3>2. PartDone(p, n, changed, wrote) /\ CleanInv(p) /\ Clean(p)
      BY <1>1, <2>7, <3>1
    <3>3. seen # None => SeenTrue(n + 1, seen)'
      <4>1. SUFFICES ASSUME seen # None PROVE SeenTrue(n + 1, seen)'
        OBVIOUS
      <4>2. n = 15 /\ seen = Seen(p) /\ kc' = kc
        BY <4>1
      <4>3. seen = kc.direct
        BY <3>2, <4>1, <4>2 DEF CleanInv, SeenTrue, HasRead
      <4> QED BY <4>2, <4>3 DEF SeenTrue
    <3>4. CountTrue(m)
      <4>1. r.clean /\ CountTrue(r)
        BY <1>2, <3>2 DEF Clean, CleanInv
      <4> QED BY <1>2, <1>3, <1>9, <2>2, <3>2, <4>1, CountSteps DEF PartDone
    <3>5. m.seen = seen /\ m.env = r.env
      BY <2>3 DEF WentOn
    <3>6. n + 1 > 20 => disk' = TheSecret(proc[p].env)'
      BY <1>2, <1>3, <2>1, <3>2, <3>5 DEF PartDone, TheSecret
    <3>7. HasRead(p)' => n + 1 # 20
      BY <1>3, <2>1, <3>5 DEF HasRead, Seen
    <3>8. Place(proc[p].at)' = n + 1 /\ Seen(p)' = seen /\ CountTrue(proc[p])'
      BY <2>1, <2>4, <3>4, <3>5 DEF Seen
    <3> QED BY <3>2, <3>3, <3>6, <3>7, <3>8 DEF CleanInv, PartDone, HasRead
  <2>10. FlowInv(p)'
    <3>1. Place(proc[p].at)' = n + 1 /\ Seen(p)' = seen
      BY <2>1, <2>3, <2>4 DEF Seen, WentOn
    <3>2. CASE n + 1 = 17
      BY <1>3, <3>1, <3>2 DEF FlowInv
    <3>3. CASE n + 1 \in {15, 16} /\ seen # None /\ seen = "REQUIRED"
      <4>1. n = 15 /\ seen = Seen(p)
        BY <3>3
      <4>2. RequiredOrLoose
        BY <1>1, <3>3, <4>1 DEF FlowInv, HasRead
      <4> QED BY <4>2 DEF FlowInv, FlowStep
    <3> QED BY <3>1, <3>2, <3>3 DEF FlowInv, HasRead
  <2>11. ReportIsTrue'
    BY <2>2 DEF ReportIsTrue
  <2>12. \A q \in Process : CleanInv(q)' /\ FlowInv(q)'
    BY <1>6, <2>9, <2>10
  <2> QED BY <2>6, <2>8, <2>11, <2>12, FlowStepBound DEF IInv
<1> QED BY <1>8, <1>9

-------------------------------------------------------------------------------
(* The writes to the realm and to the database. *)

\* The same realm but for the fields in F.
SameBut(k, F) ==
    \A f \in {"settings", "bound", "direct", "client", "mapper", "browser", "profile",
              "roles", "foreign", "secret"} \ F : k[f] = kc[f]

\* Each write of the admin client: what it sets, and what it leaves.
LEMMA RealmWrites ==
  ASSUME kc \in KC
  PROVE  /\ updateRealm \in KC /\ updateRealm.settings = "target"
         /\ SameBut(updateRealm, {"settings"})
         /\ bindDirectGrant \in KC /\ bindDirectGrant.bound = TRUE
         /\ SameBut(bindDirectGrant, {"bound"})
         /\ copyFlow \in KC /\ copyFlow.direct = "copied" /\ SameBut(copyFlow, {"direct"})
         /\ addFlowExecution \in KC /\ addFlowExecution.direct = "DISABLED"
         /\ SameBut(addFlowExecution, {"direct"})
         /\ setFlowExecutionRequirement \in KC
         /\ setFlowExecutionRequirement.direct = "REQUIRED"
         /\ SameBut(setFlowExecutionRequirement, {"direct"})
         /\ regenerateClientSecret \in KC /\ SameBut(regenerateClientSecret, {"secret"})
         /\ \A more \in SUBSET Right :
               /\ addClientRoles(more) \in KC
               /\ addClientRoles(more).roles = kc.roles \cup more
               /\ SameBut(addClientRoles(more), {"roles"})
         /\ \A attrs \in SUBSET Attr :
               /\ [kc EXCEPT !.profile = attrs] \in KC
               /\ [kc EXCEPT !.profile = attrs].profile = attrs
               /\ SameBut([kc EXCEPT !.profile = attrs], {"profile"})
<1>1. /\ updateRealm \in KC /\ updateRealm.settings = "target"
      /\ SameBut(updateRealm, {"settings"})
  BY DEF KC, updateRealm, SameBut, realmTargetSettings
<1>2. /\ bindDirectGrant \in KC /\ bindDirectGrant.bound = TRUE
      /\ SameBut(bindDirectGrant, {"bound"})
  BY DEF KC, bindDirectGrant, SameBut
<1>3. copyFlow \in KC /\ copyFlow.direct = "copied" /\ SameBut(copyFlow, {"direct"})
  BY DEF KC, copyFlow, SameBut
<1>4. /\ addFlowExecution \in KC /\ addFlowExecution.direct = "DISABLED"
      /\ SameBut(addFlowExecution, {"direct"})
  BY DEF KC, addFlowExecution, SameBut
<1>5. /\ setFlowExecutionRequirement \in KC
      /\ setFlowExecutionRequirement.direct = "REQUIRED"
      /\ SameBut(setFlowExecutionRequirement, {"direct"})
  BY DEF KC, setFlowExecutionRequirement, SameBut
<1>6. regenerateClientSecret \in KC /\ SameBut(regenerateClientSecret, {"secret"})
  BY DEF KC, regenerateClientSecret, SameBut
<1>7. ASSUME NEW more \in SUBSET Right
      PROVE  /\ addClientRoles(more) \in KC
             /\ addClientRoles(more).roles = kc.roles \cup more
             /\ SameBut(addClientRoles(more), {"roles"})
  BY DEF KC, addClientRoles, SameBut
<1>8. ASSUME NEW attrs \in SUBSET Attr
      PROVE  /\ [kc EXCEPT !.profile = attrs] \in KC
             /\ [kc EXCEPT !.profile = attrs].profile = attrs
             /\ SameBut([kc EXCEPT !.profile = attrs], {"profile"})
  BY DEF KC, SameBut
<1> QED BY <1>1, <1>2, <1>3, <1>4, <1>5, <1>6, <1>7, <1>8

\* The same for a client and its mapper.
LEMMA ClientWrites ==
  ASSUME kc \in KC, NEW c \in Client
  PROVE  /\ createClient(c) \in KC /\ SameBut(createClient(c), {"client", "mapper"})
         /\ createClient(c).client = [kc.client EXCEPT ![c] = "right"]
         /\ createClient(c).mapper = [kc.mapper EXCEPT ![c] = "none"]
         /\ updateClient(c) \in KC /\ SameBut(updateClient(c), {"client"})
         /\ updateClient(c).client = [kc.client EXCEPT ![c] = "right"]
         /\ createProtocolMapper(c) \in KC /\ SameBut(createProtocolMapper(c), {"mapper"})
         /\ createProtocolMapper(c).mapper = [kc.mapper EXCEPT ![c] = "api"]
<1>1. kc.client \in [Client -> {"right", "wrong", "absent"}]
      /\ kc.mapper \in [Client -> {"none", "api", "other"}]
  BY DEF KC
<1>2. /\ [kc.client EXCEPT ![c] = "right"] \in [Client -> {"right", "wrong", "absent"}]
      /\ [kc.mapper EXCEPT ![c] = "none"] \in [Client -> {"none", "api", "other"}]
      /\ [kc.mapper EXCEPT ![c] = "api"] \in [Client -> {"none", "api", "other"}]
  BY <1>1
<1>3. PICK cl, ma, mb : /\ cl = [kc.client EXCEPT ![c] = "right"]
                        /\ ma = [kc.mapper EXCEPT ![c] = "none"]
                        /\ mb = [kc.mapper EXCEPT ![c] = "api"]
  OBVIOUS
<1>4. /\ createClient(c) = [kc EXCEPT !.client = cl, !.mapper = ma]
      /\ updateClient(c) = [kc EXCEPT !.client = cl]
      /\ createProtocolMapper(c) = [kc EXCEPT !.mapper = mb]
  BY <1>3 DEF createClient, updateClient, createProtocolMapper, KC
<1>5. /\ [kc EXCEPT !.client = cl, !.mapper = ma] \in KC
      /\ [kc EXCEPT !.client = cl] \in KC
      /\ [kc EXCEPT !.mapper = mb] \in KC
  BY <1>2, <1>3 DEF KC
<1>6. /\ SameBut([kc EXCEPT !.client = cl, !.mapper = ma], {"client", "mapper"})
      /\ SameBut([kc EXCEPT !.client = cl], {"client"})
      /\ SameBut([kc EXCEPT !.mapper = mb], {"mapper"})
  BY DEF KC, SameBut
<1>7. /\ [kc EXCEPT !.client = cl, !.mapper = ma].client = cl
      /\ [kc EXCEPT !.client = cl, !.mapper = ma].mapper = ma
      /\ [kc EXCEPT !.client = cl].client = cl
      /\ [kc EXCEPT !.mapper = mb].mapper = mb
  BY DEF KC
<1> QED BY <1>3, <1>4, <1>5, <1>6, <1>7

-------------------------------------------------------------------------------
(* The ways a part of the realm step ends. *)

\* What the invariant says of a run that is followed.
LEMMA CleanFacts ==
  ASSUME IInv, NEW p \in Process, Clean(p), NEW n, n = Place(proc[p].at)
  PROVE  /\ HasRead(p) => SeenTrue(n, Seen(p))
         /\ HasRead(p) /\ n = 20 => Seen(p) = TheSecret(proc[p].env)
         /\ RealmDone(n) /\ DatabaseDone(n)
         /\ n > 20 => disk = TheSecret(proc[p].env)
BY DEF IInv, CleanInv

\* The flow is left alone.
LEMMA FlowKept ==
  ASSUME kc'.direct = kc.direct, kc'.bound = kc.bound, loose' = loose
  PROVE  FlowStep
BY DEF FlowStep, RequiredOrLoose

\* A failure that writes nothing.
LEMMA FailSteps ==
  ASSUME IInv, NEW p \in Process, Running(p), Fail(p), UNCHANGED <<kc, db, disk, loose>>
  PROVE  IInv'
<1>1. Stored
  BY DEF IInv, TypeOK, Stored
<1>2. FlowStep
  BY FlowKept
<1> QED BY <1>1, <1>2, StopSteps

\* Nothing is counted of nothing.
LEMMA CountedEmpty == ~Counted({})
BY DEF Counted

\* A part that leaves everything as it is, because it saw that it is right.
LEMMA SkipSteps ==
  ASSUME IInv, NEW p \in Process, Running(p), NEW seen, Skip(p, seen),
         NEW n \in 7..19, n = Place(proc[p].at),
         Clean(p) => RealmDone(n + 1),
         seen # None => n = 15 /\ seen = Seen(p),
         n = 16 => RequiredOrLoose
  PROVE  IInv'
<1>1. MoveOn(p, FALSE, {}, seen) /\ UNCHANGED <<kc, db, disk, loose>>
  BY DEF Skip
<1>2. Stored
  BY <1>1 DEF IInv, TypeOK, Stored
<1>3. FlowStep
  BY <1>1, FlowKept
<1>4. Clean(p) => PartDone(p, n, FALSE, {})
  <2>1. SUFFICES ASSUME Clean(p) PROVE PartDone(p, n, FALSE, {})
    OBVIOUS
  <2>2. DatabaseDone(n)
    BY <2>1, CleanFacts
  <2>3. RealmDone(n + 1)' /\ DatabaseDone(n + 1)'
    BY <1>1, <2>1, <2>2 DEF RealmDone, DatabaseDone
  <2> QED BY <2>3, CountedEmpty DEF PartDone
<1>5. n = 16 => RequiredOrLoose'
  BY <1>1 DEF RequiredOrLoose
<1>6. PICK no \in BOOLEAN : no = FALSE
  OBVIOUS
<1>7. MoveOn(p, no, {}, seen) /\ (Clean(p) => PartDone(p, n, no, {}))
  BY <1>1, <1>4, <1>6
<1>8. seen # None => n = 15 /\ seen = Seen(p) /\ kc' = kc /\ loose' = loose
  BY <1>1
<1> QED BY <1>2, <1>3, <1>5, <1>7, <1>8, MoveSteps

\* A write of the realm step that is answered, refused, or fails with or without
\* its effect.
LEMMA DoSteps ==
  ASSUME IInv, NEW p \in Process, Running(p), NEW fits \in BOOLEAN, NEW k, NEW part,
         NEW changed \in BOOLEAN, do(p, fits, k, part, changed, None),
         NEW n \in 7..19, n = Place(proc[p].at),
         fits => k \in KC, loose' \in BOOLEAN, FlowStep,
         changed <=> Counted({part}),
         Clean(p) /\ fits /\ kc' = k => RealmDone(n + 1)',
         n = 16 /\ kc' = k => RequiredOrLoose'
  PROVE  IInv'
<1>1. UNCHANGED <<db, disk>>
  BY DEF do
<1>2. Stored
  BY <1>1 DEF do, IInv, TypeOK, Stored
<1>3. CASE Fail(p)
  BY <1>2, <1>3, StopSteps
<1>4. CASE fits /\ kc' = k /\ MoveOn(p, changed, {part}, None)
  <2>1. Clean(p) => PartDone(p, n, changed, {part})
    <3>1. SUFFICES ASSUME Clean(p) PROVE PartDone(p, n, changed, {part})
      OBVIOUS
    <3>2. DatabaseDone(n)
      BY <3>1, CleanFacts
    <3>3. DatabaseDone(n + 1)'
      BY <1>1, <3>2 DEF DatabaseDone
    <3> QED BY <1>4, <3>1, <3>3 DEF PartDone
  <2> QED BY <1>2, <1>4, <2>1, MoveSteps
<1> QED BY <1>3, <1>4 DEF do

\* What do leaves of the realm.
LEMMA DoWrites ==
  ASSUME NEW p, NEW fits \in BOOLEAN, NEW k, NEW part, NEW changed,
         do(p, fits, k, part, changed, None)
  PROVE  kc' = kc \/ (fits /\ kc' = k)
BY DEF do

\* The realm parts other than the roles are counted, the roles are not.
LEMMA CountedPart ==
  /\ \A part \in {"settings", "api", "frontend", "frontendMapper", "service",
                  "serviceMapper", "browser", "flow", "execution", "required", "bind",
                  "profile", "secret"} : Counted({part})
  /\ ~Counted({"roles"})
  /\ \A part \in {"registry", "authz", "identity", "org", "superadmin", "modules",
                  "defaultGrants", "mappedUsers", "companyMembers", "anchors"} :
        ~Counted({part})
BY RealmPartsAre DEF Counted

-------------------------------------------------------------------------------
(* The parts of the realm step. *)

\* reconcileRealmSettings.
LEMMA SettingsSteps ==
  ASSUME IInv, NEW p \in Process, reconcileRealmSettings(p)
  PROVE  IInv'
<1>1. /\ At(p, "settings") /\ HasRead(p) /\ Running(p)
      /\ Place(proc[p].at) = 7 /\ kc \in KC /\ loose \in BOOLEAN
  BY AtFacts, PlaceOf DEF reconcileRealmSettings, IInv, TypeOK
<1>2. CASE Seen(p) = realmTargetSettings /\ Skip(p, None)
  <2>1. Clean(p) => RealmDone(8)
    BY <1>1, <1>2, CleanFacts DEF RealmDone, SeenTrue, realmTargetSettings
  <2> QED BY <1>1, <1>2, <2>1, SkipSteps
<1>3. CASE do(p, TRUE, updateRealm, "settings", TRUE, None) /\ loose' = loose
  <2>1. kc' = kc \/ kc' = updateRealm
    BY <1>3, DoWrites
  <2>2. /\ updateRealm \in KC /\ updateRealm.settings = "target"
        /\ SameBut(updateRealm, {"settings"})
    BY <1>1, RealmWrites
  <2>3. FlowStep
    BY <1>3, <2>1, <2>2, FlowKept DEF SameBut
  <2>4. kc' = updateRealm => RealmDone(8)'
    BY <2>2 DEF RealmDone
  <2>5. PICK yes \in BOOLEAN : yes = TRUE
    OBVIOUS
  <2>6. do(p, yes, updateRealm, "settings", yes, None) /\ (yes <=> Counted({"settings"}))
    BY <1>3, <2>5, CountedPart
  <2> QED BY <1>1, <1>3, <2>2, <2>3, <2>4, <2>6, DoSteps
<1> QED BY <1>2, <1>3 DEF reconcileRealmSettings

\* reconcileBearerOnlyClient, reconcileFrontendClient and reconcileServiceClient.
LEMMA ClientSteps ==
  ASSUME IInv, NEW p \in Process, NEW c \in Client, reconcileClient(p, c)
  PROVE  IInv'
<1>1. /\ At(p, c) /\ HasRead(p) /\ Running(p) /\ kc \in KC /\ loose \in BOOLEAN
  BY AtFacts DEF reconcileClient, IInv, TypeOK
<1>2. PICK n \in 7..19 :
        /\ n = Place(proc[p].at) /\ n # 16
        /\ c = "api" => n = 8
        /\ c = "frontend" => n = 9
        /\ c = "service" => n = 11
  BY <1>1, AtFacts, PlaceOf DEF Client
<1>3. CASE Seen(p) = "right" /\ Skip(p, None)
  <2>1. Clean(p) => RealmDone(n + 1)
    BY <1>1, <1>2, <1>3, CleanFacts DEF RealmDone, SeenTrue, Client
  <2> QED BY <1>1, <1>2, <1>3, <2>1, SkipSteps
<1>4. ASSUME NEW fits \in BOOLEAN, NEW k \in {updateClient(c), createClient(c)},
             do(p, fits, k, c, TRUE, None), loose' = loose
      PROVE  IInv'
  <2>1. kc' = kc \/ kc' = k
    BY <1>4, DoWrites
  <2>2. /\ k \in KC /\ SameBut(k, {"client", "mapper"})
        /\ k.client = [kc.client EXCEPT ![c] = "right"]
        /\ k.mapper = kc.mapper \/ k.mapper = [kc.mapper EXCEPT ![c] = "none"]
    <3>1. CASE k = updateClient(c)
      BY <1>1, <3>1, ClientWrites DEF SameBut
    <3>2. CASE k = createClient(c)
      BY <1>1, <3>2, ClientWrites
    <3> QED BY <3>1, <3>2
  <2>3. FlowStep
    BY <1>4, <2>1, <2>2, FlowKept DEF SameBut
  <2>4. ASSUME Clean(p), kc' = k PROVE RealmDone(n + 1)'
    <3>1. RealmDone(n)
      BY <1>2, <2>4, CleanFacts
    <3>2. kc.client \in [Client -> {"right", "wrong", "absent"}]
            /\ kc.mapper \in [Client -> {"none", "api", "other"}]
      BY <1>1 DEF KC
    <3>3. k.settings = kc.settings
      BY <2>2 DEF SameBut
    <3>4. /\ k.client[c] = "right"
          /\ \A d \in Client \ {c} : k.client[d] = kc.client[d] /\ k.mapper[d] = kc.mapper[d]
      BY <2>2, <3>2
    <3> QED BY <1>2, <2>4, <3>1, <3>3, <3>4 DEF RealmDone, Client
  <2>5. PICK yes \in BOOLEAN : yes = TRUE
    OBVIOUS
  <2>6. do(p, fits, k, c, yes, None) /\ (yes <=> Counted({c}))
    BY <1>4, <2>5, CountedPart DEF Client
  <2> QED BY <1>1, <1>2, <1>4, <2>2, <2>3, <2>4, <2>6, DoSteps
<1> QED BY <1>3, <1>4 DEF reconcileClient

\* reconcileAudienceMapper.
LEMMA MapperSteps ==
  ASSUME IInv, NEW p \in Process, NEW s \in {"frontendMapper", "serviceMapper"},
         reconcileAudienceMapper(p, s)
  PROVE  IInv'
<1>1. /\ At(p, s) /\ HasRead(p) /\ Running(p) /\ kc \in KC /\ loose \in BOOLEAN
  BY AtFacts DEF reconcileAudienceMapper, IInv, TypeOK
<1>2. PICK n \in 7..19, c \in Client :
        /\ n = Place(proc[p].at) /\ c = Owner(s)
        /\ \/ s = "frontendMapper" /\ n = 10 /\ c = "frontend"
           \/ s = "serviceMapper" /\ n = 12 /\ c = "service"
  BY <1>1, AtFacts, PlaceOf DEF Client, Owner
<1>3. CASE Seen(p) = "api" /\ Skip(p, None)
  <2>1. Clean(p) => RealmDone(n + 1)
    BY <1>1, <1>2, <1>3, CleanFacts DEF RealmDone, SeenTrue
  <2> QED BY <1>1, <1>2, <1>3, <2>1, SkipSteps
<1>4. ASSUME NEW fits \in BOOLEAN, do(p, fits, createProtocolMapper(c), s, TRUE, None),
             loose' = loose
      PROVE  IInv'
  <2>1. kc' = kc \/ kc' = createProtocolMapper(c)
    BY <1>4, DoWrites
  <2>2. PICK k \in KC : k = createProtocolMapper(c)
    BY <1>1, ClientWrites
  <2>3. SameBut(k, {"mapper"}) /\ k.mapper = [kc.mapper EXCEPT ![c] = "api"]
    BY <1>1, <2>2, ClientWrites
  <2>4. FlowStep
    BY <1>4, <2>1, <2>2, <2>3, FlowKept DEF SameBut
  <2>5. ASSUME Clean(p), kc' = k PROVE RealmDone(n + 1)'
    <3>1. RealmDone(n)
      BY <1>2, <2>5, CleanFacts
    <3>2. kc.mapper \in [Client -> {"none", "api", "other"}]
      BY <1>1 DEF KC
    <3>3. k.settings = kc.settings /\ k.client = kc.client
      BY <2>3 DEF SameBut
    <3>4. k.mapper[c] = "api" /\ \A d \in Client \ {c} : k.mapper[d] = kc.mapper[d]
      BY <2>3, <3>2
    <3> QED BY <1>2, <2>5, <3>1, <3>3, <3>4 DEF RealmDone, Client
  <2>6. PICK yes \in BOOLEAN : yes = TRUE
    OBVIOUS
  <2>7. do(p, fits, k, s, yes, None) /\ (yes <=> Counted({s}))
    BY <1>4, <2>2, <2>6, CountedPart
  <2> QED BY <1>1, <1>2, <1>4, <2>2, <2>4, <2>5, <2>7, DoSteps
<1> QED BY <1>2, <1>3, <1>4 DEF reconcileAudienceMapper

\* verifyMFAFlowWiring.
LEMMA BrowserSteps ==
  ASSUME IInv, NEW p \in Process, verifyMFAFlowWiring(p)
  PROVE  IInv'
<1>1. /\ At(p, "browser") /\ HasRead(p) /\ Running(p) /\ Place(proc[p].at) = 13
  BY AtFacts, PlaceOf DEF verifyMFAFlowWiring
<1>2. CASE Seen(p)[1] = realmTargetSettings /\ MFAWired(Seen(p)[2])
  <2>1. ASSUME Clean(p) PROVE RealmDone(14)
    <3>1. Seen(p) = <<kc.settings, kc.browser>>
      BY <1>1, <2>1, CleanFacts DEF SeenTrue
    <3>2. Seen(p)[2] = kc.browser
      BY <3>1
    <3>3. MFAWired(kc.browser)
      BY <1>2, <3>2
    <3> QED BY <1>1, <2>1, <3>3, CleanFacts DEF RealmDone
  <2> QED BY <1>1, <1>2, <2>1, SkipSteps DEF verifyMFAFlowWiring
<1>3. CASE ~(Seen(p)[1] = realmTargetSettings /\ MFAWired(Seen(p)[2]))
  BY <1>1, <1>3, FailSteps DEF verifyMFAFlowWiring
<1> QED BY <1>2, <1>3

\* The first part of reconcileDirectGrantFlow: the copy of the built-in flow.
LEMMA CopySteps ==
  ASSUME IInv, NEW p \in Process, directGrantCopy(p)
  PROVE  IInv'
<1>1. /\ At(p, "flow") /\ HasRead(p) /\ Running(p)
      /\ Place(proc[p].at) = 14 /\ kc \in KC /\ loose \in BOOLEAN
  BY AtFacts, PlaceOf DEF directGrantCopy, IInv, TypeOK
<1>2. CASE Seen(p) /\ Skip(p, None)
  <2>1. ASSUME Clean(p) PROVE RealmDone(15)
    <3>1. Seen(p) = (kc.direct # "absent") /\ RealmDone(14)
      BY <1>1, <2>1, CleanFacts DEF SeenTrue
    <3>2. kc.direct # "absent"
      BY <1>2, <3>1
    <3> QED BY <3>1, <3>2 DEF RealmDone
  <2> QED BY <1>1, <1>2, <2>1, SkipSteps
<1>3. CASE do(p, ~flowExists, copyFlow, "flow", TRUE, None) /\ loose' = loose
  <2>1. PICK yes \in BOOLEAN, fits \in BOOLEAN : yes = TRUE /\ fits = ~flowExists
    BY DEF flowExists
  <2>2. do(p, fits, copyFlow, "flow", yes, None) /\ (yes <=> Counted({"flow"}))
    BY <1>3, <2>1, CountedPart
  <2>3. kc' = kc \/ (kc.direct = "absent" /\ kc' = copyFlow)
    BY <2>1, <2>2, DoWrites DEF flowExists
  <2>4. copyFlow \in KC /\ copyFlow.direct = "copied" /\ SameBut(copyFlow, {"direct"})
    BY <1>1, RealmWrites
  <2>5. FlowStep
    BY <1>3, <2>3, <2>4 DEF SameBut, FlowStep, RequiredOrLoose
  <2>6. Clean(p) /\ kc' = copyFlow => RealmDone(15)'
    BY <1>1, <2>4, CleanFacts DEF RealmDone, SameBut
  <2> QED BY <1>1, <1>3, <2>2, <2>4, <2>5, <2>6, DoSteps
<1> QED BY <1>2, <1>3 DEF directGrantCopy

\* The second: the authenticator is added, which Keycloak creates DISABLED.
LEMMA AddSteps ==
  ASSUME IInv, NEW p \in Process, directGrantAdd(p)
  PROVE  IInv'
<1>1. /\ At(p, "execution") /\ HasRead(p) /\ Running(p)
      /\ Place(proc[p].at) = 15 /\ kc \in KC /\ loose \in BOOLEAN
  BY AtFacts, PlaceOf DEF directGrantAdd, IInv, TypeOK
<1>2. CASE Seen(p) # "copied" /\ Skip(p, Seen(p))
  <2>1. ASSUME Clean(p) PROVE RealmDone(16)
    <3>1. Seen(p) = kc.direct /\ RealmDone(15)
      BY <1>1, <2>1, CleanFacts DEF SeenTrue
    <3>2. kc.direct \in {"DISABLED", "REQUIRED"}
      BY <1>1, <1>2, <3>1 DEF KC, RealmDone
    <3> QED BY <3>1, <3>2 DEF RealmDone
  <2> QED BY <1>1, <1>2, <2>1, SkipSteps
<1>3. CASE do(p, kc.direct = "copied", addFlowExecution, "execution", TRUE, None)
             /\ loose' = loose
  <2>1. PICK yes \in BOOLEAN, fits \in BOOLEAN : yes = TRUE /\ fits = (kc.direct = "copied")
    OBVIOUS
  <2>2. do(p, fits, addFlowExecution, "execution", yes, None)
          /\ (yes <=> Counted({"execution"}))
    BY <1>3, <2>1, CountedPart
  <2>3. kc' = kc \/ (kc.direct = "copied" /\ kc' = addFlowExecution)
    BY <2>1, <2>2, DoWrites
  <2>4. /\ addFlowExecution \in KC /\ addFlowExecution.direct = "DISABLED"
        /\ SameBut(addFlowExecution, {"direct"})
    BY <1>1, RealmWrites
  <2>5. FlowStep
    BY <1>3, <2>3, <2>4 DEF SameBut, FlowStep, RequiredOrLoose
  <2>6. Clean(p) /\ kc' = addFlowExecution => RealmDone(16)'
    BY <1>1, <2>4, CleanFacts DEF RealmDone, SameBut
  <2> QED BY <1>1, <1>3, <2>2, <2>4, <2>5, <2>6, DoSteps
<1> QED BY <1>2, <1>3 DEF directGrantAdd

\* The third: the authenticator is required, and only then loose is over.
LEMMA RequireSteps ==
  ASSUME IInv, NEW p \in Process, directGrantRequire(p)
  PROVE  IInv'
<1>1. /\ At(p, "required") /\ HasRead(p) /\ Running(p)
      /\ Place(proc[p].at) = 16 /\ kc \in KC /\ loose \in BOOLEAN
  BY AtFacts, PlaceOf DEF directGrantRequire, IInv, TypeOK
<1>2. CASE Seen(p) = "REQUIRED" /\ Skip(p, None)
  <2>1. Clean(p) => RealmDone(17)
    BY <1>1, <1>2, CleanFacts DEF RealmDone, SeenTrue
  <2>2. RequiredOrLoose
    BY <1>1, <1>2 DEF IInv, FlowInv
  <2> QED BY <1>1, <1>2, <2>1, <2>2, SkipSteps
<1>3. CASE Fail(p) /\ UNCHANGED <<kc, db, disk, loose>>
  BY <1>1, <1>3, FailSteps
<1>4. CASE /\ do(p, kc.direct \in {"DISABLED", "REQUIRED"}, setFlowExecutionRequirement,
                 "required", TRUE, None)
           /\ loose' = (loose /\ kc'.direct # "REQUIRED")
  <2>0. (kc.direct \in {"DISABLED", "REQUIRED"}) \in BOOLEAN
    OBVIOUS
  <2>1. PICK yes \in BOOLEAN, fits \in BOOLEAN :
          yes = TRUE /\ fits = (kc.direct \in {"DISABLED", "REQUIRED"})
    BY <2>0, Zenon
  <2>2. do(p, fits, setFlowExecutionRequirement, "required", yes, None)
          /\ (yes <=> Counted({"required"}))
    BY <1>4, <2>1, CountedPart
  <2>3. kc' = kc \/ kc' = setFlowExecutionRequirement
    BY <2>2, DoWrites
  <2>4. /\ setFlowExecutionRequirement \in KC
        /\ setFlowExecutionRequirement.direct = "REQUIRED"
        /\ SameBut(setFlowExecutionRequirement, {"direct"})
    BY <1>1, RealmWrites
  <2>5. FlowStep
    BY <1>4, <2>3, <2>4 DEF SameBut, FlowStep, RequiredOrLoose
  <2>6. Clean(p) /\ kc' = setFlowExecutionRequirement => RealmDone(17)'
    BY <1>1, <2>4, CleanFacts DEF RealmDone, SameBut
  <2>7. kc' = setFlowExecutionRequirement => RequiredOrLoose'
    BY <2>4 DEF RequiredOrLoose
  <2>8. loose' \in BOOLEAN
    BY <1>4
  <2> QED BY <1>1, <2>2, <2>4, <2>5, <2>6, <2>7, <2>8, DoSteps
<1> QED BY <1>2, <1>3, <1>4 DEF directGrantRequire

\* The last: the flow is bound.
LEMMA BindSteps ==
  ASSUME IInv, NEW p \in Process, directGrantBind(p)
  PROVE  IInv'
<1>1. /\ At(p, "bind") /\ HasRead(p) /\ Running(p)
      /\ Place(proc[p].at) = 17 /\ kc \in KC /\ loose \in BOOLEAN
  BY AtFacts, PlaceOf DEF directGrantBind, IInv, TypeOK
<1>2. CASE Seen(p) /\ Skip(p, None)
  <2>1. Clean(p) => RealmDone(18)
    BY <1>1, <1>2, CleanFacts DEF RealmDone, SeenTrue
  <2> QED BY <1>1, <1>2, <2>1, SkipSteps
<1>3. CASE do(p, TRUE, bindDirectGrant, "bind", TRUE, None) /\ loose' = loose
  <2>1. PICK yes \in BOOLEAN : yes = TRUE
    OBVIOUS
  <2>2. do(p, yes, bindDirectGrant, "bind", yes, None) /\ (yes <=> Counted({"bind"}))
    BY <1>3, <2>1, CountedPart
  <2>3. kc' = kc \/ kc' = bindDirectGrant
    BY <2>2, DoWrites
  <2>4. /\ bindDirectGrant \in KC /\ bindDirectGrant.bound = TRUE
        /\ SameBut(bindDirectGrant, {"bound"})
    BY <1>1, RealmWrites
  <2>5. RequiredOrLoose
    BY <1>1 DEF IInv, FlowInv
  <2>6. FlowStep
    BY <1>3, <2>3, <2>4, <2>5 DEF SameBut, FlowStep, RequiredOrLoose
  <2>7. Clean(p) /\ kc' = bindDirectGrant => RealmDone(18)'
    BY <1>1, <2>4, CleanFacts DEF RealmDone, SameBut
  <2> QED BY <1>1, <1>3, <2>2, <2>4, <2>6, <2>7, DoSteps
<1> QED BY <1>2, <1>3 DEF directGrantBind

\* reconcileUserProfileAttributes.
LEMMA ProfileSteps ==
  ASSUME IInv, NEW p \in Process, reconcileUserProfileAttributes(p)
  PROVE  IInv'
<1>1. /\ At(p, "profile") /\ HasRead(p) /\ Running(p)
      /\ Place(proc[p].at) = 18 /\ kc \in KC /\ loose \in BOOLEAN /\ IsRun(proc[p])
  BY AtFacts, PlaceOf DEF reconcileUserProfileAttributes, IInv, TypeOK
<1>2. CASE Attr \subseteq Seen(p) /\ Skip(p, None)
  <2>1. Clean(p) => RealmDone(19)
    BY <1>1, <1>2, CleanFacts DEF RealmDone, SeenTrue
  <2> QED BY <1>1, <1>2, <2>1, SkipSteps
<1>3. CASE /\ do(p, TRUE, [kc EXCEPT !.profile = Seen(p) \cup Attr], "profile", TRUE, None)
           /\ loose' = loose
  <2>0. PICK yes \in BOOLEAN, attrs \in SUBSET Attr :
          yes = TRUE /\ attrs = Seen(p) \cup Attr
    BY <1>1 DEF IsRun, Seen, HasRead
  <2>1. PICK k : /\ yes \in BOOLEAN /\ attrs \in SUBSET Attr
                 /\ yes = TRUE /\ attrs = Seen(p) \cup Attr
                 /\ k = [kc EXCEPT !.profile = attrs]
    BY <2>0
  <2>2. do(p, yes, k, "profile", yes, None) /\ (yes <=> Counted({"profile"}))
    BY <1>3, <2>1, CountedPart
  <2>3. kc' = kc \/ kc' = k
    BY <2>2, DoWrites
  <2>4. k \in KC /\ k.profile = attrs /\ SameBut(k, {"profile"})
    BY <1>1, <2>1, RealmWrites
  <2>5. FlowStep
    BY <1>3, <2>3, <2>4, FlowKept DEF SameBut
  <2>6. Clean(p) /\ kc' = k => RealmDone(19)'
    BY <1>1, <2>1, <2>4, CleanFacts DEF RealmDone, SameBut
  <2> QED BY <1>1, <1>3, <2>2, <2>4, <2>5, <2>6, DoSteps
<1> QED BY <1>2, <1>3 DEF reconcileUserProfileAttributes

\* verifyIdentityServiceRolesExact.
LEMMA RolesSteps ==
  ASSUME IInv, NEW p \in Process, verifyIdentityServiceRolesExact(p)
  PROVE  IInv'
<1>1. /\ At(p, "roles") /\ HasRead(p) /\ Running(p)
      /\ Place(proc[p].at) = 19 /\ kc \in KC /\ loose \in BOOLEAN
  BY AtFacts, PlaceOf DEF verifyIdentityServiceRolesExact, IInv, TypeOK
<1>2. ASSUME Clean(p)
      PROVE  Seen(p).roles = kc.roles /\ Seen(p).foreign = kc.foreign /\ RealmDone(19)
  <2>1. Seen(p) = [roles |-> kc.roles, foreign |-> kc.foreign] /\ RealmDone(19)
    BY <1>1, <1>2, CleanFacts DEF SeenTrue
  <2> QED BY <2>1
<1>3. CASE Fail(p) /\ UNCHANGED <<kc, db, disk, loose>>
  BY <1>1, <1>3, FailSteps
<1>4. CASE ~Seen(p).foreign /\ Seen(p).roles = Right /\ Skip(p, None)
  <2>1. Clean(p) => RealmDone(20)
    BY <1>2, <1>4 DEF RealmDone
  <2> QED BY <1>1, <1>4, <2>1, SkipSteps
<1>5. CASE /\ ~Seen(p).foreign /\ Seen(p).roles \subseteq Right
           /\ do(p, TRUE, addClientRoles(Right \ Seen(p).roles), "roles", FALSE, None)
           /\ loose' = loose
  <2>0. PICK yes \in BOOLEAN, no \in BOOLEAN, more \in SUBSET Right :
          yes = TRUE /\ no = FALSE /\ more = Right \ Seen(p).roles
    OBVIOUS
  <2>1. PICK k : /\ yes \in BOOLEAN /\ no \in BOOLEAN /\ more \in SUBSET Right
                 /\ yes = TRUE /\ no = FALSE /\ more = Right \ Seen(p).roles
                 /\ k = addClientRoles(more)
    BY <2>0
  <2>2. do(p, yes, k, "roles", no, None) /\ (no <=> Counted({"roles"}))
    BY <1>5, <2>1, CountedPart
  <2>3. kc' = kc \/ kc' = k
    BY <2>2, DoWrites
  <2>4. k \in KC /\ k.roles = kc.roles \cup more /\ SameBut(k, {"roles"})
    BY <1>1, <2>1, RealmWrites
  <2>5. FlowStep
    BY <1>5, <2>3, <2>4, FlowKept DEF SameBut
  <2>6. ASSUME Clean(p), kc' = k PROVE RealmDone(20)'
    <3>1. kc'.roles = Right /\ ~kc'.foreign
      BY <1>2, <1>5, <2>1, <2>4, <2>6 DEF SameBut
    <3> QED BY <1>2, <2>4, <2>6, <3>1 DEF RealmDone, SameBut
  <2> QED BY <1>1, <1>5, <2>2, <2>4, <2>5, <2>6, DoSteps
<1> QED BY <1>3, <1>4, <1>5 DEF verifyIdentityServiceRolesExact

-------------------------------------------------------------------------------
(* What a part reads. *)

\* A part that has read what it decides on.
LEMMA SawSteps ==
  ASSUME IInv, NEW p \in Process, Running(p), NEW v, proc' = [proc EXCEPT ![p].seen = v],
         UNCHANGED <<lock, report, db>>, Stored, FlowStep, SameBut(kc', {"secret"}),
         NEW n \in 7..20, n = Place(proc[p].at),
         n = 18 => v \in SUBSET Attr,
         n = 20 => v \in Nat /\ (v = IF proc[p].env = None THEN kc'.secret ELSE proc[p].env),
         n \in {15, 16} /\ v = "REQUIRED" => RequiredOrLoose',
         Clean(p) => SeenTrue(n, v)'
  PROVE  IInv'
<1>1. TypeOK /\ Exclusive /\ \A q \in Process : CleanInv(q) /\ FlowInv(q)
  BY DEF IInv
<1>2. PICK r, m : r = proc[p] /\ m = [r EXCEPT !.seen = v]
  OBVIOUS
<1>3. IsRun(r) /\ Valid(r.at)
  BY <1>1, <1>2 DEF TypeOK, IsRun
<1>4. DOMAIN proc' = Process /\ proc'[p] = m /\ \A q \in Process \ {p} : proc'[q] = proc[q]
  BY <1>1, <1>2 DEF TypeOK
<1>5. /\ m = [at |-> m.at, seen |-> m.seen, applied |-> m.applied, results |-> m.results,
              rotate |-> m.rotate, env |-> m.env, wrote |-> m.wrote, clean |-> m.clean]
      /\ m.at = r.at /\ m.seen = v /\ m.applied = r.applied /\ m.results = r.results
      /\ m.rotate = r.rotate /\ m.env = r.env /\ m.wrote = r.wrote /\ m.clean = r.clean
  <2>1. r = [at |-> r.at, seen |-> r.seen, applied |-> r.applied, results |-> r.results,
             rotate |-> r.rotate, env |-> r.env, wrote |-> r.wrote, clean |-> r.clean]
    BY <1>3 DEF IsRun
  <2> QED BY <1>2, <2>1
<1>6. IsRun(m)
  BY <1>2, <1>3, <1>5 DEF IsRun
<1>7. \A q \in Process \ {p} : /\ Running(q)' => Running(q)
                               /\ ~Clean(q)'
  BY <1>1, <1>4 DEF Running, Clean, Exclusive
<1>8. \A q \in Process \ {p} : CleanInv(q)' /\ FlowInv(q)'
  BY <1>1, <1>4, <1>7 DEF CleanInv, FlowInv, FlowStep, Seen, HasRead
<1>9. Clean(p)' => Clean(p)
  BY <1>2, <1>4, <1>5 DEF Clean
<1>10. report' = None
  BY <1>1 DEF Exclusive
<1>11. Exclusive' /\ ReportIsTrue'
  BY <1>1, <1>7, <1>9, <1>10 DEF Exclusive, ReportIsTrue
<1>12. TypeOK'
  <2>1. \A q \in Process : Running(q)' => IsRun(proc'[q])
    BY <1>1, <1>4, <1>6, <1>7 DEF TypeOK
  <2> QED BY <1>1, <1>4, <2>1 DEF TypeOK, Stored
<1>13. Place(proc[p].at)' = n /\ Seen(p)' = v /\ proc'[p].env = proc[p].env
  BY <1>2, <1>4, <1>5 DEF Seen
<1>14. CleanInv(p)'
  <2>1. SUFFICES ASSUME Clean(p)' PROVE CleanInv(p)'
    BY DEF CleanInv
  <2>2. RealmDone(n) /\ DatabaseDone(n) /\ CountTrue(r) /\ SeenTrue(n, v)'
    BY <1>1, <1>2, <1>9, <2>1 DEF CleanInv
  <2>3. RealmDone(n)' /\ DatabaseDone(n)'
    BY <2>2 DEF RealmDone, DatabaseDone, SameBut
  <2>4. CountTrue(proc[p])'
    BY <1>4, <1>5, <2>2 DEF CountTrue
  <2>5. ~(n > 20)
    OBVIOUS
  <2>6. n = 20 => v = TheSecret(proc[p].env)'
    BY <1>13 DEF TheSecret
  <2> QED BY <1>13, <2>2, <2>3, <2>4, <2>5, <2>6 DEF CleanInv
<1>15. FlowInv(p)'
  <2>1. n = 17 => RequiredOrLoose'
    BY <1>1 DEF FlowInv, FlowStep
  <2> QED BY <1>13, <2>1 DEF FlowInv
<1>16. \A q \in Process : CleanInv(q)' /\ FlowInv(q)'
  BY <1>8, <1>14, <1>15
<1> QED BY <1>11, <1>12, <1>16, FlowStepBound DEF IInv

\* Everything that the parts of the realm step read, at its place.
LEMMA ViewFacts ==
  ASSUME kc \in KC, NEW s \in DOMAIN View, NEW n,
         /\ s = "settings" <=> n = 7
         /\ s = "api" <=> n = 8
         /\ s = "frontend" <=> n = 9
         /\ s = "frontendMapper" <=> n = 10
         /\ s = "service" <=> n = 11
         /\ s = "serviceMapper" <=> n = 12
         /\ s = "browser" <=> n = 13
         /\ s = "flow" <=> n = 14
         /\ s = "execution" <=> n = 15
         /\ s = "required" <=> n = 16
         /\ s = "bind" <=> n = 17
         /\ s = "profile" <=> n = 18
         /\ s = "roles" <=> n = 19
  PROVE  /\ n \in 7..19 /\ SeenTrue(n, View[s])
         /\ n = 18 => View[s] \in SUBSET Attr
         /\ n \in {15, 16} => View[s] = kc.direct
<1>1. s \in {"settings", "api", "frontend", "service", "frontendMapper", "serviceMapper",
             "browser", "flow", "execution", "required", "bind", "profile", "roles"}
  BY DEF View
<1>2. /\ s = "settings" => View[s] = kc.settings
      /\ s = "api" => View[s] = kc.client["api"]
      /\ s = "frontend" => View[s] = kc.client["frontend"]
      /\ s = "frontendMapper" => View[s] = kc.mapper["frontend"]
      /\ s = "service" => View[s] = kc.client["service"]
      /\ s = "serviceMapper" => View[s] = kc.mapper["service"]
      /\ s = "browser" => View[s] = <<kc.settings, kc.browser>>
      /\ s = "flow" => View[s] = (kc.direct # "absent")
      /\ s = "execution" => View[s] = kc.direct
      /\ s = "required" => View[s] = kc.direct
      /\ s = "bind" => View[s] = kc.bound
      /\ s = "profile" => View[s] = kc.profile
      /\ s = "roles" => View[s] = [roles |-> kc.roles, foreign |-> kc.foreign]
  BY DEF View, getRealm, findClientByClientID, protocolMappers, flowExecutions, flowExists,
         userRoleMappings
<1>3. kc.profile \in SUBSET Attr
  BY DEF KC
<1> QED BY <1>1, <1>2, <1>3 DEF SeenTrue

\* The reads of the realm step.
LEMMA ReadSteps ==
  ASSUME IInv, NEW p \in Process, NEW s \in DOMAIN View, Read(p, s)
  PROVE  IInv'
<1>1. Running(p) /\ At(p, s) /\ UNCHANGED <<kc, db, disk, loose>> /\ kc \in KC
  BY AtFacts DEF Read, IInv, TypeOK
<1>2. CASE Fail(p)
  BY <1>1, <1>2, FailSteps
<1>3. CASE proc' = [proc EXCEPT ![p].seen = View[s]] /\ UNCHANGED <<lock, report>>
  <2>1. PICK n : n = Place(proc[p].at)
    OBVIOUS
  <2>2. /\ n \in 7..19 /\ SeenTrue(n, View[s])
        /\ n = 18 => View[s] \in SUBSET Attr
        /\ n \in {15, 16} => View[s] = kc.direct
    <3>1. Valid(proc[p].at) /\ Steps[proc[p].at[1]][proc[p].at[2]] = s
      BY <1>1, AtFacts
    <3> QED BY <1>1, <2>1, <3>1, PlaceOf, ViewFacts
  <2>3. PICK v : v = View[s]
    OBVIOUS
  <2>4. SeenTrue(n, v)'
    BY <1>1, <2>2, <2>3 DEF SeenTrue
  <2>5. Stored /\ FlowStep /\ SameBut(kc', {"secret"})
    BY <1>1, FlowKept DEF Stored, SameBut, IInv, TypeOK
  <2>6. n \in {15, 16} /\ v = "REQUIRED" => RequiredOrLoose'
    BY <1>1, <2>2, <2>3 DEF RequiredOrLoose
  <2>7. n \in 7..20 /\ n # 20
    BY <2>2
  <2> QED BY <1>1, <1>3, <2>1, <2>2, <2>3, <2>4, <2>5, <2>6, <2>7, SawSteps
<1> QED BY <1>2, <1>3 DEF Read

-------------------------------------------------------------------------------
(* The secret, the database and the last checks. *)

\* writeServiceSecrets, first half: the secret to write.
LEMMA SecretSteps ==
  ASSUME IInv, NEW p \in Process, serviceSecret(p)
  PROVE  IInv'
<1>1. /\ At(p, "secret") /\ Running(p) /\ IsRun(proc[p])
      /\ Place(proc[p].at) = 20 /\ kc \in KC /\ UNCHANGED <<db, disk, loose>>
  BY AtFacts, PlaceOf DEF serviceSecret, IInv, TypeOK
<1>2. PICK k, secret :
        /\ k = IF proc[p].rotate THEN regenerateClientSecret ELSE kc
        /\ secret = IF proc[p].rotate \/ proc[p].env = None THEN k.secret ELSE proc[p].env
  OBVIOUS
<1>3. k \in KC /\ SameBut(k, {"secret"})
  BY <1>1, <1>2, RealmWrites DEF SameBut
<1>4. \/ /\ kc' = k /\ proc' = [proc EXCEPT ![p].seen = secret]
         /\ UNCHANGED <<lock, report>>
      \/ kc' \in {kc, k} /\ Fail(p)
  BY <1>2 DEF serviceSecret
<1>5. kc' \in KC /\ SameBut(kc', {"secret"})
  BY <1>1, <1>3, <1>4 DEF SameBut
<1>6. Stored /\ FlowStep
  BY <1>1, <1>5, FlowKept DEF Stored, SameBut, IInv, TypeOK
<1>7. CASE Fail(p)
  BY <1>1, <1>6, <1>7, StopSteps
<1>8. CASE kc' = k /\ proc' = [proc EXCEPT ![p].seen = secret] /\ UNCHANGED <<lock, report>>
  <2>1. secret = IF proc[p].env = None THEN kc'.secret ELSE proc[p].env
    BY <1>1, <1>2, <1>8 DEF IsRun
  <2>2. secret \in Nat
    BY <1>1, <1>3, <1>8, <2>1 DEF IsRun, KC
  <2>3. PICK n \in 7..20 : n = 20
    OBVIOUS
  <2>4. SeenTrue(n, secret)'
    BY <2>3 DEF SeenTrue
  <2>5. n = Place(proc[p].at) /\ n # 18 /\ n \notin {15, 16}
    BY <1>1, <2>3
  <2> QED BY <1>1, <1>5, <1>6, <1>8, <2>1, <2>2, <2>4, <2>5, SawSteps
<1> QED BY <1>4, <1>7, <1>8

\* writeServiceSecrets, second half: the file.
LEMMA SecretFileSteps ==
  ASSUME IInv, NEW p \in Process, writeServiceSecrets(p)
  PROVE  IInv'
<1>1. /\ At(p, "secret") /\ HasRead(p) /\ Running(p) /\ IsRun(proc[p])
      /\ Place(proc[p].at) = 20 /\ UNCHANGED <<kc, db, loose>>
  BY AtFacts, PlaceOf DEF writeServiceSecrets, IInv, TypeOK
<1>2. PICK changed \in BOOLEAN : changed <=> proc[p].rotate \/ disk # Seen(p)
  OBVIOUS
<1>3. PICK wrote : wrote = IF changed THEN {"secret"} ELSE {}
  OBVIOUS
<1>4. \/ disk' = Seen(p) /\ MoveOn(p, changed, wrote, None)
      \/ disk' \in {disk, Seen(p)} /\ Fail(p)
  BY <1>2, <1>3 DEF writeServiceSecrets
<1>5. Seen(p) \in Nat
  BY <1>1 DEF IsRun, Seen, HasRead
<1>6. Stored /\ FlowStep
  BY <1>1, <1>4, <1>5, FlowKept DEF Stored, IInv, TypeOK
<1>7. CASE Fail(p)
  BY <1>1, <1>6, <1>7, StopSteps
<1>8. CASE disk' = Seen(p) /\ MoveOn(p, changed, wrote, None)
  <2>1. ASSUME Clean(p) PROVE PartDone(p, 20, changed, wrote)
    <3>1. Seen(p) = TheSecret(proc[p].env) /\ RealmDone(20) /\ DatabaseDone(20)
      BY <1>1, <2>1, CleanFacts
    <3>2. RealmDone(21)' /\ DatabaseDone(21)'
      BY <1>1, <3>1 DEF RealmDone, DatabaseDone
    <3>3. disk' = IF proc[p].env = None THEN kc'.secret ELSE proc[p].env
      BY <1>1, <1>8, <3>1 DEF TheSecret
    <3>4. changed <=> Counted(wrote)
      BY <1>3, CountedPart, CountedEmpty
    <3> QED BY <3>2, <3>3, <3>4 DEF PartDone
  <2> QED BY <1>1, <1>6, <1>8, <2>1, MoveSteps
<1> QED BY <1>4, <1>7, <1>8

\* A part outside the realm step that is done, or fails with or without its effect
\* on the database.
LEMMA DatabaseSteps ==
  ASSUME IInv, NEW p \in Process, Running(p), NEW n \in 1..27 \ 7..20,
         n = Place(proc[p].at), NEW changed \in BOOLEAN, NEW wrote,
         UNCHANGED <<kc, disk, loose>>, db' \in DB,
         Fail(p) \/ MoveOn(p, changed, wrote, None),
         MoveOn(p, changed, wrote, None) => ~Counted(wrote),
         MoveOn(p, changed, wrote, None) /\ DatabaseDone(n) => DatabaseDone(n + 1)'
  PROVE  IInv'
<1>1. Stored /\ FlowStep
  BY FlowKept DEF Stored, IInv, TypeOK
<1>2. CASE Fail(p)
  BY <1>1, <1>2, StopSteps
<1>3. CASE MoveOn(p, changed, wrote, None)
  <2>1. ASSUME Clean(p) PROVE PartDone(p, n, changed, wrote)
    <3>1. RealmDone(n) /\ DatabaseDone(n) /\ (n > 20 => disk = TheSecret(proc[p].env))
      BY <2>1, CleanFacts
    <3>2. RealmDone(n + 1)'
      BY <3>1 DEF RealmDone
    <3>3. n >= 20 => disk' = IF proc[p].env = None THEN kc'.secret ELSE proc[p].env
      BY <3>1 DEF TheSecret
    <3>4. n \notin 7..20
      OBVIOUS
    <3> QED BY <1>3, <3>1, <3>2, <3>3, <3>4 DEF PartDone
  <2>2. n # 16 /\ n # 15
    OBVIOUS
  <2> QED BY <1>1, <1>3, <2>1, <2>2, MoveSteps
<1> QED BY <1>2, <1>3

\* PreflightStep, spotCheckGrantMatrix and VerifyStep only read.
LEMMA CheckSteps ==
  ASSUME IInv, NEW p \in Process, Preflight(p) \/ SpotCheck(p) \/ VerifyStep(p)
  PROVE  IInv'
<1>1. PICK n \in {1, 6, 27} : Running(p) /\ n = Place(proc[p].at)
  BY AtFacts, PlaceOf DEF Preflight, SpotCheck, VerifyStep
<1>2. UNCHANGED <<kc, db, disk, loose>> /\ db' \in DB
  BY DEF Preflight, SpotCheck, VerifyStep, IInv, TypeOK
<1>3. PICK no \in BOOLEAN, none \in {{}} : no = FALSE
  OBVIOUS
<1>4. Fail(p) \/ MoveOn(p, no, none, None)
  BY <1>3 DEF Preflight, SpotCheck, VerifyStep, Converged
<1>5. ~Counted(none)
  BY <1>3, CountedEmpty
<1>6. DatabaseDone(n) => DatabaseDone(n + 1)'
  BY <1>1, <1>2 DEF DatabaseDone
<1>7. n \in 1..27 \ 7..20
  BY <1>1
<1> QED BY <1>1, <1>2, <1>4, <1>5, <1>6, <1>7, DatabaseSteps

\* MigrationsStep, one service.
LEMMA MigrateSteps ==
  ASSUME IInv, NEW p \in Process, NEW i \in DOMAIN MigrationServiceOrder,
         Migrate(p, MigrationServiceOrder[i])
  PROVE  IInv'
<1>1. PICK s : s = MigrationServiceOrder[i]
  OBVIOUS
<1>2. s \in {"registry", "authz", "identity", "org"} /\ At(p, s) /\ Running(p)
  BY <1>1, AtFacts DEF MigrationServiceOrder, Migrate
<1>3. PICK n \in 2..5 : /\ n = Place(proc[p].at)
                        /\ n = 2 <=> s = "registry"
                        /\ n = 3 <=> s = "authz"
                        /\ n = 4 <=> s = "identity"
                        /\ n = 5 <=> s = "org"
  BY <1>2, AtFacts, PlaceOf
<1>4. PICK changed \in BOOLEAN, wrote \in {{s} \ db.schema} :
        changed <=> s \notin db.schema
  OBVIOUS
<1>5. /\ UNCHANGED <<kc, disk, loose>>
      /\ \/ /\ db' = [db EXCEPT !.schema = @ \cup {s}, !.passwords = @ \/ s = "registry"]
            /\ MoveOn(p, changed, wrote, None)
         \/ Fail(p) /\ db' \in {db, [db EXCEPT !.schema = @ \cup {s}]}
  BY <1>1, <1>4 DEF Migrate
<1>6. db \in DB
  BY DEF IInv, TypeOK
<1>7. PICK d, e : /\ d = [db EXCEPT !.schema = @ \cup {s}]
                  /\ e = [db EXCEPT !.schema = @ \cup {s}, !.passwords = @ \/ s = "registry"]
  OBVIOUS
<1>8. /\ d \in DB /\ e \in DB /\ e.schema = db.schema \cup {s}
      /\ e.passwords = (db.passwords \/ s = "registry")
      /\ e.superadmin = db.superadmin /\ e.seeded = db.seeded
  BY <1>2, <1>6, <1>7 DEF DB
<1>9. db' \in DB
  BY <1>5, <1>6, <1>7, <1>8
<1>10. ~Counted(wrote)
  <2>1. ~Counted({s})
    BY <1>2, CountedPart
  <2> QED BY <1>4, <2>1 DEF Counted
<1>11. ASSUME db' = e, DatabaseDone(n) PROVE DatabaseDone(n + 1)'
  <2>0. /\ s \in db'.schema /\ db.schema \subseteq db'.schema
        /\ db.passwords \/ s = "registry" => db'.passwords
    BY <1>8, <1>11
  <2>1. CASE n = 2
    <3>1. s = "registry"
      BY <1>3, <2>1
    <3> QED BY <1>11, <2>0, <2>1, <3>1 DEF DatabaseDone
  <2>2. CASE n = 3
    <3>1. s = "authz"
      BY <1>3, <2>2
    <3> QED BY <1>11, <2>0, <2>2, <3>1 DEF DatabaseDone
  <2>3. CASE n = 4
    <3>1. s = "identity"
      BY <1>3, <2>3
    <3> QED BY <1>11, <2>0, <2>3, <3>1 DEF DatabaseDone
  <2>4. CASE n = 5
    <3>1. s = "org"
      BY <1>3, <2>4
    <3> QED BY <1>11, <2>0, <2>4, <3>1 DEF DatabaseDone
  <2> QED BY <1>3, <2>1, <2>2, <2>3, <2>4
<1>12. CASE db' = e /\ MoveOn(p, changed, wrote, None)
  BY <1>2, <1>3, <1>5, <1>9, <1>10, <1>11, <1>12, DatabaseSteps
<1>13. CASE Fail(p)
  <2>1. Stored /\ FlowStep
    BY <1>5, <1>9, FlowKept DEF Stored, IInv, TypeOK
  <2> QED BY <1>2, <1>13, <2>1, StopSteps
<1> QED BY <1>5, <1>7, <1>12, <1>13

\* SuperadminStep and SeedStep: write once what is missing.
LEMMA OnceSteps ==
  ASSUME IInv, NEW p \in Process, NEW s, NEW there \in BOOLEAN, NEW k \in DB,
         Once(p, s, there, k), NEW n \in 21..26, n = Place(proc[p].at), Running(p),
         ~Counted({s}),
         there /\ DatabaseDone(n) => DatabaseDone(n + 1),
         db' = k /\ DatabaseDone(n) => DatabaseDone(n + 1)'
  PROVE  IInv'
<1>1. UNCHANGED <<kc, disk, loose>> /\ db' \in DB
  BY DEF Once, IInv, TypeOK
<1>2. CASE Fail(p)
  <2>1. Stored /\ FlowStep
    BY <1>1, FlowKept DEF Stored, IInv, TypeOK
  <2> QED BY <1>2, <2>1, StopSteps
<1>3. CASE there /\ Converged(p) /\ db' = db
  <2>1. PICK no \in BOOLEAN, none \in {{}} : no = FALSE
    OBVIOUS
  <2>2. MoveOn(p, no, none, None) /\ ~Counted(none)
    BY <1>3, <2>1, CountedEmpty DEF Converged
  <2>3. DatabaseDone(n) => DatabaseDone(n + 1)'
    BY <1>3 DEF DatabaseDone
  <2> QED BY <1>1, <2>2, <2>3, DatabaseSteps
<1>4. CASE db' = k /\ MoveOn(p, TRUE, {s}, None)
  <2>1. PICK yes \in BOOLEAN : yes = TRUE
    OBVIOUS
  <2>2. MoveOn(p, yes, {s}, None)
    BY <1>4, <2>1
  <2> QED BY <1>1, <1>4, <2>2, DatabaseSteps
<1> QED BY <1>2, <1>3, <1>4 DEF Once

\* SuperadminStep.
LEMMA SuperadminSteps ==
  ASSUME IInv, NEW p \in Process, SuperadminStep(p)
  PROVE  IInv'
<1>1. At(p, "superadmin") /\ Running(p) /\ Place(proc[p].at) = 21 /\ db \in DB
  BY AtFacts, PlaceOf DEF SuperadminStep, Once, IInv, TypeOK
<1>2. PICK k : k = [db EXCEPT !.superadmin = TRUE]
  OBVIOUS
<1>3. /\ k \in DB /\ k.superadmin = TRUE /\ k.schema = db.schema
      /\ k.passwords = db.passwords /\ k.seeded = db.seeded
  BY <1>1, <1>2 DEF DB
<1>4. db.superadmin \in BOOLEAN
  BY <1>1 DEF DB
<1>5. /\ db.superadmin /\ DatabaseDone(21) => DatabaseDone(22)
      /\ db' = k /\ DatabaseDone(21) => DatabaseDone(22)'
  BY <1>3 DEF DatabaseDone
<1>6. Once(p, "superadmin", db.superadmin, k)
  BY <1>2 DEF SuperadminStep
<1> QED BY <1>1, <1>3, <1>4, <1>5, <1>6, CountedPart, OnceSteps

\* SeedStep, one part.
LEMMA SeedSteps ==
  ASSUME IInv, NEW p \in Process, NEW i \in DOMAIN SeedParts, SeedStep(p, SeedParts[i])
  PROVE  IInv'
<1>1. PICK s : s = SeedParts[i]
  OBVIOUS
<1>2. /\ s \in {"modules", "defaultGrants", "mappedUsers", "companyMembers", "anchors"}
      /\ At(p, s) /\ Running(p) /\ db \in DB
  BY <1>1, AtFacts DEF SeedParts, SeedStep, Once, IInv, TypeOK
<1>3. PICK n \in 22..26 : /\ n = Place(proc[p].at)
                          /\ n = 22 <=> s = "modules"
                          /\ n = 23 <=> s = "defaultGrants"
                          /\ n = 24 <=> s = "mappedUsers"
                          /\ n = 25 <=> s = "companyMembers"
                          /\ n = 26 <=> s = "anchors"
  BY <1>2, AtFacts, PlaceOf
<1>a. (s \in db.seeded) \in BOOLEAN
  OBVIOUS
<1>b. PICK there \in BOOLEAN : there = (s \in db.seeded)
  BY <1>a, Zenon
<1>4. PICK k : k = [db EXCEPT !.seeded = @ \cup {s}]
  OBVIOUS
<1>5. /\ k \in DB /\ k.superadmin = db.superadmin /\ k.schema = db.schema
      /\ k.passwords = db.passwords /\ k.seeded = db.seeded \cup {s}
  BY <1>2, <1>4 DEF DB
<1>6. /\ there /\ DatabaseDone(n) => DatabaseDone(n + 1)
      /\ db' = k /\ DatabaseDone(n) => DatabaseDone(n + 1)'
  <2>0. /\ there => s \in db.seeded
        /\ db' = k => /\ s \in db'.seeded /\ db.seeded \subseteq db'.seeded
                      /\ db'.schema = db.schema /\ db'.passwords = db.passwords
                      /\ db'.superadmin = db.superadmin
    BY <1>5, <1>b
  <2>1. CASE n = 22
    <3>1. s = "modules"
      BY <1>3, <2>1
    <3> QED BY <2>0, <2>1, <3>1 DEF DatabaseDone
  <2>2. CASE n = 23
    <3>1. s = "defaultGrants"
      BY <1>3, <2>2
    <3> QED BY <2>0, <2>2, <3>1 DEF DatabaseDone
  <2>3. CASE n = 24
    <3>1. s = "mappedUsers"
      BY <1>3, <2>3
    <3> QED BY <2>0, <2>3, <3>1 DEF DatabaseDone
  <2>4. CASE n = 25
    <3>1. s = "companyMembers"
      BY <1>3, <2>4
    <3> QED BY <2>0, <2>4, <3>1 DEF DatabaseDone
  <2>5. CASE n = 26
    <3>1. s = "anchors"
      BY <1>3, <2>5
    <3> QED BY <2>0, <2>5, <3>1 DEF DatabaseDone
  <2> QED BY <1>3, <2>1, <2>2, <2>3, <2>4, <2>5
<1>7. Once(p, s, there, k) /\ ~Counted({s})
  BY <1>1, <1>2, <1>4, <1>b, CountedPart DEF SeedStep
<1>8. n \in 21..26
  BY <1>3
<1> QED BY <1>2, <1>3, <1>5, <1>6, <1>7, <1>8, OnceSteps

-------------------------------------------------------------------------------
(* The runner, and the administrator. *)

\* A run begins: it is followed only if nothing else runs.
LEMMA BeginSteps ==
  ASSUME IInv, NEW p \in Process, NEW rotate \in BOOLEAN, NEW env \in {None, 1},
         rotate => env = None, WithAdvisoryLock(p, rotate, env)
  PROVE  IInv'
<1>1. TypeOK /\ Exclusive /\ RequiredBeforeBound
      /\ \A q \in Process : CleanInv(q) /\ FlowInv(q)
  BY DEF IInv
<1>2. PICK alone \in BOOLEAN : alone <=> \A q \in Process : ~Running(q)
  OBVIOUS
<1>3. PICK r : r = [at |-> <<1, 1>>, seen |-> None, applied |-> FALSE, results |-> <<>>,
                    rotate |-> rotate, env |-> env, wrote |-> {}, clean |-> alone]
  OBVIOUS
<1>4. /\ lock = None /\ lock' = p /\ report' = None /\ UNCHANGED <<kc, db, disk, loose>>
      /\ proc' = [proc EXCEPT ![p] = r]
  BY <1>2, <1>3 DEF WithAdvisoryLock
<1>5. DOMAIN proc' = Process /\ proc'[p] = r /\ \A q \in Process \ {p} : proc'[q] = proc[q]
  BY <1>1, <1>4 DEF TypeOK
<1>6. Valid(<<1, 1>>) /\ Place(<<1, 1>>) = 1
  <2>1. PICK at : at = <<1, 1>>
    OBVIOUS
  <2>2. at[1] = 1 /\ at[2] = 1 /\ at \in Position
    BY <2>1 DEF Position
  <2>3. Valid(at)
    BY <2>2, StepLengths DEF Valid
  <2>4. Place(at) = 1
    BY <2>2 DEF Place
  <2> QED BY <2>1, <2>3, <2>4
<1>7. /\ r.at = <<1, 1>> /\ r.seen = None /\ r.applied = FALSE /\ r.results = <<>>
      /\ r.rotate = rotate /\ r.env = env /\ r.wrote = {} /\ r.clean = alone
  BY <1>3
<1>8. IsRun(r)
  BY <1>3, <1>6, <1>7 DEF IsRun
<1>9. \A q \in Process : ~Clean(q)
  BY <1>1, <1>4, BootstrapAssumption DEF Exclusive
<1>10. \A q \in Process \ {p} : (Running(q)' => Running(q)) /\ ~Clean(q)'
  BY <1>5, <1>9 DEF Running, Clean
<1>11. TypeOK'
  <2>1. \A q \in Process : Running(q)' => IsRun(proc'[q])
    BY <1>1, <1>4, <1>5, <1>8, <1>10 DEF TypeOK
  <2> QED BY <1>1, <1>4, <1>5, <2>1 DEF TypeOK
<1>12. Exclusive'
  <2>1. Clean(p)' => \A q \in Process \ {p} : ~Running(q)'
    BY <1>2, <1>5, <1>7, <1>10 DEF Clean
  <2> QED BY <1>4, <1>10, <2>1 DEF Exclusive
<1>13. Place(proc[p].at)' = 1 /\ ~HasRead(p)'
  BY <1>5, <1>6, <1>7 DEF HasRead, Seen
<1>14. CleanInv(p)' /\ FlowInv(p)'
  <2>1. RealmDone(1)' /\ DatabaseDone(1)'
    BY DEF RealmDone, DatabaseDone
  <2>2. CountTrue(r)
    <3>1. r.at[1] = 1 /\ r.at[2] = 1 /\ Len(r.results) = 0 /\ ~Counted(r.wrote)
      BY <1>7, CountedEmpty
    <3> QED BY <1>7, <3>1 DEF CountTrue
  <2>3. CountTrue(proc[p])'
    BY <1>5, <2>2 DEF CountTrue
  <2> QED BY <1>13, <2>1, <2>3 DEF CleanInv, FlowInv
<1>15. \A q \in Process \ {p} : CleanInv(q)' /\ FlowInv(q)'
  BY <1>1, <1>4, <1>5, <1>10 DEF CleanInv, FlowInv, Seen, HasRead, RequiredOrLoose
<1>16. RequiredBeforeBound' /\ ReportIsTrue'
  BY <1>1, <1>4 DEF RequiredBeforeBound, ReportIsTrue
<1>17. \A q \in Process : CleanInv(q)' /\ FlowInv(q)'
  BY <1>14, <1>15
<1> QED BY <1>11, <1>12, <1>16, <1>17 DEF IInv

\* A run that is no longer followed.
LEMMA DisturbedFacts ==
  ASSUME NEW r, IsRun(r), NEW m, m = Disturbed(r)
  PROVE  /\ IsRun(m) /\ m.clean = FALSE
         /\ m.at = r.at /\ m.seen = r.seen
<1>1. r = [at |-> r.at, seen |-> r.seen, applied |-> r.applied, results |-> r.results,
           rotate |-> r.rotate, env |-> r.env, wrote |-> r.wrote, clean |-> r.clean]
  BY DEF IsRun
<1>2. /\ m = [at |-> m.at, seen |-> m.seen, applied |-> m.applied, results |-> m.results,
              rotate |-> m.rotate, env |-> m.env, wrote |-> m.wrote, clean |-> m.clean]
      /\ m.at = r.at /\ m.seen = r.seen /\ m.applied = FALSE /\ m.results = <<>>
      /\ m.rotate = r.rotate /\ m.env = r.env /\ m.clean = FALSE
  BY <1>1 DEF Disturbed
<1>3. <<>> \in Seq({"applied", "converged"})
  OBVIOUS
<1>4. /\ Valid(m.at) /\ m.applied \in BOOLEAN /\ m.clean \in BOOLEAN /\ m.rotate \in BOOLEAN
      /\ m.env \in {None, 1} /\ (m.rotate => m.env = None)
      /\ (m.seen # None /\ Place(m.at) = 18 => m.seen \in SUBSET Attr)
      /\ (m.seen # None /\ Place(m.at) = 20 => m.seen \in Nat)
  BY <1>2 DEF IsRun
<1>5. m.results \in Seq({"applied", "converged"})
  BY <1>2, <1>3
<1>6. IsRun(m)
  BY <1>2, <1>4, <1>5 DEF IsRun
<1> QED BY <1>2, <1>6

\* The session that holds the lock is lost.
LEMMA LoseLockSteps ==
  ASSUME IInv, NEW p \in Process, LoseLock(p)
  PROVE  IInv'
<1>1. TypeOK /\ Exclusive /\ RequiredBeforeBound /\ ReportIsTrue
      /\ \A q \in Process : CleanInv(q) /\ FlowInv(q)
  BY DEF IInv
<1>2. PICK m : m = Disturbed(proc[p])
  OBVIOUS
<1>3. /\ Running(p) /\ lock = p /\ lock' = None /\ proc' = [proc EXCEPT ![p] = m]
      /\ UNCHANGED <<kc, db, disk, report, loose>>
  BY <1>2 DEF LoseLock
<1>4. DOMAIN proc' = Process /\ proc'[p] = m /\ \A q \in Process \ {p} : proc'[q] = proc[q]
  BY <1>1, <1>3 DEF TypeOK
<1>5. IsRun(m) /\ m.clean = FALSE /\ m.at = proc[p].at /\ m.seen = proc[p].seen
  BY <1>1, <1>2, <1>3, DisturbedFacts DEF TypeOK
<1>6. \A q \in Process : ~Clean(q)' /\ (Running(q)' => Running(q))
  BY <1>1, <1>3, <1>4, <1>5 DEF Clean, Running, Exclusive
<1>7. TypeOK'
  <2>1. \A q \in Process : Running(q)' => IsRun(proc'[q])
    BY <1>1, <1>4, <1>5, <1>6 DEF TypeOK
  <2> QED BY <1>1, <1>3, <1>4, <2>1 DEF TypeOK
<1>8. Exclusive'
  BY <1>1, <1>3, <1>6 DEF Exclusive
<1>9. \A q \in Process : CleanInv(q)' /\ FlowInv(q)'
  <2> TAKE q \in Process
  <2>1. proc'[q].at = proc[q].at /\ proc'[q].seen = proc[q].seen
    BY <1>4, <1>5
  <2>2. FlowInv(q)'
    BY <1>1, <1>3, <1>6, <2>1 DEF FlowInv, Seen, HasRead, RequiredOrLoose
  <2> QED BY <1>6, <2>2 DEF CleanInv
<1>10. report = None
  BY <1>1, <1>3 DEF Exclusive
<1>11. RequiredBeforeBound' /\ ReportIsTrue'
  BY <1>1, <1>3, <1>10 DEF RequiredBeforeBound, ReportIsTrue
<1> QED BY <1>7, <1>8, <1>9, <1>11 DEF IInv

\* What an administrator does to the realm: it stays a realm, and nobody but
\* bootstrap binds the flow.
LEMMA DriftedFacts ==
  ASSUME kc \in KC, NEW k \in Drifted
  PROVE  k \in KC /\ (k.bound => kc.bound)
<1>0. PICK cl \in [Client -> {"right", "wrong", "absent"}],
            ma \in [Client -> {"none", "api", "other"}] : cl = kc.client /\ ma = kc.mapper
  BY DEF KC
<1>a. ASSUME NEW c2 \in [Client -> {"right", "wrong", "absent"}],
             k = [kc EXCEPT !.client = c2]
      PROVE  k \in KC /\ (k.bound => kc.bound)
  BY <1>a DEF KC
<1>b. ASSUME NEW m2 \in [Client -> {"none", "api", "other"}],
             k = [kc EXCEPT !.mapper = m2]
      PROVE  k \in KC /\ (k.bound => kc.bound)
  BY <1>b DEF KC
<1>c. ASSUME NEW c2 \in [Client -> {"right", "wrong", "absent"}],
             NEW m2 \in [Client -> {"none", "api", "other"}],
             k = [kc EXCEPT !.client = c2, !.mapper = m2]
      PROVE  k \in KC /\ (k.bound => kc.bound)
  BY <1>c DEF KC
<1>2. ASSUME k \in {[kc EXCEPT !.client["api"] = "wrong"],
                    [kc EXCEPT !.client["frontend"] = "wrong"],
                    [kc EXCEPT !.client["service"] = "absent", !.mapper["service"] = "none"],
                    [kc EXCEPT !.mapper["frontend"] = "other"]}
      PROVE  k \in KC /\ (k.bound => kc.bound)
  <2>1. /\ [cl EXCEPT !["api"] = "wrong"] \in [Client -> {"right", "wrong", "absent"}]
        /\ [cl EXCEPT !["frontend"] = "wrong"] \in [Client -> {"right", "wrong", "absent"}]
        /\ [cl EXCEPT !["service"] = "absent"] \in [Client -> {"right", "wrong", "absent"}]
        /\ [ma EXCEPT !["service"] = "none"] \in [Client -> {"none", "api", "other"}]
        /\ [ma EXCEPT !["frontend"] = "other"] \in [Client -> {"none", "api", "other"}]
    OBVIOUS
  <2>2. CASE k = [kc EXCEPT !.client = [cl EXCEPT !["api"] = "wrong"]]
    BY <1>a, <2>1, <2>2
  <2>3. CASE k = [kc EXCEPT !.client = [cl EXCEPT !["frontend"] = "wrong"]]
    BY <1>a, <2>1, <2>3
  <2>4. CASE k = [kc EXCEPT !.client = [cl EXCEPT !["service"] = "absent"],
                            !.mapper = [ma EXCEPT !["service"] = "none"]]
    BY <1>c, <2>1, <2>4
  <2>5. CASE k = [kc EXCEPT !.mapper = [ma EXCEPT !["frontend"] = "other"]]
    BY <1>b, <2>1, <2>5
  <2>6. \/ k = [kc EXCEPT !.client = [kc.client EXCEPT !["api"] = "wrong"]]
        \/ k = [kc EXCEPT !.client = [kc.client EXCEPT !["frontend"] = "wrong"]]
        \/ k = [kc EXCEPT !.client = [kc.client EXCEPT !["service"] = "absent"],
                          !.mapper = [kc.mapper EXCEPT !["service"] = "none"]]
        \/ k = [kc EXCEPT !.mapper = [kc.mapper EXCEPT !["frontend"] = "other"]]
    <3>1. CASE k = [kc EXCEPT !.client["api"] = "wrong"]
      BY <3>1
    <3>2. CASE k = [kc EXCEPT !.client["frontend"] = "wrong"]
      BY <3>2
    <3>3. CASE k = [kc EXCEPT !.client["service"] = "absent", !.mapper["service"] = "none"]
      BY <3>3 DEF KC
    <3>4. CASE k = [kc EXCEPT !.mapper["frontend"] = "other"]
      BY <3>4
    <3> QED BY <1>2, <3>1, <3>2, <3>3, <3>4
  <2> QED BY <1>0, <2>2, <2>3, <2>4, <2>5, <2>6
<1>3. ASSUME k \in {[kc EXCEPT !.settings = "other"], [kc EXCEPT !.bound = FALSE],
                    [kc EXCEPT !.profile = {}], [kc EXCEPT !.foreign = ~@],
                    regenerateClientSecret}
      PROVE  k \in KC /\ (k.bound => kc.bound)
  <2>1. CASE k = [kc EXCEPT !.settings = "other"]
    BY <2>1 DEF KC
  <2>2. CASE k = [kc EXCEPT !.bound = FALSE]
    BY <2>2 DEF KC
  <2>3. CASE k = [kc EXCEPT !.profile = {}]
    BY <2>3 DEF KC
  <2>4. CASE k = [kc EXCEPT !.foreign = ~@]
    <3>1. PICK f \in BOOLEAN : f = ~kc.foreign
      BY Zenon
    <3>2. k = [kc EXCEPT !.foreign = f]
      BY <2>4, <3>1
    <3> QED BY <3>2 DEF KC
  <2>5. CASE k = regenerateClientSecret
    <3>1. PICK n \in Nat : n = kc.secret + 1
      BY DEF KC
    <3>2. k = [kc EXCEPT !.secret = n]
      BY <2>5, <3>1 DEF regenerateClientSecret
    <3> QED BY <3>2 DEF KC
  <2> QED BY <1>3, <2>1, <2>2, <2>3, <2>4, <2>5
<1>4. ASSUME NEW b \in Flow, k = [kc EXCEPT !.browser = b]
      PROVE  k \in KC /\ (k.bound => kc.bound)
  BY <1>4 DEF KC
<1>5. ASSUME NEW ro \in SUBSET (Right \cup Other), k = [kc EXCEPT !.roles = ro]
      PROVE  k \in KC /\ (k.bound => kc.bound)
  BY <1>5 DEF KC
<1>6. ASSUME NEW d \in {"copied", "DISABLED"}, k = [kc EXCEPT !.direct = d]
      PROVE  k \in KC /\ (k.bound => kc.bound)
  BY <1>6 DEF KC
<1>7. ASSUME k \in {[kc EXCEPT !.roles = @ \cup {r}] : r \in Other}
      PROVE  k \in KC /\ (k.bound => kc.bound)
  <2>1. PICK r \in Other : k = [kc EXCEPT !.roles = kc.roles \cup {r}]
    BY <1>7
  <2>2. kc.roles \cup {r} \in SUBSET (Right \cup Other)
    BY DEF KC
  <2> QED BY <1>5, <2>1, <2>2
<1>8. ASSUME k \in {[kc EXCEPT !.roles = @ \ {r}] : r \in Right \cup Other}
      PROVE  k \in KC /\ (k.bound => kc.bound)
  <2>1. PICK r \in Right \cup Other : k = [kc EXCEPT !.roles = kc.roles \ {r}]
    BY <1>8
  <2>2. kc.roles \ {r} \in SUBSET (Right \cup Other)
    BY DEF KC
  <2> QED BY <1>5, <2>1, <2>2
<1>9. ASSUME k \in {[kc EXCEPT !.direct = d] : d \in
                      CASE kc.direct = "REQUIRED" -> {"copied", "DISABLED"}
                        [] kc.direct = "DISABLED" -> {"copied"}
                        [] OTHER -> {}}
      PROVE  k \in KC /\ (k.bound => kc.bound)
  <2>1. PICK d \in {"copied", "DISABLED"} : k = [kc EXCEPT !.direct = d]
    BY <1>9
  <2> QED BY <1>6, <2>1
<1> QED BY <1>2, <1>3, <1>4, <1>7, <1>8, <1>9 DEF Drifted

\* Somebody changes the realm: no run is followed any more.
LEMMA DriftSteps ==
  ASSUME IInv, Drift
  PROVE  IInv'
<1>1. TypeOK /\ Exclusive /\ RequiredBeforeBound
      /\ \A q \in Process : CleanInv(q) /\ FlowInv(q)
  BY DEF IInv
<1>2. kc \in KC
  BY <1>1 DEF TypeOK
<1>3. kc' \in KC /\ (kc'.bound => kc.bound)
  BY <1>2, DriftedFacts DEF Drift
<1>4. /\ report' = None /\ UNCHANGED <<db, disk, lock>>
      /\ DOMAIN proc' = Process
      /\ \A q \in Process : proc'[q] = IF Running(q) THEN Disturbed(proc[q]) ELSE None
  BY DEF Drift
<1>5. \A q \in Process : Running(q)' =>
        /\ Running(q) /\ IsRun(proc'[q]) /\ proc'[q].clean = FALSE
        /\ proc'[q].at = proc[q].at /\ proc'[q].seen = proc[q].seen
  <2> SUFFICES ASSUME NEW q \in Process, Running(q)'
               PROVE  /\ Running(q) /\ IsRun(proc'[q]) /\ proc'[q].clean = FALSE
                      /\ proc'[q].at = proc[q].at /\ proc'[q].seen = proc[q].seen
    OBVIOUS
  <2>1. Running(q) /\ proc'[q] = Disturbed(proc[q])
    BY <1>4 DEF Running
  <2>2. IsRun(proc[q])
    BY <1>1, <2>1 DEF TypeOK
  <2> QED BY <2>1, <2>2, DisturbedFacts
<1>6. loose' \in BOOLEAN /\ (loose' \/ (~loose /\ kc'.direct = kc.direct))
  <2>1. (loose \/ kc'.direct # kc.direct) \in BOOLEAN
    OBVIOUS
  <2>2. loose' = (loose \/ kc'.direct # kc.direct)
    BY DEF Drift
  <2> QED BY <2>1, <2>2, Zenon
<1>7. TypeOK'
  BY <1>1, <1>3, <1>4, <1>5, <1>6 DEF TypeOK
<1>8. \A q \in Process : ~Clean(q)'
  BY <1>5 DEF Clean
<1>9. Exclusive'
  BY <1>4, <1>8 DEF Exclusive
<1>10. RequiredOrLoose => RequiredOrLoose'
  BY <1>6 DEF RequiredOrLoose
<1>11. \A q \in Process : CleanInv(q)' /\ FlowInv(q)'
  <2> TAKE q \in Process
  <2>1. FlowInv(q)'
    BY <1>1, <1>5, <1>10 DEF FlowInv, Seen, HasRead
  <2> QED BY <1>8, <2>1 DEF CleanInv
<1>12. RequiredBeforeBound' /\ ReportIsTrue'
  BY <1>1, <1>3, <1>4, <1>6 DEF RequiredBeforeBound, ReportIsTrue
<1> QED BY <1>7, <1>9, <1>11, <1>12 DEF IInv

\* A crash.
LEMMA CrashSteps ==
  ASSUME IInv, NEW p \in Process, Crash(p)
  PROVE  IInv'
BY FailSteps DEF Crash

\* The imported realm.
LEMMA InitInv ==
  Init => IInv
<1> SUFFICES ASSUME Init PROVE IInv
  OBVIOUS
<1>1. kc \in KC /\ ~kc.bound
  BY BootstrapAssumption DEF Init, KC, Client
<1>2. db \in DB
  BY DEF Init, DB
<1>3. \A p \in Process : ~Running(p) /\ lock # p
  BY BootstrapAssumption DEF Init, Running
<1>4. TypeOK
  BY <1>1, <1>2, <1>3 DEF Init, TypeOK
<1>5. \A p \in Process : ~Clean(p)
  BY <1>3 DEF Clean
<1>6. Exclusive
  BY <1>3, <1>5 DEF Exclusive
<1>7. ReportIsTrue
  BY DEF Init, ReportIsTrue
<1> QED BY <1>1, <1>3, <1>4, <1>6, <1>7 DEF IInv, CleanInv, FlowInv, Clean, RequiredBeforeBound

\* Every part of the realm step keeps the invariant.
LEMMA ReconcileSteps ==
  ASSUME IInv, NEW p \in Process, Reconcile(p)
  PROVE  IInv'
<1>1. CASE \E s \in DOMAIN View : Read(p, s)
  BY <1>1, ReadSteps
<1>2. CASE reconcileRealmSettings(p)
  BY <1>2, SettingsSteps
<1>3. CASE reconcileBearerOnlyClient(p) \/ reconcileFrontendClient(p)
             \/ reconcileServiceClient(p)
  <2>1. PICK c \in Client : reconcileClient(p, c)
    BY <1>3 DEF Client, reconcileBearerOnlyClient, reconcileFrontendClient,
                reconcileServiceClient
  <2> QED BY <2>1, ClientSteps
<1>4. CASE \E s \in {"frontendMapper", "serviceMapper"} : reconcileAudienceMapper(p, s)
  BY <1>4, MapperSteps
<1>5. CASE verifyMFAFlowWiring(p)
  BY <1>5, BrowserSteps
<1>6. CASE directGrantCopy(p)
  BY <1>6, CopySteps
<1>7. CASE directGrantAdd(p)
  BY <1>7, AddSteps
<1>8. CASE directGrantRequire(p)
  BY <1>8, RequireSteps
<1>9. CASE directGrantBind(p)
  BY <1>9, BindSteps
<1>10. CASE reconcileUserProfileAttributes(p)
  BY <1>10, ProfileSteps
<1>11. CASE verifyIdentityServiceRolesExact(p)
  BY <1>11, RolesSteps
<1>12. CASE serviceSecret(p)
  BY <1>12, SecretSteps
<1>13. CASE writeServiceSecrets(p)
  BY <1>13, SecretFileSteps
<1> QED
  BY <1>1, <1>2, <1>3, <1>4, <1>5, <1>6, <1>7, <1>8, <1>9, <1>10, <1>11, <1>12, <1>13
     DEF Reconcile

\* Every step of the specification keeps the invariant.
LEMMA NextInv ==
  IInv /\ [Next]_vars => IInv'
<1> SUFFICES ASSUME IInv, [Next]_vars PROVE IInv'
  OBVIOUS
<1>1. CASE Drift
  BY <1>1, DriftSteps
<1>2. ASSUME NEW p \in Process, WithAdvisoryLock(p, TRUE, None) PROVE IInv'
  BY <1>2, BeginSteps
<1>3. ASSUME NEW p \in Process, NEW env \in {None, 1}, WithAdvisoryLock(p, FALSE, env)
      PROVE  IInv'
  BY <1>3, BeginSteps
<1>4. ASSUME NEW p \in Process, Crash(p) PROVE IInv'
  BY <1>4, CrashSteps
<1>5. ASSUME NEW p \in Process, LoseLock(p) PROVE IInv'
  BY <1>5, LoseLockSteps
<1>6. ASSUME NEW p \in Process, Preflight(p) \/ SpotCheck(p) \/ VerifyStep(p) PROVE IInv'
  BY <1>6, CheckSteps
<1>7. ASSUME NEW p \in Process, NEW i \in DOMAIN MigrationServiceOrder,
             Migrate(p, MigrationServiceOrder[i])
      PROVE  IInv'
  BY <1>7, MigrateSteps
<1>8. ASSUME NEW p \in Process, Reconcile(p) PROVE IInv'
  BY <1>8, ReconcileSteps
<1>9. ASSUME NEW p \in Process, SuperadminStep(p) PROVE IInv'
  BY <1>9, SuperadminSteps
<1>10. ASSUME NEW p \in Process, NEW i \in DOMAIN SeedParts, SeedStep(p, SeedParts[i])
       PROVE  IInv'
  BY <1>10, SeedSteps
<1>11. CASE UNCHANGED vars
  <2>1. /\ kc' = kc /\ db' = db /\ disk' = disk /\ lock' = lock /\ proc' = proc
        /\ report' = report /\ loose' = loose
    BY <1>11 DEF vars
  <2>2. TypeOK' /\ Exclusive'
    BY <2>1 DEF IInv, TypeOK, Exclusive, Clean, Running
  <2>3. RequiredBeforeBound' /\ ReportIsTrue'
    BY <2>1 DEF IInv, RequiredBeforeBound, ReportIsTrue, Reached
  <2>4. ASSUME NEW q \in Process PROVE CleanInv(q)' /\ FlowInv(q)'
    <3>1. CleanInv(q) /\ FlowInv(q)
      BY DEF IInv
    <3>2. FlowInv(q)'
      BY <2>1, <3>1 DEF FlowInv, Running, HasRead, Seen, RequiredOrLoose
    <3>3. CleanInv(q)'
      BY <2>1, <3>1 DEF CleanInv, Clean, Running, HasRead, Seen, SeenTrue, TheSecret,
                        RealmDone, DatabaseDone
    <3> QED BY <3>2, <3>3
  <2> QED BY <2>2, <2>3, <2>4 DEF IInv
<1> QED
  BY <1>1, <1>2, <1>3, <1>4, <1>5, <1>6, <1>7, <1>8, <1>9, <1>10, <1>11 DEF Next

-------------------------------------------------------------------------------
(* The theorems. *)

\* The inductive invariant: a run that is followed is alone, behind it every part
\* is at its target, before it what it read still holds, and its results tell what
\* it wrote; any run that is about to bind the direct-grant flow binds one that
\* requires the authenticator.
THEOREM Invariant == Spec => []IInv
<1>1. Init => IInv
  BY InitInv
<1>2. IInv /\ [Next]_vars => IInv'
  BY NextInv
<1> QED BY <1>1, <1>2, PTL DEF Spec

\* The realm, the database, the secret file and every run are well-formed: a run is
\* always at a part of Steps, and what it read is of that part's type.
THEOREM TypeCorrect == Spec => []TypeOK
<1>1. IInv => TypeOK
  BY DEF IInv
<1> QED BY <1>1, Invariant, PTL

\* Runner.Run's report: a run that ends without failing, alone and undisturbed, has
\* reached the target whatever earlier runs left half done, has left the right secret
\* on the volume, and says "applied" of its realm step exactly when that step wrote
\* something it counts.
THEOREM ReportTrue == Spec => []ReportIsTrue
<1>1. IInv => ReportIsTrue
  BY DEF IInv
<1> QED BY <1>1, Invariant, PTL

\* reconcileDirectGrantFlow: the flow that is bound requires the MFA authenticator,
\* wherever a run stopped and whatever runs overlap, unless an administrator
\* loosened it.
THEOREM RequiredFirst == Spec => []RequiredBeforeBound
<1>1. IInv => RequiredBeforeBound
  BY DEF IInv
<1> QED BY <1>1, Invariant, PTL

===============================================================================
