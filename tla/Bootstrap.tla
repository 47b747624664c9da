------------------------------ MODULE Bootstrap ------------------------------
(***************************************************************************)
(* kiban-bootstrap: the runner and its ordered steps (internal/bootstrap).   *)
(* A run holds one advisory lock and takes the steps in order: preflight,    *)
(* migrations, the reconciliation of the Keycloak realm, the one-time        *)
(* superadmin, the seed and the verification.  Every admin call to Keycloak  *)
(* is a step of its own: it may fail, or take effect and lose its answer;    *)
(* a run may crash between any two, its database session may die and the     *)
(* lock with it, and an administrator may change the realm meanwhile.        *)
(*                                                                           *)
(* Keycloak is external.  A client is "right" when every field that bootstrap*)
(* manages has its target value.  How the superadmin and the seeded rows come*)
(* about is the subject of PlatformRole, Tenancy, OrgMembers and OrgPositions;*)
(* here they are there or not.                                               *)
(***************************************************************************)
EXTENDS Naturals, Sequences, FiniteSets

CONSTANTS
    Process,        \* bootstrap containers started by compose, a job or an operator
    None,
    Right,          \* identityServiceRoles
    Other,          \* realm-management roles beyond them
    Attr,           \* userProfileManagedAttributes
    Flow,           \* layouts of the browser flow, as sets of executions
    ImportedFlow,   \* the one of realm-kiban.json
    MaxRuns, MaxFaults

ASSUME BootstrapAssumption ==
    /\ ImportedFlow \in Flow /\ None \notin Flow
    /\ None \notin Process
    /\ MaxRuns \in Nat /\ MaxFaults \in Nat

VARIABLES
    kc,         \* the realm
    db,         \* what migrations, superadmin and seed wrote
    disk,       \* keycloak-identity-client-secret on the shared volume
    lock,       \* pg_advisory_lock
    proc,       \* the runs
    report,     \* what the last run said, until anybody touches anything
    loose,      \* an administrator loosened the direct-grant flow since it was set
    runs, faults

vars == <<kc, db, disk, lock, proc, report, loose, runs, faults>>

Client == {"api", "frontend", "service"}

\* MigrationServiceOrder.
MigrationServiceOrder == <<"registry", "authz", "identity", "org">>

\* SeedStep: the registry's rows, the default grants and the three backfills.
SeedParts == <<"modules", "defaultGrants", "mappedUsers", "companyMembers", "anchors">>

\* The whitelisted settings of realm.go, as a whole.
realmTargetSettings == "target"

\* Faulty variant: the direct-grant flow is bound before it is complete.
StepsBindFirst ==
    << <<"preflight">>,
       MigrationServiceOrder \o <<"grants">>,
       <<"settings", "api", "frontend", "frontendMapper", "service", "serviceMapper",
         "browser", "flow", "bind", "execution", "required", "profile", "roles", "secret">>,
       <<"superadmin">>, SeedParts, <<"verify">> >>

\* The steps of main.go, each with its parts in their order.
Steps ==
    << <<"preflight">>,
       MigrationServiceOrder \o <<"grants">>,
       <<"settings", "api", "frontend", "frontendMapper", "service", "serviceMapper",
         "browser", "flow", "execution", "required", "bind", "profile", "roles", "secret">>,
       <<"superadmin">>, SeedParts, <<"verify">> >>

Realm == 3

Init ==
    /\ kc = [settings |-> "other", bound |-> FALSE, direct |-> "absent",
             client |-> [api |-> "right", frontend |-> "right", service |-> "absent"],
             mapper |-> [api |-> "none", frontend |-> "api", service |-> "none"],
             browser |-> ImportedFlow, profile |-> {}, roles |-> {}, foreign |-> FALSE,
             secret |-> 1]
    /\ db = [schema |-> {}, passwords |-> FALSE, superadmin |-> FALSE, seeded |-> {}]
    /\ disk = None /\ lock = None /\ report = None /\ loose = FALSE
    /\ proc = [p \in Process |-> None]
    /\ runs = 0 /\ faults = 0

-------------------------------------------------------------------------------
(* The runner. *)

Running(p) == proc[p] # None
At(p, s) == Running(p) /\ Steps[proc[p].at[1]][proc[p].at[2]] = s
Seen(p) == proc[p].seen
HasRead(p) == Seen(p) # None

Fault == faults < MaxFaults /\ faults' = faults + 1
Smooth == UNCHANGED faults

\* WithAdvisoryLock: a run begins when nobody holds the lock.  Its flags are
\* --rotate-secrets and the secret the environment gives it.
WithAdvisoryLock(p, rotate, env) ==
    /\ ~Running(p) /\ lock = None /\ runs < MaxRuns
    /\ lock' = p /\ runs' = runs + 1 /\ report' = None
    /\ proc' = [proc EXCEPT ![p] =
                  [at |-> <<1, 1>>, seen |-> None, applied |-> FALSE, results |-> <<>>,
                   rotate |-> rotate, env |-> env, wrote |-> {},
                   clean |-> \A q \in Process : ~Running(q)]]
    /\ UNCHANGED <<kc, db, disk, loose, faults>>

\* The deferred unlock, and the end of the session that held the lock.
Unlock(p) == lock' = IF lock = p THEN None ELSE lock

\* A run whose report is no longer followed.
Disturbed(r) == [r EXCEPT !.clean = FALSE, !.wrote = {}, !.applied = FALSE, !.results = <<>>]

Outcome(r, changed) == IF r.applied \/ changed THEN "applied" ELSE "converged"

\* The next part of the step, or the first of the next step.
After(at) == IF at[2] < Len(Steps[at[1]]) THEN <<at[1], at[2] + 1>> ELSE <<at[1] + 1, 1>>

\* The results with that of a step that is done.  What a run that was disturbed
\* reports is not followed.
Results(r, changed) ==
    IF r.clean THEN Append(r.results, Outcome(r, changed)) ELSE <<>>

\* The run at its next part, which already knows `seen`.
GoOn(r, changed, wrote, seen) ==
    LET more == r.at[2] < Len(Steps[r.at[1]])
    IN  [r EXCEPT !.seen = seen, !.at = After(r.at),
                  !.wrote = IF r.clean THEN r.wrote \cup wrote ELSE {},
                  !.applied = r.clean /\ more /\ (r.applied \/ changed),
                  !.results = IF more THEN r.results ELSE Results(r, changed)]

\* Runner.Run after a part that reached its target: the next part, or the end of
\* the run.  `changed` is what the part says of itself, `wrote` (a ghost) what it
\* did.
MoveOn(p, changed, wrote, seen) ==
    LET r == proc[p]
    IN  IF r.at[1] = Len(Steps) /\ r.at[2] = Len(Steps[r.at[1]])
        THEN /\ proc' = [proc EXCEPT ![p] = None]
             /\ Unlock(p)
             /\ report' = IF ~r.clean THEN None
                          ELSE [results |-> Results(r, changed),
                                wrote |-> r.wrote \cup wrote, given |-> r.env]
        ELSE /\ proc' = [proc EXCEPT ![p] = GoOn(r, changed, wrote, seen)]
             /\ UNCHANGED <<lock, report>>

\* A part that found its target as it is.
Converged(p) == MoveOn(p, FALSE, {}, None)

\* OutcomeFailed: the run stops where it is and leaves what it did.
Fail(p) ==
    /\ proc' = [proc EXCEPT ![p] = None]
    /\ Unlock(p)
    /\ UNCHANGED report

\* The process dies with its database session.
Crash(p) ==
    /\ Running(p) /\ Fault /\ Fail(p)
    /\ UNCHANGED <<kc, db, disk, loose, runs>>

\* The session that holds the lock is lost; the run does not use it and goes on.
LoseLock(p) ==
    /\ Running(p) /\ lock = p /\ Fault
    /\ lock' = None
    /\ proc' = [proc EXCEPT ![p] = Disturbed(@)]
    /\ UNCHANGED <<kc, db, disk, report, loose, runs>>

-------------------------------------------------------------------------------
(* Preflight and migrations. *)

\* PreflightStep: postgres answers, Keycloak becomes ready and the realm's
\* issuer readable within the retries, or they are used up.
Preflight(p) ==
    /\ At(p, "preflight")
    /\ \/ Smooth /\ Converged(p)
       \/ Fault /\ Fail(p)
    /\ UNCHANGED <<kc, db, disk, loose, runs>>

\* tern on one service: a migration of identity needs the roles that registry's
\* creates and the tuples that authz's backfills.
Migratable(s) ==
    \A i, j \in DOMAIN MigrationServiceOrder :
        i < j /\ MigrationServiceOrder[j] = s => MigrationServiceOrder[i] \in db.schema

\* MigrationsStep, one service: the version before, tern, the version after, and
\* after registry the passwords of the runtime roles.
Migrate(p, s) ==
    /\ At(p, s)
    /\ \/ /\ Migratable(s) /\ Smooth
          /\ db' = [db EXCEPT !.schema = @ \cup {s}, !.passwords = @ \/ s = "registry"]
          /\ MoveOn(p, s \notin db.schema, {s} \ db.schema, None)
       \/ /\ Fault /\ Fail(p)
          /\ db' \in {db, [db EXCEPT !.schema = @ \cup {s}]}
    /\ UNCHANGED <<kc, disk, loose, runs>>

\* spotCheckGrantMatrix, connected with kiban_org's password.
SpotCheck(p) ==
    /\ At(p, "grants")
    /\ \/ db.passwords /\ "identity" \in db.schema /\ Smooth /\ Converged(p)
       \/ Fault /\ Fail(p)
    /\ UNCHANGED <<kc, db, disk, loose, runs>>

-------------------------------------------------------------------------------
(* The admin client (kcmaster.go).  A call is answered; or it fails, having   *)
(* taken effect or not.                                                       *)

findClientByClientID(c) == kc.client[c]
protocolMappers(c) == kc.mapper[c]
getRealm == [settings |-> kc.settings, bound |-> kc.bound]
flowExecutions == kc.browser
flowExists == kc.direct # "absent"
userRoleMappings == [roles |-> kc.roles, foreign |-> kc.foreign]

createClient(c) == [kc EXCEPT !.client[c] = "right", !.mapper[c] = "none"]
updateClient(c) == [kc EXCEPT !.client[c] = "right"]
createProtocolMapper(c) == [kc EXCEPT !.mapper[c] = "api"]
updateRealm == [kc EXCEPT !.settings = realmTargetSettings]
bindDirectGrant == [kc EXCEPT !.bound = TRUE]
copyFlow == [kc EXCEPT !.direct = "copied"]
addFlowExecution == [kc EXCEPT !.direct = "DISABLED"]
setFlowExecutionRequirement == [kc EXCEPT !.direct = "REQUIRED"]
addClientRoles(more) == [kc EXCEPT !.roles = @ \cup more]
regenerateClientSecret == [kc EXCEPT !.secret = @ + 1]

\* A write: `fits` when Keycloak accepts it (no duplicate, nothing that is gone).
do(p, fits, k, part, changed, seen) ==
    /\ \/ /\ fits /\ Smooth /\ kc' = k /\ MoveOn(p, changed, {part}, seen)
       \/ /\ ~fits /\ Smooth /\ UNCHANGED kc /\ Fail(p)
       \/ /\ Fault /\ kc' \in (IF fits THEN {kc, k} ELSE {kc}) /\ Fail(p)
    /\ UNCHANGED <<db, disk, runs>>

Skip(p, seen) ==
    /\ Smooth /\ MoveOn(p, FALSE, {}, seen)
    /\ UNCHANGED <<kc, db, disk, loose, runs>>

\* What a part reads before it decides.
View ==
    [settings |-> getRealm.settings,
     api |-> findClientByClientID("api"), frontend |-> findClientByClientID("frontend"),
     service |-> findClientByClientID("service"),
     frontendMapper |-> protocolMappers("frontend"), serviceMapper |-> protocolMappers("service"),
     browser |-> <<getRealm.settings, flowExecutions>>,
     flow |-> flowExists, execution |-> kc.direct, required |-> kc.direct,
     bind |-> getRealm.bound, profile |-> kc.profile, roles |-> userRoleMappings]

\* The client a mapper belongs to.
Owner(s) == IF s = "frontendMapper" THEN "frontend" ELSE "service"

Read(p, s) ==
    /\ At(p, s) /\ ~HasRead(p)
    /\ LET there ==
             /\ s \in {"frontendMapper", "serviceMapper"} => kc.client[Owner(s)] # "absent"
             /\ s \in {"execution", "required"} => flowExists
       IN  \/ /\ there /\ Smooth
              /\ proc' = [proc EXCEPT ![p].seen = View[s]]
              /\ UNCHANGED <<lock, report>>
           \/ ~there /\ Smooth /\ Fail(p)
           \/ Fault /\ Fail(p)
    /\ UNCHANGED <<kc, db, disk, loose, runs>>

-------------------------------------------------------------------------------
(* RealmStep. *)

reconcileRealmSettings(p) ==
    /\ At(p, "settings") /\ HasRead(p)
    /\ \/ Seen(p) = realmTargetSettings /\ Skip(p, None)
       \/ /\ Seen(p) # realmTargetSettings /\ do(p, TRUE, updateRealm, "settings", TRUE, None)
          /\ UNCHANGED loose

\* Create a client that is absent, put right one that is not.
reconcileClient(p, c) ==
    /\ At(p, c) /\ HasRead(p)
    /\ \/ Seen(p) = "right" /\ Skip(p, None)
       \/ /\ Seen(p) = "wrong"
          /\ do(p, kc.client[c] # "absent", updateClient(c), c, TRUE, None)
          /\ UNCHANGED loose
       \/ /\ Seen(p) = "absent"
          /\ do(p, kc.client[c] = "absent", createClient(c), c, TRUE, None)
          /\ UNCHANGED loose

reconcileBearerOnlyClient(p) == reconcileClient(p, "api")
reconcileFrontendClient(p) == reconcileClient(p, "frontend")
reconcileServiceClient(p) == reconcileClient(p, "service")

\* Whichever audience mapper is there is reused.
reconcileAudienceMapper(p, s) ==
    LET c == Owner(s)
    IN  /\ At(p, s) /\ HasRead(p)
        /\ \/ Seen(p) = "api" /\ Skip(p, None)
           \/ /\ Seen(p) # "api"
              /\ do(p, kc.client[c] # "absent" /\ (Seen(p) = "none") = (kc.mapper[c] = "none"),
                    createProtocolMapper(c), s, TRUE, None)
              /\ UNCHANGED loose

\* A level that mixes REQUIRED with ALTERNATIVE executions.
verifyBrowserFlowStructure(executions) ==
    \A e, f \in executions :
        e.level = f.level => ~(e.requirement = "REQUIRED" /\ f.requirement = "ALTERNATIVE")

MFAWired(executions) ==
    /\ verifyBrowserFlowStructure(executions)
    /\ \E e \in executions : e.mfa /\ e.requirement = "REQUIRED"

\* Repairs nothing: a flow that is not as imported stops the run.
verifyMFAFlowWiring(p) ==
    /\ At(p, "browser") /\ HasRead(p)
    /\ IF Seen(p)[1] = realmTargetSettings /\ MFAWired(Seen(p)[2])
       THEN Skip(p, None)
       ELSE Smooth /\ Fail(p) /\ UNCHANGED <<kc, db, disk, loose, runs>>

\* reconcileDirectGrantFlow: copy the built-in flow, add the authenticator (which
\* Keycloak creates DISABLED), require it, and only then bind the flow.
directGrantCopy(p) ==
    /\ At(p, "flow") /\ HasRead(p)
    /\ \/ Seen(p) /\ Skip(p, None)
       \/ ~Seen(p) /\ do(p, ~flowExists, copyFlow, "flow", TRUE, None) /\ UNCHANGED loose

directGrantAdd(p) ==
    /\ At(p, "execution") /\ HasRead(p)
    /\ \/ Seen(p) # "copied" /\ Skip(p, Seen(p))
       \/ /\ Seen(p) = "copied"
          /\ do(p, kc.direct = "copied", addFlowExecution, "execution", TRUE, None)
          /\ UNCHANGED loose

directGrantRequire(p) ==
    /\ At(p, "required") /\ HasRead(p)
    /\ \/ Seen(p) = "REQUIRED" /\ Skip(p, None)
       \/ /\ Seen(p) = "copied"
          /\ Smooth /\ Fail(p) /\ UNCHANGED <<kc, db, disk, loose, runs>>
       \/ /\ Seen(p) = "DISABLED"
          /\ do(p, kc.direct \in {"DISABLED", "REQUIRED"}, setFlowExecutionRequirement,
                "required", TRUE, None)
          /\ loose' = (loose /\ kc'.direct # "REQUIRED")

directGrantBind(p) ==
    /\ At(p, "bind") /\ HasRead(p)
    /\ \/ Seen(p) /\ Skip(p, None)
       \/ ~Seen(p) /\ do(p, TRUE, bindDirectGrant, "bind", TRUE, None) /\ UNCHANGED loose

\* The whole profile goes back, with the attributes it lacked.
reconcileUserProfileAttributes(p) ==
    /\ At(p, "profile") /\ HasRead(p)
    /\ \/ Attr \subseteq Seen(p) /\ Skip(p, None)
       \/ /\ ~(Attr \subseteq Seen(p))
          /\ do(p, TRUE, [kc EXCEPT !.profile = Seen(p) \cup Attr], "profile", TRUE, None)
          /\ UNCHANGED loose

\* A role too many stops the run; a missing one is added, which the step does
\* not count as a change.
verifyIdentityServiceRolesExact(p) ==
    /\ At(p, "roles") /\ HasRead(p)
    /\ \/ /\ Seen(p).foreign \/ ~(Seen(p).roles \subseteq Right)
          /\ Smooth /\ Fail(p) /\ UNCHANGED <<kc, db, disk, loose, runs>>
       \/ /\ ~Seen(p).foreign /\ Seen(p).roles = Right
          /\ Skip(p, None)
       \/ /\ ~Seen(p).foreign /\ Seen(p).roles \subseteq Right /\ Seen(p).roles # Right
          /\ do(p, TRUE, addClientRoles(Right \ Seen(p).roles), "roles", FALSE, None)
          /\ UNCHANGED loose

\* writeServiceSecrets, the secret to write: a new one, the one the environment
\* gives, or Keycloak's current one.
serviceSecret(p) ==
    /\ At(p, "secret") /\ ~HasRead(p)
    /\ LET k == IF proc[p].rotate THEN regenerateClientSecret ELSE kc
           secret == IF proc[p].rotate \/ proc[p].env = None THEN k.secret ELSE proc[p].env
       IN  \/ /\ Smooth /\ kc' = k
              /\ proc' = [proc EXCEPT ![p].seen = secret]
              /\ UNCHANGED <<lock, report>>
           \/ Fault /\ kc' \in {kc, k} /\ Fail(p)
    /\ UNCHANGED <<db, disk, loose, runs>>

\* Faulty variant: a file that is there is taken for current.
SecretsOnce(p) ==
    /\ At(p, "secret") /\ HasRead(p)
    /\ LET changed == proc[p].rotate \/ disk = None
       IN  /\ Smooth
           /\ disk' = IF changed THEN Seen(p) ELSE disk
           /\ MoveOn(p, changed, IF changed THEN {"secret"} ELSE {}, None)
    /\ UNCHANGED <<kc, db, loose, runs>>

\* The file is written when it differs.
writeServiceSecrets(p) ==
    /\ At(p, "secret") /\ HasRead(p)
    /\ LET changed == proc[p].rotate \/ disk # Seen(p)
       IN  \/ /\ Smooth /\ disk' = Seen(p)
              /\ MoveOn(p, changed, IF changed THEN {"secret"} ELSE {}, None)
           \/ Fault /\ disk' \in {disk, Seen(p)} /\ Fail(p)
    /\ UNCHANGED <<kc, db, loose, runs>>

-------------------------------------------------------------------------------
(* The steps after the realm. *)

\* SuperadminStep and SeedStep: write once what is missing.
Once(p, s, there, k) ==
    /\ At(p, s)
    /\ \/ there /\ Smooth /\ Converged(p) /\ UNCHANGED db
       \/ ~there /\ Smooth /\ db' = k /\ MoveOn(p, TRUE, {s}, None)
       \/ Fault /\ Fail(p) /\ db' \in {db, k}
    /\ UNCHANGED <<kc, disk, loose, runs>>

SuperadminStep(p) == Once(p, "superadmin", db.superadmin, [db EXCEPT !.superadmin = TRUE])
SeedStep(p, s) == Once(p, s, s \in db.seeded, [db EXCEPT !.seeded = @ \cup {s}])

\* Read-only.
VerifyStep(p) ==
    /\ At(p, "verify")
    /\ \/ db.superadmin /\ Smooth /\ Converged(p)
       \/ Fault /\ Fail(p)
    /\ UNCHANGED <<kc, db, disk, loose, runs>>

-------------------------------------------------------------------------------
(* Somebody changes the realm in Keycloak's console.  "service" is one of     *)
(* KIBAN_SERVICE_CLIENTS; the identity service's own client, whose roles and  *)
(* secret these are, comes with the realm import and is not deleted.          *)
Drifted ==
    {[kc EXCEPT !.settings = "other"], [kc EXCEPT !.bound = FALSE],
     [kc EXCEPT !.client["api"] = "wrong"], [kc EXCEPT !.client["frontend"] = "wrong"],
     [kc EXCEPT !.client["service"] = "absent", !.mapper["service"] = "none"],
     [kc EXCEPT !.mapper["frontend"] = "other"], [kc EXCEPT !.profile = {}],
     [kc EXCEPT !.foreign = ~@], regenerateClientSecret}
      \cup {[kc EXCEPT !.browser = b] : b \in Flow}
      \cup {[kc EXCEPT !.roles = @ \cup {r}] : r \in Other}
      \cup {[kc EXCEPT !.roles = @ \ {r}] : r \in Right \cup Other}
      \cup {[kc EXCEPT !.direct = d] : d \in
               CASE kc.direct = "REQUIRED" -> {"copied", "DISABLED"}
                 [] kc.direct = "DISABLED" -> {"copied"}
                 [] OTHER -> {}}

Drift ==
    /\ Fault
    /\ kc' \in Drifted \ {kc}
    /\ loose' = (loose \/ kc'.direct # kc.direct)
    /\ report' = None
    /\ proc' = [p \in Process |->
                  IF Running(p) THEN Disturbed(proc[p]) ELSE None]
    /\ UNCHANGED <<db, disk, lock, runs>>

Reconcile(p) ==
    \/ \E s \in DOMAIN View : Read(p, s)
    \/ reconcileRealmSettings(p)
    \/ reconcileBearerOnlyClient(p) \/ reconcileFrontendClient(p)
    \/ reconcileServiceClient(p)
    \/ \E s \in {"frontendMapper", "serviceMapper"} : reconcileAudienceMapper(p, s)
    \/ verifyMFAFlowWiring(p)
    \/ directGrantCopy(p) \/ directGrantAdd(p)
    \/ directGrantRequire(p) \/ directGrantBind(p)
    \/ reconcileUserProfileAttributes(p)
    \/ verifyIdentityServiceRolesExact(p)
    \/ serviceSecret(p) \/ writeServiceSecrets(p)

Next ==
    \/ \E p \in Process :
        \/ WithAdvisoryLock(p, TRUE, None)
        \/ \E env \in {None, 1} : WithAdvisoryLock(p, FALSE, env)
        \/ Crash(p) \/ LoseLock(p)
        \/ Preflight(p) \/ SpotCheck(p)
        \/ \E i \in DOMAIN MigrationServiceOrder : Migrate(p, MigrationServiceOrder[i])
        \/ Reconcile(p)
        \/ SuperadminStep(p) \/ VerifyStep(p)
        \/ \E i \in DOMAIN SeedParts : SeedStep(p, SeedParts[i])
    \/ Drift

Spec == Init /\ [][Next]_vars

-------------------------------------------------------------------------------
(* Properties. *)

Elements(seq) == {seq[i] : i \in DOMAIN seq}

RealmParts == Elements(Steps[Realm])

Reached ==
    /\ kc.settings = realmTargetSettings /\ MFAWired(kc.browser)
    /\ \A c \in Client : kc.client[c] = "right"
    /\ kc.mapper["frontend"] = "api" /\ kc.mapper["service"] = "api"
    /\ kc.direct = "REQUIRED" /\ kc.bound
    /\ Attr \subseteq kc.profile /\ kc.roles = Right /\ ~kc.foreign
    /\ db = [schema |-> Elements(MigrationServiceOrder), passwords |-> TRUE,
             superadmin |-> TRUE, seeded |-> Elements(SeedParts)]

\* "a truthful applied|converged|failed outcome" (step.go): a run that ends
\* without failing, alone and undisturbed, has reached the target whatever
\* earlier runs left half done, the secret on the volume is the one it should
\* be, and its realm step says "applied" exactly when it wrote something other
\* than missing roles.
ReportIsTrue ==
    report # None =>
        /\ Reached
        /\ disk = IF report.given = None THEN kc.secret ELSE report.given
        /\ report.results[Realm] = "applied" <=>
              (report.wrote \cap RealmParts) \ {"roles"} # {}

\* The direct-grant flow that bootstrap binds requires the MFA authenticator from
\* the first moment, wherever a run stops and whatever runs overlap, unless an
\* administrator loosened it (reconcileDirectGrantFlow).
RequiredBeforeBound == kc.bound /\ ~loose => kc.direct = "REQUIRED"
===============================================================================
