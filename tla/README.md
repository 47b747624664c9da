# Verification of kiban

kiban is a multi-company platform: a gateway in front of foundation services
(authz, org, identity, registry), a one-shot bootstrap, and modules
(notification, timesheet, helpdesk, docs) that use the foundation through HTTP.
All services share one Postgres, each with its own schema. This directory holds
TLA+ models of the parts where steps of several actors meet, the TLC runs that
check them on small instances, and TLAPS proofs of the most important properties
for instances of any size.

Paths below are relative to `src/`.

## Inventory

| Component | State | Operations | What makes it hard | What makes it correct |
|---|---|---|---|---|
| Relation engine, `internal/authz/engine` | reads `authz.tuple`; per request a memo, per worker an in-progress set | Check, CheckInCompany, BatchCan | eight workers share a memo; cycles; a writer between two queries; a failing query; depth fence | verdicts grounded in stored tuples; every item answered |
| Grants, `internal/authz/http.go`, `store/store.go` | `authz.tuple`, `authz.grant_ledger` | POST grants (grant, revoke, cascade) | checks read outside the transaction that writes | one anchor per object; the ledger replays; no revival |
| Platform role, `internal/authz/platform_role.go`, `internal/bootstrap/superadmin.go` | the superadmin tuples, advisory locks, Keycloak user | grant, revoke, one-time seed | last-holder race; authority lost in flight; crash and rerun of bootstrap | a superadmin remains; traceable authority; seeded once |
| Decision, `internal/authz/decision` | none; reads identity, Keycloak, org, registry, engine | can, batchCan | facts change and sources fail between steps | fail closed; denials true; reason of the first step |
| Members and groups, `internal/org/store.go`, `group.go` | member rows, group rows, their tuples | create, update, link, unlink, add, remove, two boot backfills | row read without a lock decides which tuple to write | tuples agree with rows |
| Positions, `internal/org/store.go`, `handover.go` | positions, assignments, holder and anchor tuples, bindings | create, create-and-assign, assign, end, handover, delete, bind, anchor backfill | several locks with different reach; the date moves | the current holder has the tuple; a handover happens once; a deleted position leaves nothing |
| Org tree, `internal/org/store.go`, `migrations/org` | units, positions, the tree lock | create, update, move, delete of units and positions | each writer is right for the rows it read; the subtree check stops at a depth | a forest; positions stay beneath their company |
| Registry and default grants, `internal/registry`, `internal/authz/store/default_grant.go` | installation rows, dependencies, fragments, default-grant claims | seed at every boot, enable, disable, register an app, activate a company, backfill | boots of several replicas in no transaction; enabling races activation; crashes | one quiet boot repairs; what an administrator took away stays away |
| Identity, `internal/identity` | accounts, MFA policies, cached user state; Keycloak's users | resolve, set policies, sync, user state | read-modify-write over HTTP against administrators; a cache stored out of order | a sync writes only the mode; a disable is seen in time |
| Token verifier, `internal/gateway/token.go` | cached key set, its age, failure and refetch times | verify, refresh, refetch for a kid | refreshes overlap and may store in any order | withdrawn keys expire; a rotation heals |
| Gateway, `internal/gateway` | catalog snapshot, single-flight refresh, provisioned callers | ensure, get, proxy, app guard | failing registry, two reads per snapshot, full cache, restart | forwarded only on recent facts and for a known caller |
| Notification, `modules/notification` | messages, jobs with leases | send, claim, complete, fail, extend | lease expiry, retries, duplicate sends | no job lost; late answers fenced off |
| Helpdesk, `modules/helpdesk` | tickets, agent rows, editor tuples | create, assign, transition, make and remove agents | checks, authz calls and writes apart; a failing or lost grant | row and tuple agree; an assignee is an agent |
| Timesheet, `modules/timesheet` | entries, submission versions and snapshots, approvers, grants | configure, upsert, delete, submit, assign, decide | versions supersede each other; an upsert locks nothing when there is no row | what was approved stays; what is submitted can be decided |
| Docs, `modules/docs` | documents, shares, their tuples in authz | create, update, delete, share, revoke, list, read | row and tuple in two services; lost answers; relinked members | what is listed opens and what opens is listed; one tuple per share |
| Lists, `internal/org`, `modules/*` | none | a client walks the pages of a list | count and page are two statements, rows change between pages | a row that kept its place is seen once |
| Bootstrap, `internal/bootstrap`, `cmd/bootstrap` | Keycloak realm, migrations, secret file, advisory lock | preflight, migrate, reconcile the realm, superadmin, seed, verify | a crash or a lost answer between any two admin calls; drift; the lock's session lost | a reported run has reached its target; never a direct grant without the second factor |
| Audit, metrics, SDKs, web shell, validators | none of the platform's | observation, client code, pure validation | | |

Components meet in three ways: HTTP calls (the decision asks identity, org and
registry; modules post grants to authz), the shared table `authz.tuple` (org,
bootstrap and registry write their own tuples in their own transactions; the
engine reads all of them), and Postgres locks (advisory locks, row locks, unique
indexes and an exclusion constraint).

`PROJECT.json` lists the hazards at the line where each bites, with the
properties that would catch it.

## Modules

A database transaction is READ COMMITTED everywhere in this code: each statement
sees what was committed when it began. A model step is therefore one statement,
or a run of statements that nothing outside can separate because a lock is held.
A failing statement rolls the transaction back; every module has such a step
where the code has an error return.

### AuthzEngine

The recursion `check`, `evalExpr`, `evalThis`, `evalTupleToUserset` as a stack of
frames per worker (`stack`, `callee`, `val`, `pc`). `memo` is the map the workers
share, `visiting` and `cuts` belong to one worker. Every fetch of rows is a step
of its own and may fail (`DB_ERROR`); `Write` commits a tuple change between any
two steps. Row order is unspecified, so a step takes any remaining row. `Fires`
gives the meaning of an expression as a one-step consequence. `Truth` is the least
set closed under it, given by its stages: the constant `Stages` is the sequence of the
goals that follow in 0, 1, 2, ... steps, and `TruthAssumption` says what makes such a
sequence one (it begins empty, each stage follows from the one before, the last is
closed). `MCAuthzEngine` computes it by iteration, away from the algorithm being
checked.

### Grants

`handleGrants` of one module: the conflict check of new anchors, the per-tuple
admission (admin of the company module, anchored object, the owner's cleanup),
then the transaction, one statement per tuple, with the cascade of
`revokeObjectRest`. `inserted`, `deleted` and `entries` are a transaction's own
uncommitted writes; other transactions wait for a row or an index entry it has
touched. `grantedFor` and `raced` are history: the company a role was granted
for, and the objects on which a grant was checked before, and written after, an
anchor was revoked.

### PlatformRole

`handleGrantPlatformRole` and `handleRevokePlatformRole` with the advisory lock of
`writePlatformRole`; `kiban-bootstrap` with its own lock, which may crash after
every step and be started again, also twice at once. `Login` registers a user.

### Decision

`Evaluate` and `EvaluateBatch` step by step. `facts` is the situation the sources
report, `Change` alters one fact, `SourceDown` is an error from the source being
asked. `history` collects the situations of the request. `Fulfils` says what each
condition asks of a situation, by cases that exclude each other. Step 8 (eligibility) is
absent: `validateCanRequest` refuses every request that would reach it.

### OrgMembers

One step for the read of a request, one for its write, as the code has them
(`before` is read by a plain SELECT). `raced` records the members on which a write
was decided from an outdated read, a link was written over another user, or a
backfill or repeated add granted what had just been revoked.

### OrgPositions

`lock_org_tree` is `treeLock`; AssignNow and Handover take it before they read,
EndAssignment through the trigger of its UPDATE, CreateAndAssign after reading
the date, DeletePosition never. `day` moves at any moment. The exclusion
constraint on windows is part of every insert and update.

### NotificationWorker and DeliveryQueue

The worker loop of `modules/notification/service/worker.go`: `RunOnce` claims a
batch, then one step per job for the load, the delivery, the look at the job's
context and the fenced write. `Heartbeat` is the goroutine that extends the leases
of the batch. The unit of time is the heartbeat interval (a third of the lease):
`Tick` passes once every worker with a batch has beaten or failed to, and a
delivery may take any number of units. A lease token is the number of the claim,
since the code draws a fresh UUID for each. Faults, bounded by MaxFaults, are a
crash, a failing load, write or heartbeat, and an answer lost after the target got
the message. `sends`, `misses` and `excused` are history: `excused` holds the jobs
that one of the faults named in SentOnceUnlessExcused has touched.

`DeliveryQueue` is what the workers promise together: a job is pending until it is
done, dead or removed, done only after a send, and each burial is audited once.
NotificationWorker implements it with `sent` mapped to the jobs whose `sends` is
positive; claims, retries and stale writes are stuttering steps.

### Helpdesk

Tickets (create, assign, transition) and agents (make, remove) of
`modules/helpdesk/service`. A chair stands for a position or a group, whose handlers
are copies of each other. An agent is a row (`agents`) and a tuple (`editor`), and a
handler's reads, its calls to authz and its writes are steps of their own: a
member is granted and then recorded, a chair recorded and then granted, with a
compensating delete (`UndoRecord`). A failing call, a dying request (`Fail`) and a
lost answer (`AnswerLost`) are bounded faults. `disturbed` collects the targets whose
requests overlapped or failed and the members whose link changed; `crossed` the
tickets whose transitions overlapped.

### OrgTree

A writer is three steps: the store's checks under `lock_org_tree`, the statement with
the triggers of migrations 0004 to 0006, the commit. Deletes do not take the tree lock;
they lock the row, which excludes statements that refer to it. `Unit` ids are given
out by creation, `MaxDepth` is the depth at which SubtreeOrgUnits stops looking. The
chain above a unit is the least set that holds the unit and the parent of each of its
members, which is what the recursive queries compute on any parent links, circular ones
included.

### Tenancy

`Seed` of every registry replica, one statement per step and in no transaction, with a
crash possible after each; `SetEnabled`, `RegisterApp`, the activation of a company and
the boot backfill as a list and a commit. `settled` says that one boot ran alone since
and that no enabling has overlapped an activation; `excluded` are the pairs an
administrator took away. ConsistentSinceQuietBoot is about the built-in modules: an app
whose enabling overlapped an activation is in no boot's list of known modules and stays
without its grants until the backfill of bootstrap.

### Accounts

`ResolveOrCreate`, the two policy layers and `SyncMfaPolicy` with its GET and PUT per
user apart; `CachedUserState` with overlapping lookups. Keycloak's users are external
and change at any time. A policy is its rank.

### TokenVerifier and Gateway

The key set with `ensureFresh`, the background ticker and `refetchForKid`; the
provisioner, the catalog snapshot with its single-flight refresh in two reads,
`resultLocked`, the module proxy and the app guard. Time is in ticks and passes only
while every request is idle, waits for an answer (at most `Timeout`) or for a lock:
steps that only compute are taken to need no time, so each bound of the two modules
is "the configured time and one call". A published key is external, and so is what the
registry answers.

### Docs, Timesheet, NotificationInbox

Docs and Timesheet keep rows in their own schema and tuples in authz; each call is a
step that may fail, and in Docs lose its answer. Payloads, hours and texts are values
that are equal or not. `disturbed`, `overwritten` and `overlapped` are history: exactly
the members, slots and sends that the properties except. NotificationInbox is the
request side in front of NotificationWorker: a send that is stored leaves the jobs the
worker claims. In Docs and Helpdesk a user is linked to one member at most, by the
unique index `member_company_user_unique` (`migrations/org/0002_org_tables.sql`).

### Directory

Fourteen lists of five services are one algorithm. The module describes each of them by
its statement (which rows, a total order or not), its store function (count first, last
or never) and its handler (gate, limits), and a client walks one of them while rows
change.

### Bootstrap

The runner with its advisory lock and the six steps, each a sequence of parts. A part of
the realm step reads, decides and writes; every call to Keycloak may fail or take effect
and lose its answer. A call that timed out takes effect before its client gives up or
never: a request that Keycloak executes minutes later is not modelled. `Crash` ends a
run anywhere, `LoseLock` takes its lock away without its noticing, `Drift` is an
administrator at the console. What the superadmin step, the seed and the backfills write
is the subject of PlatformRole, Tenancy, OrgMembers and OrgPositions.

### Composition

Services that share no state are checked and proved about together, in `Authz` (Grants,
Decision), `Modules` (Timesheet, Helpdesk, Docs, NotificationInbox, Directory) and
`Platform` (PlatformRole, OrgTree, Tenancy, Accounts, TokenVerifier, Gateway): `which` is
chosen initially, one of the components steps and the variables of the others are
constant, so a behaviour is one of one component. What one reads of another is external
in it and changes at any time, which includes everything the other does. In Modules the
gate of the inbox is the widest one: every bearer may administrate. The MC modules extend
these three and only give constants their values, so that the properties in the cfg are
the very definitions the theorems name and TLC evaluates the assumptions of the proofs.
NotificationWorker and DeliveryQueue are composed by refinement.

## Runs

| Run | Bounds | Shows |
|---|---|---|
| engine | 2 workers, 2 groups in a cycle, 2 documents, depth 3, 1 write | AllowSound, DenySound, DepthIsPathLength, EveryItemAnswered |
| authz | grants: 3 requests at a time, 5 in all, 1 object, 2 companies, 3 actors; decision: 11 requests over 5 kinds of object, two deviating facts, or one and two changes | LedgerReplays, NoRevivalUnlessRaced; AnswersGrounded, OrderedReason |
| platform_role | 2 subjects, 2 clients, 3 requests, 2 bootstraps | GrantedByHolders, BootstrapOnce, SuperadminRemains, Answered |
| org_members | 2 members, 2 users, 2 clients, 7 requests | LinkedIsMapped, ExactUnlessRaced |
| org_positions | 1 position, 2 members, 2 clients, 3 days, 3 assignments, 5 requests | HoldersAreTenures, HandedOnce, DeletedIsGone |
| org_positions_anchor | the same | a counterexample to LiveIsAnchored |
| notification | 2 workers, 2 jobs, 2 attempts, lease of 3 intervals, 2 faults | HeldWhileTicking, SentOnceUnlessExcused, ImplementsQueue |
| notification_progress | the same, batches of 1, 1 fault | EveryJobSettles |
| helpdesk_visible | 1 client, 1 failing call | a counterexample to NeverPowerfulInvisible |
| modules | helpdesk: 2 clients, 1 ticket, 1 member, 1 chair, 2 users, 4 requests, 1 failing call, 1 lost answer, 1 relink; docs: 2 documents, 1 member, 2 users, 4 requests; timesheet: 1 week of 2 entries, 2 clients, 6 requests; notification: 1 channel, 2 payloads, 1 key, 2 sends; lists: 3 rows, pages of up to 2, 1 change | AgentsExactUnlessDisturbed, AssigneesAreAgents; ListedIsWhatOpens, ShareExactUnlessDisturbed; ApprovedStaysAsApproved, SubmittedAwaitsDecision; AnswerIsTrue; WalkComplete |
| platform | platform role: 1 subject, 1 bootstrap, 1 request; org tree: 5 units, 1 position, 2 clients; registry: 2 built-in modules, 1 app, 1 company, 2 replicas, 2 clients, 4 boots or requests; accounts: 2 users, 2 policies, 2 clients, 5 operations, 3 ticks; verifier: 1 key, 2 requests and the ticker, 3 tokens, 4 ticks; gateway: 1 caller, 2 requests, 3 calls, 2 changes, 3 ticks | TreeIsForest, PositionsStay; ConsistentSinceQuietBoot, ExcludedStaysExcluded; SyncWritesOnlyTheMode, DisableSeenInTime; WithdrawnKeyExpires, RotationHeals; ForwardedOnRecentFacts |
| bootstrap | 2 containers, 3 runs, 2 faults (a failed or unanswered call, a crash, a lost lock, a change by an administrator) | ReportIsTrue, RequiredBeforeBound |

Why the bounds are enough to be interesting. The engine's graph holds a userset
cycle, a diamond, an intersection, a tuple-to-userset edge and a company-bound
group, with any one tuple missing; the depth fence of 3 is reached by one request
and not by the others. Grants needs three requests at once for a revival: a grant,
the revoke that overtakes it and the next anchor. Two superadmins are the smallest
set in which each can remove the other. Two clients and two members give every
pairwise race of two operations; the call bounds leave room for two such races in
a row. Two faults are what it takes to lose a lease (two missed heartbeats), and two
attempts give one retry and one final failure. Four helpdesk requests are an
assignment, two transitions and a removal, which the protection rule has to refuse.
Three units below two companies give the swap of two siblings that makes a cycle, and
a subtree deeper than the depth bound of 1. Four boots or requests are an overlap of
two, a repairing boot and one more request. The clocks of accounts, verifier and
gateway run past one lifetime of their caches and one call. Six timesheet calls are an
entry, a submission, a second version and a decision with one race. Three bootstrap
runs are one that stops half way, one that drifts or is disturbed, and one that
repairs. Symmetry is used only over interchangeable clients, members, users, workers,
replicas and containers, and never in a run with a liveness property.

`CHECK_DEADLOCK FALSE` is given where the bounded number of requests ends every
behaviour; Decision and AuthzEngine end when the request is answered.

The type invariants are not listed by the runs: they are theorems, or conjuncts of the
invariants that are (below), and a value outside its type makes TLC fail anyway.

### Fairness

AuthzEngine: weak fairness of each worker, since a runnable goroutine runs and a
query answers or fails; none for the writer. PlatformRole: weak fairness of handler
and bootstrap steps, and strong fairness of taking the advisory lock, because
Postgres serves its waiters in order of arrival. No fairness for failures, logins,
new requests or a restart of bootstrap. NotificationWorker: weak fairness of each
worker's steps (the loop polls, and the webhook client and the mailer have timeouts),
of each heartbeat ticker and of time; none for faults and deletions. The other
modules state safety only; their bounds on time (DisableSeenInTime, WithdrawnKeyExpires,
RotationHeals, ForwardedOnRecentFacts) are safety over an explicit clock.

## Proofs

Every invariant, the action property SuperadminRemains and the refinement that a passing
run checks are theorems; only liveness is not. The proof modules are one per composition or component; in each the theorem `...Invariant`, or the
lemmas beneath `TypeCorrect`, give an inductive invariant and the listed properties follow
from it. The bounds on requests, faults and ticks are constants too, and the theorems
hold for every value of them.

### Platform

`PlatformProofs`, for the platform role and for all finite sets of subjects, requests and
bootstraps: TypeOK, SuperadminRemains, GrantedByHolders and BootstrapOnce.
SuperadminRemains is not inductive: between the count of the holders and the
delete, other steps happen. The invariant adds that whoever is past `begin` holds
the lock (LockInv); that a revoke which has counted still has its subject and one
more among the holders, since only a lock holder deletes and bootstrap only adds
(RevokeInv); that an authorized actor appears in a grant row of the ledger
(AuthorityInv); and that a seeding bootstrap holds the bootstrap lock and finds no
row of an earlier one (SeedInv). The step from "two holders" to "one remains" is a
lemma on cardinalities.

The other five are theorems about `PlatformSpec`. Its invariant PlatformInv is, for the
component that a behaviour is of:

- Org tree (OrgInv): TreeIsForest and PositionsStay. A unit's chain of parents reaches a
  root (Rooted), a position's unit reaches its own company (Seated). Inductive only with
  what an open transaction knows: it has the tree lock (LockKept), and what it checked is
  still so when it commits (ChecksHold), although deletes do not take that lock: a delete
  cannot touch a row the open statement refers to. The rest is about chains: they are the
  least set closed under parents, a root is unique in a chain (OneRoot), and moving a
  unit to a parent outside its own subtree changes the roots of the subtree only
  (RootTo). No induction over the length of a chain is needed, since leastness says it all.
- Registry (TenancyInv): ConsistentSinceQuietBoot, ExcludedStaysExcluded. A boot that is
  quiet so far is alone (QuietAlone), has done its work for the modules before the one it
  is at, loop by loop (BootProgress: DepsDone, FragmentDone, GrantDone), and once one has
  ended, enabling and activation carry each other's rows in their lists (Settled). A claim
  is for ever and a tuple or its removal presupposes one (ClaimedForEver), which is why
  nothing grants again what was taken away.
- Identity (AccountsInv): SyncWritesOnlyTheMode, DisableSeenInTime. A sync nothing
  overlapped reads the policies as they are (SyncsExact); an answer under way is younger
  than one call and a cached one than TTL and one call, in whatever order they were stored
  (AnswersYoung).
- Token verifier (VerifierInv): WithdrawnKeyExpires, RotationHeals. The cached set, and
  every answer on its way, tell what was published when it was asked for (AnswersDated);
  whoever is about to parse found the set fresh, or refetched, or the last fetch failed
  (FreshOrFailed).
- Gateway (GatewayInv): ForwardedOnRecentFacts. A snapshot is at most one refresh younger
  than what it tells, although it is made of two reads (FetchedRecently), and whoever
  passed Ensure has a row (PassedHaveRow).

### Members, positions, notification

`OrgMembersProofs` proves TypeOK, LinkedIsMapped and ExactUnlessRaced for any
members, users and clients. The invariant is their conjunction with ExistingRows:
requests in progress and the backfills' lists name rows that exist, because rows
are never deleted.

`NotificationProofs` proves, for any jobs, workers and faults and any lease of at
least three intervals: TypeOK, ImplementsQueue, HeldWhileTicking and
SentOnceUnlessExcused. Tokens are fresh, no two workers have the same one, and only
a pending row has one (TokenInv); so a fenced write that takes effect acts on a
pending job, which with WorkerInv (a recorded success was sent) gives the
refinement. HeldWhileTicking needs the remaining length of the lease: an unsettled
job's lease plus the missed heartbeats plus the one that is due is at least Lease
(HeldInv), so a lease of three or more cannot be 0 before the second miss; this is
where the assumption `Lease >= 3` is used. SentOnceUnlessExcused adds that a job
without an excuse is with one worker, which gives it up only when the row is gone
(ExcuseInv), and that a send not yet recorded is with the worker that is about to
record it (SendInv).

`OrgPositionsProofs` proves TypeOK, HoldersAreTenures, HandedOnce and DeletedIsGone for
any positions, members, clients and any calendar. What has to be added is what each
request still knows when it writes. An assignment belongs to a live position and has
begun, and one whose end lies ahead is the only one of its position, because whatever
came later would have overlapped it (RowInv). One that was handed over is closed for
good (HandedInv). A request past its lock holds the lock, its date is not ahead of
today, and the assignment it read is still there and not handed over (CallInv), although
midnight may have passed. A deleted position keeps an anchor or a binding only by a
recorded race (GoneInv).

### Authz

`AuthzProofs` proves, of Grants, TypeOK, LedgerReplays and NoRevivalUnlessRaced for any
companies, objects, request bodies and number of requests at a time. A transaction is
described by its own writes: what it deleted is stored, what it inserted is not, and no
two open transactions hold a row in common (TxInv); its ledger rows are those of exactly
these tuples (EntriesInv). LedgerReplays then follows from a commit: the last ledger row
of a tuple, which exists because the rows of a tuple are a finite set of naturals, is
the committed one or an older one. For NoRevivalUnlessRaced a grant in flight has to
carry what it checked across the steps of others: the anchor it saw stands, is in its
own body, or its end was recorded as a race (FlightInv); a revoke that has finished the
cascade of an anchor has deleted all of the object unless a grant committed in between
(CascadeInv); committed and pending anchors together give an object one (OneAnchor).

Of Decision, as part of `AuthzSpec`, it proves AnswersGrounded and OrderedReason for any
requests, items, objects and number of changes. DecisionInv says for each step what the
steps before it have read: that it was so in some situation of the request (StepsRead).
An answer given so far has its grounds in the history (Grounded), and as long as the
history is the one situation there is, the answer is the reference's (Ordered). That a
denial is grounded needs the condition not to be waived in some situation: a condition
that an operator need not meet denies only a request that found no operator.

### Modules

`ModulesProofs` proves, of Timesheet, TypeOK, ApprovedStaysAsApproved and
SubmittedAwaitsDecision for any weeks, slots, hours, approvers and number of requests at a
time. A submission that has locked its drafts still has them, and shares none with another
(LockInv); a week has one current version (OneCurrent); and the entries of the version that
waits are as its snapshot has them unless an upsert replaced them (PendingInv), so that the
decision on the entries is the one on the snapshot.

The rest are theorems about `ModulesSpec`, whose invariant ModulesInv is, for the module
that a behaviour is of:

- Helpdesk (HelpInv): AgentsExactUnlessDisturbed, AssigneesAreAgents. For a target that is
  not disturbed the request that works on it is alone, and its step says which of row and
  tuple is there (AgentAt); a removal that has counted still finds no open ticket, because
  an assignment would overlap it and disturb the target (AgentBound). A request's tuple is
  of its own target's subject and of no other (SubjectsApart), by the unique link. A
  transition that crossed no other writes over the status it read (TransitionsSingle).
- Docs (DocsInv): ListedIsWhatOpens, ShareExactUnlessDisturbed. A row has its owner tuple
  and one insert makes it (RowsOwned); a request on an undisturbed document and member is
  alone, has the member's current user, and has left the tuples as its step says
  (ShareBound). Documents may get tuples only while the row is there or may still come
  (MayLive), since what is removed does not come back.
- Inbox (InboxInv): AnswerIsTrue. A key has one message in a channel (KeysOnce), and what
  was answered has a message to show for it (AnswersStored), which is never removed.
- Lists (ListInv): WalkComplete, for any number of rows, page size and each of the
  fourteen lists. A row with a key of its own has a place that every order the statement
  allows gives it (SortedPlace), so a page shows it exactly when the place is on the page
  (WindowHolds). Unless a row went, the walk has met the row or its place is ahead
  (NoneMissed); unless one came, what the walk has met lies behind it (NoneTwice); and a
  list that is counted first is no longer than its count unless a row came in between
  (CountHolds), so that the last page by the count is the last (PagesCover).

### Bootstrap and engine

`BootstrapProofs` proves TypeOK, ReportIsTrue and RequiredBeforeBound for any number of
containers, runs and faults. A run that is followed (nobody else ran, changed anything
or took its lock since it began) is alone (Exclusive), what it read last is still so, and
the parts before the one it is at have reached their targets (CleanInv, an induction
over the 27 places of the six steps in which every part preserves the targets of the
parts before it). RequiredBeforeBound holds of every run, followed or not: a run at the
binding has required the authenticator, or has read that it is, and only an
administrator undoes that (FlowInv).

`AuthzEngineProofs` proves TypeOK, AllowSound, DenySound and DepthIsPathLength for any
model, tuples, batch, number of workers and writes. `Derivable(T, c, V)` are the goals
that follow from the tuples T without use of the goals in V: those in every set that
contains its own consequences, V aside. Each frame of a stack waits for the verdict on
the goal above it, and what it has tried so far decided nothing (StackInv): no part or
row that it gave up is derivable from the tuples stored throughout, and every part of an
intersection it has passed is derivable from the tuples stored at some moment. Frames
beneath which a cycle was cut say this of what is derivable without their own path
only, which is what a cut verdict means (`Aside`). CutIsRight turns this back into an
unqualified deny: a key whose definition is not derivable without the key is not
derivable at all. A frame whose counter of cuts has not moved sets nothing aside, so its
deny may be memoized for every worker and every path; this is the rule Memoizable, and
without it the step LeaveKey fails. The first frame of an item sets aside the item
itself at most. The argument needs no order on the workers: `ever` only grows and
`always` only shrinks, and both make the invariant weaker. TruthIsLeast shows that
`Truth` is `Derivable` with nothing set aside. DepthIsPathLength rests on the keys of a
path being distinct (DepthInv).

### What the proofs assume

Only the named ASSUMEs of the modules, which TLC evaluates on the runs' instances:

- `PlatformRoleAssumption`, `MemberAssumption`, `PositionAssumption`,
  `TimesheetAssumption`, `BootstrapAssumption`, `OrgTreeConstants`, `AccountsConstants`,
  `VerifierConstants`, `DocsConstants`, `HelpdeskConstants`: the constants have their
  types, units and tickets are finitely many, and a placeholder such as `None` is not one
  of the values it stands beside.
- `TenancyConstants`: also that the list of known modules is not empty and names each once.
- `GatewayConstants`: also that a snapshot's TTL is at most its MaxStale. The defaults
  satisfy it; the code does not validate it, and with a larger TTL the bound that
  ForwardedOnRecentFacts states is the TTL's.
- `DecisionConstants`: also that a request has an item. A batch of none is answered with no
  results, about which there is nothing to claim.
- `ListConstants`: also that the default page size is at least 1 and at most the largest,
  as the constants of every service have it.
- `WorkerAssumption`: also a lease of at least three heartbeats (`worker.go`).
- `GrantsAssumption`: also what validation guarantees of a request (a body that is not
  empty, a company_module object of the request's own company), and a table that
  satisfies the unique index and has no roles yet.
- `EngineAssumption`: also that the parts of a definition are expressions of the model
  and that only the single check names a company (`CheckInCompany`, `BatchCan`).
- `TruthAssumption`: the stages are stages. They exist for every finite table and model;
  the assumption only names them.

### What stays with TLC

- Liveness: EveryItemAnswered, Answered, EveryJobSettles. Fairness and ENABLED are beyond
  the prover.
- The two violations, which are counterexamples.

## Disagreements between the code and its own text

Two are shown by a run: the position without an anchor (org_positions_anchor) and the
chair that keeps its tuple without a row (helpdesk_visible). The others were met while
modelling and are quoted in `PROJECT.json`:

- authz: a role revived by a grant that was checked before an anchor was revoked
  (NoRevivalUnlessRaced excepts it), the batch that decides otherwise than the single
  check at global scope (OrderedReason excepts it), a repeated role grant that is not
  ledgered, the comment that no writer runs beside a batch;
- org: the former user who stays a member after a link over a link (ExactUnlessRaced
  excepts it), an assignment ended twice, a holder tuple that outlives a window with a
  given end, a position update that writes back an outdated unit, a company and a
  module that miss each other;
- registry: overlapping boots that collide on the dependency rows;
- identity: an override left below a raised global policy, a disable undone by the sync;
- notification: a job that a crash takes past the eighth attempt;
- helpdesk: a transition checked against a status that has changed since, the conflict
  answered to a repeated create, the agent tuple left with a relinked member's user;
- docs: a late duplicate share that grants again, a revoke that leaves the former user's
  tuple;
- timesheet: an upsert that replaces a submitted entry, a decision that takes in the
  entries of superseded versions;
- bootstrap: an environment secret that reverts a rotation, repaired roles reported as
  converged.

## Not modelled

Pure functions over text, where a model would repeat the code: parsing and validation
of manifests, model fragments and SQL (`internal/modvalidate`, `internal/authz/fragment`),
configuration, formatting of errors, OpenAPI documents. Pure reads without a protocol of
their own: the effective-access summary, audit views of one object. Pure I/O: header
rewriting, CORS, static files, the Keycloak reverse proxy, metrics, audit payloads.
Client code and tools: SDKs, the web shell, `tools/`, `cmd/` wiring other than
bootstrap's. Generated code is mapped where a statement's order or filter matters
(Directory) and left out otherwise.

Left out of modelled parts: in Grants, the appointment of company admins by the gateway
and the shape checks of subjects; in OrgMembers, creation and deletion of groups; in
NotificationWorker, the branch for a missing deliverer, which the service's wiring rules
out; in Helpdesk, comments and idempotency keys, and notifications, whose failure the
handlers ignore; in Accounts, the search of users and their names; in Gateway, rate
limits; in OrgPositions, the member's active flag, read without a lock by AssignNow: a
member deactivated at that moment is assigned. The gate of `withAuth` is Decision's.

## Plan

1. Action properties from the invariants that are there (a decided submission is never
   decided again; an ended tenure is not reopened), each checked by a run first, and the
   recorded races of Grants and OrgMembers characterised from both sides.
2. The composition of OrgMembers with OrgPositions over the member's active flag.
3. Helpdesk comments and idempotent creates; company-admin appointment.
