-------------------------------- MODULE Platform --------------------------------
(*****************************************************************************)
(* Platform services side by side: the platform role, the org tree, the      *)
(* registry with its default grants, the identity service's accounts, and at *)
(* the gateway the verification of tokens and the caches in front of the     *)
(* registry and identity.  They share no state (each instance takes what it  *)
(* reads of another as external), so that their product says no more than    *)
(* each alone: a behaviour is one of the six, and the variables of the       *)
(* others are None.                                                          *)
(*****************************************************************************)
EXTENDS PlatformRole

CONSTANTS
    None, Unit, CompanyUnit, Position, MaxDepth,
    Known, App, Mandatory, Dep, TypeOf, Company, Listed, Replica, TenancyOps,
    User, Service, Policy, TTL, Latency, AccountOps, AccountTime,
    Kid, Ticker, CacheTTL, Interval, Cooldown, KidMiss, MaxTokens, TokenTime,
    CatalogTTL, MaxStale, ProvTTL, CacheMax, MaxCalls, MaxEvents, GatewayTime,
    Inbound, Timeout

VARIABLES
    which,
    unit, parent, pos, used, treeLock,
    inst, dep, fragment, active, claimed, system, seed, tx, settled, excluded,
    account, global, override, kc, wanted, cache, now, lastOn, undone, synced,
    published, since, lastPub, set, fetchedAt, lastFailed, lastKid, kidLock, proc, fired, tokens,
    fact, held, row, snapshot, inflight, lastErr, seen, request, calls, events,
    call, ops, clock

role == <<holders, ledger, audited, known, keycloak, received, lock, bootLock, pc, req, change>>
orgTree == <<unit, parent, pos, used, treeLock>>
tenancy == <<inst, dep, fragment, active, claimed, system, seed, tx, settled, excluded>>
accounts == <<account, global, override, kc, wanted, cache, now, lastOn, undone, synced>>
verifier == <<published, since, lastPub, set, fetchedAt, lastFailed, lastKid, kidLock, proc, fired, tokens>>
gateway == <<fact, held, row, snapshot, inflight, lastErr, seen, request, calls, events>>

platform == <<which, role, orgTree, tenancy, accounts, verifier, gateway, call, ops, clock>>

O == INSTANCE OrgTree
T == INSTANCE Tenancy WITH MaxOps <- TenancyOps
A == INSTANCE Accounts WITH MaxTime <- AccountTime, MaxOps <- AccountOps
V == INSTANCE TokenVerifier WITH Request <- Inbound, MaxTime <- TokenTime
G == INSTANCE Gateway WITH Request <- Inbound, req <- request, MaxTime <- GatewayTime

ASSUME OrgTreeConstants == O!OrgTreeAssumption
ASSUME TenancyConstants == T!TenancyAssumption
ASSUME AccountsConstants == A!AccountsAssumption
ASSUME VerifierConstants == V!VerifierAssumption
ASSUME GatewayConstants == G!GatewayAssumption

RoleOff ==
    /\ holders = None /\ ledger = None /\ audited = None /\ known = None
    /\ keycloak = None /\ received = None /\ lock = None /\ bootLock = None
    /\ pc = None /\ req = None /\ change = None

OrgTreeOff ==
    unit = None /\ parent = None /\ pos = None /\ used = None /\ treeLock = None

TenancyOff ==
    /\ inst = None /\ dep = None /\ fragment = None /\ active = None
    /\ claimed = None /\ system = None /\ seed = None /\ tx = None
    /\ settled = None /\ excluded = None

AccountsOff ==
    /\ account = None /\ global = None /\ override = None /\ kc = None
    /\ wanted = None /\ cache = None /\ now = None /\ lastOn = None
    /\ undone = None /\ synced = None

VerifierOff ==
    /\ published = None /\ since = None /\ lastPub = None /\ set = None
    /\ fetchedAt = None /\ lastFailed = None /\ lastKid = None /\ kidLock = None
    /\ proc = None /\ fired = None /\ tokens = None

GatewayOff ==
    /\ fact = None /\ held = None /\ row = None /\ snapshot = None
    /\ inflight = None /\ lastErr = None /\ seen = None /\ request = None
    /\ calls = None /\ events = None

PlatformInit ==
    \/ /\ which = "role" /\ Init
       /\ OrgTreeOff /\ TenancyOff /\ AccountsOff /\ VerifierOff /\ GatewayOff
       /\ call = None /\ ops = None /\ clock = None
    \/ /\ which = "org" /\ O!Init
       /\ RoleOff /\ TenancyOff /\ AccountsOff /\ VerifierOff /\ GatewayOff
       /\ ops = None /\ clock = None
    \/ /\ which = "tenancy" /\ T!Init
       /\ RoleOff /\ OrgTreeOff /\ AccountsOff /\ VerifierOff /\ GatewayOff
       /\ call = None /\ clock = None
    \/ /\ which = "accounts" /\ A!Init
       /\ RoleOff /\ OrgTreeOff /\ TenancyOff /\ VerifierOff /\ GatewayOff
       /\ clock = None
    \/ /\ which = "verifier" /\ V!Init
       /\ RoleOff /\ OrgTreeOff /\ TenancyOff /\ AccountsOff /\ GatewayOff
       /\ call = None /\ ops = None
    \/ /\ which = "gateway" /\ G!Init
       /\ RoleOff /\ OrgTreeOff /\ TenancyOff /\ AccountsOff /\ VerifierOff
       /\ call = None /\ ops = None

PlatformNext ==
    /\ UNCHANGED which
    /\ \/ /\ which = "role" /\ Next
          /\ UNCHANGED <<orgTree, tenancy, accounts, verifier, gateway, call, ops, clock>>
       \/ /\ which = "org" /\ O!Next
          /\ UNCHANGED <<role, tenancy, accounts, verifier, gateway, ops, clock>>
       \/ /\ which = "tenancy" /\ T!Next
          /\ UNCHANGED <<role, orgTree, accounts, verifier, gateway, call, clock>>
       \/ /\ which = "accounts" /\ A!Next
          /\ UNCHANGED <<role, orgTree, tenancy, verifier, gateway, clock>>
       \/ /\ which = "verifier" /\ V!Next
          /\ UNCHANGED <<role, orgTree, tenancy, accounts, gateway, call, ops>>
       \/ /\ which = "gateway" /\ G!Next
          /\ UNCHANGED <<role, orgTree, tenancy, accounts, verifier, call, ops>>

PlatformSpec == PlatformInit /\ [][PlatformNext]_platform

-------------------------------------------------------------------------------

\* Org: following parent_id from any unit ends at a root that exists, whatever
\* moves, creates and deletes overlap (UpdateOrgUnit, org_unit_lock_before_move).
TreeIsForest == which = "org" => O!Forest

\* Org: a position sits beneath its own company, also when a unit moves while a
\* position is created in it (CreatePosition, UpdateOrgUnit, lock_org_tree).
PositionsStay == which = "org" => O!PositionsUnderCompany

\* Registry: one quiet boot repairs what overlapping boots, enables, activations
\* and crashes left behind, and the transactions keep it so (Seed, SetEnabled,
\* defaultGrantNewCompanyTx).
ConsistentSinceQuietBoot == which = "tenancy" => T!ConsistentSinceQuietBoot

\* Registry: a module taken away from a company does not come back by itself
\* (EnsureDefaultGrant).
ExcludedStaysExcluded == which = "tenancy" => T!ExcludedStaysExcluded

\* Identity: a sync writes the mode it reports and nothing else, unless a disable
\* fell between its GET and its PUT (SyncMfaPolicy, SetUserAttribute).
SyncWritesOnlyTheMode == which = "accounts" => A!SyncWritesOnlyTheMode

\* Identity: a cached "enabled" that can still be answered is no older than the
\* TTL and one call, however calls overlapped (CachedUserState).
DisableSeenInTime == which = "accounts" => A!DisableSeenInTime

\* Gateway: a token is accepted only if its key was published within the life
\* of the cache and one fetch, unless the last fetch failed (ensureFresh).
WithdrawnKeyExpires == which = "verifier" => V!WithdrawnKeyExpires

\* Gateway: a token whose key has been published for longer than the refetch
\* interval and one fetch is not rejected, unless the last fetch failed (Parse,
\* refetchForKid).
RotationHeals == which = "verifier" => V!RotationHeals

\* Gateway: a request is forwarded only for a caller with an account row, and
\* only if each fact it needs held in the registry within the time a snapshot
\* may be served and one refresh (Ensure, Get).
ForwardedOnRecentFacts == which = "gateway" => G!ForwardedOnRecentFacts

===============================================================================
