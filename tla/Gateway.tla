-------------------------------- MODULE Gateway --------------------------------
(***************************************************************************)
(* The gateway's edge (internal/gateway) after the token is verified: the   *)
(* provisioner that makes sure a caller has an account row before the first *)
(* request goes on, the catalog snapshot with its single-flight refresh and *)
(* bounded staleness, and the two handlers that act on it, the module proxy *)
(* and the guard that admits a registered app's backend.                    *)
(*                                                                          *)
(* The registry is external here (Tenancy models it): a set of facts about  *)
(* one module and one app that change at any time, read in two calls, the   *)
(* catalog and the capabilities.  Time is in ticks and passes only while    *)
(* every request is idle or waits for an answer: local steps take none.     *)
(***************************************************************************)
EXTENDS Naturals, FiniteSets

CONSTANTS
    Subject,    \* callers
    Request,    \* requests in progress at once
    None,       \* no snapshot, no entry, no refresh in flight
    CatalogTTL, \* catalogCacheTTL
    MaxStale,   \* KIBAN_CATALOG_MAX_STALE, above the TTL
    ProvTTL,    \* provisionTTL
    CacheMax,   \* provisionCacheMax
    Timeout,    \* catalogTimeout, of both calls of a refresh together
    MaxTime,    \* bound: ticks
    MaxCalls,   \* bound: requests made
    MaxEvents   \* bound: changes in the registry and restarts

\* The times are whole ticks, and a snapshot may be served at least for its TTL
\* (the default of MaxStale is twelve times the TTL).
GatewayAssumption ==
    /\ CatalogTTL \in Nat \ {0} /\ MaxStale \in Nat /\ Timeout \in Nat
    /\ CatalogTTL <= MaxStale

VARIABLES
    fact,       \* external: what holds in the registry
    held,       \* history: when each fact last held
    row,        \* external: subjects with an identity.user_account row
    snapshot,   \* None, or [at, facts]
    inflight,   \* the request whose refresh others wait for
    lastErr,    \* whether the last refresh failed
    seen,       \* Provisioner.seen: None, or [at, ok]
    req,        \* the requests in progress
    calls,      \* requests made (bounded by MaxCalls)
    events,     \* changes and restarts (bounded by MaxEvents)
    clock       \* the clock

vars == <<fact, held, row, snapshot, inflight, lastErr, seen, req, calls, events, clock>>

\* The catalog tells whether the module is installed and enabled, and whether
\* an installed app has the caller's client as its service client; the
\* capabilities tell whether the module's dependencies are all provided.
CatalogFact == {"enabled", "app"}
Fact == CatalogFact \cup {"provided"}

Target == {"module", "app"}

\* RequireSuperadminOrApp asks whether an installed app has the client
\* (AppForClient), the proxy whether the module is enabled and provided for.
Needs(target) == IF target = "app" THEN {"app"} ELSE {"enabled", "provided"}

Idle == [at |-> "idle"]

Init ==
    /\ fact = Fact
    /\ held = [f \in Fact |-> 0]
    /\ row = {}
    /\ snapshot = None
    /\ inflight = None
    /\ lastErr = FALSE
    /\ seen = [s \in Subject |-> None]
    /\ req = [r \in Request |-> Idle]
    /\ calls = 0
    /\ events = 0
    /\ clock = 0

registry == <<fact, held>>
catalog == <<snapshot, inflight, lastErr>>

Goto(r, step) == req' = [req EXCEPT ![r].at = step]

Finish(r) == req' = [req EXCEPT ![r] = Idle]

-------------------------------------------------------------------------------
(* Provisioner.Ensure. *)

Cached(s) == seen[s] # None /\ seen[s].ok /\ clock - seen[s].at < ProvTTL

EnsureLook(r, s, target) ==
    /\ req[r].at = "idle"
    /\ calls < MaxCalls
    /\ calls' = calls + 1
    /\ req' = [req EXCEPT ![r] = [at |-> IF Cached(s) THEN "get" ELSE "resolve", s |-> s,
                                  target |-> target, asked |-> clock]]
    /\ UNCHANGED <<registry, row, catalog, seen, events, clock>>

\* The cache is dropped whole once it is full.
Remember(s, entry) ==
    seen' = [(IF Cardinality({t \in Subject : seen[t] # None}) >= CacheMax
              THEN [t \in Subject |-> None] ELSE seen) EXCEPT ![s] = entry]

\* resolve answers 200: identity has upserted the row.
Resolved(r) ==
    /\ req[r].at = "resolve"
    /\ row' = row \cup {req[r].s}
    /\ Remember(req[r].s, [at |-> clock, ok |-> TRUE])
    /\ Goto(r, "get")
    /\ UNCHANGED <<registry, catalog, calls, events, clock>>

\* Anything else is answered 503, although the row may be there.
ResolveFails(r) ==
    /\ req[r].at = "resolve"
    /\ Remember(req[r].s, [at |-> clock, ok |-> FALSE])
    /\ Finish(r)
    /\ row' \in {row, row \cup {req[r].s}}
    /\ UNCHANGED <<registry, catalog, calls, events, clock>>

-------------------------------------------------------------------------------
(* CatalogClient.Get. *)

\* Mutated form: a snapshot is served for as long as refreshes fail.
ServedWhileFailing(snap, err) == snap

\* resultLocked: the snapshot, unless the last refresh failed and it is too old.
ResultLocked(snap, err) ==
    IF snap # None /\ (err => clock - snap.at < MaxStale) THEN snap ELSE None

\* The module proxy's checks, and the app guard's, on what Get returned.
\* Without the facts the proxy answers 403 or 404, the guard turns to the
\* superadmin check (Decision); without a snapshot both fail closed.
Serve(q, snap) ==
    IF snap # None /\ Needs(q.target) \subseteq snap.facts
    THEN [at |-> "forwarded", s |-> q.s, target |-> q.target] ELSE Idle

GetFresh(r) ==
    /\ req[r].at = "get"
    /\ snapshot # None
    /\ clock - snapshot.at < CatalogTTL
    /\ req' = [req EXCEPT ![r] = Serve(@, snapshot)]
    /\ UNCHANGED <<registry, row, catalog, seen, calls, events, clock>>

Old == snapshot # None => clock - snapshot.at >= CatalogTTL

\* Somebody else refreshes: wait for the channel to be closed.
GetWait(r) ==
    /\ req[r].at = "get"
    /\ Old
    /\ inflight # None
    /\ req' = [req EXCEPT ![r].at = "wait"]
    /\ UNCHANGED <<registry, row, catalog, seen, calls, events, clock>>

\* fetch, detached from the caller: the catalog first.
FetchCatalog(r) ==
    /\ req[r].at = "get"
    /\ Old
    /\ inflight = None
    /\ inflight' = r
    /\ req' = [req EXCEPT ![r] = [at |-> "fetch", s |-> @.s, target |-> @.target, asked |-> clock,
                                  facts |-> fact \cap CatalogFact]]
    /\ UNCHANGED <<registry, row, snapshot, lastErr, seen, calls, events, clock>>

FetchCapabilities(r) ==
    /\ req[r].at = "fetch"
    /\ req' = [req EXCEPT ![r].at = "store", ![r].facts = @ \cup (fact \ CatalogFact)]
    /\ UNCHANGED <<registry, row, catalog, seen, calls, events, clock>>

\* The end of a refresh wakes those who waited for it.
Woken(r, result) ==
    [q \in Request |-> IF q = r \/ req[q].at = "wait" THEN Serve(req[q], result) ELSE req[q]]

\* The result is stored, stamped with the time it arrived.
FetchStore(r) ==
    /\ req[r].at = "store"
    /\ snapshot' = [at |-> clock, facts |-> req[r].facts]
    /\ lastErr' = FALSE
    /\ inflight' = None
    /\ req' = Woken(r, ResultLocked(snapshot', FALSE))
    /\ UNCHANGED <<registry, row, seen, calls, events, clock>>

\* Either call fails: the older snapshot while it is not too old, else 503.
FetchFails(r) ==
    /\ req[r].at \in {"fetch", "store"}
    /\ lastErr' = TRUE
    /\ inflight' = None
    /\ req' = Woken(r, ResultLocked(snapshot, TRUE))
    /\ UNCHANGED <<registry, row, snapshot, seen, calls, events, clock>>

-------------------------------------------------------------------------------
(* The environment. *)

Answered(r) ==
    /\ req[r].at = "forwarded"
    /\ Finish(r)
    /\ UNCHANGED <<registry, row, catalog, seen, calls, events, clock>>

\* External: a module is enabled or disabled, a dependency goes or comes, an
\* app is registered again with another client.
RegistryChanges(f) ==
    /\ events < MaxEvents
    /\ events' = events + 1
    /\ fact' = IF f \in fact THEN fact \ {f} ELSE fact \cup {f}
    /\ held' = [held EXCEPT ![f] = clock]
    /\ UNCHANGED <<row, catalog, seen, req, calls, clock>>

\* The process dies with its caches; those it served ask again.
Restart ==
    /\ events < MaxEvents
    /\ events' = events + 1
    /\ snapshot' = None
    /\ inflight' = None
    /\ lastErr' = FALSE
    /\ seen' = [s \in Subject |-> None]
    /\ req' = [r \in Request |-> Idle]
    /\ UNCHANGED <<registry, row, calls, clock>>

Tick ==
    /\ clock < MaxTime
    /\ \A r \in Request :
         \/ req[r].at \in {"idle", "wait"}
         \/ req[r].at \in {"resolve", "fetch", "store"} /\ clock - req[r].asked < Timeout
    /\ clock' = clock + 1
    /\ held' = [f \in Fact |-> IF f \in fact THEN clock + 1 ELSE held[f]]
    /\ UNCHANGED <<fact, row, catalog, seen, req, calls, events>>

\* RequireAuth, once the token is verified: the account before anything else.
RequireAuth(r) ==
    \/ \E s \in Subject, t \in Target : EnsureLook(r, s, t)
    \/ Resolved(r)
    \/ ResolveFails(r)

\* CatalogClient.Get, for the handler behind.
Get(r) ==
    \/ GetFresh(r)
    \/ GetWait(r)
    \/ FetchCatalog(r)
    \/ FetchCapabilities(r)
    \/ FetchStore(r)
    \/ FetchFails(r)

Next ==
    \/ \E r \in Request : RequireAuth(r) \/ Get(r) \/ Answered(r)
    \/ \E f \in Fact : RegistryChanges(f)
    \/ Restart
    \/ Tick

-------------------------------------------------------------------------------
(* Properties. *)

\* A request is forwarded only if its caller has an account row, whatever
\* overlapping resolves, failures, a full cache and restarts left in the
\* provisioner's cache, and if each fact it needs held in the registry within
\* the time a snapshot may be served and one refresh, whether it found the
\* snapshot, refreshed it or waited for another's refresh.
ForwardedOnRecentFacts ==
    \A r \in Request :
      req[r].at = "forwarded" =>
        /\ req[r].s \in row
        /\ \A f \in Needs(req[r].target) : clock - held[f] < MaxStale + Timeout
===============================================================================
