----------------------------- MODULE TokenVerifier -----------------------------
(***************************************************************************)
(* The gateway's token verifier (internal/gateway/token.go): a cached JWKS  *)
(* that is refreshed when it is old, by a background ticker, and when a     *)
(* token names a kid the cache does not carry.  Refreshes are not           *)
(* serialised: two can be in flight, and the one that asked first may store *)
(* its answer last.  Keycloak, external, publishes a set of keys and        *)
(* rotates it.                                                              *)
(*                                                                          *)
(* Time is in ticks and passes only while every request is idle, waits for  *)
(* an answer or waits for the kid lock: local steps take none.  A token is  *)
(* the kid of the key that signed it; its claims are left out (checked from *)
(* the token alone).                                                        *)
(***************************************************************************)
EXTENDS Naturals

CONSTANTS
    Kid,        \* signing keys, each published once and withdrawn once
    Request,    \* requests being verified at once
    Ticker,     \* the background refresh
    None,       \* zero time, no answer yet
    CacheTTL,   \* jwksCacheTTL
    Interval,   \* jwksRefreshInterval
    Cooldown,   \* jwksCooldown
    KidMiss,    \* jwksKidMissInterval
    Timeout,    \* jwksFetchTimeout
    MaxTime,    \* bound: ticks
    MaxTokens   \* bound: tokens presented

\* The times are whole ticks, and neither the life of the cache nor the pause
\* between two refetches is nothing.
VerifierAssumption ==
    /\ CacheTTL \in Nat \ {0} /\ KidMiss \in Nat \ {0} /\ Timeout \in Nat
    /\ None \notin Nat \cup Request /\ Ticker \notin Request

VARIABLES
    published,  \* external: the keys Keycloak publishes
    since,      \* history: when a key was published; None before
    lastPub,    \* history: when a key was last published
    set,        \* the cached key set
    fetchedAt,  \* when it was stored
    lastFailed, \* when a fetch last failed; None once one succeeds
    lastKid,    \* when the last refetch for a kid began
    kidLock,    \* kidMissMu: None, or the request that holds it
    proc,       \* what each request, and the ticker, is doing
    fired,      \* how often the ticker has fired
    tokens,     \* tokens presented (bounded by MaxTokens)
    clock       \* the clock

vars == <<published, since, lastPub, set, fetchedAt, lastFailed, lastKid, kidLock, proc, fired, tokens, clock>>

keys == <<published, since, lastPub>>

Waiting == [at |-> "idle"]

\* NewTokenVerifier: the first fetch must succeed.
Init ==
    /\ published \in SUBSET Kid
    /\ since = [k \in Kid |-> IF k \in published THEN 0 ELSE None]
    /\ lastPub = [k \in Kid |-> 0]
    /\ set = published
    /\ fetchedAt = 0
    /\ lastFailed = None
    /\ lastKid = None
    /\ kidLock = None
    /\ proc = [p \in Request \cup {Ticker} |-> Waiting]
    /\ fired = 0
    /\ tokens = 0
    /\ clock = 0

Goto(p, step) == proc' = [proc EXCEPT ![p].at = step]

-------------------------------------------------------------------------------
(* Refresh: the fetch, and the answer stored under the lock. *)

\* jwk.Fetch: what Keycloak publishes at this moment is on its way; who asked
\* for it goes on at ret.
Fetch(k, ret) ==
    [at |-> "store", got |-> published, asked |-> clock, kid |-> k, ret |-> ret]

\* A request goes on where it asked for the refresh, the ticker waits again.
Return(p) ==
    proc' = [proc EXCEPT ![p] = IF p = Ticker THEN Waiting ELSE [at |-> @.ret, kid |-> @.kid]]

Refresh(p) ==
    /\ proc[p].at = "store"
    /\ set' = proc[p].got
    /\ fetchedAt' = clock
    /\ lastFailed' = None
    /\ Return(p)
    /\ UNCHANGED <<keys, lastKid, kidLock, fired, tokens, clock>>

RefreshFails(p) ==
    /\ proc[p].at = "store"
    /\ lastFailed' = clock
    /\ Return(p)
    /\ UNCHANGED <<keys, set, fetchedAt, lastKid, kidLock, fired, tokens, clock>>

\* refreshJWKSPeriodically: the ticker fires.
TickerFires ==
    /\ proc[Ticker].at = "idle"
    /\ clock >= (fired + 1) * Interval
    /\ fired' = fired + 1
    /\ proc' = [proc EXCEPT ![Ticker] = Fetch(None, "idle")]
    /\ UNCHANGED <<keys, set, fetchedAt, lastFailed, lastKid, kidLock, tokens, clock>>

-------------------------------------------------------------------------------
(* Verify. *)

\* Mutated form: a set, once there, is never old.
HasSet == FALSE

Stale == clock - fetchedAt >= CacheTTL

InCooldown == lastFailed # None /\ clock - lastFailed < Cooldown

\* ensureFresh: an old set is refreshed, except in the cooldown.
EnsureFresh(p, k) ==
    /\ proc[p].at = "idle"
    /\ tokens < MaxTokens
    /\ tokens' = tokens + 1
    /\ proc' = [proc EXCEPT ![p] = IF Stale /\ ~InCooldown
                                   THEN Fetch(k, "kid")
                                   ELSE [at |-> "kid", kid |-> k]]
    /\ UNCHANGED <<keys, set, fetchedAt, lastFailed, lastKid, kidLock, fired, clock>>

\* Mutated form: a kid the set does not carry is rejected as it is.
NoRefetch(p) ==
    /\ proc[p].at = "kid"
    /\ Goto(p, "parse")
    /\ UNCHANGED <<keys, set, fetchedAt, lastFailed, lastKid, kidLock, fired, tokens, clock>>

\* unknownKid: whether the current set carries the token's key.
UnknownKid(p) ==
    /\ proc[p].at = "kid"
    /\ Goto(p, IF proc[p].kid \in set THEN "parse" ELSE "lock")
    /\ UNCHANGED <<keys, set, fetchedAt, lastFailed, lastKid, kidLock, fired, tokens, clock>>

\* refetchForKid: one refetch at a time, and none within KidMiss of the last.
RefetchForKid(p) ==
    /\ proc[p].at = "lock"
    /\ kidLock = None
    /\ \/ /\ lastKid # None
          /\ clock - lastKid < KidMiss
          /\ Goto(p, "parse")
          /\ UNCHANGED <<lastKid, kidLock>>
       \/ /\ lastKid # None => clock - lastKid >= KidMiss
          /\ lastKid' = clock
          /\ kidLock' = p
          /\ proc' = [proc EXCEPT ![p] = Fetch(@.kid, "unlock")]
    /\ UNCHANGED <<keys, set, fetchedAt, lastFailed, fired, tokens, clock>>

Unlock(p) ==
    /\ proc[p].at = "unlock"
    /\ kidLock' = None
    /\ Goto(p, "parse")
    /\ UNCHANGED <<keys, set, fetchedAt, lastFailed, lastKid, fired, tokens, clock>>

\* jwt.Parse with whatever set is current.  excused is history: the answer is
\* given while the last fetch is one that failed.
Parse(p) ==
    /\ proc[p].at = "parse"
    /\ proc' = [proc EXCEPT ![p] = [at |-> IF @.kid \in set THEN "accepted" ELSE "rejected",
                                    kid |-> @.kid, excused |-> lastFailed # None]]
    /\ UNCHANGED <<keys, set, fetchedAt, lastFailed, lastKid, kidLock, fired, tokens, clock>>

Answer(p) ==
    /\ proc[p].at \in {"accepted", "rejected"}
    /\ proc' = [proc EXCEPT ![p] = Waiting]
    /\ UNCHANGED <<keys, set, fetchedAt, lastFailed, lastKid, kidLock, fired, tokens, clock>>

-------------------------------------------------------------------------------
(* The environment. *)

\* External: Keycloak publishes a new key, or withdraws one.
Publish(k) ==
    /\ since[k] = None
    /\ published' = published \cup {k}
    /\ since' = [since EXCEPT ![k] = clock]
    /\ lastPub' = [lastPub EXCEPT ![k] = clock]
    /\ UNCHANGED <<set, fetchedAt, lastFailed, lastKid, kidLock, proc, fired, tokens, clock>>

Withdraw(k) ==
    /\ k \in published
    /\ published' = published \ {k}
    /\ UNCHANGED <<since, lastPub, set, fetchedAt, lastFailed, lastKid, kidLock, proc, fired, tokens, clock>>

\* Time passes while all wait; a fetch ends within Timeout.
Tick ==
    /\ clock < MaxTime
    /\ \A p \in Request \cup {Ticker} :
         \/ proc[p].at = "idle"
         \/ proc[p].at = "store" /\ clock - proc[p].asked < Timeout
         \/ proc[p].at = "lock" /\ kidLock # None
    /\ clock' = clock + 1
    /\ lastPub' = [k \in Kid |-> IF k \in published THEN clock + 1 ELSE lastPub[k]]
    /\ UNCHANGED <<published, since, set, fetchedAt, lastFailed, lastKid, kidLock, proc, fired, tokens>>

\* Verify, and whatever refresh it waits for.
Verify(p) ==
    \/ \E k \in Kid : EnsureFresh(p, k)
    \/ UnknownKid(p)
    \/ RefetchForKid(p)
    \/ Unlock(p)
    \/ Parse(p)
    \/ Answer(p)

Next ==
    \/ \E p \in Request \cup {Ticker} : Refresh(p) \/ RefreshFails(p)
    \/ TickerFires
    \/ \E p \in Request : Verify(p)
    \/ \E k \in Kid : Publish(k) \/ Withdraw(k)
    \/ Tick

-------------------------------------------------------------------------------
(* Properties. *)

\* A token is accepted only if Keycloak published its key within the life of
\* the cache and one fetch, unless the last fetch failed: no order in which
\* overlapping refreshes store their answers keeps a withdrawn key longer.
WithdrawnKeyExpires ==
    \A p \in Request :
      proc[p].at = "accepted" => \/ proc[p].excused
                                 \/ clock - lastPub[proc[p].kid] < CacheTTL + Timeout

\* A token whose key Keycloak has published for longer than the refetch
\* interval and one fetch is not rejected, unless the last fetch failed: a
\* rotation heals although an older answer may replace the set that knew the
\* key and the refetches are limited.
RotationHeals ==
    \A p \in Request :
      proc[p].at = "rejected" /\ proc[p].kid \in published
        => \/ proc[p].excused
           \/ clock - since[proc[p].kid] < KidMiss + Timeout
===============================================================================
