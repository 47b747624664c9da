------------------------------- MODULE Accounts -------------------------------
(***************************************************************************)
(* The identity service (internal/identity): user accounts, the MFA policy  *)
(* and its layering, the sync that writes the effective policy to Keycloak, *)
(* and the cached answer to "is this user enabled" that every decision      *)
(* asks for.  Keycloak is external: a user representation that its own      *)
(* administrators change at any time, read and written over HTTP calls      *)
(* that can fail.                                                           *)
(*                                                                          *)
(* A policy is its rank (mfaPolicyRank), 0 for "not required": the method   *)
(* of an enforceable policy, and the required_mode it maps to, are one to   *)
(* one with it, and an unenforceable one is refused before any transaction. *)
(* E-mail addresses and names are left out.                                 *)
(***************************************************************************)
EXTENDS Naturals, FiniteSets

CONSTANTS
    User,      \* Keycloak users, named by kcSub
    Service,   \* the users that are service accounts of a client
    Policy,    \* ranks of MFA policies, a set of naturals
    Client,    \* requests in progress at once
    None,      \* no row, no entry
    TTL,       \* life of a cached user state, in ticks
    Latency,   \* longest admin API call, in ticks
    MaxOps,    \* bound: requests and changes in Keycloak made
    MaxTime    \* bound: ticks

AccountsAssumption == Policy \subseteq Nat /\ TTL \in Nat /\ Latency \in Nat

VARIABLES
    account,   \* identity.user_account: None, or the kind
    global,    \* identity.mfa_policy, scope global
    override,  \* identity.mfa_policy, scope user: None, or the policy
    kc,        \* external: Keycloak's [enabled, mode] of each user
    wanted,    \* history: the last word of Keycloak's administrators on enabled
    cache,     \* CachedUserState.seen: None, or [state, until]
    now,       \* the clock
    lastOn,    \* history: when the user was last enabled in Keycloak
    call,      \* the request each client has in progress
    ops,       \* requests and changes made (bounded by MaxOps)
    undone,    \* history: users disabled between a sync's GET and its PUT
    synced     \* history: users a sync nothing overlapped reported as written

vars == <<account, global, override, kc, wanted, cache, now, lastOn, call, ops, undone, synced>>

stored == <<account, global, override>>
keycloak == <<kc, wanted, lastOn>>

Idle == [op |-> "idle"]

Init ==
    /\ account = [u \in User |-> None]
    /\ global = 0
    /\ override = [u \in User |-> None]
    /\ kc = [u \in User |-> [enabled |-> TRUE, mode |-> None]]
    /\ wanted = [u \in User |-> TRUE]
    /\ cache = [u \in User |-> None]
    /\ now = 0
    /\ lastOn = [u \in User |-> 0]
    /\ call = [c \in Client |-> Idle]
    /\ ops = 0
    /\ undone = {}
    /\ synced = {}

Begin(c) ==
    /\ call[c] = Idle
    /\ ops < MaxOps
    /\ ops' = ops + 1

End(c) == call' = [call EXCEPT ![c] = Idle]

-------------------------------------------------------------------------------
(* Accounts and policies. *)

\* What the admin API may answer: whether a client names the user as its
\* service account, or no answer.
IsServiceAccount(u) == {(u \in Service), None}

\* The upsert replaces the kind recorded before.
UpsertUserAccount(u, kind) == account' = [account EXCEPT ![u] = kind]

ResolveOrCreate(u, kind) ==
    /\ ops < MaxOps
    /\ ops' = ops + 1
    /\ UpsertUserAccount(u, kind)
    /\ UNCHANGED <<global, override, keycloak, cache, now, call, undone, synced>>

\* A user whom Keycloak cannot be asked about is taken for a person.
handleResolve(u) ==
    \E answer \in IsServiceAccount(u) :
        ResolveOrCreate(u, IF answer = TRUE THEN "service" ELSE "person")

\* A policy write takes every sync in progress out of the exact ones.
Unsettle ==
    /\ synced' = {}
    /\ call' = [c \in Client |-> IF call[c].op = "sync" THEN [call[c] EXCEPT !.alone = FALSE] ELSE call[c]]

SetGlobalMfaPolicy(p) == global' = p

SetGlobalPolicy(p) ==
    /\ ops < MaxOps
    /\ ops' = ops + 1
    /\ p # global
    /\ SetGlobalMfaPolicy(p)
    /\ Unsettle
    /\ UNCHANGED <<account, override, keycloak, cache, now, undone>>

requireUser(u) == account[u] # None

\* mfaPolicyRank: an override may only raise.
RankAllows(p) == p >= global

\* SetUserPolicy: the user, the global policy and the rank are checked in a
\* transaction that locks none of them.
SetUserCheck(c, u, p) ==
    /\ Begin(c)
    /\ requireUser(u)
    /\ RankAllows(p)
    /\ call' = [call EXCEPT ![c] = [op |-> "set", u |-> u, p |-> p]]
    /\ UNCHANGED <<stored, keycloak, cache, now, undone, synced>>

UpsertUserMfaPolicy(u, p) == override' = [override EXCEPT ![u] = p]

SetUserCommit(c) ==
    /\ call[c].op = "set"
    /\ UpsertUserMfaPolicy(call[c].u, call[c].p)
    /\ synced' = {}
    /\ call' = [d \in Client |->
                  IF d = c THEN Idle
                  ELSE IF call[d].op = "sync" THEN [call[d] EXCEPT !.alone = FALSE] ELSE call[d]]
    /\ UNCHANGED <<account, global, keycloak, cache, now, ops, undone>>

\* Without a row nothing changes.
DeleteUserMfaPolicy(u) ==
    /\ override[u] # None
    /\ override' = [override EXCEPT ![u] = None]

ClearUserPolicy(u) ==
    /\ ops < MaxOps
    /\ ops' = ops + 1
    /\ requireUser(u)
    /\ DeleteUserMfaPolicy(u)
    /\ Unsettle
    /\ UNCHANGED <<account, global, keycloak, cache, now, undone>>

\* EffectivePolicy: the override, or else the global policy.
EffectivePolicy(u) == IF override[u] # None THEN override[u] ELSE global

-------------------------------------------------------------------------------
(* SyncMfaPolicy. *)

\* What ListEffectivePolicies makes of a row of the join and the global row.
RowOrGlobal(row, base) == IF row # None THEN row ELSE base

Syncs == {c \in Client : call[c].op = "sync"}

\* ListUserAccountsWithMfaPolicy: every account with its override.
SyncList(c) ==
    /\ Begin(c)
    /\ call' = [d \in Client |->
                  IF d = c THEN [op |-> "sync", at |-> "global", rows |-> override, base |-> None,
                                 todo |-> {u \in User : account[u] # None},
                                 ok |-> {}, u |-> None, rep |-> None, alone |-> Syncs = {}]
                  ELSE IF d \in Syncs THEN [call[d] EXCEPT !.alone = FALSE] ELSE call[d]]
    /\ UNCHANGED <<stored, keycloak, cache, now, undone, synced>>

\* GetGlobalMfaPolicy, a second statement outside any transaction.
SyncGlobal(c) ==
    /\ call[c].op = "sync"
    /\ call[c].at = "global"
    /\ call' = [call EXCEPT ![c].base = global, ![c].at = "loop"]
    /\ UNCHANGED <<stored, keycloak, cache, now, ops, undone, synced>>

\* getUser, for the next user of the list.
SyncGet(c, u) ==
    /\ call[c].op = "sync"
    /\ call[c].at = "loop"
    /\ u \in call[c].todo
    /\ call' = [call EXCEPT ![c].at = "put", ![c].u = u, ![c].rep = kc[u]]
    /\ UNCHANGED <<stored, keycloak, cache, now, ops, undone, synced>>

\* The GET fails: a failed outcome, and on to the next user.
SyncGetFails(c, u) ==
    /\ call[c].op = "sync"
    /\ call[c].at = "loop"
    /\ u \in call[c].todo
    /\ call' = [call EXCEPT ![c].todo = @ \ {u}]
    /\ UNCHANGED <<stored, keycloak, cache, now, ops, undone, synced>>

\* Mutated form: a representation that holds only what this package models.
OwnRepresentation(rep, mode) == [enabled |-> TRUE, mode |-> mode]

\* SetUserAttribute: the representation that was read, one attribute changed.
SetUserAttribute(rep, mode) == [rep EXCEPT !.mode = mode]

\* updateUser: the whole representation goes back.  Keycloak may store it and
\* the answer be lost, which is a failed outcome, or not be reached at all.
SyncPut(c) ==
    /\ call[c].op = "sync"
    /\ call[c].at = "put"
    /\ LET u == call[c].u
           written == SetUserAttribute(call[c].rep, RowOrGlobal(call[c].rows[u], call[c].base))
       IN  \E stored_, answered \in BOOLEAN :
             /\ answered => stored_
             /\ kc' = IF stored_ THEN [kc EXCEPT ![u] = written] ELSE kc
             /\ undone' = IF stored_ /\ written.enabled /\ ~wanted[u] /\ call[c].rep.enabled
                          THEN undone \cup {u} ELSE undone
             /\ lastOn' = IF stored_ /\ written.enabled THEN [lastOn EXCEPT ![u] = now] ELSE lastOn
             /\ call' = [call EXCEPT ![c].at = "loop", ![c].todo = @ \ {u}, ![c].rep = None, ![c].u = None,
                                     ![c].ok = IF answered THEN @ \cup {u} ELSE @]
    /\ UNCHANGED <<stored, wanted, cache, now, ops, synced>>

\* The outcomes are reported, one per user.
SyncReport(c) ==
    /\ call[c].op = "sync"
    /\ call[c].at = "loop"
    /\ call[c].todo = {}
    /\ synced' = IF call[c].alone THEN call[c].ok ELSE synced
    /\ End(c)
    /\ UNCHANGED <<stored, keycloak, cache, now, ops, undone>>

-------------------------------------------------------------------------------
(* The user state of a decision. *)

\* Mutated form: a hit keeps the entry alive.
UserStateHitExtends(u) ==
    /\ requireUser(u)
    /\ cache[u] # None
    /\ now < cache[u].until
    /\ cache' = [cache EXCEPT ![u].until = now + TTL]
    /\ UNCHANGED <<stored, keycloak, now, call, ops, undone, synced>>

\* AdminClient.UserEnabled, when it answers.
UserEnabled(u) == kc[u].enabled

\* CachedUserState.UserEnabled: an entry that has not expired is the answer.
UserStateHit(u) ==
    /\ requireUser(u)
    /\ cache[u] # None
    /\ now < cache[u].until
    /\ UNCHANGED vars

\* A miss asks Keycloak, outside the lock.
UserStateAsk(c, u) ==
    /\ Begin(c)
    /\ requireUser(u)
    /\ cache[u] # None => now >= cache[u].until
    /\ call' = [call EXCEPT ![c] = [op |-> "state", u |-> u, since |-> now, state |-> UserEnabled(u)]]
    /\ UNCHANGED <<stored, keycloak, cache, now, undone, synced>>

\* A definite answer is remembered for TTL from now.
UserStateStore(c) ==
    /\ call[c].op = "state"
    /\ cache' = [cache EXCEPT ![call[c].u] = [state |-> call[c].state, until |-> now + TTL]]
    /\ End(c)
    /\ UNCHANGED <<stored, keycloak, now, ops, undone, synced>>

\* A state call or a policy transaction that fails leaves nothing behind.
Fail(c) ==
    /\ call[c].op \in {"set", "state"}
    /\ End(c)
    /\ UNCHANGED <<stored, keycloak, cache, now, ops, undone, synced>>

-------------------------------------------------------------------------------
(* The environment. *)

\* External: an administrator disables or enables the user in Keycloak.
KcSetEnabled(u, b) ==
    /\ ops < MaxOps
    /\ ops' = ops + 1
    /\ wanted[u] # b \/ kc[u].enabled # b
    /\ kc' = [kc EXCEPT ![u].enabled = b]
    /\ wanted' = [wanted EXCEPT ![u] = b]
    /\ lastOn' = IF b THEN [lastOn EXCEPT ![u] = now] ELSE lastOn
    /\ undone' = undone \ {u}
    /\ UNCHANGED <<stored, cache, now, call, synced>>

\* Time passes; the HTTP client ends an admin API call after Latency.
Tick ==
    /\ now < MaxTime
    /\ \A c \in Client : call[c].op = "state" => now - call[c].since < Latency
    /\ now' = now + 1
    /\ lastOn' = [u \in User |-> IF kc[u].enabled THEN now + 1 ELSE lastOn[u]]
    /\ UNCHANGED <<stored, kc, wanted, cache, call, ops, undone, synced>>

\* The handlers: the steps each of them takes.
handleSetGlobalPolicy == \E p \in Policy : SetGlobalPolicy(p)

handleSetUserPolicy(c) ==
    \/ \E u \in User, p \in Policy : SetUserCheck(c, u, p)
    \/ SetUserCommit(c)

handleClearUserPolicy == \E u \in User : ClearUserPolicy(u)

SyncMfaPolicy(c) ==
    \/ \E u \in User : SyncGet(c, u) \/ SyncGetFails(c, u)
    \/ SyncPut(c)
    \/ SyncReport(c)

handleSyncPolicy(c) ==
    \/ SyncList(c)
    \/ SyncGlobal(c)
    \/ SyncMfaPolicy(c)

handleUserState(c) ==
    \/ \E u \in User : UserStateHit(u) \/ UserStateAsk(c, u)
    \/ UserStateStore(c)

Next ==
    \/ \E u \in User : handleResolve(u)
    \/ handleSetGlobalPolicy
    \/ handleClearUserPolicy
    \/ \E c \in Client :
        \/ handleSetUserPolicy(c)
        \/ handleSyncPolicy(c)
        \/ handleUserState(c)
        \/ Fail(c)
    \/ \E u \in User, b \in BOOLEAN : KcSetEnabled(u, b)
    \/ Tick

-------------------------------------------------------------------------------
(* Properties. *)

\* A sync writes the mode it reports and nothing else, although the list, the
\* global policy, and each GET and PUT are separate steps.  A user it reports
\* as written has, in Keycloak, the mode EffectivePolicy resolves, as long as no
\* policy changed since the sync began and no other sync overlapped it; and a
\* user whom Keycloak's administrators disabled stays disabled, unless the
\* disable fell between a GET and its PUT (SetUserAttribute sends back the whole
\* representation it read).
SyncWritesOnlyTheMode ==
    /\ \A u \in synced : kc[u].mode = EffectivePolicy(u)
    /\ \A u \in User : kc[u].enabled /\ ~wanted[u] => u \in undone

\* A cached answer "enabled" that can still be given is never older than TTL
\* and one call: the user was enabled in Keycloak within that time, whatever
\* calls overlapped and in whichever order they stored their answers.
DisableSeenInTime ==
    \A u \in User :
      cache[u] # None /\ cache[u].state /\ now < cache[u].until
        => now - lastOn[u] < TTL + Latency
===============================================================================
