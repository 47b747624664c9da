-------------------------------- MODULE Tenancy --------------------------------
(***************************************************************************)
(* Which modules run for which companies: the registry's installation rows  *)
(* (internal/registry), the authz fragments that follow them, and the       *)
(* default module-access grants (authz/store/default_grant.go) that the     *)
(* registry, the org service and the bootstrap job each write for the pairs *)
(* they know of.                                                            *)
(*                                                                          *)
(* Seed runs at every boot of every registry replica, statement by          *)
(* statement and in no transaction; enabling a module, registering an app   *)
(* and activating a company are transactions of their own.  A transaction   *)
(* that lists the other side's rows is two steps, the list and the commit,  *)
(* for what commits in between is not in its list.                          *)
(***************************************************************************)
EXTENDS Integers, Sequences, FiniteSets

CONSTANTS
    Known,        \* BuiltinModules, in order
    App,          \* keys of apps registered at runtime
    Mandatory,    \* the known modules that cannot be disabled
    Dep,          \* manifests: <<module, module it depends on>>
    TypeOf,       \* the object types a module's fragment declares
    Company,      \* ids of companies
    Listed,       \* values KIBAN_INSTALLED_MODULES may have at a boot
    Replica,      \* registry processes
    Client,       \* admin requests and bootstrap jobs in progress at once
    None,         \* no row
    MaxOps        \* bound: boots, requests and jobs started

VARIABLES
    inst,      \* platform.module_installation: None, "uninstalled",
               \* "disabled" or "enabled"
    dep,       \* platform.module_dependency
    fragment,  \* authz.model_fragment: None or its active flag
    active,    \* org.org_unit: the companies that are active
    claimed,   \* authz.default_grant: <<company, module>>
    system,    \* tuples company_module#system @ system:platform
    seed,      \* the boot each replica is in
    tx,        \* the transaction or job each client is in
    ops,       \* boots, requests and jobs started
    settled,   \* history: since the last quiet boot no boot ran, and no enabling
               \* of a module overlapped the activation of a company
    excluded   \* history: pairs whose system tuple an administrator removed

vars == <<inst, dep, fragment, active, claimed, system, seed, tx, ops, settled,
          excluded>>

BuiltIn == {Known[i] : i \in DOMAIN Known}
Module == BuiltIn \cup App

\* BuiltinModules is a list without repetitions, and the mandatory modules are
\* among them.
TenancyAssumption ==
    /\ Known \in Seq(BuiltIn) /\ Known # <<>>
    /\ \A i, j \in DOMAIN Known : Known[i] = Known[j] => i = j
    /\ Mandatory \subseteq BuiltIn
    /\ None \notin BOOLEAN /\ None \notin {"uninstalled", "disabled", "enabled"}

Idle == [op |-> "idle"]

Init ==
    /\ inst = [m \in Module |-> None]
    /\ dep = {}
    /\ fragment = [m \in Module |-> None]
    /\ active = {}
    /\ claimed = {}
    /\ system = {}
    /\ seed = [r \in Replica |-> Idle]
    /\ tx = [c \in Client |-> Idle]
    /\ ops = 0
    /\ settled = FALSE
    /\ excluded = {}

\* Installed and enabled, as ListInstallationStatusForKeys and the two
\* enabledModuleKeys read it.
Enabled == {m \in Module : inst[m] = "enabled"}

Booting == {r \in Replica : seed[r] # Idle}

\* Enabling a module and activating a company each list the other's rows.
Opposite(op) ==
    CASE op = "enable" -> {"company"}
      [] op = "company" -> {"enable"}
      [] OTHER -> {}

\* A transaction starts or commits: a boot in progress is no longer quiet.
Meets(op) ==
    /\ settled' = (settled /\ Booting = {} /\ \A d \in Client : tx[d].op \notin Opposite(op))
    /\ seed' = [r \in Replica |-> IF seed[r] = Idle THEN Idle
                                  ELSE [seed[r] EXCEPT !.quiet = FALSE]]

Started == ops < MaxOps /\ ops' = ops + 1

-------------------------------------------------------------------------------
(* The writers' common parts. *)

\* Mutated form: the row of authz.default_grant is not asked.
EnsureAgain(pairs) ==
    /\ claimed' = claimed \cup pairs
    /\ system' = system \cup pairs

\* EnsureDefaultGrant: the claim decides, and a pair that was claimed before
\* is left as it is.  A claim in another open transaction is waited for.
EnsureDefaultGrant(pairs) ==
    /\ claimed' = claimed \cup pairs
    /\ system' = system \cup (pairs \ claimed)

\* upsertAuthzFragment's check: no other stored fragment declares the types.
Owns(m) ==
    \A n \in Module \ {m} : fragment[n] # None => TypeOf[n] \cap TypeOf[m] = {}

-------------------------------------------------------------------------------
(* Seed, for one replica. *)

\* The part of validateKnownManifests that is about more than text: a module
\* depends on other known modules only.
validateKnownManifests == \A d \in Dep : d[1] # d[2] /\ {d[1], d[2]} \subseteq BuiltIn

\* Mandatory modules are always installed.
ParseInstalledModules(csv) == csv \cup Mandatory

\* An unknown key in KIBAN_INSTALLED_MODULES, or a manifest that is refused,
\* ends the start of the replica; checkOrgUnitTaxonomy passed.
SeedStart(r, csv) ==
    /\ seed[r] = Idle
    /\ csv \subseteq BuiltIn
    /\ validateKnownManifests
    /\ Started
    /\ seed' = [q \in Replica |->
         IF q = r THEN [at |-> "install", i |-> 1, listed |-> ParseInstalledModules(csv), en |-> {}, cos |-> {},
                        quiet |-> Booting = {} /\ \A c \in Client : tx[c] = Idle]
         ELSE IF seed[q] = Idle THEN Idle ELSE [seed[q] EXCEPT !.quiet = FALSE]]
    /\ settled' = FALSE
    /\ UNCHANGED <<inst, dep, fragment, active, claimed, system, tx, excluded>>

\* The replica goes on with the next module of the list, or the next loop.
Step(r, again, next) ==
    seed' = IF seed[r].i < Len(Known) THEN [seed EXCEPT ![r].i = @ + 1, ![r].at = again]
            ELSE [seed EXCEPT ![r].i = 1, ![r].at = next]

\* INSERT ... ON CONFLICT DO NOTHING of the installation row.
seedModuleInstallationMissing(status, on) ==
    IF status # None THEN status ELSE IF on THEN "enabled" ELSE "uninstalled"

\* The UPDATE of a listed module that was never installed.
installListed(status, on) == IF on /\ status = "uninstalled" THEN "enabled" ELSE status

SeedInstall(r) ==
    /\ seed[r] # Idle /\ seed[r].at = "install"
    /\ LET m  == Known[seed[r].i]
           on == m \in seed[r].listed
       IN inst' = [inst EXCEPT ![m] = installListed(seedModuleInstallationMissing(@, on), on)]
    /\ Step(r, "install", "delete")
    /\ UNCHANGED <<dep, fragment, active, claimed, system, tx, ops, settled, excluded>>

\* The module's dependency rows are deleted, and inserted one statement later;
\* a row another replica inserted meanwhile is a duplicate, which ends Seed.
SeedDeleteDeps(r) ==
    /\ seed[r] # Idle /\ seed[r].at = "delete"
    /\ dep' = {d \in dep : d[1] # Known[seed[r].i]}
    /\ seed' = [seed EXCEPT ![r].at = "insert"]
    /\ UNCHANGED <<inst, fragment, active, claimed, system, tx, ops, settled, excluded>>

SeedInsertDeps(r) ==
    /\ seed[r] # Idle /\ seed[r].at = "insert"
    /\ LET rows == {d \in Dep : d[1] = Known[seed[r].i]} IN
         /\ rows \cap dep = {}
         /\ dep' = dep \cup rows
    /\ Step(r, "delete", "status")
    /\ UNCHANGED <<inst, fragment, active, claimed, system, tx, ops, settled, excluded>>

\* ListInstallationStatusForKeys: what the rest of the boot goes by.
SeedStatus(r) ==
    /\ seed[r] # Idle /\ seed[r].at = "status"
    /\ seed' = [seed EXCEPT ![r].at = "fragment", ![r].en = Enabled]
    /\ UNCHANGED <<inst, dep, fragment, active, claimed, system, tx, ops, settled, excluded>>

\* upsertAuthzFragment's check, for a module that has a fragment.
SeedCheckFragment(r) ==
    /\ seed[r] # Idle /\ seed[r].at = "fragment"
    /\ LET m == Known[seed[r].i] IN
         IF TypeOf[m] = {}
         THEN Step(r, "fragment", "list")
         ELSE /\ Owns(m)
              /\ seed' = [seed EXCEPT ![r].at = "store"]
    /\ UNCHANGED <<inst, dep, fragment, active, claimed, system, tx, ops, settled, excluded>>

\* upsertAuthzFragment's write, of the flag read before.  A row locked by an
\* enabling transaction is waited for.
SeedFragment(r) ==
    /\ seed[r] # Idle /\ seed[r].at = "store"
    /\ \A c \in Client : tx[c].op = "enable" => tx[c].m # Known[seed[r].i]
    /\ fragment' = [fragment EXCEPT ![Known[seed[r].i]] = Known[seed[r].i] \in seed[r].en]
    /\ Step(r, "fragment", "list")
    /\ UNCHANGED <<inst, dep, active, claimed, system, tx, ops, settled, excluded>>

\* The companies that a default grant is for.
activeCompanyIDs == active

\* For each module that was enabled.
SeedList(r) ==
    /\ seed[r] # Idle /\ seed[r].at = "list"
    /\ seed' = [seed EXCEPT ![r].at = "grant",
                            ![r].cos = IF Known[seed[r].i] \in seed[r].en THEN activeCompanyIDs ELSE {}]
    /\ UNCHANGED <<inst, dep, fragment, active, claimed, system, tx, ops, settled, excluded>>

\* defaultGrantModuleForAllActiveCompanies: a transaction per company.
SeedGrant(r) ==
    /\ seed[r] # Idle /\ seed[r].at = "grant"
    /\ \E co \in seed[r].cos :
         /\ EnsureDefaultGrant({<<co, Known[seed[r].i]>>})
         /\ seed' = [seed EXCEPT ![r].cos = @ \ {co}]
    /\ UNCHANGED <<inst, dep, fragment, active, tx, ops, settled, excluded>>

\* All companies granted: the next module, or the end of a boot.  A quiet one
\* leaves everything settled.
SeedNext(r) ==
    /\ seed[r] # Idle /\ seed[r].at = "grant" /\ seed[r].cos = {}
    /\ IF seed[r].i < Len(Known)
       THEN /\ seed' = [seed EXCEPT ![r].i = @ + 1, ![r].at = "list"]
            /\ UNCHANGED settled
       ELSE /\ seed' = [seed EXCEPT ![r] = Idle]
            /\ settled' = seed[r].quiet
    /\ UNCHANGED <<inst, dep, fragment, active, claimed, system, tx, ops, excluded>>

\* A statement fails or the process stops; what was written stays.
SeedStops(r) ==
    /\ seed[r] # Idle
    /\ seed' = [seed EXCEPT ![r] = Idle]
    /\ UNCHANGED <<inst, dep, fragment, active, claimed, system, tx, ops, settled, excluded>>

-------------------------------------------------------------------------------
(* Enabling, disabling and registering. *)

\* The row of m is locked by an open transaction.
Locked(m) == \E c \in Client : tx[c].op \in {"enable", "register"} /\ tx[c].m = m

Begin(c, t) ==
    /\ tx[c] = Idle
    /\ Started
    /\ tx' = [tx EXCEPT ![c] = t]
    /\ Meets(t.op)
    /\ UNCHANGED <<inst, dep, fragment, active, claimed, system, excluded>>

End(c) == tx' = [tx EXCEPT ![c] = Idle]

\* The UPDATE of the installation row.
setModuleEnabled(m, on) ==
    inst' = [inst EXCEPT ![m] = IF @ = "uninstalled" THEN @
                                ELSE IF on THEN "enabled" ELSE "disabled"]

\* SetEnabled(true): the row is installed, and from its UPDATE on it is
\* locked; the active companies are listed.
EnableList(c, m) ==
    /\ inst[m] \in {"disabled", "enabled"}
    /\ ~Locked(m)
    /\ Begin(c, [op |-> "enable", m |-> m, cos |-> activeCompanyIDs])

\* Mutated form: the fragment is left to the next boot.
ActivateLater(m, on) == UNCHANGED fragment

\* setAuthzFragmentActive: a module without a fragment row is left alone.
SetAuthzFragmentActive(m, on) ==
    fragment' = [fragment EXCEPT ![m] = IF @ = None THEN None ELSE on]

EnableCommit(c) ==
    /\ tx[c].op = "enable"
    /\ setModuleEnabled(tx[c].m, TRUE)
    /\ SetAuthzFragmentActive(tx[c].m, TRUE)
    /\ EnsureDefaultGrant(tx[c].cos \X {tx[c].m})
    /\ End(c)
    /\ Meets(tx[c].op)
    /\ UNCHANGED <<dep, active, ops, excluded>>

\* SetEnabled(false), which lists nothing; a module that is not installed
\* stays so.
Disable(c, m) ==
    /\ tx[c] = Idle
    /\ Started
    /\ m \notin Mandatory
    /\ inst[m] # None
    /\ ~Locked(m)
    /\ setModuleEnabled(m, FALSE)
    /\ SetAuthzFragmentActive(m, FALSE)
    /\ Meets("other")
    /\ UNCHANGED <<dep, active, claimed, system, tx, excluded>>

\* RegisterApp up to the ownership check of its fragment: the catalog row and
\* the installation row are written, and locked.
RegisterCheck(c, a) ==
    /\ ~Locked(a)
    /\ Owns(a)
    /\ Begin(c, [op |-> "register", m |-> a])

\* An app is installed and stays as enabled as it was.
RegisterCommit(c) ==
    /\ tx[c].op = "register"
    /\ LET a == tx[c].m IN
         /\ inst' = [inst EXCEPT ![a] = IF @ = "enabled" THEN @ ELSE "disabled"]
         /\ fragment' = [fragment EXCEPT ![a] = inst[a] = "enabled"]
    /\ End(c)
    /\ Meets(tx[c].op)
    /\ UNCHANGED <<dep, active, claimed, system, ops, excluded>>

-------------------------------------------------------------------------------
(* Companies, the bootstrap job, and the administrator. *)

\* CreateOrgUnit of an active company, or UpdateOrgUnit that activates one:
\* defaultGrantNewCompanyTx lists the enabled modules.
CompanyList(c, co) ==
    /\ co \notin active
    /\ \A d \in Client : tx[d].op = "company" => tx[d].co # co
    /\ Begin(c, [op |-> "company", co |-> co, mods |-> Enabled])

CompanyCommit(c) ==
    /\ tx[c].op = "company"
    /\ active' = active \cup {tx[c].co}
    /\ EnsureDefaultGrant({tx[c].co} \X tx[c].mods)
    /\ End(c)
    /\ Meets(tx[c].op)
    /\ UNCHANGED <<inst, dep, fragment, ops, excluded>>

\* UpdateOrgUnit that deactivates: no grant is touched.
Deactivate(c, co) ==
    /\ tx[c] = Idle
    /\ Started
    /\ co \in active
    /\ active' = active \ {co}
    /\ Meets("other")
    /\ UNCHANGED <<inst, dep, fragment, claimed, system, tx, excluded>>

\* DefaultGrantBackfill: both lists, then a transaction per pair.
BackfillList(c) ==
    /\ Begin(c, [op |-> "backfill", pairs |-> active \X Enabled])

BackfillGrant(c) ==
    /\ tx[c].op = "backfill"
    /\ \E p \in tx[c].pairs :
         /\ EnsureDefaultGrant({p})
         /\ IF tx[c].pairs = {p} THEN End(c) ELSE tx' = [tx EXCEPT ![c].pairs = @ \ {p}]
    /\ UNCHANGED <<inst, dep, fragment, active, seed, ops, settled, excluded>>

\* A transaction rolls back, or the bootstrap job ends.
TxStops(c) ==
    /\ tx[c] # Idle
    /\ End(c)
    /\ UNCHANGED <<inst, dep, fragment, active, claimed, system, seed, ops, settled, excluded>>

\* An administrator takes a company's module away, or gives it back.
Exclude(p) ==
    /\ p \in system
    /\ system' = system \ {p}
    /\ excluded' = excluded \cup {p}
    /\ UNCHANGED <<inst, dep, fragment, active, claimed, seed, tx, ops, settled>>

Readmit(p) ==
    /\ p \in excluded
    /\ system' = system \cup {p}
    /\ excluded' = excluded \ {p}
    /\ UNCHANGED <<inst, dep, fragment, active, claimed, seed, tx, ops, settled>>

\* SeedBuiltin.
Seed ==
    \E r \in Replica :
        \/ \E csv \in Listed : SeedStart(r, csv)
        \/ SeedInstall(r)
        \/ SeedDeleteDeps(r)
        \/ SeedInsertDeps(r)
        \/ SeedStatus(r)
        \/ SeedCheckFragment(r)
        \/ SeedFragment(r)
        \/ SeedList(r)
        \/ SeedGrant(r)
        \/ SeedNext(r)
        \/ SeedStops(r)

\* The admin routes, behind authorize.
handleSetEnabled(c, on) ==
    \E m \in Module : IF on THEN EnableList(c, m) ELSE Disable(c, m)

handleRegisterApp(c) == \E a \in App : RegisterCheck(c, a)

Requests ==
    \E c \in Client :
        \/ \E on \in BOOLEAN : handleSetEnabled(c, on)
        \/ EnableCommit(c)
        \/ handleRegisterApp(c)
        \/ RegisterCommit(c)
        \/ \E co \in Company : CompanyList(c, co) \/ Deactivate(c, co)
        \/ CompanyCommit(c)
        \/ BackfillList(c)
        \/ BackfillGrant(c)
        \/ TxStops(c)

Next ==
    \/ Seed
    \/ Requests
    \/ \E p \in Company \X Module : Exclude(p) \/ Readmit(p)

-------------------------------------------------------------------------------
(* Capability, and the properties. *)

\* ListTransitiveDependencyKeys over the rows R: everything reachable.
Closure(R, m) ==
    {n \in Module : \E k \in 1..Cardinality(Module) :
        \E p \in [1..k + 1 -> Module] :
            p[1] = m /\ p[k + 1] = n /\ \A i \in 1..k : <<p[i], p[i + 1]>> \in R}

\* Capability: the first code that applies, or "ready".
Capability(m) ==
    CASE inst[m] \in {None, "uninstalled"} -> "MODULE_NOT_INSTALLED"
      [] inst[m] = "disabled" -> "MODULE_DISABLED"
      [] ~(Closure(dep, m) \subseteq Enabled) -> "MODULE_DEPENDENCY_MISSING"
      [] OTHER -> "ready"

(***************************************************************************)
(* One quiet boot repairs whatever overlapping boots, enables, activations  *)
(* and crashes left behind, and from then on the transactions keep it so as *)
(* long as no enabling overlaps an activation: every active company has     *)
(* been given every enabled built-in module once, each stored fragment is   *)
(* active exactly if its module is enabled, no other module's fragment      *)
(* declares a built-in module's object types (authz would refuse every      *)
(* check), and a module is ready only if all modules its manifest needs,    *)
(* however indirectly, are enabled.  An app is not among the known modules  *)
(* that Seed grants: what an overlap kept from a company stays missing      *)
(* until the bootstrap job's backfill.                                      *)
(***************************************************************************)
ConsistentSinceQuietBoot ==
    settled =>
        /\ active \X (Enabled \cap BuiltIn) \subseteq claimed
        /\ \A m \in Module : fragment[m] # None => (fragment[m] <=> m \in Enabled)
        /\ \A m \in BuiltIn : \A n \in Module \ {m} :
             fragment[m] # None /\ fragment[n] # None => TypeOf[m] \cap TypeOf[n] = {}
        /\ \A m \in Module : Capability(m) = "ready" => Closure(Dep, m) \subseteq Enabled

(***************************************************************************)
(* Default once: a module that an administrator took away from a company    *)
(* does not come back by itself, through any boot, backfill, re-enabling of *)
(* the module or re-activation of the company.                              *)
(***************************************************************************)
ExcludedStaysExcluded == excluded \cap system = {}

===============================================================================
