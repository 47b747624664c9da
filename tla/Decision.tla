------------------------------ MODULE Decision ------------------------------
(***************************************************************************)
(* The effective-access decision: Evaluate and EvaluateBatch               *)
(* (internal/authz/decision/evaluate.go) as handleCan and handleBatchCan   *)
(* run them (internal/authz/http.go, service.go, clients.go).              *)
(*                                                                         *)
(* Each step asks another service or the engine when it gets there: facts  *)
(* may change, and any answer may fail to come, between two steps.  The    *)
(* lifecycle judged at step 3 is the one read at step 1; the type model    *)
(* used at step 7 was loaded before step 1.                                *)
(***************************************************************************)
EXTENDS Naturals, Sequences, FiniteSets

CONSTANTS
    Object,     \* objects a request may name
    Kind,       \* [Object -> how its type is bound to a company]
    Names,      \* [Object -> does its id name the request's company (and module)]
    NoObject,   \* stands for facts about no object
    Requests,   \* requests that pass validateCanRequest
    MaxChanges  \* bound: changes of the facts while a request runs

Scalars == {"found", "lifecycle", "kc", "superadmin", "company", "member",
            "companyRole", "module"}

Fact == (Scalars \X {NoObject}) \cup ({"anchor", "relation"} \X Object)

\* What a source can answer.  relation "foreign": only through a userset of
\* another company; member "blocked": linked, not active.
Answers(f) ==
    CASE f[1] = "kc"       -> {"yes", "no", "unknown"}
      [] f[1] = "member"   -> {"yes", "no", "blocked"}
      [] f[1] = "relation" -> {"yes", "no", "foreign"}
      [] OTHER             -> {"yes", "no"}

Situation == {s \in [Fact -> {"yes", "no", "unknown", "blocked", "foreign"}] :
                \A f \in Fact : s[f] \in Answers(f)}

\* items: the objects asked about, NoObject for a request with no relation leg.
CanRequest ==
    [scope : {"global", "company"}, batch : BOOLEAN, superadminRole : BOOLEAN,
     operator : BOOLEAN, companyRole : BOOLEAN, foundation : BOOLEAN,
     items : Seq(Object \cup {NoObject})]

\* Bound: a request starts with at most two facts amiss, of those that are read.
Relevant == {f \in Fact : f[1] = "anchor" => Kind[f[2]] \in {"module", "org"}}

Amiss(f, g) ==
    {[[h \in Fact |-> "yes"] EXCEPT ![f] = x, ![g] = y] : x \in Answers(f), y \in Answers(g)}

Unavailable == "DEPENDENCY_UNAVAILABLE"
Error == "INTERNAL"

Denial == {"AUTH_USER_NOT_FOUND", "KEYCLOAK_DISABLED", "USER_LIFECYCLE_DISABLED",
           "COMPANY_INACTIVE", "COMPANY_MEMBERSHIP_REQUIRED", "COMPANY_ACCESS_BLOCKED",
           "MODULE_DISABLED", "PLATFORM_ROLE_REQUIRED", "COMPANY_ROLE_REQUIRED",
           "ENGINE_DENIED"}

Reason == Denial \cup {"ALLOWED", Unavailable, Error}

\* A request that got this far names what it asks about; a batch of nothing has
\* no answer to speak of.
DecisionAssumption ==
    /\ NoObject \notin Object
    /\ Kind \in [Object -> {"company", "company_module", "module", "org", "unbindable"}]
    /\ Names \in [Object -> BOOLEAN]
    /\ Requests \subseteq CanRequest
    /\ \A r \in Requests : r.items # <<>>
    /\ MaxChanges \in Nat

VARIABLES
    req,       \* the request
    facts,     \* what the sources would answer now
    changes,   \* changes of the facts still to come, at most
    history,   \* history: every situation of the request so far
    failed,    \* history: some source failed
    pc,        \* the step Evaluate is at
    loaded,    \* the effective model holds the module's types
    lifecycle, \* the step 1 answer used at step 3
    operator,  \* the platform operator exception was taken
    item,      \* the item steps 7 and 8 are at
    results    \* one reason per item

vars == <<req, facts, changes, history, failed, pc, loaded, lifecycle, operator, item, results>>
world == <<req, facts, changes, history>>

Init ==
    /\ req \in Requests
    /\ \E f, g \in Relevant :
          facts \in Amiss(f, g) /\ changes = IF f = g THEN MaxChanges ELSE 0
    /\ history = {facts}
    /\ failed = FALSE
    /\ pc = "load"
    /\ loaded = FALSE /\ lifecycle = FALSE /\ operator = FALSE
    /\ item = 1
    /\ results = [i \in DOMAIN req.items |-> "none"]

-----------------------------------------------------------------------------
Ask(n) == facts[<<n, NoObject>>]
Current == req.items[item]

Goto(s) == pc' = s

Fill(r, from) == [i \in DOMAIN results |-> IF i >= from THEN r ELSE results[i]]

\* A decision in steps 1-6 is the decision of every item.
Decide(r) == results' = Fill(r, 1) /\ Goto("done")

\* EvaluateBatch goes on to the next item.
Answer(r) ==
    /\ results' = [results EXCEPT ![item] = r]
    /\ item' = item + 1
    /\ Goto(IF item = Len(req.items) THEN "done" ELSE "bind")

\* buildDecider: the enabled fragments are read once, before step 1.
LoadModel ==
    /\ pc = "load"
    /\ loaded' = (Ask("module") = "yes")
    /\ Goto("subject")
    /\ UNCHANGED <<world, failed, lifecycle, operator, item, results>>

SubjectLookup ==
    /\ pc = "subject"
    /\ lifecycle' = (Ask("lifecycle") = "yes")
    /\ IF Ask("found") = "yes" THEN Goto("keycloak") /\ UNCHANGED results
                               ELSE Decide("AUTH_USER_NOT_FOUND")
    /\ UNCHANGED <<world, failed, loaded, operator, item>>

\* The tri-state: unknown is never taken for enabled, and so is an account that
\* vanished since step 1 (fetchState: not found).
KeycloakState == IF Ask("found") = "yes" THEN Ask("kc") ELSE "unknown"

\* Faulty variant: the lifecycle is judged first.
LifecycleFirst ==
    /\ pc = "keycloak"
    /\ CASE ~lifecycle -> Decide("USER_LIFECYCLE_DISABLED")
         [] KeycloakState = "unknown" -> Decide(Unavailable)
         [] KeycloakState = "no" -> Decide("KEYCLOAK_DISABLED")
         [] OTHER -> Goto("scope") /\ UNCHANGED results
    /\ UNCHANGED <<world, failed, loaded, lifecycle, operator, item>>

\* Steps 2 and 3.
KeycloakEnabled ==
    /\ pc = "keycloak"
    /\ CASE KeycloakState = "unknown" -> Decide(Unavailable)
         [] KeycloakState = "no" -> Decide("KEYCLOAK_DISABLED")
         [] OTHER -> IF lifecycle THEN Goto("scope") /\ UNCHANGED results
                                  ELSE Decide("USER_LIFECYCLE_DISABLED")
    /\ UNCHANGED <<world, failed, loaded, lifecycle, operator, item>>

\* enginePlatformRoleSource: any role but the superadmin's is not held.
HasPlatformRole == req.superadminRole /\ Ask("superadmin") = "yes"

\* Step 4: at global scope the role is the whole of Evaluate's decision, which
\* for a batch is only the shared prefix.
PlatformRole ==
    /\ pc = "scope" /\ req.scope = "global"
    /\ IF ~HasPlatformRole THEN Decide("PLATFORM_ROLE_REQUIRED")
       ELSE IF req.batch THEN Goto("bind") /\ UNCHANGED results
       ELSE Decide("ALLOWED")
    /\ UNCHANGED <<world, failed, loaded, lifecycle, operator, item>>

\* Step 5.
CompanyState ==
    /\ pc = "scope" /\ req.scope = "company"
    /\ IF Ask("company") = "yes"
       THEN Goto(IF req.operator THEN "operator" ELSE "membership") /\ UNCHANGED results
       ELSE Decide("COMPANY_INACTIVE")
    /\ UNCHANGED <<world, failed, loaded, lifecycle, operator, item>>

OperatorException ==
    /\ pc = "operator"
    /\ operator' = HasPlatformRole
    /\ Goto(IF HasPlatformRole THEN "module" ELSE "membership")
    /\ UNCHANGED <<world, failed, loaded, lifecycle, item, results>>

Membership ==
    /\ pc = "membership"
    /\ CASE Ask("member") = "no" -> Decide("COMPANY_MEMBERSHIP_REQUIRED")
         [] Ask("member") = "blocked" -> Decide("COMPANY_ACCESS_BLOCKED")
         [] OTHER -> /\ Goto(IF req.companyRole THEN "role" ELSE "module")
                     /\ UNCHANGED results
    /\ UNCHANGED <<world, failed, loaded, lifecycle, operator, item>>

CompanyRole ==
    /\ pc = "role"
    /\ IF Ask("companyRole") = "yes" THEN Goto("module") /\ UNCHANGED results
                                     ELSE Decide("COMPANY_ROLE_REQUIRED")
    /\ UNCHANGED <<world, failed, loaded, lifecycle, operator, item>>

\* Step 6; the foundation's pseudo-module is never asked about.
ModuleState ==
    /\ pc = "module"
    /\ IF req.foundation \/ Ask("module") = "yes" THEN Goto("bind") /\ UNCHANGED results
                                                  ELSE Decide("MODULE_DISABLED")
    /\ UNCHANGED <<world, failed, loaded, lifecycle, operator, item>>

-----------------------------------------------------------------------------
(* relationCheck, per item. *)

\* Defines: a module's types are in the model only while loaded.
Bindable(o) == Kind[o] = "org" \/ (Kind[o] = "module" /\ loaded)

Bound(o) ==
    \/ Kind[o] \in {"company", "company_module"} /\ Names[o]
    \/ Bindable(o) /\ facts[<<"anchor", o>>] = "yes"

NoRelationLeg ==
    /\ pc = "bind" /\ Current = NoObject
    /\ Answer("ALLOWED")
    /\ UNCHANGED <<world, failed, loaded, lifecycle, operator>>

\* Global scope binds nothing.
BindObject ==
    /\ pc = "bind" /\ Current # NoObject
    /\ IF req.scope = "global" \/ Bound(Current)
       THEN Goto("relation") /\ UNCHANGED <<results, item>>
       ELSE Answer("ENGINE_DENIED")
    /\ UNCHANGED <<world, failed, loaded, lifecycle, operator>>

\* fragment.Check answers false for a type of a module that is not loaded;
\* CheckInCompany ignores usersets of other companies.
Related(o) ==
    /\ Kind[o] = "module" => loaded
    /\ facts[<<"relation", o>>] \in (IF req.scope = "company" THEN {"yes"}
                                                              ELSE {"yes", "foreign"})

RelationCheck ==
    /\ pc = "relation"
    /\ Answer(IF Related(Current) THEN "ALLOWED" ELSE "ENGINE_DENIED")
    /\ UNCHANGED <<world, failed, loaded, lifecycle, operator>>

\* A source does not answer.  Only the steps that ask one can fail so.
AsksPerItem ==
    \/ pc = "relation"
    \/ pc = "bind" /\ Current # NoObject /\ req.scope = "company" /\ Bindable(Current)

AsksOnce ==
    \/ pc \in {"subject", "keycloak", "scope", "operator", "membership", "role"}
    \/ pc = "module" /\ ~req.foundation

\* Faulty variant: a Keycloak that does not answer is passed over.
DownIsPassed ==
    /\ failed' = TRUE
    /\ pc = "keycloak" /\ Goto("scope")
    /\ UNCHANGED <<world, loaded, lifecycle, operator, item, results>>

SourceDown ==
    /\ failed' = TRUE
    /\ \/ AsksOnce /\ Decide(Unavailable) /\ UNCHANGED item
       \/ AsksPerItem /\ Answer(Unavailable)
       \/ pc = "load" /\ Decide(Error) /\ UNCHANGED item
    /\ UNCHANGED <<world, loaded, lifecycle, operator>>

\* Somebody changes a fact the request depends on, in another service or in the
\* tuple table.
Change(f) ==
    /\ pc # "done"
    /\ f[2] = NoObject \/ \E i \in DOMAIN req.items : f[2] = req.items[i]
    /\ changes > 0
    /\ changes' = changes - 1
    /\ \E a \in Answers(f) \ {facts[f]} : facts' = [facts EXCEPT ![f] = a]
    /\ history' = history \cup {facts'}
    /\ UNCHANGED <<req, failed, pc, loaded, lifecycle, operator, item, results>>

Next ==
    \/ LoadModel \/ SubjectLookup \/ KeycloakEnabled \/ PlatformRole \/ CompanyState
    \/ OperatorException \/ Membership \/ CompanyRole \/ ModuleState
    \/ NoRelationLeg \/ BindObject \/ RelationCheck \/ SourceDown
    \/ \E f \in Fact : Change(f)

Spec == Init /\ [][Next]_vars

-----------------------------------------------------------------------------
(* What the decision promises, stated over situations instead of steps. *)

Holds(s, n) == s[<<n, NoObject>>] = "yes"

Operates(s) == req.operator /\ req.superadminRole /\ Holds(s, "superadmin")

Member(s) == s[<<"member", NoObject>>]

\* The conditions access to item o depends on.  Each is read at a moment of its
\* own.
Condition == {"found", "kc", "lifecycle", "platformRole", "company", "member",
              "companyRole", "module", "typeLoaded", "anchored", "related"}

\* What binds an object that the request names.
FulfilsObject(c, s, o) ==
    CASE c = "typeLoaded" -> Kind[o] = "module" => Holds(s, "module")
      [] c = "anchored" ->
            \/ Kind[o] \in {"company", "company_module"} /\ Names[o]
            \/ Kind[o] \in {"org", "module"} /\ s[<<"anchor", o>>] = "yes"
      [] c = "related" -> s[<<"relation", o>>] = "yes"

\* What access in a company depends on besides.
FulfilsCompany(c, s, o) ==
    CASE c = "company" -> Holds(s, "company")
      [] c = "member" -> Member(s) = "yes"
      [] c = "companyRole" -> ~req.companyRole \/ Holds(s, "companyRole")
      [] c = "module" -> req.foundation \/ Holds(s, "module")
      [] OTHER -> o # NoObject => FulfilsObject(c, s, o)

Fulfils(c, s, o) ==
    CASE c \in {"found", "kc", "lifecycle"} -> Holds(s, c)
      [] c = "platformRole" ->
            req.scope = "global" => req.superadminRole /\ Holds(s, "superadmin")
      [] OTHER -> req.scope = "company" => FulfilsCompany(c, s, o)

\* The operator exception excuses from these two.
Excused(c, s) == c \in {"member", "companyRole"} /\ Operates(s)

Meets(c, s, o) == Excused(c, s) \/ Fulfils(c, s, o)

\* The conditions in the order of the steps.
Order == <<"found", "kc", "lifecycle", "platformRole", "company", "member",
           "companyRole", "module", "typeLoaded", "anchored", "related">>

\* The reason a condition is refused with in situation s.
ReasonOf(c, s) ==
    CASE c = "found" -> "AUTH_USER_NOT_FOUND"
      [] c = "kc" -> IF s[<<"kc", NoObject>>] = "no" THEN "KEYCLOAK_DISABLED"
                                                     ELSE Unavailable
      [] c = "lifecycle" -> "USER_LIFECYCLE_DISABLED"
      [] c = "platformRole" -> "PLATFORM_ROLE_REQUIRED"
      [] c = "company" -> "COMPANY_INACTIVE"
      [] c = "member" -> IF Member(s) = "no" THEN "COMPANY_MEMBERSHIP_REQUIRED"
                                             ELSE "COMPANY_ACCESS_BLOCKED"
      [] c = "companyRole" -> "COMPANY_ROLE_REQUIRED"
      [] c = "module" -> "MODULE_DISABLED"
      [] OTHER -> "ENGINE_DENIED"

\* The decision of one item when nothing changes and every source answers: the
\* reason of the first condition of the order that is not met.
Reference(s, o) ==
    LET unmet == {i \in DOMAIN Order : ~Meets(Order[i], s, o)}
        first == CHOOSE i \in unmet : \A j \in unmet : i <= j
    IN  IF unmet = {} THEN "ALLOWED" ELSE ReasonOf(Order[first], s)

-----------------------------------------------------------------------------
(* Properties. *)

\* Types of the request, the facts and their history, and the evaluation's state.
TypeOK ==
    /\ req \in Requests \cap CanRequest
    /\ facts \in Situation /\ changes \in Nat /\ history \subseteq Situation
    /\ failed \in BOOLEAN
    /\ pc \in {"load", "subject", "keycloak", "scope", "operator", "membership",
               "role", "module", "bind", "relation", "done"}
    /\ loaded \in BOOLEAN /\ lifecycle \in BOOLEAN /\ operator \in BOOLEAN
    /\ item \in 1..(Len(req.items) + 1)
    /\ results \in [DOMAIN req.items -> Reason \cup {"none"}]

\* Fail closed under change: access is allowed only when every condition held at
\* some moment of the request, so nothing that was already false when the
\* request came is overlooked, whatever changed or failed while it ran.
AllowGrounded ==
    \A i \in DOMAIN results : results[i] = "ALLOWED" =>
        \A c \in Condition : \E s \in history : Meets(c, s, req.items[i])

\* A denial names a condition that really failed at some moment of the request;
\* a source that is down is never reported as a denial, nor the reverse.
DenialGrounded ==
    \A i \in DOMAIN results :
        /\ results[i] \in Denial =>
              \/ \E s \in history, c \in Condition :
                    /\ ~Fulfils(c, s, req.items[i]) /\ ReasonOf(c, s) = results[i]
                    /\ \E t \in history : ~Excused(c, t)
              \/ req.scope = "global" /\ results[i] = "ENGINE_DENIED"
        /\ results[i] = Unavailable =>
              \/ failed
              \/ \E s \in history : s[<<"kc", NoObject>>] = "unknown" \/ ~Holds(s, "found")

Quiet == pc = "done" /\ ~failed /\ Cardinality(history) = 1

\* When nothing changes and nothing fails, the reason is the first of the
\* documented order, for a single check and for each item of a batch alike
\* (batchCan is "a batching convenience over canAccessFeature").  A batch at
\* global scope is excepted: it asks the engine where the single check does not.
OrderedReason ==
    Quiet => \A i \in DOMAIN results :
        \/ results[i] = Reference(facts, req.items[i])
        \/ req.scope = "global" /\ req.batch
=============================================================================
