-------------------------------- MODULE Authz --------------------------------
(*****************************************************************************)
(* Two sides of the authz service: the grant routes that write tuples        *)
(* (Grants) and the decision about one request (Decision).  A decision reads *)
(* what it needs as facts that may change under it, so that the two share no *)
(* state here: a behaviour is one of the two.  The grants rest in their      *)
(* initial state during a decision, the decision is None during the grants.  *)
(*****************************************************************************)
EXTENDS Grants

CONSTANTS None, Target, Kind, Names, NoObject, Requests, MaxChanges

VARIABLES which, asked, facts, changes, history, failed, step, loaded, lifecycle,
          operator, item, results

decision == <<asked, facts, changes, history, failed, step, loaded, lifecycle,
              operator, item, results>>

D == INSTANCE Decision WITH Object <- Target, req <- asked, pc <- step

\* What a decision is about.
ASSUME DecisionConstants == D!DecisionAssumption

AuthzInit ==
    /\ Init
    /\ \/ /\ which = "decision" /\ D!Init
       \/ /\ which = "grants"
          /\ asked = None /\ facts = None /\ changes = None /\ history = None
          /\ failed = None /\ step = None /\ loaded = None /\ lifecycle = None
          /\ operator = None /\ item = None /\ results = None

AuthzNext ==
    /\ UNCHANGED which
    /\ \/ which = "grants" /\ Next /\ UNCHANGED decision
       \/ which = "decision" /\ D!Next /\ UNCHANGED vars

AuthzSpec == AuthzInit /\ [][AuthzNext]_<<which, vars, decision>>

-------------------------------------------------------------------------------

\* Fail closed under change: access is allowed only when every condition held at
\* some moment of the request, and a denial names a condition that really failed
\* at some moment; a source that is down is never reported as either (Evaluate,
\* EvaluateBatch).
AnswersGrounded == which = "decision" => D!AllowGrounded /\ D!DenialGrounded

\* When nothing changes and nothing fails, the reason is the first of the
\* documented order, for a single check and for each item of a batch alike.
OrderedReason == which = "decision" => D!OrderedReason
==============================================================================
