---------------------------- MODULE AuthzEngine ----------------------------
(***************************************************************************)
(* The relation evaluator of the authz service: Check, CheckInCompany and  *)
(* the concurrent BatchCan (internal/authz/engine/eval.go, batch.go).      *)
(*                                                                         *)
(* The recursion check -> evalExpr -> evalThis/evalTupleToUserset -> check *)
(* is an explicit stack per worker goroutine.  Every read of authz.tuple   *)
(* is one query and one step: no snapshot spans two of them, so a writer   *)
(* may commit between any two.  The memo is shared by all the workers of a *)
(* batch; the in-progress set `visiting' and the counter `cuts' belong to  *)
(* one worker.  A single Check is a request with one item and one worker.  *)
(***************************************************************************)
EXTENDS Naturals, Sequences, FiniteSets

CONSTANTS
    Object,      \* object ids; an object carries its type
    TypeOf,      \* [Object -> type name]
    Rel,         \* relation names, the empty name excluded
    Model,       \* type name -> relation name -> expression (partial functions)
    Expr,        \* every relation expression of the model, subexpressions too
    Parts,       \* like Model: the subexpressions of each definition
    AllTuples,   \* the tuples a writer may ever store
    Graphs,      \* the tuple sets a request may start from
    Subject,     \* the fixed subject of the request
    Workers,     \* worker goroutines (batchWorkers = 8 in the code)
    MaxDepth,    \* recursion fence (32 in the code)
    Requests,    \* [company, items] requests the model starts from
    NoCompany,   \* the empty companyID of plain Check
    MaxWrites,   \* bound: tuple writes committed while the request runs
    Stages(_, _) \* for the tuples and the company given: the goals that follow in
                 \* 0, 1, 2, ... steps, up to the last that brings a new one

\* The empty subject_relation of a direct row.
Self == ""

\* Marks the goal of one check() call, as opposed to one evalExpr() call.
Check == [op |-> "check"]

Defined(k) ==
    TypeOf[k.obj] \in DOMAIN Model /\ k.rel \in DOMAIN Model[TypeOf[k.obj]]

DefinitionOf(k) == Model[TypeOf[k.obj]][k.rel]

PartsOf(k) == Parts[TypeOf[k.obj]][k.rel]

\* A goal is a call: check(obj, rel), or evalExpr(obj, rel, expr) for a part of
\* the definition of rel.
Goal == {g \in [obj : Object, rel : Rel \cup {Self}, expr : Expr \cup {Check}] :
            g.expr = Check \/ (g.rel # Self /\ Defined(g) /\ g.expr \in PartsOf(g))}

\* The memo key of check(): memoKey(objType, objID, rel).
Userset(o, r) == [obj |-> o, rel |-> r, expr |-> Check]

Key == {g \in Goal : g.expr = Check /\ g.rel # Self}

Tuple == [obj : Object, rel : Rel, sub : Object, srel : Rel \cup {Self}]

Verdict == {"allow", "deny"}

Failure == {"DEPTH_EXCEEDED", "UNKNOWN_RELATION", "DB_ERROR"}

Frame == [goal : Goal, rows : SUBSET Goal, next : Nat, depth : Nat, cuts : Nat]

\* Requests as the two entry points build them: BatchCan never binds a
\* company, CheckInCompany has one item.
ASSUME EngineAssumption ==
    /\ AllTuples \subseteq Tuple
    /\ Graphs \subseteq SUBSET AllTuples
    /\ IsFiniteSet(AllTuples)
    /\ Subject \in Object
    /\ Rel # {} /\ Self \notin Rel
    /\ Check \notin Expr
    /\ MaxDepth \in Nat /\ MaxWrites \in Nat
    /\ \A q \in Requests :
          /\ q.items \in Seq(Key)
          /\ q.company = NoCompany \/ Len(q.items) = 1
    /\ \A k \in [obj : Object, rel : Rel] : Defined(k) =>
          /\ DefinitionOf(k) \in PartsOf(k)
          /\ PartsOf(k) \subseteq Expr
          /\ \A e \in PartsOf(k) : e.op \in {"union", "intersection"} =>
                \A i \in DOMAIN e.of : e.of[i] \in PartsOf(k)
    /\ \A e \in Expr :
          /\ e.op \in {"this", "computed", "ttu", "union", "intersection"}
          /\ e.op = "computed" => e.rel \in Rel
          /\ e.op = "ttu" => e.rel \in Rel /\ e.tupleset \in Rel
          /\ e.op \in {"union", "intersection"} => e.of \in Seq(Expr)

VARIABLES
    req,       \* the request being served
    tuples,    \* authz.tuple
    ever,      \* history: every tuple stored at some moment of the request
    always,    \* history: the tuples stored during the whole request
    writes,    \* history: writes so far
    memo,      \* the shared (object, relation) -> verdict cache
    nextJob,   \* index of the next item on the jobs channel
    results,   \* one slot per item
    job,       \* worker -> index of its item
    pc,        \* worker -> idle, call, eval, loop or ret
    callee,    \* worker -> [goal, depth] of the check() being entered
    stack,     \* worker -> its frames, innermost last
    val,       \* worker -> the verdict being returned
    visiting,  \* worker -> keys on its current recursion path
    cuts       \* worker -> cycle cuts taken so far

store == <<tuples, ever, always, writes>>
vars == <<req, store, memo, nextJob, results, job, pc, callee, stack, val,
          visiting, cuts>>

NoCall == [goal |-> Userset(Subject, CHOOSE r \in Rel : TRUE), depth |-> 0]

Init ==
    /\ req \in Requests
    /\ tuples \in Graphs
    /\ ever = tuples /\ always = tuples /\ writes = 0
    /\ memo = [k \in Key |-> "none"]
    /\ nextJob = 1
    /\ results = [i \in DOMAIN req.items |-> "none"]
    /\ job = [w \in Workers |-> 0]
    /\ pc = [w \in Workers |-> "idle"]
    /\ callee = [w \in Workers |-> NoCall]
    /\ stack = [w \in Workers |-> <<>>]
    /\ val = [w \in Workers |-> "deny"]
    /\ visiting = [w \in Workers |-> {}]
    /\ cuts = [w \in Workers |-> 0]

-----------------------------------------------------------------------------
(* Reads of the tuple table and of the model. *)

\* fetchRows: the subjects of the rows (o, r, _); their order is unspecified.
Rows(T, o, r) ==
    {[obj |-> t.sub, rel |-> t.srel, expr |-> Check] :
        t \in {u \in T : u.obj = o /\ u.rel = r}}

\* evalTupleToUserset: only direct rows of the tupleset are followed.
Parents(T, o, e) ==
    {Userset(x.obj, e.rel) : x \in {y \in Rows(T, o, e.tupleset) : y.rel = Self}}

\* subjectInCompany.
SubjectInCompany(T, x, c) ==
    CASE TypeOf[x] \in {"position", "group"} ->
            [obj |-> x, rel |-> "company", sub |-> c, srel |-> Self] \in T
      [] TypeOf[x] = "member" ->
            [obj |-> c, rel |-> "member", sub |-> x, srel |-> "mapped_user"] \in T
      [] OTHER -> TRUE

-----------------------------------------------------------------------------
(* What the expressions mean: one-step consequence over a set F of goals that *)
(* already hold, for the tuples T and the company c.                          *)

Fires(F, T, c, g) ==
    LET e == g.expr
    IN  \/ /\ e.op = "check" /\ g.rel # Self /\ Defined(g)
           /\ [g EXCEPT !.expr = DefinitionOf(g)] \in F
        \/ e.op = "computed" /\ Userset(g.obj, e.rel) \in F
        \/ /\ e.op = "this"
           /\ \E x \in Rows(T, g.obj, g.rel) :
                 \/ x.rel = Self /\ x.obj = Subject
                 \/ /\ x.rel # Self
                    /\ c = NoCompany \/ SubjectInCompany(T, x.obj, c)
                    /\ x \in F
        \/ e.op = "ttu" /\ \E x \in Parents(T, g.obj, e) : x \in F
        \/ /\ e.op = "union"
           /\ \E i \in DOMAIN e.of : [g EXCEPT !.expr = e.of[i]] \in F
        \/ /\ e.op = "intersection"
           /\ \A i \in DOMAIN e.of : [g EXCEPT !.expr = e.of[i]] \in F

\* F contains everything that follows from it.
Closed(F, T, c) == \A g \in Goal : Fires(F, T, c, g) => g \in F

\* The goals that hold: the last stage.
Truth(T, c) == Stages(T, c)[Len(Stages(T, c))]

\* A stage has only what follows from the one before it, and nothing more follows
\* from the last: it is the least closed set.
ASSUME TruthAssumption ==
    \A T \in SUBSET AllTuples, q \in Requests :
        \A s \in {Stages(T, q.company)} :
            /\ s \in Seq(SUBSET Goal) /\ s # <<>> /\ s[1] = {}
            /\ \A i \in 1..Len(s) - 1 : \A g \in s[i + 1] : Fires(s[i], T, q.company, g)
            /\ Closed(s[Len(s)], T, q.company)

-----------------------------------------------------------------------------
(* The stack of one worker. *)

Top(w) == stack[w][Len(stack[w])]
Below(w) == SubSeq(stack[w], 1, Len(stack[w]) - 1)
SetTop(w, f) == [stack EXCEPT ![w] = [@ EXCEPT ![Len(@)] = f]]
NewFrame(g, d, c) == [goal |-> g, rows |-> {}, next |-> 1, depth |-> d, cuts |-> c]
Op(w) == Top(w).goal.expr.op
At(w, p) == pc[w] = p
Goto(w, p) == pc' = [pc EXCEPT ![w] = p]

Call(w, g, d) ==
    /\ callee' = [callee EXCEPT ![w] = [goal |-> g, depth |-> d]]
    /\ Goto(w, "call")

Return(w, v) ==
    /\ val' = [val EXCEPT ![w] = v]
    /\ Goto(w, "ret")

\* Faulty variant: the keys of the path stay in visiting.
AbortInPlace(w, why) ==
    /\ results' = [results EXCEPT ![job[w]] = why]
    /\ stack' = [stack EXCEPT ![w] = <<>>]
    /\ Goto(w, "idle")
    /\ UNCHANGED <<req, store, memo, nextJob, job, callee, val, visiting, cuts>>

\* An error unwinds every frame: check() deletes each key from visiting
\* before it looks at err, and cuts keeps its value.
Abort(w, why) ==
    /\ results' = [results EXCEPT ![job[w]] = why]
    /\ stack' = [stack EXCEPT ![w] = <<>>]
    /\ visiting' = [visiting EXCEPT ![w] = {}]
    /\ Goto(w, "idle")
    /\ UNCHANGED <<req, store, memo, nextJob, job, callee, val, cuts>>

-----------------------------------------------------------------------------
(* BatchCan: the jobs channel hands the items out in order. *)

\* Faulty variants: the last item is never sent; an item is lost.
TakeJobButLast(w) ==
    /\ At(w, "idle")
    /\ nextJob < Len(req.items)
    /\ job' = [job EXCEPT ![w] = nextJob]
    /\ nextJob' = nextJob + 1
    /\ Call(w, req.items[nextJob], 0)
    /\ UNCHANGED <<req, store, memo, results, stack, val, visiting, cuts>>

TakeJob(w) ==
    /\ At(w, "idle")
    /\ nextJob <= Len(req.items)
    /\ job' = [job EXCEPT ![w] = nextJob]
    /\ nextJob' = nextJob + 1
    /\ Call(w, req.items[nextJob], 0)
    /\ UNCHANGED <<req, store, memo, results, stack, val, visiting, cuts>>

FinishJob(w) ==
    /\ At(w, "ret")
    /\ stack[w] = <<>>
    /\ results' = [results EXCEPT ![job[w]] = val[w]]
    /\ Goto(w, "idle")
    /\ UNCHANGED <<req, store, memo, nextJob, job, callee, stack, val,
                   visiting, cuts>>

-----------------------------------------------------------------------------
(* check(): memo, cycle cut, depth fence, definition lookup, in that order. *)

MemoHit(w) ==
    /\ At(w, "call")
    /\ memo[callee[w].goal] # "none"
    /\ Return(w, memo[callee[w].goal])
    /\ UNCHANGED <<req, store, memo, nextJob, results, job, callee, stack,
                   visiting, cuts>>

CycleCut(w) ==
    /\ At(w, "call")
    /\ memo[callee[w].goal] = "none"
    /\ callee[w].goal \in visiting[w]
    /\ cuts' = [cuts EXCEPT ![w] = @ + 1]
    /\ Return(w, "deny")
    /\ UNCHANGED <<req, store, memo, nextJob, results, job, callee, stack,
                   visiting>>

Fresh(w) ==
    /\ At(w, "call")
    /\ memo[callee[w].goal] = "none"
    /\ callee[w].goal \notin visiting[w]

DepthExceeded(w) ==
    /\ Fresh(w)
    /\ callee[w].depth > MaxDepth
    /\ Abort(w, "DEPTH_EXCEEDED")

Unknown(w) ==
    /\ Fresh(w)
    /\ callee[w].depth <= MaxDepth
    /\ ~Defined(callee[w].goal)
    /\ Abort(w, "UNKNOWN_RELATION")

\* A worker whose key is in progress in another worker evaluates it too.
Enter(w) ==
    LET g == callee[w].goal
        d == callee[w].depth
        body == [g EXCEPT !.expr = DefinitionOf(g)]
    IN  /\ Fresh(w)
        /\ d <= MaxDepth
        /\ Defined(g)
        /\ visiting' = [visiting EXCEPT ![w] = @ \cup {g}]
        /\ stack' = [stack EXCEPT ![w] =
                        @ \o <<NewFrame(g, d, cuts[w]), NewFrame(body, d, cuts[w])>>]
        /\ Goto(w, "eval")
        /\ UNCHANGED <<req, store, memo, nextJob, results, job, callee, val, cuts>>

\* Faulty variant: a false computed beneath a cut is memoized too.
MemoizeAll(w) == TRUE

\* The result leaves check(): a true is always memoized, a false only when no
\* cycle was cut beneath it.
Memoizable(w) == val[w] = "allow" \/ cuts[w] = Top(w).cuts

LeaveCheck(w) ==
    /\ At(w, "ret")
    /\ stack[w] # <<>>
    /\ Op(w) = "check"
    /\ visiting' = [visiting EXCEPT ![w] = @ \ {Top(w).goal}]
    /\ memo' = IF Memoizable(w) /\ memo[Top(w).goal] = "none"
               THEN [memo EXCEPT ![Top(w).goal] = val[w]]
               ELSE memo
    /\ stack' = [stack EXCEPT ![w] = Below(w)]
    /\ UNCHANGED <<req, store, nextJob, results, job, pc, callee, val, cuts>>

-----------------------------------------------------------------------------
(* evalExpr(). *)

EvalComputed(w) ==
    /\ At(w, "eval")
    /\ Op(w) = "computed"
    /\ Call(w, Userset(Top(w).goal.obj, Top(w).goal.expr.rel), Top(w).depth + 1)
    /\ UNCHANGED <<req, store, memo, nextJob, results, job, stack, val,
                   visiting, cuts>>

EvalNary(w) ==
    /\ At(w, "eval")
    /\ Op(w) \in {"union", "intersection"}
    /\ Goto(w, "loop")
    /\ UNCHANGED <<req, store, memo, nextJob, results, job, callee, stack, val,
                   visiting, cuts>>

Fetched(w) ==
    LET g == Top(w).goal
    IN  IF Op(w) = "this" THEN Rows(tuples, g.obj, g.rel)
                          ELSE Parents(tuples, g.obj, g.expr)

EvalRows(w) ==
    /\ At(w, "eval")
    /\ Op(w) \in {"this", "ttu"}
    /\ stack' = SetTop(w, [Top(w) EXCEPT !.rows = Fetched(w)])
    /\ Goto(w, "loop")
    /\ UNCHANGED <<req, store, memo, nextJob, results, job, callee, val,
                   visiting, cuts>>

NextChild(w) ==
    LET f == Top(w)
    IN  /\ At(w, "loop")
        /\ Op(w) \in {"union", "intersection"}
        /\ f.next <= Len(f.goal.expr.of)
        /\ stack' = [stack EXCEPT ![w] =
              Append([@ EXCEPT ![Len(@)].next = f.next + 1],
                     NewFrame([f.goal EXCEPT !.expr = f.goal.expr.of[f.next]],
                              f.depth, cuts[w]))]
        /\ Goto(w, "eval")
        /\ UNCHANGED <<req, store, memo, nextJob, results, job, callee, val,
                       visiting, cuts>>

\* Every child or row was tried and none of them decided.
Exhausted(w) ==
    LET f == Top(w)
    IN  /\ At(w, "loop")
        /\ \/ Op(w) \in {"this", "ttu"} /\ f.rows = {}
           \/ Op(w) \in {"union", "intersection"} /\ f.next > Len(f.goal.expr.of)
        /\ stack' = [stack EXCEPT ![w] = Below(w)]
        /\ Return(w, IF Op(w) = "intersection" THEN "allow" ELSE "deny")
        /\ UNCHANGED <<req, store, memo, nextJob, results, job, callee,
                       visiting, cuts>>

DropRow(w, x) == SetTop(w, [Top(w) EXCEPT !.rows = @ \ {x}])

\* evalThis, a direct row: the subject itself, or another one.
DirectRow(w, x) ==
    /\ At(w, "loop")
    /\ Op(w) = "this"
    /\ x.rel = Self
    /\ IF x.obj = Subject
       THEN Return(w, "allow") /\ stack' = [stack EXCEPT ![w] = Below(w)]
       ELSE stack' = DropRow(w, x) /\ UNCHANGED <<pc, val>>
    /\ UNCHANGED <<req, store, memo, nextJob, results, job, callee, visiting, cuts>>

\* Faulty variant: usersets of any company count.
AnyCompany(w, x) == TRUE

\* A userset row: subjectInCompany is its own query, made only by a check that
\* is bound to a company.
InScope(w, x) ==
    \/ req.company = NoCompany
    \/ Op(w) = "ttu"
    \/ SubjectInCompany(tuples, x.obj, req.company)

UsersetRow(w, x) ==
    /\ At(w, "loop")
    /\ Op(w) \in {"this", "ttu"}
    /\ x.rel # Self
    /\ stack' = DropRow(w, x)
    /\ IF InScope(w, x) THEN Call(w, x, Top(w).depth + 1)
                        ELSE UNCHANGED <<pc, callee>>
    /\ UNCHANGED <<req, store, memo, nextJob, results, job, val, visiting, cuts>>

\* A verdict reaches the expression that asked for it: it decides, or the loop
\* goes on.  A computedUserset returns what its callee returned.
Decides(w) ==
    \/ Op(w) = "computed"
    \/ Op(w) = "intersection" /\ val[w] = "deny"
    \/ Op(w) \in {"union", "this", "ttu"} /\ val[w] = "allow"

ReturnToExpr(w) ==
    /\ At(w, "ret")
    /\ stack[w] # <<>>
    /\ Op(w) # "check"
    /\ IF Decides(w)
       THEN stack' = [stack EXCEPT ![w] = Below(w)] /\ UNCHANGED pc
       ELSE Goto(w, "loop") /\ UNCHANGED stack
    /\ UNCHANGED <<req, store, memo, nextJob, results, job, callee, val,
                   visiting, cuts>>

\* A query of this evaluation fails.
QueryError(w) ==
    /\ \/ At(w, "eval") /\ Op(w) \in {"this", "ttu"}
       \/ /\ At(w, "loop") /\ Op(w) = "this" /\ req.company # NoCompany
          /\ \E x \in Top(w).rows :
                x.rel # Self /\ TypeOf[x.obj] \in {"position", "group", "member"}
    /\ Abort(w, "DB_ERROR")

-----------------------------------------------------------------------------
(* Another request commits one tuple: a grant or a revocation. *)

Write(t) ==
    /\ writes < MaxWrites
    /\ writes' = writes + 1
    /\ tuples' = IF t \in tuples THEN tuples \ {t} ELSE tuples \cup {t}
    /\ ever' = ever \cup tuples'
    /\ always' = always \cap tuples'
    /\ UNCHANGED <<req, memo, nextJob, results, job, pc, callee, stack, val,
                   visiting, cuts>>

RowStep(w) ==
    /\ At(w, "loop")
    /\ \E x \in Top(w).rows : DirectRow(w, x) \/ UsersetRow(w, x)

WorkerStep(w) ==
    \/ TakeJob(w) \/ FinishJob(w)
    \/ MemoHit(w) \/ CycleCut(w) \/ DepthExceeded(w) \/ Unknown(w) \/ Enter(w)
    \/ LeaveCheck(w)
    \/ EvalComputed(w) \/ EvalNary(w) \/ EvalRows(w)
    \/ NextChild(w) \/ Exhausted(w) \/ RowStep(w)
    \/ ReturnToExpr(w) \/ QueryError(w)

Next ==
    \/ \E w \in Workers : WorkerStep(w)
    \/ \E t \in AllTuples : Write(t)

\* A goroutine that can run does run; a writer may never come.
Fairness == \A w \in Workers : WF_vars(WorkerStep(w))

Spec == Init /\ [][Next]_vars
FairSpec == Spec /\ Fairness

-----------------------------------------------------------------------------
(* Properties. *)

\* Types of the request, the tuple histories, the shared memo and each worker's
\* stack; a tuple stored throughout is stored now, one stored now is in `ever'.
TypeOK ==
    /\ req \in Requests
    /\ tuples \subseteq AllTuples /\ ever \subseteq AllTuples
    /\ always \subseteq tuples /\ tuples \subseteq ever
    /\ writes \in Nat
    /\ memo \in [Key -> Verdict \cup {"none"}]
    /\ nextJob \in 1..(Len(req.items) + 1)
    /\ results \in [DOMAIN req.items -> Verdict \cup Failure \cup {"none"}]
    /\ job \in [Workers -> 0..Len(req.items)]
    /\ pc \in [Workers -> {"idle", "call", "eval", "loop", "ret"}]
    /\ callee \in [Workers -> [goal : Key, depth : Nat]]
    /\ stack \in [Workers -> Seq(Frame)]
    /\ val \in [Workers -> Verdict]
    /\ visiting \in [Workers -> SUBSET Key]
    /\ cuts \in [Workers -> Nat]

\* An allow, memoized or answered, follows from tuples that were stored at some
\* moment of the request, whatever the row order, the interleaving of the
\* workers over one memo and the writers in between (eval.go check, batch.go).
AllowSound ==
    LET T == Truth(ever, req.company)
    IN  /\ \A k \in Key : memo[k] = "allow" => k \in T
        /\ \A i \in DOMAIN results : results[i] = "allow" => req.items[i] \in T

\* A deny, memoized or answered, is never given for a relation that follows from
\* tuples stored during the whole request: neither a cycle cut nor a verdict
\* another worker memoized hides it (eval.go's rule that a false computed
\* beneath a cut is not memoized).
DenySound ==
    LET T == Truth(always, req.company)
    IN  /\ \A k \in Key : memo[k] = "deny" => k \notin T
        /\ \A i \in DOMAIN results : results[i] = "deny" => req.items[i] \notin T

CheckFrames(w) == {i \in DOMAIN stack[w] : stack[w][i].goal.expr.op = "check"}

\* Depth counts distinct nodes on the recursion path: a tuple cycle is cut and
\* never spends the depth fence (evalCtx.visiting's comment: "never
\* DEPTH_EXCEEDED").
DepthIsPathLength ==
    \A w \in Workers :
        /\ visiting[w] = {stack[w][i].goal : i \in CheckFrames(w)}
        /\ Cardinality(visiting[w]) = Cardinality(CheckFrames(w))
        /\ At(w, "call") => callee[w].depth = Cardinality(visiting[w])

\* Every item of a request gets its answer, under every tuple graph: cycles and
\* diamonds end (check's cycle cut and depth fence).
EveryItemAnswered ==
    <>[](\A i \in DOMAIN results : results[i] # "none")
=============================================================================
