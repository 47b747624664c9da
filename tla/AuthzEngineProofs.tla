-------------------------- MODULE AuthzEngineProofs --------------------------
(***************************************************************************)
(* Proofs about the relation evaluator, for any model of relations, any     *)
(* tuples and writes, and any number of items and workers.                  *)
(***************************************************************************)
EXTENDS AuthzEngine, SequenceTheorems, FiniteSetTheorems, WellFoundedInduction, TLAPS

-------------------------------------------------------------------------------
(* Derivability. *)

\* F contains everything that follows from it, the goals in V aside.
ClosedBut(F, T, c, V) == \A g \in Goal : g \notin V /\ Fires(F, T, c, g) => g \in F

\* The goals that follow from the tuples T alone, none of the goals in V being
\* used on the way.
Derivable(T, c, V) ==
    {g \in Goal : \A F \in SUBSET Goal : ClosedBut(F, T, c, V) => g \in F}

\* The definition of a key, and the parts of an expression, as goals.
Body(k) == [k EXCEPT !.expr = DefinitionOf(k)]
Part(g, i) == [g EXCEPT !.expr = g.expr.of[i]]

\* A row that proves evalThis: the subject itself, or a userset of the company
\* that holds.
Supports(x, F, T, c) ==
    \/ x.rel = Self /\ x.obj = Subject
    \/ /\ x.rel # Self
       /\ c = NoCompany \/ SubjectInCompany(T, x.obj, c)
       /\ x \in F

\* More tuples have more rows.
LEMMA RowsMono ==
  ASSUME NEW T, NEW U, T \subseteq U, NEW o, NEW r, NEW e
  PROVE  Rows(T, o, r) \subseteq Rows(U, o, r) /\ Parents(T, o, e) \subseteq Parents(U, o, e)
<1>1. \A x : Rows(T, o, x) \subseteq Rows(U, o, x)
  BY DEF Rows
<1> QED BY <1>1 DEF Parents

\* More tuples keep a subject in its company.
LEMMA ScopeMono ==
  ASSUME NEW T, NEW U, T \subseteq U, NEW x, NEW c, SubjectInCompany(T, x, c)
  PROVE  SubjectInCompany(U, x, c)
BY DEF SubjectInCompany

\* Consequence is monotone: no expression of the subset negates.
LEMMA FiresMono ==
  ASSUME NEW F, NEW G, F \subseteq G, NEW T, NEW U, T \subseteq U, NEW c, NEW g,
         Fires(F, T, c, g)
  PROVE  Fires(G, U, c, g)
<1>1. PICK e : e = g.expr
  OBVIOUS
<1>2. CASE e.op = "check" /\ g.rel # Self /\ Defined(g)
             /\ [g EXCEPT !.expr = DefinitionOf(g)] \in F
  BY <1>1, <1>2 DEF Fires
<1>3. CASE e.op = "computed" /\ Userset(g.obj, e.rel) \in F
  BY <1>1, <1>3 DEF Fires
<1>4. CASE e.op = "this"
  <2>1. PICK x \in Rows(T, g.obj, g.rel) :
          \/ x.rel = Self /\ x.obj = Subject
          \/ /\ x.rel # Self
             /\ c = NoCompany \/ SubjectInCompany(T, x.obj, c)
             /\ x \in F
    BY <1>1, <1>4 DEF Fires
  <2>2. x \in Rows(U, g.obj, g.rel)
    BY RowsMono
  <2>3. \/ x.rel = Self /\ x.obj = Subject
        \/ (x.rel # Self /\ (c = NoCompany \/ SubjectInCompany(U, x.obj, c)) /\ x \in G)
    BY <2>1, ScopeMono
  <2> QED BY <1>1, <1>4, <2>2, <2>3 DEF Fires
<1>5. CASE e.op = "ttu" /\ \E x \in Parents(T, g.obj, e) : x \in F
  <2>1. \E x \in Parents(U, g.obj, e) : x \in G
    BY <1>5, RowsMono
  <2> QED BY <1>1, <1>5, <2>1 DEF Fires
<1>6. CASE e.op = "union" /\ \E i \in DOMAIN e.of : [g EXCEPT !.expr = e.of[i]] \in F
  <2>1. \E i \in DOMAIN e.of : [g EXCEPT !.expr = e.of[i]] \in G
    BY <1>6
  <2> QED BY <1>1, <1>6, <2>1 DEF Fires
<1>7. CASE e.op = "intersection" /\ \A i \in DOMAIN e.of : [g EXCEPT !.expr = e.of[i]] \in F
  <2>1. \A i \in DOMAIN e.of : [g EXCEPT !.expr = e.of[i]] \in G
    BY <1>7
  <2> QED BY <1>1, <1>7, <2>1 DEF Fires
<1> QED BY <1>1, <1>2, <1>3, <1>4, <1>5, <1>6, <1>7 DEF Fires

\* The derivable goals are closed.
LEMMA DerivableClosed ==
  ASSUME NEW T, NEW c, NEW V
  PROVE  Derivable(T, c, V) \in SUBSET Goal /\ ClosedBut(Derivable(T, c, V), T, c, V)
<1>1. PICK L : L = Derivable(T, c, V)
  OBVIOUS
<1>2. L \in SUBSET Goal
  BY <1>1 DEF Derivable
<1>3. ASSUME NEW g \in Goal, g \notin V, Fires(L, T, c, g) PROVE g \in L
  <2>1. ASSUME NEW F \in SUBSET Goal, ClosedBut(F, T, c, V) PROVE g \in F
    <3>1. L \subseteq F
      BY <1>1, <2>1 DEF Derivable
    <3>2. Fires(F, T, c, g)
      BY <1>3, <3>1, FiresMono
    <3> QED BY <1>3, <2>1, <3>2 DEF ClosedBut
  <2> QED BY <1>1, <2>1 DEF Derivable
<1> QED BY <1>1, <1>2, <1>3 DEF ClosedBut

\* More tuples derive more, and so do fewer goals set aside.
LEMMA DerivableMono ==
  ASSUME NEW T, NEW U, T \subseteq U, NEW c, NEW V, NEW W, W \subseteq V
  PROVE  Derivable(T, c, V) \subseteq Derivable(U, c, W)
<1>1. ASSUME NEW F \in SUBSET Goal, ClosedBut(F, U, c, W) PROVE ClosedBut(F, T, c, V)
  <2>1. ASSUME NEW g \in Goal, g \notin V, Fires(F, T, c, g) PROVE g \in F
    <3>1. Fires(F, U, c, g)
      BY <2>1, FiresMono
    <3> QED BY <1>1, <2>1, <3>1 DEF ClosedBut
  <2> QED BY <2>1 DEF ClosedBut
<1> QED BY <1>1 DEF Derivable

\* Nothing is derivable but by a rule.
LEMMA DerivableFires ==
  ASSUME NEW T, NEW c, NEW V, NEW g \in Derivable(T, c, V)
  PROVE  g \notin V /\ Fires(Derivable(T, c, V), T, c, g)
<1>1. PICK L : L = Derivable(T, c, V)
  OBVIOUS
<1>2. PICK F : F = {h \in L : h \notin V /\ Fires(L, T, c, h)}
  OBVIOUS
<1>3. L \in SUBSET Goal /\ ClosedBut(L, T, c, V)
  BY <1>1, DerivableClosed
<1>4. F \in SUBSET Goal /\ F \subseteq L
  BY <1>2, <1>3
<1>5. ClosedBut(F, T, c, V)
  <2>1. ASSUME NEW h \in Goal, h \notin V, Fires(F, T, c, h) PROVE h \in F
    <3>1. Fires(L, T, c, h)
      BY <1>4, <2>1, FiresMono
    <3>2. h \in L
      BY <1>3, <2>1, <3>1 DEF ClosedBut
    <3> QED BY <1>2, <2>1, <3>1, <3>2
  <2> QED BY <2>1 DEF ClosedBut
<1>6. g \in F
  BY <1>4, <1>5 DEF Derivable
<1> QED BY <1>1, <1>2, <1>6

\* Which rule a goal's own operator allows.
LEMMA FiresBy ==
  ASSUME NEW F, NEW T, NEW c, NEW g
  PROVE  /\ g.expr.op = "check" =>
              (Fires(F, T, c, g) <=> g.rel # Self /\ Defined(g) /\ Body(g) \in F)
         /\ g.expr.op = "computed" =>
              (Fires(F, T, c, g) <=> Userset(g.obj, g.expr.rel) \in F)
         /\ g.expr.op = "this" =>
              (Fires(F, T, c, g) <=> \E x \in Rows(T, g.obj, g.rel) : Supports(x, F, T, c))
         /\ g.expr.op = "ttu" =>
              (Fires(F, T, c, g) <=> \E x \in Parents(T, g.obj, g.expr) : x \in F)
         /\ g.expr.op = "union" =>
              (Fires(F, T, c, g) <=> \E i \in DOMAIN g.expr.of : Part(g, i) \in F)
         /\ g.expr.op = "intersection" =>
              (Fires(F, T, c, g) <=> \A i \in DOMAIN g.expr.of : Part(g, i) \in F)
<1>1. PICK e : e = g.expr
  OBVIOUS
<1>2. CASE e.op = "check"
  BY <1>1, <1>2 DEF Fires, Body
<1>3. CASE e.op = "computed"
  BY <1>1, <1>3 DEF Fires
<1>4. CASE e.op = "this"
  BY <1>1, <1>4 DEF Fires, Supports
<1>5. CASE e.op = "ttu"
  BY <1>1, <1>5 DEF Fires
<1>6. CASE e.op = "union"
  BY <1>1, <1>6 DEF Fires, Part
<1>7. CASE e.op = "intersection"
  BY <1>1, <1>7 DEF Fires, Part
<1> QED BY <1>1, <1>2, <1>3, <1>4, <1>5, <1>6, <1>7

\* A key whose definition cannot be derived without the key itself cannot be
\* derived: why check() may cut a cycle.
LEMMA CutIsRight ==
  ASSUME NEW T, NEW c, NEW V, NEW k \in Key, Body(k) \notin Derivable(T, c, V \cup {k})
  PROVE  k \notin Derivable(T, c, V)
<1>1. PICK L : L = Derivable(T, c, V \cup {k})
  OBVIOUS
<1>2. L \in SUBSET Goal /\ ClosedBut(L, T, c, V \cup {k})
  BY <1>1, DerivableClosed
<1>3. k \in Goal /\ k.expr.op = "check"
  BY DEF Key, Check
<1>4. ~Fires(L, T, c, k)
  BY <1>1, <1>3, FiresBy
<1>5. ClosedBut(L, T, c, V)
  BY <1>2, <1>4 DEF ClosedBut
<1>6. k \notin L
  BY <1>1, DerivableFires
<1> QED BY <1>2, <1>5, <1>6 DEF Derivable

-------------------------------------------------------------------------------
(* Goals. *)

\* What the operator of a goal says of the goal.
LEMMA GoalFacts ==
  ASSUME NEW g \in Goal
  PROVE  /\ g.obj \in Object /\ g.rel \in Rel \cup {Self}
         /\ g = [obj |-> g.obj, rel |-> g.rel, expr |-> g.expr]
         /\ g.expr.op \in {"check", "this", "computed", "ttu", "union", "intersection"}
         /\ g.expr.op = "check" <=> g.expr = Check
         /\ g.expr.op = "check" /\ g.rel # Self <=> g \in Key
         /\ g.expr.op # "check" => g.rel \in Rel /\ Defined(g) /\ g.expr \in PartsOf(g)
                                    /\ g.expr \in Expr
         /\ g.expr.op = "computed" => g.expr.rel \in Rel
         /\ g.expr.op = "ttu" => g.expr.rel \in Rel /\ g.expr.tupleset \in Rel
         /\ g.expr.op \in {"union", "intersection"} => g.expr.of \in Seq(Expr)
<1>1. g \in [obj : Object, rel : Rel \cup {Self}, expr : Expr \cup {Check}]
  BY DEF Goal
<1>2. CASE g.expr = Check
  <2>1. g.expr.op = "check"
    BY <1>2 DEF Check
  <2> QED BY <1>1, <1>2, <2>1 DEF Key
<1>3. CASE g.expr # Check
  <2>1. g.expr \in Expr /\ g.rel # Self /\ Defined(g) /\ g.expr \in PartsOf(g)
    BY <1>1, <1>3 DEF Goal
  <2>2. g.expr.op \in {"this", "computed", "ttu", "union", "intersection"}
    BY <2>1, EngineAssumption
  <2>3. g \notin Key
    BY <1>3 DEF Key
  <2>4. /\ g.expr.op = "computed" => g.expr.rel \in Rel
        /\ g.expr.op = "ttu" => g.expr.rel \in Rel /\ g.expr.tupleset \in Rel
        /\ g.expr.op \in {"union", "intersection"} => g.expr.of \in Seq(Expr)
    BY <2>1, EngineAssumption
  <2> QED BY <1>1, <1>3, <2>1, <2>2, <2>3, <2>4
<1> QED BY <1>2, <1>3

\* The keys are the usersets.
LEMMA UsersetIsKey ==
  ASSUME NEW o \in Object, NEW r \in Rel
  PROVE  /\ Userset(o, r) \in Key /\ Userset(o, r) \in Goal
         /\ Userset(o, r).obj = o /\ Userset(o, r).rel = r
BY EngineAssumption DEF Userset, Key, Goal

\* The definition of a key is a goal, and so is a part of one.
LEMMA BodyIsGoal ==
  ASSUME NEW k \in Key, Defined(k)
  PROVE  Body(k) \in Goal /\ Body(k).expr.op # "check"
<1>1. k \in Goal /\ k.expr = Check /\ k.rel # Self
  BY DEF Key
<1>2. k.obj \in Object /\ k.rel \in Rel /\ k = [obj |-> k.obj, rel |-> k.rel, expr |-> Check]
  BY <1>1, GoalFacts
<1>3. PICK e : e = DefinitionOf(k)
  OBVIOUS
<1>4. PICK r \in [obj : Object, rel : Rel] : r = [obj |-> k.obj, rel |-> k.rel]
  BY <1>2
<1>5. r.obj = k.obj /\ r.rel = k.rel
  BY <1>4
<1>6. Defined(r) /\ DefinitionOf(r) = e /\ PartsOf(r) = PartsOf(k)
  BY <1>3, <1>5 DEF Defined, DefinitionOf, PartsOf
<1>7. e \in PartsOf(k) /\ e \in Expr
  BY <1>6, EngineAssumption
<1>8. PICK b : b = [obj |-> k.obj, rel |-> k.rel, expr |-> e]
  OBVIOUS
<1>9. b.obj = k.obj /\ b.rel = k.rel /\ b.expr = e /\ Body(k) = b
  BY <1>2, <1>3, <1>8 DEF Body
<1>10. Defined(b) /\ PartsOf(b) = PartsOf(k)
  BY <1>9 DEF Defined, PartsOf
<1>11. b \in [obj : Object, rel : Rel \cup {Self}, expr : Expr \cup {Check}]
  BY <1>2, <1>7, <1>8
<1>12. b \in Goal
  BY <1>1, <1>7, <1>9, <1>10, <1>11 DEF Goal
<1>13. e # Check
  BY <1>7, EngineAssumption
<1> QED BY <1>9, <1>12, <1>13, GoalFacts

\* The parts of a goal.
LEMMA PartIsGoal ==
  ASSUME NEW g \in Goal, g.expr.op \in {"union", "intersection"},
         NEW i \in 1..Len(g.expr.of)
  PROVE  Part(g, i) \in Goal /\ Part(g, i).expr.op # "check" /\ DOMAIN g.expr.of = 1..Len(g.expr.of)
<1>1. /\ g.obj \in Object /\ g.rel \in Rel /\ Defined(g) /\ g.expr \in PartsOf(g)
      /\ g.expr.of \in Seq(Expr) /\ g = [obj |-> g.obj, rel |-> g.rel, expr |-> g.expr]
  BY GoalFacts
<1>2. i \in DOMAIN g.expr.of /\ DOMAIN g.expr.of = 1..Len(g.expr.of)
  BY <1>1
<1>3. PICK e : e = g.expr.of[i]
  OBVIOUS
<1>4. PICK r \in [obj : Object, rel : Rel] : r = [obj |-> g.obj, rel |-> g.rel]
  BY <1>1
<1>5. r.obj = g.obj /\ r.rel = g.rel
  BY <1>4
<1>6. Defined(r) /\ PartsOf(r) = PartsOf(g)
  BY <1>1, <1>5 DEF Defined, PartsOf
<1>7. e \in PartsOf(g) /\ e \in Expr
  BY <1>1, <1>2, <1>3, <1>6, EngineAssumption
<1>8. PICK b : b = [obj |-> g.obj, rel |-> g.rel, expr |-> e]
  OBVIOUS
<1>9. b.obj = g.obj /\ b.rel = g.rel /\ b.expr = e /\ Part(g, i) = b
  BY <1>1, <1>3, <1>8 DEF Part
<1>10. Defined(b) /\ PartsOf(b) = PartsOf(g)
  BY <1>1, <1>9 DEF Defined, PartsOf
<1>11. b \in [obj : Object, rel : Rel \cup {Self}, expr : Expr \cup {Check}]
  BY <1>1, <1>7, <1>8
<1>12. b \in Goal
  BY <1>1, <1>7, <1>9, <1>10, <1>11, EngineAssumption DEF Goal
<1>13. e # Check
  BY <1>7, EngineAssumption
<1> QED BY <1>2, <1>9, <1>12, <1>13, GoalFacts

\* The rows of the tuple table, as goals.
LEMMA RowGoals ==
  ASSUME NEW T, T \subseteq AllTuples, NEW g \in Goal
  PROVE  /\ \A x \in Rows(T, g.obj, g.rel) : x \in Goal /\ (x.rel # Self => x \in Key)
         /\ g.expr.op = "ttu" => Parents(T, g.obj, g.expr) \subseteq Key
<1>1. \A r : \A x \in Rows(T, g.obj, r) : x \in Goal /\ (x.rel # Self => x \in Key)
  <2> SUFFICES ASSUME NEW r, NEW x \in Rows(T, g.obj, r)
               PROVE  x \in Goal /\ (x.rel # Self => x \in Key)
    OBVIOUS
  <2>1. PICK t \in Tuple : x = [obj |-> t.sub, rel |-> t.srel, expr |-> Check]
    BY EngineAssumption DEF Rows
  <2>2. t.sub \in Object /\ t.srel \in Rel \cup {Self}
    BY DEF Tuple
  <2>3. x \in Goal /\ x.expr = Check
    BY <2>1, <2>2 DEF Goal
  <2> QED BY <2>3 DEF Key
<1>2. ASSUME g.expr.op = "ttu", NEW x \in Parents(T, g.obj, g.expr) PROVE x \in Key
  <2>1. PICK y \in Rows(T, g.obj, g.expr.tupleset) : x = Userset(y.obj, g.expr.rel)
    BY DEF Parents
  <2>2. y.obj \in Object /\ g.expr.rel \in Rel
    BY <1>1, <1>2, GoalFacts
  <2> QED BY <2>1, <2>2, UsersetIsKey
<1> QED BY <1>1, <1>2

-------------------------------------------------------------------------------
(* Frames: what an evaluation has found so far. *)

\* The rows that an evaluation of g may fetch.
RowsOf(T, g) ==
    CASE g.expr.op = "this" -> Rows(T, g.obj, g.rel)
      [] g.expr.op = "ttu" -> Parents(T, g.obj, g.expr)
      [] OTHER -> {}

\* A frame holds rows that were stored, and stands at a part of its expression.
FrameOK(f, E) ==
    /\ f \in Frame
    /\ f.rows \subseteq RowsOf(E, f.goal)
    /\ f.next >= 1
    /\ f.goal.expr.op \in {"union", "intersection"} => f.next <= Len(f.goal.expr.of) + 1
    /\ f.goal.expr.op = "check" => f.goal \in Key /\ Defined(f.goal)

\* The frame f waits for the verdict on x.
Asks(f, x, E, c) ==
    \/ f.goal.expr.op = "check" /\ x = Body(f.goal)
    \/ f.goal.expr.op = "computed" /\ x = Userset(f.goal.obj, f.goal.expr.rel)
    \/ /\ f.goal.expr.op \in {"union", "intersection"}
       /\ f.next >= 2 /\ x = Part(f.goal, f.next - 1)
    \/ /\ f.goal.expr.op = "this" /\ x \in Rows(E, f.goal.obj, f.goal.rel) /\ x.rel # Self
       /\ c = NoCompany \/ SubjectInCompany(E, x.obj, c)
    \/ f.goal.expr.op = "ttu" /\ x \in Parents(E, f.goal.obj, f.goal.expr)

\* What f tried decided nothing, the goals in X aside: no part of a union and no
\* row is in N, every part of an intersection is in Y.
Tried(f, X, N, Y, A, c) ==
    /\ f.goal.expr.op = "union" =>
          \A i \in 1..f.next - 1 : Part(f.goal, i) \in N => Part(f.goal, i) \in X
    /\ f.goal.expr.op = "intersection" =>
          \A i \in 1..f.next - 1 : Part(f.goal, i) \in Y \cup X
    /\ f.goal.expr.op = "this" =>
          \A x \in Rows(A, f.goal.obj, f.goal.rel) :
              Supports(x, N, A, c) => x \in f.rows \cup X
    /\ f.goal.expr.op = "ttu" =>
          \A x \in Parents(A, f.goal.obj, f.goal.expr) : x \in N => x \in f.rows \cup X

\* A verdict on x: an allow can be derived, a deny cannot.
Answers(v, x, N, Y) == (v = "allow" => x \in Y) /\ (v = "deny" => x \notin N)

\* Fewer tuples throughout, more tuples ever, and more goals set aside keep it all.
LEMMA TriedMono ==
  ASSUME NEW f, NEW X, NEW N, NEW Y, NEW A, NEW c, Tried(f, X, N, Y, A, c),
         NEW M, NEW Z, NEW B, M \subseteq N, Y \subseteq Z, B \subseteq A
  PROVE  Tried(f, X, M, Z, B, c)
<1>1. ASSUME f.goal.expr.op = "this", NEW x \in Rows(B, f.goal.obj, f.goal.rel),
             Supports(x, M, B, c)
      PROVE  x \in f.rows \cup X
  <2>1. x \in Rows(A, f.goal.obj, f.goal.rel)
    BY RowsMono
  <2>2. Supports(x, N, A, c)
    BY <1>1, ScopeMono DEF Supports
  <2> QED BY <1>1, <2>1, <2>2 DEF Tried
<1>2. ASSUME f.goal.expr.op = "ttu", NEW x \in Parents(B, f.goal.obj, f.goal.expr), x \in M
      PROVE  x \in f.rows \cup X
  <2>1. x \in Parents(A, f.goal.obj, f.goal.expr)
    BY RowsMono
  <2> QED BY <1>2, <2>1 DEF Tried
<1> QED BY <1>1, <1>2 DEF Tried

\* The same for what a frame holds and asks.
LEMMA AsksMono ==
  ASSUME NEW E, NEW U, E \subseteq U
  PROVE  /\ \A f : FrameOK(f, E) => FrameOK(f, U)
         /\ \A f, x, c : Asks(f, x, E, c) => Asks(f, x, U, c)
<1>1. ASSUME NEW f, FrameOK(f, E) PROVE FrameOK(f, U)
  <2>1. RowsOf(E, f.goal) \subseteq RowsOf(U, f.goal)
    BY RowsMono DEF RowsOf
  <2> QED BY <1>1, <2>1 DEF FrameOK
<1>2. ASSUME NEW f, NEW x, NEW c, Asks(f, x, E, c) PROVE Asks(f, x, U, c)
  BY <1>2, RowsMono, ScopeMono DEF Asks
<1> QED BY <1>1, <1>2

\* What a frame asks for is a goal.
LEMMA AskedIsGoal ==
  ASSUME NEW E, E \subseteq AllTuples, NEW f, FrameOK(f, E), NEW x, NEW c, Asks(f, x, E, c)
  PROVE  x \in Goal
<1>1. f.goal \in Goal /\ f.next \in Nat
  BY DEF FrameOK, Frame
<1>2. CASE f.goal.expr.op = "check"
  BY <1>1, <1>2, BodyIsGoal DEF Asks, FrameOK
<1>3. CASE f.goal.expr.op = "computed"
  <2>1. f.goal.obj \in Object /\ f.goal.expr.rel \in Rel
    BY <1>1, <1>3, GoalFacts
  <2> QED BY <1>3, <2>1, UsersetIsKey DEF Asks
<1>4. CASE f.goal.expr.op \in {"union", "intersection"}
  <2>1. f.next - 1 \in 1..Len(f.goal.expr.of) /\ x = Part(f.goal, f.next - 1)
    <3>1. f.goal.expr.of \in Seq(Expr)
      BY <1>1, <1>4, GoalFacts
    <3>2. Len(f.goal.expr.of) \in Nat
      BY <3>1
    <3>3. f.next >= 2 /\ f.next <= Len(f.goal.expr.of) + 1 /\ x = Part(f.goal, f.next - 1)
      BY <1>4 DEF Asks, FrameOK
    <3> QED BY <1>1, <3>2, <3>3
  <2> QED BY <1>1, <1>4, <2>1, PartIsGoal
<1>5. CASE f.goal.expr.op = "this"
  BY <1>1, <1>5, RowGoals DEF Asks
<1>6. CASE f.goal.expr.op = "ttu"
  BY <1>1, <1>6, RowGoals DEF Asks, Key
<1> QED BY <1>1, <1>2, <1>3, <1>4, <1>5, <1>6, GoalFacts

\* An allow goes up: what asks for a derivable goal is derivable, an intersection
\* aside.
LEMMA AllowUp ==
  ASSUME NEW E, E \subseteq AllTuples, NEW f, FrameOK(f, E), NEW x, NEW c, Asks(f, x, E, c),
         x \in Derivable(E, c, {}), f.goal.expr.op # "intersection"
  PROVE  f.goal \in Derivable(E, c, {})
<1>0. PICK Y : Y = Derivable(E, c, {})
  OBVIOUS
<1>1. f.goal \in Goal /\ f.next \in Nat
  BY DEF FrameOK, Frame
<1>2. Fires(Y, E, c, f.goal) => f.goal \in Y
  BY <1>0, <1>1, DerivableClosed DEF ClosedBut
<1>3. CASE f.goal.expr.op = "check"
  <2>1. f.goal.rel # Self /\ Defined(f.goal) /\ x = Body(f.goal)
    BY <1>1, <1>3 DEF Asks, FrameOK, Key
  <2> QED BY <1>0, <1>2, <1>3, <2>1, FiresBy
<1>4. CASE f.goal.expr.op = "computed"
  BY <1>0, <1>2, <1>4, FiresBy DEF Asks
<1>5. CASE f.goal.expr.op = "union"
  <2>1. f.next >= 2 /\ f.next <= Len(f.goal.expr.of) + 1 /\ x = Part(f.goal, f.next - 1)
    BY <1>5 DEF Asks, FrameOK
  <2>2. f.goal.expr.of \in Seq(Expr)
    BY <1>1, <1>5, GoalFacts
  <2>3. f.next - 1 \in DOMAIN f.goal.expr.of
    BY <1>1, <2>1, <2>2
  <2> QED BY <1>0, <1>2, <1>5, <2>1, <2>3, FiresBy
<1>6. CASE f.goal.expr.op = "this"
  <2>1. x \in Rows(E, f.goal.obj, f.goal.rel) /\ Supports(x, Y, E, c)
    BY <1>0, <1>6 DEF Asks, Supports
  <2> QED BY <1>0, <1>2, <1>6, <2>1, FiresBy
<1>7. CASE f.goal.expr.op = "ttu"
  <2>1. x \in Parents(E, f.goal.obj, f.goal.expr)
    BY <1>7 DEF Asks
  <2> QED BY <1>0, <1>2, <1>7, <2>1, FiresBy
<1> QED BY <1>1, <1>3, <1>4, <1>5, <1>6, <1>7, GoalFacts

\* A deny goes up through an expression that it decides.
LEMMA DenyUp ==
  ASSUME NEW E, NEW f, FrameOK(f, E), NEW x, NEW c, Asks(f, x, E, c), NEW A, NEW V,
         x \notin Derivable(A, c, V),
         f.goal.expr.op \in {"check", "computed", "intersection"}
  PROVE  f.goal \notin Derivable(A, c, V)
<1>0. PICK N : N = Derivable(A, c, V)
  OBVIOUS
<1>1. f.goal \in Goal /\ f.next \in Nat
  BY DEF FrameOK, Frame
<1>2. f.goal \in N => Fires(N, A, c, f.goal)
  BY <1>0, DerivableFires
<1>3. CASE f.goal.expr.op = "check"
  <2>1. x = Body(f.goal)
    BY <1>3 DEF Asks
  <2> QED BY <1>0, <1>2, <1>3, <2>1, FiresBy
<1>4. CASE f.goal.expr.op = "computed"
  BY <1>0, <1>2, <1>4, FiresBy DEF Asks
<1>5. CASE f.goal.expr.op = "intersection"
  <2>1. f.next >= 2 /\ f.next <= Len(f.goal.expr.of) + 1 /\ x = Part(f.goal, f.next - 1)
    BY <1>5 DEF Asks, FrameOK
  <2>2. f.goal.expr.of \in Seq(Expr)
    BY <1>1, <1>5, GoalFacts
  <2>3. f.next - 1 \in DOMAIN f.goal.expr.of
    BY <1>1, <2>1, <2>2
  <2> QED BY <1>0, <1>2, <1>5, <2>1, <2>3, FiresBy
<1> QED BY <1>0, <1>3, <1>4, <1>5

\* Nothing is left to try: a union, a this or a tuple-to-userset is false, an
\* intersection true.
LEMMA NothingLeft ==
  ASSUME NEW E, NEW f, FrameOK(f, E), NEW c, NEW A, NEW V,
         Tried(f, {}, Derivable(A, c, V), Derivable(E, c, {}), A, c),
         \/ f.goal.expr.op \in {"this", "ttu"} /\ f.rows = {}
         \/ f.goal.expr.op \in {"union", "intersection"} /\ f.next > Len(f.goal.expr.of)
  PROVE  /\ f.goal.expr.op # "intersection" => f.goal \notin Derivable(A, c, V)
         /\ f.goal.expr.op = "intersection" => f.goal \in Derivable(E, c, {})
<1>0. PICK N, Y : N = Derivable(A, c, V) /\ Y = Derivable(E, c, {})
  OBVIOUS
<1>1. f.goal \in Goal /\ f.next \in Nat
  BY DEF FrameOK, Frame
<1>2. f.goal \in N => Fires(N, A, c, f.goal)
  BY <1>0, DerivableFires
<1>3. Fires(Y, E, c, f.goal) => f.goal \in Y
  BY <1>0, <1>1, DerivableClosed DEF ClosedBut
<1>4. ASSUME f.goal.expr.op \in {"union", "intersection"}
      PROVE  DOMAIN f.goal.expr.of = 1..f.next - 1
  <2>1. f.goal.expr.of \in Seq(Expr)
    BY <1>1, <1>4, GoalFacts
  <2>2. Len(f.goal.expr.of) \in Nat /\ DOMAIN f.goal.expr.of = 1..Len(f.goal.expr.of)
    BY <2>1
  <2>3. f.next <= Len(f.goal.expr.of) + 1 /\ f.next > Len(f.goal.expr.of)
    BY <1>4 DEF FrameOK
  <2>4. f.next - 1 = Len(f.goal.expr.of)
    BY <1>1, <2>2, <2>3
  <2> QED BY <2>2, <2>4
<1>5. CASE f.goal.expr.op = "union"
  <2>1. \A i \in DOMAIN f.goal.expr.of : Part(f.goal, i) \notin N
    BY <1>0, <1>4, <1>5 DEF Tried
  <2> QED BY <1>0, <1>2, <1>5, <2>1, FiresBy
<1>6. CASE f.goal.expr.op = "intersection"
  <2>1. \A i \in DOMAIN f.goal.expr.of : Part(f.goal, i) \in Y
    BY <1>0, <1>4, <1>6 DEF Tried
  <2> QED BY <1>0, <1>3, <1>6, <2>1, FiresBy
<1>7. CASE f.goal.expr.op = "this"
  <2>1. \A x \in Rows(A, f.goal.obj, f.goal.rel) : ~Supports(x, N, A, c)
    BY <1>0, <1>7 DEF Tried
  <2> QED BY <1>0, <1>2, <1>7, <2>1, FiresBy
<1>8. CASE f.goal.expr.op = "ttu"
  <2>1. \A x \in Parents(A, f.goal.obj, f.goal.expr) : x \notin N
    BY <1>0, <1>8 DEF Tried
  <2> QED BY <1>0, <1>2, <1>8, <2>1, FiresBy
<1> QED BY <1>5, <1>6, <1>7, <1>8

-------------------------------------------------------------------------------
(* Stacks. *)

\* What the steps do to a stack.
Push(s, f) == Append(s, f)
Pop(s) == SubSeq(s, 1, Len(s) - 1)
Replace(s, f) == [s EXCEPT ![Len(s)] = f]
Last(s) == s[Len(s)]

\* The check() frames among the first i of a stack, and the keys they check.
Checks(s, i) == {j \in 1..i : s[j].goal.expr.op = "check"}
Path(s, i) == {s[j].goal : j \in Checks(s, i)}

\* What frame i has had to set aside: nothing, or its path if a cycle was cut
\* since it was entered.
Aside(s, i, n) == IF n = s[i].cuts THEN {} ELSE Path(s, i)

\* Frame i waits for x, and all else it tried decided nothing.
Link(s, i, x, n, A, E, c) ==
    /\ Asks(s[i], x, E, c)
    /\ Tried(s[i], {x}, Derivable(A, c, Aside(s, i, n)), Derivable(E, c, {}), A, c)

\* Each frame waits for the one above it, the first is the item's.
StackInv(s, n, A, E, c, item) ==
    /\ s \in Seq(Frame)
    /\ \A i \in 1..Len(s) : FrameOK(s[i], E) /\ s[i].cuts <= n
    /\ s # <<>> => s[1].goal = item
    /\ \A i \in 1..Len(s) - 1 :
          Link(s, i, s[i + 1].goal, n, A, E, c) /\ s[i].cuts <= s[i + 1].cuts

\* A stack with one more frame.
LEMMA PushFacts ==
  ASSUME NEW s \in Seq(Frame), NEW f \in Frame, NEW t, t = Append(s, f)
  PROVE  /\ t \in Seq(Frame) /\ Len(t) = Len(s) + 1 /\ Len(t) \in Nat /\ t # <<>>
         /\ t[Len(t)] = f /\ \A j \in 1..Len(s) : t[j] = s[j]
<1>1. Len(s) \in Nat
  OBVIOUS
<1>2. t \in Seq(Frame) /\ Len(t) = Len(s) + 1
  OBVIOUS
<1>3. t[Len(s) + 1] = f /\ \A j \in 1..Len(s) : t[j] = s[j]
  BY <1>1
<1>4. t # <<>>
  BY <1>1, <1>2
<1> QED BY <1>1, <1>2, <1>3, <1>4

\* A stack without its top.
LEMMA PopFacts ==
  ASSUME NEW s \in Seq(Frame), s # <<>>, NEW t, t = SubSeq(s, 1, Len(s) - 1)
  PROVE  /\ t \in Seq(Frame) /\ Len(t) = Len(s) - 1 /\ Len(t) \in Nat /\ Len(s) \in Nat
         /\ \A j \in 1..Len(t) : t[j] = s[j]
         /\ t = <<>> <=> Len(s) = 1
<1>1. Len(s) \in Nat /\ Len(s) >= 1
  BY EmptySeq, LenProperties
<1>2. PICK m \in Nat : m = Len(s) - 1
  BY <1>1
<1>3. \A j \in 1..m : s[j] \in Frame
  BY <1>1, <1>2
<1>4. t \in Seq(Frame) /\ Len(t) = m /\ \A j \in 1..m : t[j] = s[j]
  BY <1>2, <1>3, SubSeqProperties
<1>5. t = <<>> <=> m = 0
  BY <1>2, <1>4, EmptySeq
<1> QED BY <1>1, <1>2, <1>4, <1>5

\* A stack with another top.
LEMMA TopFacts ==
  ASSUME NEW s \in Seq(Frame), s # <<>>, NEW f \in Frame,
         NEW t, t = [s EXCEPT ![Len(s)] = f]
  PROVE  /\ t \in Seq(Frame) /\ Len(t) = Len(s) /\ Len(s) \in Nat /\ Len(s) >= 1 /\ t # <<>>
         /\ t[Len(s)] = f /\ \A j \in 1..Len(s) - 1 : t[j] = s[j]
<1>1. Len(s) \in Nat /\ Len(s) >= 1
  BY EmptySeq, LenProperties
<1>2. t \in Seq(Frame) /\ Len(t) = Len(s) /\ t[Len(s)] = f
        /\ \A j \in 1..Len(s) - 1 : t[j] = s[j]
  BY <1>1
<1>3. t # <<>>
  BY <1>1, <1>2, EmptySeq
<1> QED BY <1>1, <1>2, <1>3

\* Two stacks that are alike up to i.
LEMMA Alike ==
  ASSUME NEW s, NEW t, NEW i \in Nat, \A j \in 1..i : t[j].goal = s[j].goal
  PROVE  /\ Checks(t, i) = Checks(s, i) /\ Path(t, i) = Path(s, i)
         /\ \A n : t[i].cuts = s[i].cuts => Aside(t, i, n) = Aside(s, i, n)
         /\ \A x, n, A, E, c :
               t[i] = s[i] => (Link(t, i, x, n, A, E, c) <=> Link(s, i, x, n, A, E, c))
<1>0. Checks(t, i) = Checks(s, i)
  BY DEF Checks
<1>1. Path(t, i) = Path(s, i)
  BY <1>0 DEF Path, Checks
<1>2. \A n : t[i].cuts = s[i].cuts => Aside(t, i, n) = Aside(s, i, n)
  BY <1>1 DEF Aside
<1>3. ASSUME NEW x, NEW n, NEW A, NEW E, NEW c, t[i] = s[i]
      PROVE  Link(t, i, x, n, A, E, c) <=> Link(s, i, x, n, A, E, c)
  <2>1. Aside(t, i, n) = Aside(s, i, n)
    BY <1>2, <1>3
  <2> QED BY <1>3, <2>1 DEF Link
<1> QED BY <1>0, <1>1, <1>2, <1>3

\* A frame is entered.
LEMMA PushInv ==
  ASSUME NEW s, NEW n \in Nat, NEW A, NEW E, NEW c, NEW item,
         StackInv(s, n, A, E, c, item), NEW f, FrameOK(f, E), f.cuts <= n,
         s = <<>> => f.goal = item,
         s # <<>> => Link(s, Len(s), f.goal, n, A, E, c) /\ s[Len(s)].cuts <= f.cuts,
         NEW t, t = Append(s, f)
  PROVE  StackInv(t, n, A, E, c, item)
<1>0. s \in Seq(Frame) /\ f \in Frame /\ Len(s) \in Nat
  BY DEF StackInv, FrameOK
<1>1. /\ t \in Seq(Frame) /\ Len(t) = Len(s) + 1 /\ Len(t) \in Nat /\ t # <<>>
      /\ t[Len(t)] = f /\ \A j \in 1..Len(s) : t[j] = s[j]
  BY <1>0, PushFacts
<1>2. \A i \in 1..Len(t) : FrameOK(t[i], E) /\ t[i].cuts <= n
  <2> TAKE i \in 1..Len(t)
  <2>1. CASE i = Len(t)
    BY <1>1, <2>1
  <2>2. CASE i \in 1..Len(s)
    BY <1>1, <2>2 DEF StackInv
  <2> QED BY <1>0, <1>1, <2>1, <2>2
<1>3. t[1].goal = item
  <2>1. CASE s = <<>>
    BY <1>1, <2>1
  <2>2. CASE s # <<>>
    <3>1. 1 \in 1..Len(s)
      BY <1>0, <2>2, EmptySeq
    <3> QED BY <1>1, <2>2, <3>1 DEF StackInv
  <2> QED BY <2>1, <2>2
<1>4. \A i \in 1..Len(t) - 1 :
        Link(t, i, t[i + 1].goal, n, A, E, c) /\ t[i].cuts <= t[i + 1].cuts
  <2> TAKE i \in 1..Len(t) - 1
  <2>0. i \in Nat /\ i \in 1..Len(s) /\ t[i] = s[i] /\ \A j \in 1..i : t[j].goal = s[j].goal
    BY <1>0, <1>1
  <2>1. \A x : Link(t, i, x, n, A, E, c) <=> Link(s, i, x, n, A, E, c)
    BY <2>0, Alike
  <2>2. CASE i = Len(s)
    <3>1. t[i + 1] = f /\ s # <<>>
      BY <1>0, <1>1, <2>0, <2>2
    <3> QED BY <2>0, <2>1, <2>2, <3>1
  <2>3. CASE i # Len(s)
    <3>1. i \in 1..Len(s) - 1 /\ t[i + 1] = s[i + 1]
      BY <1>0, <1>1, <2>0, <2>3
    <3> QED BY <2>0, <2>1, <3>1 DEF StackInv
  <2> QED BY <2>2, <2>3
<1> QED BY <1>1, <1>2, <1>3, <1>4 DEF StackInv

\* A frame is left: the one beneath waits for its goal.
LEMMA PopInv ==
  ASSUME NEW s, NEW n \in Nat, NEW A, NEW E, NEW c, NEW item,
         StackInv(s, n, A, E, c, item), s # <<>>, NEW t, t = SubSeq(s, 1, Len(s) - 1)
  PROVE  /\ StackInv(t, n, A, E, c, item)
         /\ t = <<>> => s[Len(s)].goal = item
         /\ t # <<>> => /\ Link(t, Len(t), s[Len(s)].goal, n, A, E, c)
                        /\ t[Len(t)].cuts <= s[Len(s)].cuts
                        /\ Path(t, Len(t)) = Path(s, Len(s) - 1)
<1>0. s \in Seq(Frame)
  BY DEF StackInv
<1>1. /\ t \in Seq(Frame) /\ Len(t) = Len(s) - 1 /\ Len(t) \in Nat /\ Len(s) \in Nat
      /\ \A j \in 1..Len(t) : t[j] = s[j]
      /\ t = <<>> <=> Len(s) = 1
  BY <1>0, PopFacts
<1>2. ASSUME NEW i \in 1..Len(t)
      PROVE  /\ t[i] = s[i] /\ i \in 1..Len(s) - 1
             /\ \A x : Link(t, i, x, n, A, E, c) <=> Link(s, i, x, n, A, E, c)
             /\ Link(s, i, s[i + 1].goal, n, A, E, c) /\ s[i].cuts <= s[i + 1].cuts
             /\ Path(t, i) = Path(s, i)
  <2>1. i \in Nat /\ t[i] = s[i] /\ i \in 1..Len(s) - 1 /\ \A j \in 1..i : t[j].goal = s[j].goal
    BY <1>1
  <2>2. /\ \A x : Link(t, i, x, n, A, E, c) <=> Link(s, i, x, n, A, E, c)
        /\ Path(t, i) = Path(s, i)
    BY <2>1, Alike
  <2> QED BY <2>1, <2>2 DEF StackInv
<1>3. \A i \in 1..Len(t) : FrameOK(t[i], E) /\ t[i].cuts <= n
  BY <1>1, <1>2 DEF StackInv
<1>4. t # <<>> => t[1].goal = item
  <2>1. t # <<>> => 1 \in 1..Len(t)
    BY <1>1, EmptySeq
  <2> QED BY <1>1, <2>1 DEF StackInv
<1>5. \A i \in 1..Len(t) - 1 :
        Link(t, i, t[i + 1].goal, n, A, E, c) /\ t[i].cuts <= t[i + 1].cuts
  <2> TAKE i \in 1..Len(t) - 1
  <2>1. i \in 1..Len(t) /\ i + 1 \in 1..Len(t)
    BY <1>1
  <2> QED BY <1>2, <2>1
<1>6. t = <<>> => s[Len(s)].goal = item
  BY <1>1 DEF StackInv
<1>7. t # <<>> => /\ Link(t, Len(t), s[Len(s)].goal, n, A, E, c)
                  /\ t[Len(t)].cuts <= s[Len(s)].cuts
                  /\ Path(t, Len(t)) = Path(s, Len(s) - 1)
  <2>1. t # <<>> => Len(t) \in 1..Len(t)
    BY <1>1, EmptySeq
  <2>2. Len(t) + 1 = Len(s) /\ Len(t) = Len(s) - 1
    BY <1>1
  <2> QED BY <1>2, <2>1, <2>2
<1> QED BY <1>1, <1>3, <1>4, <1>5, <1>6, <1>7 DEF StackInv

\* The top frame moves on.
LEMMA TopInv ==
  ASSUME NEW s, NEW n \in Nat, NEW A, NEW E, NEW c, NEW item,
         StackInv(s, n, A, E, c, item), NEW f, FrameOK(f, E),
         NEW m \in Nat, m = Len(s), m >= 1, f.goal = s[m].goal, f.cuts = s[m].cuts,
         NEW t \in Seq(Frame), Len(t) = m, t[m] = f, \A j \in 1..m - 1 : t[j] = s[j]
  PROVE  /\ StackInv(t, n, A, E, c, item)
         /\ Path(t, m) = Path(s, m)
         /\ Aside(t, m, n) = Aside(s, m, n)
<1>2. \A j \in 1..m : t[j].goal = s[j].goal /\ t[j].cuts = s[j].cuts
  <2> TAKE j \in 1..m
  <2>1. j = m \/ j \in 1..m - 1
    OBVIOUS
  <2> QED BY <2>1
<1>3. \A i \in 1..m : FrameOK(t[i], E) /\ t[i].cuts <= n
  <2> TAKE i \in 1..m
  <2>1. i = m \/ i \in 1..m - 1
    OBVIOUS
  <2>2. s[i].cuts <= n /\ FrameOK(s[i], E)
    BY DEF StackInv
  <2>3. t[i].cuts <= n
    BY <1>2, <2>2
  <2> QED BY <2>1, <2>2, <2>3
<1>4. t[1].goal = item
  <2>1. 1 \in 1..m /\ s # <<>>
    OBVIOUS
  <2> QED BY <1>2, <2>1 DEF StackInv
<1>5. \A i \in 1..m - 1 :
        Link(t, i, t[i + 1].goal, n, A, E, c) /\ t[i].cuts <= t[i + 1].cuts
  <2> TAKE i \in 1..m - 1
  <2>1. /\ i \in Nat /\ i \in 1..m - 1 /\ i \in 1..m /\ i + 1 \in 1..m /\ t[i] = s[i]
        /\ \A j \in 1..i : t[j].goal = s[j].goal
    BY <1>2
  <2>2. Link(s, i, s[i + 1].goal, n, A, E, c) /\ s[i].cuts <= s[i + 1].cuts
    BY <2>1 DEF StackInv
  <2>3. \A x : Link(t, i, x, n, A, E, c) <=> Link(s, i, x, n, A, E, c)
    BY <2>1, Alike
  <2> QED BY <1>2, <2>1, <2>2, <2>3
<1>6. Path(t, m) = Path(s, m) /\ Aside(t, m, n) = Aside(s, m, n)
  <2>1. t[m].cuts = s[m].cuts /\ \A j \in 1..m : t[j].goal = s[j].goal
    BY <1>2
  <2>2. Path(t, m) = Path(s, m) /\ \A l : t[m].cuts = s[m].cuts => Aside(t, m, l) = Aside(s, m, l)
    BY <2>1, Alike
  <2> QED BY <2>1, <2>2
<1> QED BY <1>3, <1>4, <1>5, <1>6 DEF StackInv

\* What a verdict returned to a stack has to set aside.
Base(s, n) == IF s = <<>> THEN {} ELSE Aside(s, Len(s), n)

\* The stack waits for the verdict on x: its top frame does, or x is the item.
Waits(s, x, n, A, E, c, item) == IF s = <<>> THEN x = item ELSE Link(s, Len(s), x, n, A, E, c)

\* One more cycle is cut.
LEMMA CutInv ==
  ASSUME NEW s, NEW n \in Nat, NEW A, NEW E, NEW c, NEW item, StackInv(s, n, A, E, c, item)
  PROVE  /\ StackInv(s, n + 1, A, E, c, item)
         /\ \A x : Waits(s, x, n, A, E, c, item) => Waits(s, x, n + 1, A, E, c, item)
<1>1. ASSUME NEW i \in 1..Len(s)
      PROVE  s[i].cuts \in Nat /\ s[i].cuts <= n /\ s[i].cuts <= n + 1 /\ s[i].cuts # n + 1
  <2>1. s[i] \in Frame /\ s[i].cuts <= n
    BY DEF StackInv, FrameOK
  <2>2. s[i].cuts \in Nat
    BY <2>1 DEF Frame
  <2> QED BY <2>1, <2>2
<1>2. ASSUME NEW i \in 1..Len(s) PROVE Aside(s, i, n) \subseteq Aside(s, i, n + 1)
  BY <1>1 DEF Aside
<1>3. ASSUME NEW i \in 1..Len(s), NEW x, Link(s, i, x, n, A, E, c)
      PROVE  Link(s, i, x, n + 1, A, E, c)
  <2>1. Derivable(A, c, Aside(s, i, n + 1)) \subseteq Derivable(A, c, Aside(s, i, n))
    BY <1>2, DerivableMono
  <2>2. Tried(s[i], {x}, Derivable(A, c, Aside(s, i, n + 1)), Derivable(E, c, {}), A, c)
    BY <1>3, <2>1, TriedMono DEF Link
  <2> QED BY <1>3, <2>2 DEF Link
<1>4. Len(s) \in Nat /\ (s # <<>> => Len(s) \in 1..Len(s))
  <2>1. s \in Seq(Frame)
    BY DEF StackInv
  <2> QED BY <2>1, EmptySeq
<1>5. \A i \in 1..Len(s) - 1 : i \in 1..Len(s)
  BY <1>4
<1>6. StackInv(s, n + 1, A, E, c, item)
  BY <1>1, <1>3, <1>5 DEF StackInv
<1> QED BY <1>3, <1>4, <1>6 DEF Waits

\* A write: fewer tuples stay throughout, more were ever stored.
LEMMA StoreInv ==
  ASSUME NEW s, NEW n \in Nat, NEW A, NEW E, NEW c, NEW item, StackInv(s, n, A, E, c, item),
         NEW B, NEW U, B \subseteq A, E \subseteq U
  PROVE  /\ StackInv(s, n, B, U, c, item)
         /\ \A x : Waits(s, x, n, A, E, c, item) => Waits(s, x, n, B, U, c, item)
<1>1. Derivable(E, c, {}) \subseteq Derivable(U, c, {})
  BY DerivableMono
<1>2. \A V : Derivable(B, c, V) \subseteq Derivable(A, c, V)
  BY DerivableMono
<1>3. ASSUME NEW i, NEW x, Link(s, i, x, n, A, E, c) PROVE Link(s, i, x, n, B, U, c)
  <2>1. Tried(s[i], {x}, Derivable(B, c, Aside(s, i, n)), Derivable(U, c, {}), B, c)
    BY <1>1, <1>2, <1>3, TriedMono DEF Link
  <2>2. Asks(s[i], x, U, c)
    BY <1>3, AsksMono DEF Link
  <2> QED BY <2>1, <2>2 DEF Link
<1>4. \A f : FrameOK(f, E) => FrameOK(f, U)
  BY AsksMono
<1>5. StackInv(s, n, B, U, c, item)
  BY <1>3, <1>4 DEF StackInv
<1> QED BY <1>3, <1>5 DEF Waits

-------------------------------------------------------------------------------
(* Depths. *)

\* A key is checked once on the path, and the depth of a frame counts the keys.
DepthInv(s) ==
    \A i \in 1..Len(s) :
        /\ s[i].goal.expr.op = "check" => s[i].goal \notin Path(s, i - 1)
        /\ Cardinality(Path(s, i)) = s[i].depth + 1
        /\ Cardinality(Checks(s, i)) = s[i].depth + 1

\* The depth at which the callee of a stack is checked.
CalleeDepth(s) == IF s = <<>> THEN 0 ELSE s[Len(s)].depth + 1

\* Paths are finite.
LEMMA PathFinite ==
  ASSUME NEW s, NEW i \in Nat
  PROVE  IsFiniteSet(Checks(s, i)) /\ IsFiniteSet(Path(s, i))
<1>1. IsFiniteSet(1..i)
  BY FS_Interval
<1>2. IsFiniteSet(Checks(s, i))
  <2>1. Checks(s, i) \subseteq 1..i
    BY DEF Checks
  <2> QED BY <1>1, <2>1, FS_Subset
<1>3. PICK f : f = [j \in Checks(s, i) |-> s[j].goal]
  OBVIOUS
<1>4. f \in Surjection(Checks(s, i), Path(s, i))
  BY <1>3 DEF Surjection, Path
<1> QED BY <1>2, <1>4, FS_Surjection

\* The path of one more frame.
LEMMA PathStep ==
  ASSUME NEW s, NEW i, NEW l, 1..l = (1..i) \cup {l}, l \notin 1..i, NEW f, s[l] = f
  PROVE  /\ f.goal.expr.op = "check" => /\ Path(s, l) = Path(s, i) \cup {f.goal}
                                        /\ Checks(s, l) = Checks(s, i) \cup {l}
                                        /\ l \notin Checks(s, i)
         /\ f.goal.expr.op # "check" => /\ Path(s, l) = Path(s, i)
                                        /\ Checks(s, l) = Checks(s, i)
<1>1. 1..l = (1..i) \cup {l} /\ l \notin 1..i
  OBVIOUS
<1>2. f.goal.expr.op = "check" => Checks(s, l) = Checks(s, i) \cup {l}
  BY <1>1 DEF Checks
<1>3. f.goal.expr.op # "check" => Checks(s, l) = Checks(s, i)
  BY <1>1 DEF Checks
<1>4. l \notin Checks(s, i)
  BY <1>1 DEF Checks
<1>5. f.goal.expr.op = "check" => Path(s, l) = Path(s, i) \cup {f.goal}
  BY <1>2 DEF Path
<1> QED BY <1>2, <1>3, <1>4, <1>5 DEF Path

\* An empty stack has no path.
LEMMA NoPath ==
  ASSUME NEW s
  PROVE  Path(s, 0) = {} /\ Checks(s, 0) = {}
<1>1. Checks(s, 0) = {}
  BY DEF Checks
<1> QED BY <1>1 DEF Path

\* Equal goals and depths keep the depths right.
LEMMA DepthAlike ==
  ASSUME NEW s, DepthInv(s), NEW t, NEW m \in Nat, m <= Len(s), Len(s) \in Nat,
         \A j \in 1..m : t[j].goal = s[j].goal /\ t[j].depth = s[j].depth,
         NEW i \in 1..m
  PROVE  /\ t[i].goal.expr.op = "check" => t[i].goal \notin Path(t, i - 1)
         /\ Cardinality(Path(t, i)) = t[i].depth + 1
         /\ Cardinality(Checks(t, i)) = t[i].depth + 1
         /\ Path(t, i) = Path(s, i) /\ Checks(t, i) = Checks(s, i)
<1>1. i \in Nat /\ i - 1 \in Nat /\ i \in 1..Len(s)
  OBVIOUS
<1>2. \A j \in 1..i : t[j].goal = s[j].goal
  BY <1>1
<1>3. \A j \in 1..i - 1 : t[j].goal = s[j].goal
  BY <1>1
<1>4. Path(t, i) = Path(s, i) /\ Checks(t, i) = Checks(s, i)
  BY <1>1, <1>2, Alike
<1>5. Path(t, i - 1) = Path(s, i - 1)
  BY <1>1, <1>3, Alike
<1> QED BY <1>1, <1>4, <1>5 DEF DepthInv

\* A frame is entered: check() checks a key that is not on the path, evalExpr()
\* stays at the depth it was called at.
LEMMA DepthPush ==
  ASSUME NEW s \in Seq(Frame), DepthInv(s), NEW f \in Frame, NEW m \in Nat, m = Len(s),
         NEW t, Len(t) = m + 1, t[m + 1] = f, \A j \in 1..m : t[j] = s[j],
         \/ /\ f.goal.expr.op = "check" /\ f.goal \notin Path(s, m)
            /\ f.depth = CalleeDepth(s)
         \/ f.goal.expr.op # "check" /\ s # <<>> /\ f.depth = s[m].depth
  PROVE  /\ DepthInv(t)
         /\ f.goal.expr.op = "check" => Path(t, m + 1) = Path(s, m) \cup {f.goal}
         /\ f.goal.expr.op # "check" => Path(t, m + 1) = Path(s, m)
<1>0. m = Len(s)
  OBVIOUS
<1>1. /\ Len(t) = m + 1 /\ t[m + 1] = f
      /\ \A j \in 1..m : t[j] = s[j]
  OBVIOUS
<1>2. \A j \in 1..m : t[j].goal = s[j].goal
  BY <1>1
<1>3. Path(t, m) = Path(s, m) /\ Checks(t, m) = Checks(s, m)
  BY <1>2, Alike
<1>4. /\ f.goal.expr.op = "check" => Path(t, m + 1) = Path(s, m) \cup {f.goal}
      /\ f.goal.expr.op # "check" => Path(t, m + 1) = Path(s, m)
      /\ f.goal.expr.op = "check" => Checks(t, m + 1) = Checks(s, m) \cup {m + 1}
      /\ f.goal.expr.op # "check" => Checks(t, m + 1) = Checks(s, m)
      /\ f.goal.expr.op = "check" => m + 1 \notin Checks(s, m)
  <2>1. PICK l : l = m + 1
    OBVIOUS
  <2>2. t[l] = f /\ 1..l = (1..m) \cup {l} /\ l \notin 1..m
    BY <2>1
  <2>3. /\ f.goal.expr.op = "check" => /\ Path(t, l) = Path(t, m) \cup {f.goal}
                                       /\ Checks(t, l) = Checks(t, m) \cup {l}
                                       /\ l \notin Checks(t, m)
        /\ f.goal.expr.op # "check" => /\ Path(t, l) = Path(t, m)
                                       /\ Checks(t, l) = Checks(t, m)
    BY <2>2, PathStep
  <2> QED BY <1>3, <2>1, <2>3
<1>5. IsFiniteSet(Path(s, m)) /\ IsFiniteSet(Checks(s, m))
  BY PathFinite
<1>6. /\ Cardinality(Path(s, m)) = CalleeDepth(s)
      /\ Cardinality(Checks(s, m)) = CalleeDepth(s)
  <2>1. CASE s = <<>>
    <3>1. m = 0
      BY <1>0, <2>1
    <3>2. Path(s, 0) = {} /\ Checks(s, 0) = {}
      BY NoPath
    <3> QED BY <2>1, <3>1, <3>2, FS_EmptySet DEF CalleeDepth
  <2>2. CASE s # <<>>
    <3>1. m \in 1..Len(s)
      BY <1>0, <2>2, EmptySeq
    <3> QED BY <1>0, <2>2, <3>1 DEF CalleeDepth, DepthInv
  <2> QED BY <2>1, <2>2
<1>7. f.depth \in Nat /\ CalleeDepth(s) \in Nat
  <2>1. f.depth \in Nat
    BY DEF Frame
  <2>2. CalleeDepth(s) \in Nat
    BY <1>5, <1>6, FS_CardinalityType
  <2> QED BY <2>1, <2>2
<1>8. /\ f.goal.expr.op = "check" => f.goal \notin Path(t, m)
      /\ Cardinality(Path(t, m + 1)) = f.depth + 1
      /\ Cardinality(Checks(t, m + 1)) = f.depth + 1
  <2>1. CASE f.goal.expr.op = "check"
    <3>1. Cardinality(Path(s, m) \cup {f.goal}) = CalleeDepth(s) + 1
      BY <1>0, <1>5, <1>6, <2>1, FS_AddElement
    <3>2. Cardinality(Checks(s, m) \cup {m + 1}) = CalleeDepth(s) + 1
      <4>1. PICK l : l = m + 1
        OBVIOUS
      <4>2. l \notin Checks(s, m)
        BY <1>4, <2>1, <4>1
      <4>3. Cardinality(Checks(s, m) \cup {l}) = Cardinality(Checks(s, m)) + 1
        BY <1>5, <4>2, FS_AddElement
      <4> QED BY <1>6, <4>1, <4>3
    <3> QED BY <1>0, <1>3, <1>4, <2>1, <3>1, <3>2
  <2>2. CASE f.goal.expr.op # "check"
    BY <1>4, <1>6, <2>2 DEF CalleeDepth
  <2> QED BY <2>1, <2>2
<1>9. ASSUME NEW i \in 1..m
      PROVE  /\ t[i].goal.expr.op = "check" => t[i].goal \notin Path(t, i - 1)
             /\ Cardinality(Path(t, i)) = t[i].depth + 1
             /\ Cardinality(Checks(t, i)) = t[i].depth + 1
  <2>1. \A j \in 1..m : t[j].goal = s[j].goal /\ t[j].depth = s[j].depth
    BY <1>1
  <2>2. m <= Len(s) /\ Len(s) \in Nat
    BY <1>0
  <2> QED BY <2>1, <2>2, DepthAlike
<1>10. DepthInv(t)
  <2> SUFFICES ASSUME NEW i \in 1..m + 1
               PROVE  /\ t[i].goal.expr.op = "check" => t[i].goal \notin Path(t, i - 1)
                      /\ Cardinality(Path(t, i)) = t[i].depth + 1
                      /\ Cardinality(Checks(t, i)) = t[i].depth + 1
    BY <1>1 DEF DepthInv
  <2>1. i \in 1..m \/ (i = m + 1 /\ i - 1 = m)
    OBVIOUS
  <2> QED BY <1>1, <1>8, <1>9, <2>1
<1> QED BY <1>0, <1>1, <1>4, <1>10

\* A frame is left: its key is on the path no more.
LEMMA DepthPop ==
  ASSUME NEW s \in Seq(Frame), DepthInv(s), s # <<>>, NEW t, t = Pop(s)
  PROVE  /\ DepthInv(t)
         /\ Last(s).goal.expr.op = "check" =>
              /\ Path(t, Len(t)) = Path(s, Len(s)) \ {Last(s).goal}
              /\ Path(s, Len(s)) = Path(t, Len(t)) \cup {Last(s).goal}
         /\ Last(s).goal.expr.op # "check" => Path(t, Len(t)) = Path(s, Len(s))
<1>1. PICK m \in Nat : Len(t) = m /\ Len(s) = m + 1 /\ \A j \in 1..m : t[j] = s[j]
  BY PopFacts DEF Pop
<1>2. PICK f : f = s[m + 1] /\ f = Last(s)
  BY <1>1 DEF Last
<1>3. \A j \in 1..m : t[j].goal = s[j].goal /\ t[j].depth = s[j].depth
  BY <1>1
<1>4. DepthInv(t)
  <2> SUFFICES ASSUME NEW i \in 1..m
               PROVE  /\ t[i].goal.expr.op = "check" => t[i].goal \notin Path(t, i - 1)
                      /\ Cardinality(Path(t, i)) = t[i].depth + 1
                      /\ Cardinality(Checks(t, i)) = t[i].depth + 1
    BY <1>1 DEF DepthInv
  <2>1. m <= Len(s) /\ Len(s) \in Nat
    BY <1>1
  <2> QED BY ONLY DepthInv(s), m \in Nat, i \in 1..m, <1>3, <2>1, DepthAlike
<1>5. Path(t, m) = Path(s, m)
  BY <1>3, Alike
<1>6. /\ f.goal.expr.op = "check" => Path(s, m + 1) = Path(s, m) \cup {f.goal}
      /\ f.goal.expr.op # "check" => Path(s, m + 1) = Path(s, m)
  <2>1. PICK l : l = m + 1
    OBVIOUS
  <2>2. 1..l = (1..m) \cup {l} /\ l \notin 1..m
    BY <2>1
  <2>4. s[l] = f
    BY <1>2, <2>1
  <2>3. /\ f.goal.expr.op = "check" => /\ Path(s, l) = Path(s, m) \cup {f.goal}
                                       /\ Checks(s, l) = Checks(s, m) \cup {l}
                                       /\ l \notin Checks(s, m)
        /\ f.goal.expr.op # "check" => /\ Path(s, l) = Path(s, m)
                                       /\ Checks(s, l) = Checks(s, m)
    BY <2>2, <2>4, PathStep
  <2> QED BY <2>1, <2>3
<1>7. f.goal.expr.op = "check" => f.goal \notin Path(s, m)
  <2>1. m + 1 \in 1..Len(s) /\ (m + 1) - 1 = m
    BY <1>1
  <2> QED BY <1>2, <2>1 DEF DepthInv
<1> QED BY <1>1, <1>2, <1>4, <1>5, <1>6, <1>7

\* The top frame moves on.
LEMMA DepthTop ==
  ASSUME NEW s, DepthInv(s), NEW t, NEW m \in Nat, m = Len(s), Len(t) = m,
         \A j \in 1..m : t[j].goal = s[j].goal /\ t[j].depth = s[j].depth
  PROVE  DepthInv(t)
<1> SUFFICES ASSUME NEW i \in 1..m
             PROVE  /\ t[i].goal.expr.op = "check" => t[i].goal \notin Path(t, i - 1)
                    /\ Cardinality(Path(t, i)) = t[i].depth + 1
                    /\ Cardinality(Checks(t, i)) = t[i].depth + 1
  BY DEF DepthInv
<1>1. m <= Len(s) /\ Len(s) \in Nat
  OBVIOUS
<1> QED BY <1>1, DepthAlike

-------------------------------------------------------------------------------
(* One worker. *)

\* Where a worker at p stands with its stack, the verdict v and the callee x.
PcInv(p, s, n, v, x, A, E, c, item) ==
    /\ p = "idle" => s = <<>>
    /\ p = "call" => Waits(s, x.goal, n, A, E, c, item) /\ x.depth = CalleeDepth(s)
    /\ p = "eval" => /\ s # <<>> /\ Last(s).goal.expr.op # "check"
                     /\ Last(s).next = 1 /\ Last(s).rows = {}
    /\ p = "loop" => /\ s # <<>>
                     /\ Last(s).goal.expr.op \in {"union", "intersection", "this", "ttu"}
                     /\ Tried(Last(s), {}, Derivable(A, c, Base(s, n)), Derivable(E, c, {}), A, c)
    /\ p = "ret" => \E y \in Goal :
                       /\ Waits(s, y, n, A, E, c, item)
                       /\ Answers(v, y, Derivable(A, c, Base(s, n)), Derivable(E, c, {}))

\* The stack is right, and visiting is its path.
PathInv(s, n, vis, A, E, c, item) ==
    StackInv(s, n, A, E, c, item) /\ DepthInv(s) /\ vis = Path(s, Len(s))

\* A stack has a top, or no path.
LEMMA StackFacts ==
  ASSUME NEW s, NEW n \in Nat, NEW vis, NEW A, NEW E, NEW c, NEW item,
         PathInv(s, n, vis, A, E, c, item)
  PROVE  /\ s \in Seq(Frame) /\ Len(s) \in Nat
         /\ s # <<>> => /\ Len(s) \in 1..Len(s) /\ Last(s) \in Frame /\ FrameOK(Last(s), E)
                        /\ Last(s).cuts <= n /\ Last(s).cuts \in Nat /\ Last(s).goal \in Goal
                        /\ Last(s).next \in Nat /\ Last(s).depth \in Nat
                        /\ Base(s, n) = Aside(s, Len(s), n)
         /\ s = <<>> => vis = {} /\ Base(s, n) = {}
<1>1. s \in Seq(Frame) /\ Len(s) \in Nat
  BY DEF PathInv, StackInv
<1>2. ASSUME s # <<>>
      PROVE  /\ Len(s) \in 1..Len(s) /\ Last(s) \in Frame /\ FrameOK(Last(s), E)
             /\ Last(s).cuts <= n
  <2>1. Len(s) \in 1..Len(s)
    BY <1>1, <1>2, EmptySeq
  <2> QED BY <2>1 DEF PathInv, StackInv, Last, FrameOK
<1>3. ASSUME s # <<>>
      PROVE  /\ Last(s).cuts \in Nat /\ Last(s).goal \in Goal
             /\ Last(s).next \in Nat /\ Last(s).depth \in Nat
  BY <1>2, <1>3 DEF Frame
<1>4. s = <<>> => vis = {}
  <2>1. s = <<>> => Len(s) = 0
    OBVIOUS
  <2> QED BY <2>1, NoPath DEF PathInv
<1> QED BY <1>1, <1>2, <1>3, <1>4 DEF Base

\* A frame is entered.
LEMMA Pushed ==
  ASSUME NEW s, NEW n \in Nat, NEW vis, NEW A, NEW E, NEW c, NEW item,
         PathInv(s, n, vis, A, E, c, item), NEW f, FrameOK(f, E), f.cuts = n,
         Waits(s, f.goal, n, A, E, c, item),
         \/ f.goal.expr.op = "check" /\ f.goal \notin vis /\ f.depth = CalleeDepth(s)
         \/ f.goal.expr.op # "check" /\ s # <<>> /\ f.depth = Last(s).depth,
         NEW t, t = Push(s, f)
  PROVE  /\ PathInv(t, n, Path(t, Len(t)), A, E, c, item) /\ t # <<>> /\ Last(t) = f
         /\ f.goal.expr.op = "check" => Path(t, Len(t)) = vis \cup {f.goal}
         /\ f.goal.expr.op # "check" => Path(t, Len(t)) = vis
<1>0. s \in Seq(Frame) /\ f \in Frame /\ f.cuts <= n
  BY DEF PathInv, StackInv, FrameOK
<1>1. PICK m \in Nat : m = Len(s)
  BY <1>0
<1>2. /\ t \in Seq(Frame) /\ Len(t) = m + 1 /\ t # <<>>
      /\ t[m + 1] = f /\ \A j \in 1..m : t[j] = s[j]
  BY <1>0, <1>1, PushFacts DEF Push
<1>3. s = <<>> => f.goal = item
  BY DEF Waits
<1>4. s # <<>> => Link(s, Len(s), f.goal, n, A, E, c) /\ s[Len(s)].cuts <= f.cuts
  BY StackFacts DEF Waits, Last
<1>5. StackInv(t, n, A, E, c, item)
  BY <1>0, <1>3, <1>4, PushInv DEF PathInv, Push
<1>6. vis = Path(s, m) /\ DepthInv(s)
  BY <1>1 DEF PathInv
<1>7. /\ DepthInv(t)
      /\ f.goal.expr.op = "check" => Path(t, m + 1) = Path(s, m) \cup {f.goal}
      /\ f.goal.expr.op # "check" => Path(t, m + 1) = Path(s, m)
  <2>1. \/ f.goal.expr.op = "check" /\ f.goal \notin Path(s, m) /\ f.depth = CalleeDepth(s)
        \/ f.goal.expr.op # "check" /\ s # <<>> /\ f.depth = s[m].depth
    BY <1>1, <1>6 DEF Last
  <2> QED BY <1>0, <1>1, <1>2, <1>6, <2>1, DepthPush
<1>8. /\ f.goal.expr.op = "check" => Path(t, Len(t)) = vis \cup {f.goal}
      /\ f.goal.expr.op # "check" => Path(t, Len(t)) = vis
  BY <1>2, <1>6, <1>7
<1> QED BY <1>2, <1>5, <1>7, <1>8 DEF PathInv, Last

\* A frame is left.
LEMMA Popped ==
  ASSUME NEW s, NEW n \in Nat, NEW vis, NEW A, NEW E, NEW c, NEW item,
         PathInv(s, n, vis, A, E, c, item), s # <<>>, NEW t, t = Pop(s)
  PROVE  /\ PathInv(t, n, Path(t, Len(t)), A, E, c, item)
         /\ Waits(t, Last(s).goal, n, A, E, c, item)
         /\ Last(s).goal.expr.op = "check" => /\ vis = Path(t, Len(t)) \cup {Last(s).goal}
                                              /\ Path(t, Len(t)) = vis \ {Last(s).goal}
         /\ Last(s).goal.expr.op # "check" => Path(t, Len(t)) = vis
         /\ t # <<>> => Last(t).cuts <= Last(s).cuts
<1>0. s \in Seq(Frame)
  BY DEF PathInv, StackInv
<1>2. /\ StackInv(t, n, A, E, c, item)
      /\ t = <<>> => s[Len(s)].goal = item
      /\ t # <<>> => /\ Link(t, Len(t), s[Len(s)].goal, n, A, E, c)
                     /\ t[Len(t)].cuts <= s[Len(s)].cuts
  BY PopInv DEF PathInv, Pop
<1>4. /\ DepthInv(t)
      /\ Last(s).goal.expr.op = "check" =>
           /\ Path(t, Len(t)) = Path(s, Len(s)) \ {Last(s).goal}
           /\ Path(s, Len(s)) = Path(t, Len(t)) \cup {Last(s).goal}
      /\ Last(s).goal.expr.op # "check" => Path(t, Len(t)) = Path(s, Len(s))
  BY <1>0, DepthPop DEF PathInv
<1>6. vis = Path(s, Len(s))
  BY DEF PathInv
<1>7. Waits(t, Last(s).goal, n, A, E, c, item)
  BY <1>2 DEF Waits, Last
<1> QED BY <1>2, <1>4, <1>6, <1>7 DEF PathInv, Last

\* The top frame moves on.
LEMMA Moved ==
  ASSUME NEW s, NEW n \in Nat, NEW vis, NEW A, NEW E, NEW c, NEW item,
         PathInv(s, n, vis, A, E, c, item), s # <<>>, NEW f, FrameOK(f, E),
         f.goal = Last(s).goal, f.cuts = Last(s).cuts, f.depth = Last(s).depth,
         NEW t, t = Replace(s, f)
  PROVE  /\ PathInv(t, n, vis, A, E, c, item) /\ t # <<>> /\ Last(t) = f
         /\ Base(t, n) = Base(s, n)
<1>0. s \in Seq(Frame) /\ f \in Frame
  BY DEF PathInv, StackInv, FrameOK
<1>1. PICK m \in Nat : m = Len(s) /\ m >= 1
  BY <1>0, StackFacts
<1>2. /\ t \in Seq(Frame) /\ Len(t) = m /\ t # <<>> /\ t[m] = f
      /\ \A j \in 1..m - 1 : t[j] = s[j]
  BY <1>0, <1>1, TopFacts DEF Replace
<1>3. f.goal = s[m].goal /\ f.cuts = s[m].cuts /\ f.depth = s[m].depth
  BY <1>1 DEF Last
<1>4. /\ StackInv(t, n, A, E, c, item)
      /\ Path(t, m) = Path(s, m)
      /\ Aside(t, m, n) = Aside(s, m, n)
  BY <1>1, <1>2, <1>3, TopInv DEF PathInv
<1>5. \A j \in 1..m : t[j].goal = s[j].goal /\ t[j].depth = s[j].depth
  <2> TAKE j \in 1..m
  <2>1. j = m \/ j \in 1..m - 1
    BY <1>1
  <2> QED BY <1>2, <1>3, <2>1
<1>6. DepthInv(t)
  BY <1>1, <1>2, <1>5, DepthTop DEF PathInv
<1> QED BY <1>1, <1>2, <1>4, <1>6 DEF PathInv, Last, Base

\* check() goes into a definition.
LEMMA EnterStep ==
  ASSUME NEW s, NEW n \in Nat, NEW vis, NEW A, NEW E, NEW c, NEW item, NEW v,
         PathInv(s, n, vis, A, E, c, item), NEW x \in [goal : Key, depth : Nat],
         PcInv("call", s, n, v, x, A, E, c, item), x.goal \notin vis, Defined(x.goal),
         NEW f, f = NewFrame(x.goal, x.depth, n), NEW b, b = NewFrame(Body(x.goal), x.depth, n),
         NEW r, r = Push(s, f), NEW t, t = Push(r, b)
  PROVE  /\ PathInv(t, n, vis \cup {x.goal}, A, E, c, item)
         /\ PcInv("eval", t, n, v, x, A, E, c, item)
<1>0. x.goal \in Key /\ x.depth \in Nat
  OBVIOUS
<1>1. x.goal \in Goal /\ x.goal.expr.op = "check"
  BY <1>0 DEF Key, Check
<1>2. Body(x.goal) \in Goal /\ Body(x.goal).expr.op # "check"
  BY <1>0, BodyIsGoal
<1>3. /\ f.goal = x.goal /\ f.rows = {} /\ f.next = 1 /\ f.depth = x.depth /\ f.cuts = n
      /\ b.goal = Body(x.goal) /\ b.rows = {} /\ b.next = 1 /\ b.depth = x.depth /\ b.cuts = n
  BY DEF NewFrame
<1>4. f \in Frame /\ b \in Frame
  BY <1>0, <1>1, <1>2 DEF NewFrame, Frame
<1>5. FrameOK(f, E)
  BY <1>0, <1>1, <1>3, <1>4 DEF FrameOK
<1>6. FrameOK(b, E)
  <2>1. b.goal.expr.op \in {"union", "intersection"} => Len(b.goal.expr.of) \in Nat
    <3>1. b.goal.expr.op \in {"union", "intersection"} => b.goal.expr.of \in Seq(Expr)
      BY <1>2, <1>3, GoalFacts
    <3> QED BY <3>1
  <2>2. b.goal.expr.op \in {"union", "intersection"} => b.next <= Len(b.goal.expr.of) + 1
    BY <1>3, <2>1
  <2> QED BY <1>2, <1>3, <1>4, <2>2 DEF FrameOK
<1>7. Waits(s, f.goal, n, A, E, c, item) /\ f.depth = CalleeDepth(s)
  BY <1>3 DEF PcInv
<1>8. PathInv(r, n, vis \cup {x.goal}, A, E, c, item) /\ r # <<>> /\ Last(r) = f
  <2>1. f.goal.expr.op = "check" /\ f.goal \notin vis /\ f.depth = CalleeDepth(s) /\ f.cuts = n
    BY <1>1, <1>3, <1>7
  <2>2. /\ PathInv(r, n, Path(r, Len(r)), A, E, c, item) /\ r # <<>> /\ Last(r) = f
        /\ f.goal.expr.op = "check" => Path(r, Len(r)) = vis \cup {f.goal}
    BY <1>5, <1>7, <2>1, Pushed
  <2> QED BY <1>3, <2>1, <2>2
<1>9. Waits(r, b.goal, n, A, E, c, item)
  <2>1. Asks(f, b.goal, E, c)
    BY <1>1, <1>3 DEF Asks
  <2>2. \A N, Y : Tried(f, {b.goal}, N, Y, A, c)
    BY <1>1, <1>3 DEF Tried
  <2> QED BY <1>8, <2>1, <2>2 DEF Waits, Link, Last
<1>10. PathInv(t, n, vis \cup {x.goal}, A, E, c, item) /\ t # <<>> /\ Last(t) = b
  <2>1. PICK u : u = vis \cup {x.goal}
    OBVIOUS
  <2>2. b.goal.expr.op # "check" /\ b.depth = Last(r).depth /\ b.cuts = n
    BY <1>2, <1>3, <1>8
  <2>3. PathInv(r, n, u, A, E, c, item) /\ r # <<>>
    BY <1>8, <2>1
  <2>4. /\ PathInv(t, n, Path(t, Len(t)), A, E, c, item) /\ t # <<>> /\ Last(t) = b
        /\ b.goal.expr.op # "check" => Path(t, Len(t)) = u
    <3>1. \/ b.goal.expr.op = "check" /\ b.goal \notin u /\ b.depth = CalleeDepth(r)
          \/ b.goal.expr.op # "check" /\ r # <<>> /\ b.depth = Last(r).depth
      BY <2>2, <2>3
    <3>2. FrameOK(b, E) /\ b.cuts = n /\ t = Push(r, b)
      BY <1>6, <2>2
    <3>3. PathInv(r, n, u, A, E, c, item)
      BY <2>3
    <3> QED BY ONLY n \in Nat, <1>9, <3>1, <3>2, <3>3, Pushed
  <2> QED BY <2>1, <2>2, <2>4
<1> QED BY <1>2, <1>3, <1>10 DEF PcInv

\* A verdict leaves an expression.
LEMMA LeaveExpr ==
  ASSUME NEW s, NEW n \in Nat, NEW vis, NEW A, NEW E, NEW c, NEW item \in Key, NEW v, NEW x,
         PathInv(s, n, vis, A, E, c, item), s # <<>>, Last(s).goal.expr.op # "check",
         Answers(v, Last(s).goal, Derivable(A, c, Base(s, n)), Derivable(E, c, {})),
         NEW t, t = Pop(s)
  PROVE  PathInv(t, n, vis, A, E, c, item) /\ PcInv("ret", t, n, v, x, A, E, c, item)
<1>1. /\ PathInv(t, n, vis, A, E, c, item)
      /\ Waits(t, Last(s).goal, n, A, E, c, item)
      /\ t # <<>> => Last(t).cuts <= Last(s).cuts
  <2>1. /\ PathInv(t, n, Path(t, Len(t)), A, E, c, item)
        /\ Waits(t, Last(s).goal, n, A, E, c, item)
        /\ Path(t, Len(t)) = vis
        /\ t # <<>> => Last(t).cuts <= Last(s).cuts
    BY Popped
  <2> QED BY <2>1
<1>2. t # <<>>
  <2>1. item.expr.op = "check"
    BY DEF Key, Check
  <2> QED BY <1>1, <2>1 DEF Waits
<1>3. /\ Last(s).cuts \in Nat /\ Last(s).cuts <= n /\ Last(t).cuts \in Nat
      /\ Last(t).cuts <= Last(s).cuts /\ Last(s).goal \in Goal
  BY <1>1, <1>2, StackFacts
<1>4. Base(s, n) \subseteq Base(t, n)
  <2>1. Base(s, n) = IF n = Last(s).cuts THEN {} ELSE vis
    BY DEF Base, Aside, Last, PathInv
  <2>2. Base(t, n) = IF n = Last(t).cuts THEN {} ELSE vis
    BY <1>1, <1>2 DEF Base, Aside, Last, PathInv
  <2> QED BY <1>3, <2>1, <2>2
<1>5. Derivable(A, c, Base(t, n)) \subseteq Derivable(A, c, Base(s, n))
  BY <1>4, DerivableMono
<1>6. Answers(v, Last(s).goal, Derivable(A, c, Base(t, n)), Derivable(E, c, {}))
  BY <1>5 DEF Answers
<1> QED BY <1>1, <1>3, <1>6 DEF PcInv

\* A verdict leaves check(), and when no cycle was cut beneath it, it is right
\* for every other path too.
LEMMA LeaveKey ==
  ASSUME NEW s, NEW n \in Nat, NEW vis, NEW A, NEW E, E \subseteq AllTuples, NEW c,
         NEW item, NEW v, NEW x, PathInv(s, n, vis, A, E, c, item), s # <<>>,
         Last(s).goal.expr.op = "check", PcInv("ret", s, n, v, x, A, E, c, item),
         NEW t, t = Pop(s)
  PROVE  /\ PathInv(t, n, vis \ {Last(s).goal}, A, E, c, item)
         /\ PcInv("ret", t, n, v, x, A, E, c, item)
         /\ Last(s).goal \in Key
         /\ v = "allow" => Last(s).goal \in Derivable(E, c, {})
         /\ v = "deny" /\ n = Last(s).cuts => Last(s).goal \notin Derivable(A, c, {})
<1>0. PICK k : k = Last(s).goal
  OBVIOUS
<1>1. /\ PathInv(t, n, vis \ {k}, A, E, c, item)
      /\ Waits(t, k, n, A, E, c, item)
      /\ vis = (vis \ {k}) \cup {k}
      /\ t # <<>> => Last(t).cuts <= Last(s).cuts
  <2>1. /\ PathInv(t, n, Path(t, Len(t)), A, E, c, item)
        /\ Waits(t, Last(s).goal, n, A, E, c, item)
        /\ vis = Path(t, Len(t)) \cup {Last(s).goal} /\ Path(t, Len(t)) = vis \ {Last(s).goal}
        /\ t # <<>> => Last(t).cuts <= Last(s).cuts
    BY Popped
  <2> QED BY <1>0, <2>1
<1>2. /\ Last(s).cuts \in Nat /\ Last(s).cuts <= n /\ FrameOK(Last(s), E) /\ k \in Goal
      /\ t # <<>> => Last(t).cuts \in Nat
  BY <1>0, <1>1, StackFacts
<1>3. k \in Key
  BY <1>0, <1>2 DEF FrameOK
<1>4. PICK y \in Goal : /\ Waits(s, y, n, A, E, c, item)
                        /\ Answers(v, y, Derivable(A, c, Base(s, n)), Derivable(E, c, {}))
  BY DEF PcInv
<1>5. Asks(Last(s), y, E, c)
  BY <1>4 DEF Waits, Link, Last
<1>6. y = Body(k)
  BY <1>0, <1>5 DEF Asks
<1>7. Base(s, n) = IF n = Last(s).cuts THEN {} ELSE vis
  BY DEF Base, Aside, Last, PathInv
<1>8. Base(t, n) = IF t = <<>> \/ n = Last(t).cuts THEN {} ELSE vis \ {k}
  BY <1>1 DEF Base, Aside, Last, PathInv
<1>9. v = "allow" => k \in Derivable(E, c, {})
  <2>1. v = "allow" => y \in Derivable(E, c, {})
    BY <1>4 DEF Answers
  <2> QED BY <1>0, <1>2, <1>5, <2>1, AllowUp
<1>10. v = "deny" => y \notin Derivable(A, c, Base(s, n))
  BY <1>4 DEF Answers
<1>11. v = "deny" /\ n = Last(s).cuts => k \notin Derivable(A, c, {})
  <2>1. v = "deny" /\ n = Last(s).cuts => y \notin Derivable(A, c, {})
    BY <1>7, <1>10
  <2> QED BY <1>0, <1>2, <1>5, <2>1, DenyUp
<1>12. v = "deny" => k \notin Derivable(A, c, Base(t, n))
  <2>1. CASE n = Last(s).cuts
    <3>1. Derivable(A, c, Base(t, n)) \subseteq Derivable(A, c, {})
      BY DerivableMono
    <3> QED BY <1>11, <2>1, <3>1
  <2>2. CASE n # Last(s).cuts
    <3>1. v = "deny" => Body(k) \notin Derivable(A, c, (vis \ {k}) \cup {k})
      BY <1>1, <1>6, <1>7, <1>10, <2>2
    <3>2. v = "deny" => k \notin Derivable(A, c, vis \ {k})
      BY <1>3, <3>1, CutIsRight
    <3>3. t # <<>> => n # Last(t).cuts
      BY <1>1, <1>2, <2>2
    <3>4. t = <<>> => vis \ {k} = {}
      BY <1>1, StackFacts
    <3> QED BY <1>8, <3>2, <3>3, <3>4
  <2> QED BY <2>1, <2>2
<1>13. Answers(v, k, Derivable(A, c, Base(t, n)), Derivable(E, c, {}))
  BY <1>9, <1>12 DEF Answers
<1> QED BY <1>0, <1>1, <1>2, <1>3, <1>9, <1>11, <1>13 DEF PcInv

\* A cycle is cut: the key on the path cannot be derived without itself.
LEMMA CutStep ==
  ASSUME NEW s, NEW n \in Nat, NEW vis, NEW A, NEW E, NEW c, NEW item, NEW v,
         PathInv(s, n, vis, A, E, c, item), NEW x \in [goal : Key, depth : Nat],
         PcInv("call", s, n, v, x, A, E, c, item), x.goal \in vis
  PROVE  /\ PathInv(s, n + 1, vis, A, E, c, item)
         /\ PcInv("ret", s, n + 1, "deny", x, A, E, c, item)
<1>1. /\ StackInv(s, n + 1, A, E, c, item)
      /\ \A y : Waits(s, y, n, A, E, c, item) => Waits(s, y, n + 1, A, E, c, item)
  BY CutInv DEF PathInv
<1>2. PathInv(s, n + 1, vis, A, E, c, item)
  BY <1>1 DEF PathInv
<1>3. s # <<>> /\ Last(s).cuts \in Nat /\ Last(s).cuts <= n
  BY StackFacts
<1>4. Base(s, n + 1) = vis
  <2>1. n + 1 # Last(s).cuts
    BY <1>3
  <2> QED BY <1>3, <2>1 DEF Base, Aside, Last, PathInv
<1>5. x.goal \notin Derivable(A, c, vis)
  BY DerivableFires
<1>6. Answers("deny", x.goal, Derivable(A, c, Base(s, n + 1)), Derivable(E, c, {}))
  BY <1>4, <1>5 DEF Answers
<1>7. x.goal \in Goal /\ Waits(s, x.goal, n + 1, A, E, c, item)
  BY <1>1 DEF PcInv, Key
<1> QED BY <1>2, <1>6, <1>7 DEF PcInv

\* A computed userset calls check().
LEMMA ComputedStep ==
  ASSUME NEW s, NEW n \in Nat, NEW vis, NEW A, NEW E, NEW c, NEW item, NEW v,
         PathInv(s, n, vis, A, E, c, item), s # <<>>, Last(s).goal.expr.op = "computed",
         NEW x, x = [goal |-> Userset(Last(s).goal.obj, Last(s).goal.expr.rel),
                     depth |-> Last(s).depth + 1]
  PROVE  x \in [goal : Key, depth : Nat] /\ PcInv("call", s, n, v, x, A, E, c, item)
<1>1. Last(s).goal \in Goal /\ Last(s).depth \in Nat
  BY StackFacts
<1>2. Last(s).goal.obj \in Object /\ Last(s).goal.expr.rel \in Rel
  BY <1>1, GoalFacts
<1>3. x.goal = Userset(Last(s).goal.obj, Last(s).goal.expr.rel) /\ x.depth = Last(s).depth + 1
  OBVIOUS
<1>4. x.goal \in Key /\ x.depth \in Nat
  BY <1>1, <1>2, <1>3, UsersetIsKey
<1>5. Asks(Last(s), x.goal, E, c)
  BY <1>3 DEF Asks
<1>6. \A N, Y : Tried(Last(s), {x.goal}, N, Y, A, c)
  BY DEF Tried
<1>7. Waits(s, x.goal, n, A, E, c, item)
  BY <1>5, <1>6 DEF Waits, Link, Last
<1>8. x.depth = CalleeDepth(s)
  BY <1>3 DEF CalleeDepth, Last
<1>9. x \in [goal : Key, depth : Nat]
  BY <1>3, <1>4
<1> QED BY <1>7, <1>8, <1>9 DEF PcInv

\* A union or an intersection begins with its first part.
LEMMA NaryStep ==
  ASSUME NEW s, NEW n, NEW A, NEW E, NEW c, NEW item, NEW v, NEW x,
         PcInv("eval", s, n, v, x, A, E, c, item),
         Last(s).goal.expr.op \in {"union", "intersection"}
  PROVE  PcInv("loop", s, n, v, x, A, E, c, item)
<1>1. s # <<>> /\ Last(s).next = 1
  BY DEF PcInv
<1>2. 1..Last(s).next - 1 = {}
  BY <1>1
<1>3. \A N, Y : Tried(Last(s), {}, N, Y, A, c)
  BY <1>2 DEF Tried
<1> QED BY <1>1, <1>3 DEF PcInv

\* The rows are fetched, from tuples between those stored throughout and ever.
LEMMA RowsStep ==
  ASSUME NEW s, NEW n \in Nat, NEW vis, NEW A, NEW E, E \subseteq AllTuples, NEW c, NEW item,
         NEW v, NEW x, PathInv(s, n, vis, A, E, c, item), s # <<>>,
         Last(s).goal.expr.op \in {"this", "ttu"},
         NEW T, A \subseteq T, T \subseteq E,
         NEW f, f = [Last(s) EXCEPT !.rows = RowsOf(T, Last(s).goal)],
         NEW t, t = Replace(s, f)
  PROVE  PathInv(t, n, vis, A, E, c, item) /\ PcInv("loop", t, n, v, x, A, E, c, item)
<1>1. /\ Last(s) \in Frame /\ FrameOK(Last(s), E) /\ Last(s).goal \in Goal
  BY StackFacts
<1>2. PICK R : R = RowsOf(T, Last(s).goal)
  OBVIOUS
<1>3. /\ f.goal = Last(s).goal /\ f.rows = R /\ f.next = Last(s).next
      /\ f.depth = Last(s).depth /\ f.cuts = Last(s).cuts
  BY <1>1, <1>2 DEF Frame
<1>4. R \subseteq RowsOf(E, f.goal) /\ RowsOf(A, f.goal) \subseteq R
  <2>1. PICK g : g = f.goal
    OBVIOUS
  <2>2. \A U, W : U \subseteq W => RowsOf(U, g) \subseteq RowsOf(W, g)
    BY RowsMono DEF RowsOf
  <2> QED BY <1>2, <1>3, <2>1, <2>2
<1>5. R \in SUBSET Goal
  <2>1. T \subseteq AllTuples
    OBVIOUS
  <2> QED BY <1>1, <1>2, <2>1, RowGoals DEF RowsOf, Key
<1>6. f \in Frame
  BY <1>1, <1>2, <1>5 DEF Frame
<1>7. FrameOK(f, E)
  BY <1>1, <1>3, <1>4, <1>6 DEF FrameOK
<1>8. PathInv(t, n, vis, A, E, c, item) /\ t # <<>> /\ Last(t) = f
  <2>1. PathInv(s, n, vis, A, E, c, item) /\ t = Replace(s, f) /\ s # <<>>
    OBVIOUS
  <2> QED BY ONLY n \in Nat, <1>3, <1>7, <2>1, Moved
<1>9. \A N, Y : Tried(f, {}, N, Y, A, c)
  <2>1. f.goal.expr.op = "this" => RowsOf(A, f.goal) = Rows(A, f.goal.obj, f.goal.rel)
    BY DEF RowsOf
  <2>2. f.goal.expr.op = "ttu" => RowsOf(A, f.goal) = Parents(A, f.goal.obj, f.goal.expr)
    BY DEF RowsOf
  <2> QED BY <1>3, <1>4, <2>1, <2>2 DEF Tried
<1> QED BY <1>3, <1>8, <1>9 DEF PcInv

\* The next part of a union or an intersection is evaluated.
LEMMA ChildStep ==
  ASSUME NEW s, NEW n \in Nat, NEW vis, NEW A, NEW E, NEW c, NEW item, NEW v, NEW x,
         PathInv(s, n, vis, A, E, c, item), PcInv("loop", s, n, v, x, A, E, c, item),
         Last(s).goal.expr.op \in {"union", "intersection"},
         NEW l, l = Last(s).next, l <= Len(Last(s).goal.expr.of),
         NEW f, f = [Last(s) EXCEPT !.next = l + 1],
         NEW b, b = NewFrame(Part(Last(s).goal, l), Last(s).depth, n),
         NEW r, r = Replace(s, f), NEW t, t = Push(r, b)
  PROVE  PathInv(t, n, vis, A, E, c, item) /\ PcInv("eval", t, n, v, x, A, E, c, item)
<1>0. s # <<>>
  BY DEF PcInv
<1>1. /\ Last(s) \in Frame /\ FrameOK(Last(s), E) /\ Last(s).goal \in Goal /\ l \in Nat /\ l >= 1
      /\ Last(s).cuts <= n
  BY <1>0, StackFacts DEF FrameOK
<1>2. /\ f.goal = Last(s).goal /\ f.rows = Last(s).rows /\ f.next = l + 1
      /\ f.depth = Last(s).depth /\ f.cuts = Last(s).cuts
  BY <1>1 DEF Frame
<1>3. Len(f.goal.expr.of) \in Nat
  <2>1. f.goal.expr.of \in Seq(Expr)
    BY <1>1, <1>2, GoalFacts
  <2> QED BY <2>1
<1>4. l \in 1..Len(f.goal.expr.of) /\ f.next <= Len(f.goal.expr.of) + 1 /\ f.next >= 2
      /\ f.next - 1 = l
  BY <1>1, <1>2, <1>3
<1>5. f \in Frame
  <2>1. l + 1 \in Nat
    BY <1>1
  <2> QED BY <1>1, <2>1 DEF Frame
<1>6. FrameOK(f, E)
  <2>1. f.next >= 1
    BY <1>1, <1>2
  <2> QED BY <1>1, <1>2, <1>4, <1>5, <2>1 DEF FrameOK
<1>7. /\ PathInv(r, n, vis, A, E, c, item) /\ r # <<>> /\ Last(r) = f
      /\ Base(r, n) = Base(s, n)
  <2>1. PathInv(s, n, vis, A, E, c, item) /\ r = Replace(s, f)
    OBVIOUS
  <2> QED BY ONLY n \in Nat, <1>0, <1>2, <1>6, <2>1, Moved
<1>8. PICK g : g = Part(f.goal, l)
  OBVIOUS
<1>9. g \in Goal /\ g.expr.op # "check"
  BY <1>1, <1>2, <1>4, <1>8, PartIsGoal
<1>10. /\ b.goal = g /\ b.rows = {} /\ b.next = 1 /\ b.depth = f.depth /\ b.cuts = n
       /\ f.depth \in Nat
  BY <1>2, <1>5, <1>8 DEF NewFrame, Frame
<1>11. b \in Frame
  BY <1>2, <1>8, <1>9, <1>10 DEF NewFrame, Frame
<1>12. FrameOK(b, E)
  <2>1. g.expr.op \in {"union", "intersection"} => Len(g.expr.of) \in Nat
    <3>1. g.expr.op \in {"union", "intersection"} => g.expr.of \in Seq(Expr)
      BY <1>9, GoalFacts
    <3> QED BY <3>1
  <2>2. g.expr.op \in {"union", "intersection"} => 1 <= Len(g.expr.of) + 1
    BY <2>1
  <2> QED BY <1>9, <1>10, <1>11, <2>2 DEF FrameOK
<1>13. Asks(f, g, E, c)
  BY <1>2, <1>4, <1>8 DEF Asks
<1>14. Tried(f, {g}, Derivable(A, c, Base(s, n)), Derivable(E, c, {}), A, c)
  <2>1. Tried(Last(s), {}, Derivable(A, c, Base(s, n)), Derivable(E, c, {}), A, c)
    BY DEF PcInv
  <2>2. \A i \in 1..f.next - 1 : i = l \/ i \in 1..Last(s).next - 1
    BY <1>1, <1>4
  <2> QED BY <1>2, <1>8, <2>1, <2>2 DEF Tried
<1>15. Waits(r, b.goal, n, A, E, c, item)
  <2>1. Base(r, n) = Aside(r, Len(r), n)
    BY <1>7 DEF Base
  <2> QED BY <1>7, <1>10, <1>13, <1>14, <2>1 DEF Waits, Link, Last
<1>16. /\ PathInv(t, n, Path(t, Len(t)), A, E, c, item) /\ t # <<>> /\ Last(t) = b
       /\ b.goal.expr.op # "check" => Path(t, Len(t)) = vis
  <2>1. \/ b.goal.expr.op = "check" /\ b.goal \notin vis /\ b.depth = CalleeDepth(r)
        \/ b.goal.expr.op # "check" /\ r # <<>> /\ b.depth = Last(r).depth
    BY <1>7, <1>9, <1>10
  <2>2. PathInv(r, n, vis, A, E, c, item) /\ b.cuts = n /\ t = Push(r, b)
    BY <1>7, <1>10
  <2> QED BY ONLY n \in Nat, <1>12, <1>15, <2>1, <2>2, Pushed
<1> QED BY <1>9, <1>10, <1>16 DEF PcInv

\* Nothing is left: the expression answers.
LEMMA ExhaustedStep ==
  ASSUME NEW s, NEW n \in Nat, NEW vis, NEW A, NEW E, NEW c, NEW item \in Key, NEW u, NEW x,
         PathInv(s, n, vis, A, E, c, item), PcInv("loop", s, n, u, x, A, E, c, item),
         \/ Last(s).goal.expr.op \in {"this", "ttu"} /\ Last(s).rows = {}
         \/ /\ Last(s).goal.expr.op \in {"union", "intersection"}
            /\ Last(s).next > Len(Last(s).goal.expr.of),
         NEW t, t = Pop(s),
         NEW v, v = IF Last(s).goal.expr.op = "intersection" THEN "allow" ELSE "deny"
  PROVE  PathInv(t, n, vis, A, E, c, item) /\ PcInv("ret", t, n, v, x, A, E, c, item)
<1>0. s # <<>> /\ Last(s).goal.expr.op # "check"
  BY DEF PcInv
<1>1. FrameOK(Last(s), E)
  BY <1>0, StackFacts
<1>2. Tried(Last(s), {}, Derivable(A, c, Base(s, n)), Derivable(E, c, {}), A, c)
  BY DEF PcInv
<1>3. /\ Last(s).goal.expr.op # "intersection" =>
           Last(s).goal \notin Derivable(A, c, Base(s, n))
      /\ Last(s).goal.expr.op = "intersection" => Last(s).goal \in Derivable(E, c, {})
  BY <1>1, <1>2, NothingLeft
<1>4. Answers(v, Last(s).goal, Derivable(A, c, Base(s, n)), Derivable(E, c, {}))
  BY <1>3 DEF Answers
<1> QED BY <1>0, <1>4, LeaveExpr

\* The subject itself is a row.
LEMMA DirectStep ==
  ASSUME NEW s, NEW n \in Nat, NEW vis, NEW A, NEW E, NEW c, NEW item \in Key, NEW x,
         PathInv(s, n, vis, A, E, c, item), s # <<>>, Last(s).goal.expr.op = "this",
         NEW y \in Last(s).rows, y.rel = Self, y.obj = Subject, NEW t, t = Pop(s)
  PROVE  PathInv(t, n, vis, A, E, c, item) /\ PcInv("ret", t, n, "allow", x, A, E, c, item)
<1>1. FrameOK(Last(s), E) /\ Last(s).goal \in Goal
  BY StackFacts
<1>2. y \in Rows(E, Last(s).goal.obj, Last(s).goal.rel)
  BY <1>1 DEF FrameOK, RowsOf
<1>3. Supports(y, Derivable(E, c, {}), E, c)
  BY DEF Supports
<1>4. Fires(Derivable(E, c, {}), E, c, Last(s).goal)
  BY <1>2, <1>3, FiresBy
<1>5. Last(s).goal \in Derivable(E, c, {})
  BY <1>1, <1>4, DerivableClosed DEF ClosedBut
<1>6. Answers("allow", Last(s).goal, Derivable(A, c, Base(s, n)), Derivable(E, c, {}))
  BY <1>5 DEF Answers
<1> QED BY <1>6, LeaveExpr

\* A row that proves nothing is dropped.
LEMMA RowDropped ==
  ASSUME NEW s, NEW n \in Nat, NEW vis, NEW A, NEW E, E \subseteq AllTuples, NEW c, NEW item,
         NEW v, NEW x, PathInv(s, n, vis, A, E, c, item),
         PcInv("loop", s, n, v, x, A, E, c, item), NEW y \in Last(s).rows,
         Last(s).goal.expr.op = "this", \A M : ~Supports(y, M, A, c),
         NEW f, f = [Last(s) EXCEPT !.rows = @ \ {y}], NEW t, t = Replace(s, f)
  PROVE  PathInv(t, n, vis, A, E, c, item) /\ PcInv("loop", t, n, v, x, A, E, c, item)
<1>0. s # <<>>
  BY DEF PcInv
<1>1. /\ Last(s) \in Frame /\ FrameOK(Last(s), E) /\ Last(s).goal \in Goal
      /\ Last(s).depth \in Nat
  BY <1>0, StackFacts
<1>2. /\ f.goal = Last(s).goal /\ f.rows = Last(s).rows \ {y} /\ f.next = Last(s).next
      /\ f.depth = Last(s).depth /\ f.cuts = Last(s).cuts
  BY <1>1 DEF Frame
<1>3. f \in Frame
  <2>1. Last(s).rows \ {y} \in SUBSET Goal
    BY <1>1 DEF Frame
  <2> QED BY <1>1, <2>1 DEF Frame
<1>4. FrameOK(f, E)
  BY <1>1, <1>2, <1>3 DEF FrameOK
<1>5. /\ PathInv(t, n, vis, A, E, c, item) /\ t # <<>> /\ Last(t) = f
      /\ Base(t, n) = Base(s, n)
  <2>1. PathInv(s, n, vis, A, E, c, item) /\ t = Replace(s, f)
    OBVIOUS
  <2> QED BY ONLY n \in Nat, <1>0, <1>2, <1>4, <2>1, Moved
<1>6. PICK N, Y : N = Derivable(A, c, Base(s, n)) /\ Y = Derivable(E, c, {})
  OBVIOUS
<1>7. Tried(Last(s), {}, N, Y, A, c)
  BY <1>6 DEF PcInv
<1>8. Tried(f, {}, N, Y, A, c)
  BY <1>2, <1>7 DEF Tried
<1> QED BY <1>2, <1>5, <1>6, <1>8 DEF PcInv

\* A userset is checked.
LEMMA RowAsked ==
  ASSUME NEW s, NEW n \in Nat, NEW vis, NEW A, NEW E, E \subseteq AllTuples, NEW c, NEW item,
         NEW v, NEW x, PathInv(s, n, vis, A, E, c, item),
         PcInv("loop", s, n, v, x, A, E, c, item), NEW y \in Last(s).rows,
         Last(s).goal.expr.op \in {"this", "ttu"},
         NEW f, f = [Last(s) EXCEPT !.rows = @ \ {y}], NEW t, t = Replace(s, f),
         y.rel # Self,
         \/ Last(s).goal.expr.op = "ttu" \/ c = NoCompany \/ SubjectInCompany(E, y.obj, c),
         NEW z, z = [goal |-> y, depth |-> Last(s).depth + 1]
  PROVE  /\ PathInv(t, n, vis, A, E, c, item)
         /\ z \in [goal : Key, depth : Nat] /\ PcInv("call", t, n, v, z, A, E, c, item)
<1>0. s # <<>>
  BY DEF PcInv
<1>1. /\ Last(s) \in Frame /\ FrameOK(Last(s), E) /\ Last(s).goal \in Goal
      /\ Last(s).depth \in Nat
  BY <1>0, StackFacts
<1>2. /\ f.goal = Last(s).goal /\ f.rows = Last(s).rows \ {y} /\ f.next = Last(s).next
      /\ f.depth = Last(s).depth /\ f.cuts = Last(s).cuts
  BY <1>1 DEF Frame
<1>3. f \in Frame
  <2>1. Last(s).rows \ {y} \in SUBSET Goal
    BY <1>1 DEF Frame
  <2> QED BY <1>1, <2>1 DEF Frame
<1>4. FrameOK(f, E)
  BY <1>1, <1>2, <1>3 DEF FrameOK
<1>5. /\ PathInv(t, n, vis, A, E, c, item) /\ t # <<>> /\ Last(t) = f
      /\ Base(t, n) = Base(s, n)
  <2>1. PathInv(s, n, vis, A, E, c, item) /\ t = Replace(s, f)
    OBVIOUS
  <2> QED BY ONLY n \in Nat, <1>0, <1>2, <1>4, <2>1, Moved
<1>6. PICK N, Y : N = Derivable(A, c, Base(s, n)) /\ Y = Derivable(E, c, {})
  OBVIOUS
<1>7. Tried(Last(s), {}, N, Y, A, c)
  BY <1>6 DEF PcInv
<1>8. Tried(f, {y}, N, Y, A, c)
  BY <1>2, <1>7 DEF Tried
<1>9. y \in RowsOf(E, Last(s).goal)
  BY <1>1 DEF FrameOK
<1>10. y \in Key
  BY <1>1, <1>9, RowGoals DEF RowsOf
<1>11. Asks(f, y, E, c)
  BY <1>2, <1>9 DEF RowsOf, Asks
<1>12. Waits(t, y, n, A, E, c, item)
  <2>1. Base(s, n) = Aside(t, Len(t), n)
    BY <1>5 DEF Base
  <2> QED BY <1>5, <1>6, <1>8, <1>11, <2>1 DEF Waits, Link, Last
<1>13. z.goal = y /\ z.depth = Last(s).depth + 1 /\ Last(s).depth + 1 \in Nat
  BY <1>1
<1>14. z.depth = CalleeDepth(t)
  BY <1>2, <1>5, <1>13 DEF CalleeDepth, Last
<1>15. z \in [goal : Key, depth : Nat]
  BY <1>10, <1>13
<1> QED BY <1>5, <1>12, <1>13, <1>14, <1>15 DEF PcInv
\* A verdict reaches the expression that asked: it answers, or goes on.
LEMMA ReturnStep ==
  ASSUME NEW s, NEW n \in Nat, NEW vis, NEW A, NEW E, E \subseteq AllTuples, NEW c,
         NEW item \in Key, NEW v \in Verdict, NEW x, PathInv(s, n, vis, A, E, c, item),
         PcInv("ret", s, n, v, x, A, E, c, item), s # <<>>, Last(s).goal.expr.op # "check",
         NEW t, t = Pop(s)
  PROVE  \/ /\ \/ Last(s).goal.expr.op = "computed"
               \/ Last(s).goal.expr.op = "intersection" /\ v = "deny"
               \/ Last(s).goal.expr.op \in {"union", "this", "ttu"} /\ v = "allow"
            /\ PathInv(t, n, vis, A, E, c, item) /\ PcInv("ret", t, n, v, x, A, E, c, item)
         \/ /\ ~(\/ Last(s).goal.expr.op = "computed"
                 \/ Last(s).goal.expr.op = "intersection" /\ v = "deny"
                 \/ Last(s).goal.expr.op \in {"union", "this", "ttu"} /\ v = "allow")
            /\ PcInv("loop", s, n, v, x, A, E, c, item)
<1>1. FrameOK(Last(s), E) /\ Last(s).goal \in Goal /\ Base(s, n) = Aside(s, Len(s), n)
  BY StackFacts
<1>2. PICK y \in Goal : /\ Waits(s, y, n, A, E, c, item)
                        /\ Answers(v, y, Derivable(A, c, Base(s, n)), Derivable(E, c, {}))
  BY DEF PcInv
<1>3. PICK N, Y : N = Derivable(A, c, Base(s, n)) /\ Y = Derivable(E, c, {})
  OBVIOUS
<1>4. Asks(Last(s), y, E, c) /\ Tried(Last(s), {y}, N, Y, A, c)
  BY <1>1, <1>2, <1>3 DEF Waits, Link, Last
<1>5. PICK o : o = Last(s).goal.expr.op
  OBVIOUS
<1>6. o \in {"computed", "intersection", "union", "this", "ttu"}
  BY <1>1, <1>5, GoalFacts
<1>7. (v = "allow" => y \in Y) /\ (v = "deny" => y \notin N) /\ v \in {"allow", "deny"}
  BY <1>2, <1>3 DEF Answers, Verdict
<1>8. CASE \/ o = "computed"
           \/ o = "intersection" /\ v = "deny"
           \/ o \in {"union", "this", "ttu"} /\ v = "allow"
  <2>1. v = "allow" => Last(s).goal \in Y
    BY <1>1, <1>3, <1>4, <1>5, <1>7, <1>8, AllowUp
  <2>2. v = "deny" => Last(s).goal \notin N
    BY <1>1, <1>3, <1>4, <1>5, <1>7, <1>8, DenyUp
  <2>3. Answers(v, Last(s).goal, Derivable(A, c, Base(s, n)), Derivable(E, c, {}))
    BY <1>3, <2>1, <2>2 DEF Answers
  <2>4. PathInv(t, n, vis, A, E, c, item) /\ PcInv("ret", t, n, v, x, A, E, c, item)
    BY <2>3, LeaveExpr
  <2> QED BY <1>5, <1>8, <2>4
<1>9. CASE ~(\/ o = "computed"
             \/ o = "intersection" /\ v = "deny"
             \/ o \in {"union", "this", "ttu"} /\ v = "allow")
  <2>1. \/ o = "intersection" /\ y \in Y
        \/ o \in {"union", "this", "ttu"} /\ y \notin N
    BY <1>6, <1>7, <1>9
  <2>2. o = "this" => y.rel # Self
    BY <1>4, <1>5 DEF Asks
  <2>3. Tried(Last(s), {}, N, Y, A, c)
    BY <1>4, <1>5, <2>1, <2>2 DEF Tried, Supports
  <2>4. PcInv("loop", s, n, v, x, A, E, c, item)
    BY <1>3, <1>5, <2>1, <2>3 DEF PcInv
  <2> QED BY <1>5, <1>9, <2>4
<1> QED BY <1>8, <1>9

\* A write keeps all of it.
LEMMA StoreStep ==
  ASSUME NEW s, NEW n \in Nat, NEW vis, NEW A, NEW E, NEW c, NEW item, NEW v, NEW x, NEW p,
         PathInv(s, n, vis, A, E, c, item), PcInv(p, s, n, v, x, A, E, c, item),
         NEW B, NEW U, B \subseteq A, E \subseteq U
  PROVE  PathInv(s, n, vis, B, U, c, item) /\ PcInv(p, s, n, v, x, B, U, c, item)
<1>1. /\ StackInv(s, n, B, U, c, item)
      /\ \A y : Waits(s, y, n, A, E, c, item) => Waits(s, y, n, B, U, c, item)
  BY StoreInv DEF PathInv
<1>2. PathInv(s, n, vis, B, U, c, item)
  BY <1>1 DEF PathInv
<1>3. /\ Derivable(B, c, Base(s, n)) \subseteq Derivable(A, c, Base(s, n))
      /\ Derivable(E, c, {}) \subseteq Derivable(U, c, {})
  BY DerivableMono
<1>4. p = "loop" =>
        Tried(Last(s), {}, Derivable(B, c, Base(s, n)), Derivable(U, c, {}), B, c)
  BY <1>3, TriedMono DEF PcInv
<1>5. \A y : Answers(v, y, Derivable(A, c, Base(s, n)), Derivable(E, c, {})) =>
             Answers(v, y, Derivable(B, c, Base(s, n)), Derivable(U, c, {}))
  BY <1>3 DEF Answers
<1> QED BY <1>1, <1>2, <1>4, <1>5 DEF PcInv

-------------------------------------------------------------------------------
(* The inductive invariant. *)

\* A worker at p with its stack s, cuts n, verdict v, callee x, path vis and item j.
WorkerAt(p, s, n, v, x, vis, j) ==
    /\ PathInv(s, n, vis, always, ever, req.company, req.items[j])
    /\ PcInv(p, s, n, v, x, always, ever, req.company, req.items[j])
    /\ p # "idle" => j \in DOMAIN req.items

WorkerInv(w) ==
    WorkerAt(pc[w], stack[w], cuts[w], val[w], callee[w], visiting[w], job[w])

\* The verdicts that are memoized or answered: an allow follows from tuples stored
\* at some moment, a deny cannot follow from the tuples stored throughout.
Verdicts ==
    /\ \A k \in Key : Answers(memo[k], k, Derivable(always, req.company, {}),
                              Derivable(ever, req.company, {}))
    /\ \A i \in DOMAIN req.items :
          Answers(results[i], req.items[i], Derivable(always, req.company, {}),
                  Derivable(ever, req.company, {}))

IInv == TypeOK /\ (\A w \in Workers : WorkerInv(w)) /\ Verdicts

\* The items of a request are keys.
LEMMA ItemIsKey ==
  ASSUME TypeOK, NEW j \in DOMAIN req.items
  PROVE  req.items[j] \in Key /\ req.items \in Seq(Key) /\ Len(req.items) \in Nat
         /\ DOMAIN req.items = 1..Len(req.items)
<1>1. req.items \in Seq(Key)
  BY EngineAssumption DEF TypeOK
<1> QED BY <1>1

\* The path of a stack holds keys.
LEMMA PathIsKeys ==
  ASSUME NEW s, NEW n \in Nat, NEW vis, NEW A, NEW E, NEW c, NEW item,
         PathInv(s, n, vis, A, E, c, item)
  PROVE  vis \in SUBSET Key
<1>1. \A j \in 1..Len(s) : FrameOK(s[j], E)
  BY DEF PathInv, StackInv
<1>2. \A j \in Checks(s, Len(s)) : s[j].goal \in Key
  BY <1>1 DEF Checks, FrameOK
<1>3. vis = Path(s, Len(s))
  BY DEF PathInv
<1> QED BY <1>2, <1>3 DEF Path

\* What a step of a worker sets.
Becomes(w, p, s, n, v, x, vis, j) ==
    /\ pc' = [pc EXCEPT ![w] = p]
    /\ stack' = [stack EXCEPT ![w] = s]
    /\ cuts' = [cuts EXCEPT ![w] = n]
    /\ val' = [val EXCEPT ![w] = v]
    /\ callee' = [callee EXCEPT ![w] = x]
    /\ visiting' = [visiting EXCEPT ![w] = vis]
    /\ job' = [job EXCEPT ![w] = j]

\* A step of one worker leaves the others as they are.
LEMMA StepInv ==
  ASSUME IInv, UNCHANGED <<req, store>>, NEW w \in Workers,
         NEW p \in {"idle", "call", "eval", "loop", "ret"}, NEW s, NEW n \in Nat,
         NEW v \in Verdict, NEW x \in [goal : Key, depth : Nat], NEW vis,
         NEW j \in 0..Len(req.items), Becomes(w, p, s, n, v, x, vis, j),
         WorkerAt(p, s, n, v, x, vis, j), nextJob' \in 1..(Len(req.items) + 1),
         memo' \in [Key -> Verdict \cup {"none"}],
         results' \in [DOMAIN req.items -> Verdict \cup Failure \cup {"none"}], Verdicts'
  PROVE  IInv'
<1>1. TypeOK
  BY DEF IInv
<1>2. s \in Seq(Frame)
  BY DEF WorkerAt, PathInv, StackInv
<1>3. vis \in SUBSET Key
  BY PathIsKeys DEF WorkerAt
<1>4. UNCHANGED <<req, tuples, ever, always, writes>>
  BY DEF store
<1>5. TypeOK'
  <2>1. pc' \in [Workers -> {"idle", "call", "eval", "loop", "ret"}]
    BY <1>1 DEF TypeOK, Becomes
  <2>2. stack' \in [Workers -> Seq(Frame)]
    BY <1>1, <1>2 DEF TypeOK, Becomes
  <2>3. cuts' \in [Workers -> Nat]
    BY <1>1 DEF TypeOK, Becomes
  <2>4. val' \in [Workers -> Verdict]
    BY <1>1 DEF TypeOK, Becomes
  <2>5. callee' \in [Workers -> [goal : Key, depth : Nat]]
    BY <1>1 DEF TypeOK, Becomes
  <2>6. visiting' \in [Workers -> SUBSET Key]
    BY <1>1, <1>3 DEF TypeOK, Becomes
  <2>7. job' \in [Workers -> 0..Len(req.items)]
    BY <1>1 DEF TypeOK, Becomes
  <2> QED BY <1>1, <1>4, <2>1, <2>2, <2>3, <2>4, <2>5, <2>6, <2>7 DEF TypeOK
<1>6. ASSUME NEW u \in Workers PROVE WorkerInv(u)'
  <2>1. CASE u = w
    <3>1. /\ pc'[u] = p /\ stack'[u] = s /\ cuts'[u] = n /\ val'[u] = v /\ callee'[u] = x
          /\ visiting'[u] = vis /\ job'[u] = j
      BY <1>1, <2>1 DEF TypeOK, Becomes
    <3>2. WorkerAt(p, s, n, v, x, vis, j)'
      BY <1>4 DEF WorkerAt
    <3> QED BY <3>1, <3>2 DEF WorkerInv, WorkerAt
  <2>2. CASE u # w
    <3>1. /\ pc'[u] = pc[u] /\ stack'[u] = stack[u] /\ cuts'[u] = cuts[u] /\ val'[u] = val[u]
          /\ callee'[u] = callee[u] /\ visiting'[u] = visiting[u] /\ job'[u] = job[u]
      BY <1>1, <2>2 DEF TypeOK, Becomes
    <3>2. WorkerInv(u)
      BY DEF IInv
    <3> QED BY <1>4, <3>1, <3>2 DEF WorkerInv, WorkerAt
  <2> QED BY <2>1, <2>2
<1> QED BY <1>5, <1>6 DEF IInv

\* A step that leaves the verdicts alone.
LEMMA VerdictsStay ==
  ASSUME IInv, UNCHANGED <<req, store, memo, nextJob, results>>
  PROVE  /\ Verdicts' /\ nextJob' \in 1..(Len(req.items) + 1)
         /\ memo' \in [Key -> Verdict \cup {"none"}]
         /\ results' \in [DOMAIN req.items -> Verdict \cup Failure \cup {"none"}]
<1>1. UNCHANGED <<req, tuples, ever, always, writes>>
  BY DEF store
<1> QED BY <1>1 DEF IInv, TypeOK, Verdicts

\* What the invariant says of one worker.
LEMMA WorkerFacts ==
  ASSUME IInv, NEW w \in Workers
  PROVE  /\ WorkerAt(pc[w], stack[w], cuts[w], val[w], callee[w], visiting[w], job[w])
         /\ cuts[w] \in Nat /\ val[w] \in Verdict /\ callee[w] \in [goal : Key, depth : Nat]
         /\ job[w] \in 0..Len(req.items) /\ Len(req.items) \in Nat
         /\ stack[w] \in Seq(Frame) /\ always \subseteq tuples /\ tuples \subseteq ever
         /\ ever \subseteq AllTuples /\ always \subseteq ever
         /\ pc[w] # "idle" => job[w] \in DOMAIN req.items /\ req.items[job[w]] \in Key
<1>1. TypeOK /\ WorkerInv(w)
  BY DEF IInv
<1>2. req.items \in Seq(Key)
  BY <1>1, EngineAssumption DEF TypeOK
<1>3. Len(req.items) \in Nat /\ \A j \in DOMAIN req.items : req.items[j] \in Key
  BY <1>2
<1>4. WorkerAt(pc[w], stack[w], cuts[w], val[w], callee[w], visiting[w], job[w])
  BY <1>1 DEF WorkerInv
<1>5. pc[w] # "idle" => job[w] \in DOMAIN req.items
  BY <1>4 DEF WorkerAt
<1> QED BY <1>1, <1>3, <1>4, <1>5 DEF TypeOK

-------------------------------------------------------------------------------
(* The steps of a worker. *)

\* BatchCan hands an item to a worker.
LEMMA TakeJobInv ==
  ASSUME IInv, NEW w \in Workers, TakeJob(w)
  PROVE  IInv'
<1>0. TypeOK
  BY DEF IInv
<1>1. /\ WorkerAt(pc[w], stack[w], cuts[w], val[w], callee[w], visiting[w], job[w])
      /\ cuts[w] \in Nat /\ val[w] \in Verdict /\ Len(req.items) \in Nat
  BY WorkerFacts
<1>2. pc[w] = "idle" /\ nextJob <= Len(req.items) /\ nextJob \in 1..(Len(req.items) + 1)
  BY <1>0 DEF TakeJob, At, TypeOK
<1>3. PICK j, x, s, n, v, vis :
        /\ j = nextJob /\ x = [goal |-> req.items[nextJob], depth |-> 0]
        /\ s = stack[w] /\ n = cuts[w] /\ v = val[w] /\ vis = visiting[w]
  OBVIOUS
<1>4. j \in DOMAIN req.items /\ j \in 0..Len(req.items) /\ j + 1 \in 1..(Len(req.items) + 1)
  <2>1. req.items \in Seq(Key)
    BY <1>0, EngineAssumption DEF TypeOK
  <2> QED BY <1>1, <1>2, <1>3, <2>1
<1>5. x \in [goal : Key, depth : Nat] /\ x.goal = req.items[j] /\ x.depth = 0
  BY <1>0, <1>3, <1>4, ItemIsKey
<1>6. s = <<>>
  BY <1>1, <1>2, <1>3 DEF WorkerAt, PcInv
<1>7. PathInv(s, n, vis, always, ever, req.company, req.items[j])
  <2>1. /\ PathInv(s, n, vis, always, ever, req.company, req.items[job[w]])
    BY <1>1, <1>3 DEF WorkerAt
  <2>2. 1..Len(s) - 1 = {}
    BY <1>6
  <2> QED BY <1>6, <2>1, <2>2 DEF PathInv, StackInv
<1>8. PcInv("call", s, n, v, x, always, ever, req.company, req.items[j])
  BY <1>5, <1>6 DEF PcInv, Waits, CalleeDepth
<1>9. WorkerAt("call", s, n, v, x, vis, j)
  BY <1>4, <1>7, <1>8 DEF WorkerAt
<1>10. Becomes(w, "call", s, n, v, x, vis, j)
  BY <1>0, <1>3 DEF TakeJob, Call, Goto, Becomes, TypeOK
<1>11. UNCHANGED <<req, store, memo, results>> /\ nextJob' = j + 1
  BY <1>3 DEF TakeJob
<1>12. /\ Verdicts' /\ nextJob' \in 1..(Len(req.items) + 1)
       /\ memo' \in [Key -> Verdict \cup {"none"}]
       /\ results' \in [DOMAIN req.items -> Verdict \cup Failure \cup {"none"}]
  BY <1>4, <1>11 DEF IInv, TypeOK, Verdicts, store
<1>13. n \in Nat /\ v \in Verdict
  BY <1>1, <1>3
<1> QED BY <1>4, <1>5, <1>9, <1>10, <1>11, <1>12, <1>13, StepInv

\* A worker answers its item.
LEMMA FinishJobInv ==
  ASSUME IInv, NEW w \in Workers, FinishJob(w)
  PROVE  IInv'
<1>0. TypeOK
  BY DEF IInv
<1>1. /\ WorkerAt(pc[w], stack[w], cuts[w], val[w], callee[w], visiting[w], job[w])
      /\ cuts[w] \in Nat /\ val[w] \in Verdict /\ callee[w] \in [goal : Key, depth : Nat]
      /\ job[w] \in 0..Len(req.items)
  BY WorkerFacts
<1>2. pc[w] = "ret" /\ stack[w] = <<>>
  BY DEF FinishJob, At
<1>3. PICK j, x, s, n, v, vis :
        /\ j = job[w] /\ x = callee[w]
        /\ s = stack[w] /\ n = cuts[w] /\ v = val[w] /\ vis = visiting[w]
  OBVIOUS
<1>4. /\ PathInv(s, n, vis, always, ever, req.company, req.items[j])
      /\ PcInv("ret", s, n, v, x, always, ever, req.company, req.items[j])
      /\ j \in DOMAIN req.items
  BY <1>1, <1>2, <1>3 DEF WorkerAt
<1>5. WorkerAt("idle", s, n, v, x, vis, j)
  BY <1>2, <1>3, <1>4 DEF WorkerAt, PcInv
<1>6. Becomes(w, "idle", s, n, v, x, vis, j)
  BY <1>0, <1>3 DEF FinishJob, Goto, Becomes, TypeOK
<1>7. /\ UNCHANGED <<req, store, memo, nextJob>> /\ results' = [results EXCEPT ![j] = v]
  BY <1>3 DEF FinishJob
<1>8. Answers(v, req.items[j], Derivable(always, req.company, {}), Derivable(ever, req.company, {}))
  BY <1>2, <1>3, <1>4 DEF PcInv, Waits, Base
<1>9. v \in Verdict /\ n \in Nat /\ x \in [goal : Key, depth : Nat] /\ j \in 0..Len(req.items)
  BY <1>1, <1>3
<1>10. UNCHANGED <<req, tuples, ever, always, memo>>
  BY <1>7 DEF store
<1>11. Verdicts'
  <2>1. ASSUME NEW i \in DOMAIN req.items
        PROVE  Answers(results'[i], req.items[i], Derivable(always, req.company, {}),
                       Derivable(ever, req.company, {}))
    <3>1. results'[i] = IF i = j THEN v ELSE results[i]
      BY <1>0, <1>7 DEF TypeOK
    <3> QED BY <1>8, <3>1 DEF IInv, Verdicts
  <2> QED BY <1>10, <2>1 DEF IInv, Verdicts
<1>12. /\ nextJob' \in 1..(Len(req.items) + 1)
       /\ memo' \in [Key -> Verdict \cup {"none"}]
       /\ results' \in [DOMAIN req.items -> Verdict \cup Failure \cup {"none"}]
  BY <1>0, <1>7, <1>9 DEF TypeOK
<1> QED BY <1>5, <1>6, <1>7, <1>9, <1>11, <1>12, StepInv

\* An error ends the evaluation of an item.
LEMMA AbortInv ==
  ASSUME IInv, NEW w \in Workers, NEW why \in Failure, Abort(w, why)
  PROVE  IInv'
<1>0. TypeOK
  BY DEF IInv
<1>1. /\ cuts[w] \in Nat /\ val[w] \in Verdict /\ callee[w] \in [goal : Key, depth : Nat]
      /\ job[w] \in 0..Len(req.items)
  BY WorkerFacts
<1>2. PICK j, x, n, v, s, vis :
         j = job[w] /\ x = callee[w] /\ n = cuts[w] /\ v = val[w] /\ s = <<>> /\ vis = {}
  OBVIOUS
<1>3. PathInv(s, n, vis, always, ever, req.company, req.items[j])
  <2>1. s \in Seq(Frame) /\ Len(s) = 0 /\ 1..Len(s) = {} /\ 1..Len(s) - 1 = {}
    BY <1>2
  <2>2. vis = Path(s, Len(s))
    BY <1>2, <2>1, NoPath
  <2> QED BY <1>2, <2>1, <2>2 DEF PathInv, StackInv, DepthInv
<1>4. WorkerAt("idle", s, n, v, x, vis, j)
  BY <1>2, <1>3 DEF WorkerAt, PcInv
<1>5. Becomes(w, "idle", s, n, v, x, vis, j)
  BY <1>0, <1>2 DEF Abort, Goto, Becomes, TypeOK
<1>6. UNCHANGED <<req, store, memo, nextJob>> /\ results' = [results EXCEPT ![j] = why]
  BY <1>2 DEF Abort
<1>7. UNCHANGED <<req, tuples, ever, always, memo>>
  BY <1>6 DEF store
<1>8. why # "allow" /\ why # "deny"
  BY DEF Failure
<1>9. Verdicts'
  <2>1. ASSUME NEW i \in DOMAIN req.items
        PROVE  Answers(results'[i], req.items[i], Derivable(always, req.company, {}),
                       Derivable(ever, req.company, {}))
    <3>1. results'[i] = why \/ results'[i] = results[i]
      BY <1>0, <1>6 DEF TypeOK
    <3> QED BY <1>8, <3>1 DEF IInv, Verdicts, Answers
  <2> QED BY <1>7, <2>1 DEF IInv, Verdicts
<1>10. /\ nextJob' \in 1..(Len(req.items) + 1)
       /\ memo' \in [Key -> Verdict \cup {"none"}]
       /\ results' \in [DOMAIN req.items -> Verdict \cup Failure \cup {"none"}]
  BY <1>0, <1>6 DEF TypeOK
<1>11. n \in Nat /\ v \in Verdict /\ x \in [goal : Key, depth : Nat] /\ j \in 0..Len(req.items)
  BY <1>1, <1>2
<1> QED BY <1>4, <1>5, <1>6, <1>9, <1>10, <1>11, StepInv

\* A step that leaves the verdicts alone.
LEMMA Quiet ==
  ASSUME IInv, UNCHANGED <<req, store, memo, nextJob, results>>, NEW w \in Workers,
         NEW p \in {"call", "eval", "loop", "ret"}, NEW s, NEW n \in Nat,
         NEW v \in Verdict, NEW x \in [goal : Key, depth : Nat], NEW vis,
         NEW j \in DOMAIN req.items, NEW item, item = req.items[j], NEW c, c = req.company,
         Becomes(w, p, s, n, v, x, vis, j), PathInv(s, n, vis, always, ever, c, item),
         PcInv(p, s, n, v, x, always, ever, c, item)
  PROVE  IInv'
<1>1. WorkerAt(p, s, n, v, x, vis, j)
  BY DEF WorkerAt
<1>2. /\ Verdicts' /\ nextJob' \in 1..(Len(req.items) + 1)
      /\ memo' \in [Key -> Verdict \cup {"none"}]
      /\ results' \in [DOMAIN req.items -> Verdict \cup Failure \cup {"none"}]
  BY VerdictsStay
<1>3. j \in 0..Len(req.items)
  <2>1. DOMAIN req.items = 1..Len(req.items) /\ Len(req.items) \in Nat
    BY ItemIsKey DEF IInv
  <2> QED BY <2>1
<1> QED BY <1>1, <1>2, <1>3, StepInv

\* A memoized verdict is returned.
LEMMA MemoHitInv ==
  ASSUME IInv, NEW w \in Workers, MemoHit(w)
  PROVE  IInv'
<1>0. TypeOK
  BY DEF IInv
<1>1. PICK s, n, v, x, vis, j, item, c :
        /\ s = stack[w] /\ n = cuts[w] /\ v = val[w] /\ x = callee[w] /\ vis = visiting[w]
        /\ j = job[w] /\ item = req.items[j] /\ c = req.company
  OBVIOUS
<1>2. /\ n \in Nat /\ v \in Verdict /\ x \in [goal : Key, depth : Nat] /\ j \in 0..Len(req.items)
      /\ always \subseteq tuples /\ tuples \subseteq ever /\ ever \subseteq AllTuples
  BY <1>1, WorkerFacts
<1>3. pc[w] = "call"
  BY DEF MemoHit, At
<1>4. /\ PathInv(s, n, vis, always, ever, c, item)
      /\ PcInv("call", s, n, v, x, always, ever, c, item)
      /\ j \in DOMAIN req.items /\ item \in Key
  BY <1>1, <1>3, WorkerFacts DEF WorkerAt
<1>5. PICK u : u = memo[x.goal]
  OBVIOUS
<1>6. x.goal \in Key /\ x.goal \in Goal /\ u \in Verdict
  BY <1>0, <1>1, <1>2, <1>5 DEF MemoHit, TypeOK, Key
<1>7. Answers(u, x.goal, Derivable(always, c, {}), Derivable(ever, c, {}))
  BY <1>1, <1>5, <1>6 DEF IInv, Verdicts
<1>8. Derivable(always, c, Base(s, n)) \subseteq Derivable(always, c, {})
  BY DerivableMono
<1>9. Answers(u, x.goal, Derivable(always, c, Base(s, n)), Derivable(ever, c, {}))
  BY <1>7, <1>8 DEF Answers
<1>10. PcInv("ret", s, n, u, x, always, ever, c, item)
  BY <1>4, <1>6, <1>9 DEF PcInv
<1>11. Becomes(w, "ret", s, n, u, x, vis, j)
  BY <1>0, <1>1, <1>5 DEF MemoHit, Return, Goto, Becomes, TypeOK
<1>12. UNCHANGED <<req, store, memo, nextJob, results>>
  BY DEF MemoHit
<1> QED BY <1>1, <1>2, <1>4, <1>6, <1>10, <1>11, <1>12, Quiet

\* A cycle is cut.
LEMMA CycleCutInv ==
  ASSUME IInv, NEW w \in Workers, CycleCut(w)
  PROVE  IInv'
<1>0. TypeOK
  BY DEF IInv
<1>1. PICK s, n, v, x, vis, j, item, c :
        /\ s = stack[w] /\ n = cuts[w] /\ v = val[w] /\ x = callee[w] /\ vis = visiting[w]
        /\ j = job[w] /\ item = req.items[j] /\ c = req.company
  OBVIOUS
<1>2. /\ n \in Nat /\ v \in Verdict /\ x \in [goal : Key, depth : Nat] /\ j \in 0..Len(req.items)
      /\ always \subseteq tuples /\ tuples \subseteq ever /\ ever \subseteq AllTuples
  BY <1>1, WorkerFacts
<1>3. pc[w] = "call"
  BY DEF CycleCut, At
<1>4. /\ PathInv(s, n, vis, always, ever, c, item)
      /\ PcInv("call", s, n, v, x, always, ever, c, item)
      /\ j \in DOMAIN req.items /\ item \in Key
  BY <1>1, <1>3, WorkerFacts DEF WorkerAt
<1>5. x.goal \in vis
  BY <1>1 DEF CycleCut
<1>6. PICK l : l = n + 1
  OBVIOUS
<1>7. PathInv(s, l, vis, always, ever, c, item) /\ PcInv("ret", s, l, "deny", x, always, ever, c, item)
  BY <1>2, <1>4, <1>5, <1>6, CutStep
<1>8. Becomes(w, "ret", s, l, "deny", x, vis, j)
  BY <1>0, <1>1, <1>6 DEF CycleCut, Return, Goto, Becomes, TypeOK
<1>9. UNCHANGED <<req, store, memo, nextJob, results>> /\ "deny" \in Verdict /\ l \in Nat
  BY <1>2, <1>6 DEF CycleCut, Verdict
<1> QED BY <1>1, <1>2, <1>4, <1>7, <1>8, <1>9, Quiet

\* check() evaluates a definition.
LEMMA EnterInv ==
  ASSUME IInv, NEW w \in Workers, Enter(w)
  PROVE  IInv'
<1>0. TypeOK
  BY DEF IInv
<1>1. PICK s, n, v, x, vis, j, item, c :
        /\ s = stack[w] /\ n = cuts[w] /\ v = val[w] /\ x = callee[w] /\ vis = visiting[w]
        /\ j = job[w] /\ item = req.items[j] /\ c = req.company
  OBVIOUS
<1>2. /\ n \in Nat /\ v \in Verdict /\ x \in [goal : Key, depth : Nat] /\ j \in 0..Len(req.items)
      /\ always \subseteq tuples /\ tuples \subseteq ever /\ ever \subseteq AllTuples
  BY <1>1, WorkerFacts
<1>3. pc[w] = "call"
  BY DEF Enter, Fresh, At
<1>4. /\ PathInv(s, n, vis, always, ever, c, item)
      /\ PcInv("call", s, n, v, x, always, ever, c, item)
      /\ j \in DOMAIN req.items /\ item \in Key
  BY <1>1, <1>3, WorkerFacts DEF WorkerAt
<1>5. x.goal \notin vis /\ Defined(x.goal)
  BY <1>1 DEF Enter, Fresh
<1>6. PICK f, b, r, t :
        /\ f = NewFrame(x.goal, x.depth, n) /\ b = NewFrame(Body(x.goal), x.depth, n)
        /\ r = Push(s, f) /\ t = Push(r, b)
  OBVIOUS
<1>7. /\ PathInv(t, n, vis \cup {x.goal}, always, ever, c, item)
      /\ PcInv("eval", t, n, v, x, always, ever, c, item)
  BY <1>2, <1>4, <1>5, <1>6, EnterStep
<1>8. s \o <<f, b>> = t
  <2>1. s \in Seq(Frame)
    BY <1>2, <1>4, StackFacts
  <2>2. f \in Frame /\ b \in Frame
    <3>1. x.goal \in Key /\ x.goal \in Goal /\ x.depth \in Nat
      BY <1>2 DEF Key
    <3> QED BY <1>2, <1>5, <1>6, <3>1, BodyIsGoal DEF NewFrame, Frame
  <2> QED BY <1>6, <2>1, <2>2 DEF Push
<1>9. Becomes(w, "eval", t, n, v, x, vis \cup {x.goal}, j)
  <2>1. stack' = [stack EXCEPT ![w] = s \o <<f, b>>]
    BY <1>1, <1>6 DEF Enter, Body
  <2> QED BY <1>0, <1>1, <1>8, <2>1 DEF Enter, Goto, Becomes, TypeOK
<1>10. UNCHANGED <<req, store, memo, nextJob, results>>
  BY DEF Enter
<1> QED BY <1>1, <1>2, <1>4, <1>7, <1>9, <1>10, Quiet

\* A computed userset is asked for.
LEMMA EvalComputedInv ==
  ASSUME IInv, NEW w \in Workers, EvalComputed(w)
  PROVE  IInv'
<1>0. TypeOK
  BY DEF IInv
<1>1. PICK s, n, v, x, vis, j, item, c :
        /\ s = stack[w] /\ n = cuts[w] /\ v = val[w] /\ x = callee[w] /\ vis = visiting[w]
        /\ j = job[w] /\ item = req.items[j] /\ c = req.company
  OBVIOUS
<1>2. /\ n \in Nat /\ v \in Verdict /\ x \in [goal : Key, depth : Nat] /\ j \in 0..Len(req.items)
      /\ always \subseteq tuples /\ tuples \subseteq ever /\ ever \subseteq AllTuples
  BY <1>1, WorkerFacts
<1>3. pc[w] = "eval"
  BY DEF EvalComputed, At
<1>4. /\ PathInv(s, n, vis, always, ever, c, item)
      /\ PcInv("eval", s, n, v, x, always, ever, c, item)
      /\ j \in DOMAIN req.items /\ item \in Key
  BY <1>1, <1>3, WorkerFacts DEF WorkerAt
<1>5. s # <<>> /\ Last(s).goal.expr.op = "computed"
  BY <1>1, <1>4 DEF EvalComputed, Op, Top, Last, PcInv
<1>6. PICK y : y = [goal |-> Userset(Last(s).goal.obj, Last(s).goal.expr.rel),
                    depth |-> Last(s).depth + 1]
  OBVIOUS
<1>7. y \in [goal : Key, depth : Nat] /\ PcInv("call", s, n, v, y, always, ever, c, item)
  BY <1>2, <1>4, <1>5, <1>6, ComputedStep
<1>8. Becomes(w, "call", s, n, v, y, vis, j)
  BY <1>0, <1>1, <1>6 DEF EvalComputed, Call, Goto, Top, Last, Becomes, TypeOK
<1>9. UNCHANGED <<req, store, memo, nextJob, results>>
  BY DEF EvalComputed
<1> QED BY <1>1, <1>2, <1>4, <1>7, <1>8, <1>9, Quiet

\* A union or an intersection is entered.
LEMMA EvalNaryInv ==
  ASSUME IInv, NEW w \in Workers, EvalNary(w)
  PROVE  IInv'
<1>0. TypeOK
  BY DEF IInv
<1>1. PICK s, n, v, x, vis, j, item, c :
        /\ s = stack[w] /\ n = cuts[w] /\ v = val[w] /\ x = callee[w] /\ vis = visiting[w]
        /\ j = job[w] /\ item = req.items[j] /\ c = req.company
  OBVIOUS
<1>2. /\ n \in Nat /\ v \in Verdict /\ x \in [goal : Key, depth : Nat] /\ j \in 0..Len(req.items)
      /\ always \subseteq tuples /\ tuples \subseteq ever /\ ever \subseteq AllTuples
  BY <1>1, WorkerFacts
<1>3. pc[w] = "eval"
  BY DEF EvalNary, At
<1>4. /\ PathInv(s, n, vis, always, ever, c, item)
      /\ PcInv("eval", s, n, v, x, always, ever, c, item)
      /\ j \in DOMAIN req.items /\ item \in Key
  BY <1>1, <1>3, WorkerFacts DEF WorkerAt
<1>5. Last(s).goal.expr.op \in {"union", "intersection"}
  BY <1>1 DEF EvalNary, Op, Top, Last
<1>6. PcInv("loop", s, n, v, x, always, ever, c, item)
  BY <1>4, <1>5, NaryStep
<1>7. Becomes(w, "loop", s, n, v, x, vis, j)
  BY <1>0, <1>1 DEF EvalNary, Goto, Becomes, TypeOK
<1>8. UNCHANGED <<req, store, memo, nextJob, results>>
  BY DEF EvalNary
<1> QED BY <1>1, <1>2, <1>4, <1>6, <1>7, <1>8, Quiet

\* The rows of a relation are read.
LEMMA EvalRowsInv ==
  ASSUME IInv, NEW w \in Workers, EvalRows(w)
  PROVE  IInv'
<1>0. TypeOK
  BY DEF IInv
<1>1. PICK s, n, v, x, vis, j, item, c :
        /\ s = stack[w] /\ n = cuts[w] /\ v = val[w] /\ x = callee[w] /\ vis = visiting[w]
        /\ j = job[w] /\ item = req.items[j] /\ c = req.company
  OBVIOUS
<1>2. /\ n \in Nat /\ v \in Verdict /\ x \in [goal : Key, depth : Nat] /\ j \in 0..Len(req.items)
      /\ always \subseteq tuples /\ tuples \subseteq ever /\ ever \subseteq AllTuples
  BY <1>1, WorkerFacts
<1>3. pc[w] = "eval"
  BY DEF EvalRows, At
<1>4. /\ PathInv(s, n, vis, always, ever, c, item)
      /\ PcInv("eval", s, n, v, x, always, ever, c, item)
      /\ j \in DOMAIN req.items /\ item \in Key
  BY <1>1, <1>3, WorkerFacts DEF WorkerAt
<1>5. s # <<>> /\ Last(s).goal.expr.op \in {"this", "ttu"}
  BY <1>1, <1>4 DEF EvalRows, Op, Top, Last, PcInv
<1>6. PICK f, t : f = [Last(s) EXCEPT !.rows = RowsOf(tuples, Last(s).goal)] /\ t = Replace(s, f)
  OBVIOUS
<1>7. PathInv(t, n, vis, always, ever, c, item) /\ PcInv("loop", t, n, v, x, always, ever, c, item)
  BY <1>2, <1>4, <1>5, <1>6, RowsStep
<1>8. Fetched(w) = RowsOf(tuples, Last(s).goal)
  BY <1>1, <1>5 DEF Fetched, RowsOf, Op, Top, Last
<1>9. stack' = [stack EXCEPT ![w] = t]
  BY <1>1, <1>6, <1>8 DEF EvalRows, SetTop, Top, Last, Replace
<1>10. Becomes(w, "loop", t, n, v, x, vis, j)
  BY <1>0, <1>1, <1>9 DEF EvalRows, Goto, Becomes, TypeOK
<1>11. UNCHANGED <<req, store, memo, nextJob, results>>
  BY DEF EvalRows
<1> QED BY <1>1, <1>2, <1>4, <1>7, <1>10, <1>11, Quiet

\* The next part is evaluated.
LEMMA NextChildInv ==
  ASSUME IInv, NEW w \in Workers, NextChild(w)
  PROVE  IInv'
<1>0. TypeOK
  BY DEF IInv
<1>1. PICK s, n, v, x, vis, j, item, c :
        /\ s = stack[w] /\ n = cuts[w] /\ v = val[w] /\ x = callee[w] /\ vis = visiting[w]
        /\ j = job[w] /\ item = req.items[j] /\ c = req.company
  OBVIOUS
<1>2. /\ n \in Nat /\ v \in Verdict /\ x \in [goal : Key, depth : Nat] /\ j \in 0..Len(req.items)
      /\ always \subseteq tuples /\ tuples \subseteq ever /\ ever \subseteq AllTuples
  BY <1>1, WorkerFacts
<1>3. pc[w] = "loop"
  BY DEF NextChild, At
<1>4. /\ PathInv(s, n, vis, always, ever, c, item)
      /\ PcInv("loop", s, n, v, x, always, ever, c, item)
      /\ j \in DOMAIN req.items /\ item \in Key
  BY <1>1, <1>3, WorkerFacts DEF WorkerAt
<1>5. PICK l, f, b, r, t :
        /\ l = Last(s).next /\ f = [Last(s) EXCEPT !.next = l + 1]
        /\ b = NewFrame(Part(Last(s).goal, l), Last(s).depth, n)
        /\ r = Replace(s, f) /\ t = Push(r, b)
  OBVIOUS
<1>6. Last(s).goal.expr.op \in {"union", "intersection"} /\ l <= Len(Last(s).goal.expr.of)
  BY <1>1, <1>5 DEF NextChild, Op, Top, Last
<1>7. PathInv(t, n, vis, always, ever, c, item) /\ PcInv("eval", t, n, v, x, always, ever, c, item)
  BY <1>2, <1>4, <1>5, <1>6, ChildStep
<1>8. stack' = [stack EXCEPT ![w] = t]
  <2>1. [s EXCEPT ![Len(s)].next = l + 1] = r
    BY <1>5 DEF Replace, Last
  <2>2. stack' = [stack EXCEPT ![w] = Append([@ EXCEPT ![Len(@)].next = l + 1], b)]
    BY <1>1, <1>5 DEF NextChild, Top, Last, Part
  <2>3. stack' = [stack EXCEPT ![w] = Append([s EXCEPT ![Len(s)].next = l + 1], b)]
    BY <1>1, <2>2
  <2> QED BY <1>5, <2>1, <2>3 DEF Push
<1>9. Becomes(w, "eval", t, n, v, x, vis, j)
  BY <1>0, <1>1, <1>8 DEF NextChild, Goto, Becomes, TypeOK
<1>10. UNCHANGED <<req, store, memo, nextJob, results>>
  BY DEF NextChild
<1> QED BY <1>1, <1>2, <1>4, <1>7, <1>9, <1>10, Quiet

\* An expression has nothing left to try.
LEMMA ExhaustedInv ==
  ASSUME IInv, NEW w \in Workers, Exhausted(w)
  PROVE  IInv'
<1>0. TypeOK
  BY DEF IInv
<1>1. PICK s, n, v, x, vis, j, item, c :
        /\ s = stack[w] /\ n = cuts[w] /\ v = val[w] /\ x = callee[w] /\ vis = visiting[w]
        /\ j = job[w] /\ item = req.items[j] /\ c = req.company
  OBVIOUS
<1>2. /\ n \in Nat /\ v \in Verdict /\ x \in [goal : Key, depth : Nat] /\ j \in 0..Len(req.items)
      /\ always \subseteq tuples /\ tuples \subseteq ever /\ ever \subseteq AllTuples
  BY <1>1, WorkerFacts
<1>3. pc[w] = "loop"
  BY DEF Exhausted, At
<1>4. /\ PathInv(s, n, vis, always, ever, c, item)
      /\ PcInv("loop", s, n, v, x, always, ever, c, item)
      /\ j \in DOMAIN req.items /\ item \in Key
  BY <1>1, <1>3, WorkerFacts DEF WorkerAt
<1>5. PICK t, u : /\ t = Pop(s)
                  /\ u = IF Last(s).goal.expr.op = "intersection" THEN "allow" ELSE "deny"
  OBVIOUS
<1>6. \/ Last(s).goal.expr.op \in {"this", "ttu"} /\ Last(s).rows = {}
      \/ /\ Last(s).goal.expr.op \in {"union", "intersection"}
         /\ Last(s).next > Len(Last(s).goal.expr.of)
  BY <1>1 DEF Exhausted, Op, Top, Last
<1>7. PathInv(t, n, vis, always, ever, c, item) /\ PcInv("ret", t, n, u, x, always, ever, c, item)
  BY <1>2, <1>4, <1>5, <1>6, ExhaustedStep
<1>8. Becomes(w, "ret", t, n, u, x, vis, j)
  BY <1>0, <1>1, <1>5 DEF Exhausted, Return, Goto, Op, Top, Last, Below, Pop, Becomes, TypeOK
<1>9. UNCHANGED <<req, store, memo, nextJob, results>> /\ u \in Verdict
  BY <1>5 DEF Exhausted, Verdict
<1> QED BY <1>1, <1>2, <1>4, <1>7, <1>8, <1>9, Quiet

\* A direct row is looked at.
LEMMA DirectRowInv ==
  ASSUME IInv, NEW w \in Workers, NEW y \in Top(w).rows, DirectRow(w, y)
  PROVE  IInv'
<1>0. TypeOK
  BY DEF IInv
<1>1. PICK s, n, v, x, vis, j, item, c :
        /\ s = stack[w] /\ n = cuts[w] /\ v = val[w] /\ x = callee[w] /\ vis = visiting[w]
        /\ j = job[w] /\ item = req.items[j] /\ c = req.company
  OBVIOUS
<1>2. /\ n \in Nat /\ v \in Verdict /\ x \in [goal : Key, depth : Nat] /\ j \in 0..Len(req.items)
      /\ always \subseteq tuples /\ tuples \subseteq ever /\ ever \subseteq AllTuples
  BY <1>1, WorkerFacts
<1>3. pc[w] = "loop"
  BY DEF DirectRow, At
<1>4. /\ PathInv(s, n, vis, always, ever, c, item)
      /\ PcInv("loop", s, n, v, x, always, ever, c, item)
      /\ j \in DOMAIN req.items /\ item \in Key
  BY <1>1, <1>3, WorkerFacts DEF WorkerAt
<1>5. /\ y \in Last(s).rows /\ Last(s).goal.expr.op = "this" /\ y.rel = Self /\ s # <<>>
  BY <1>1, <1>4 DEF DirectRow, Op, Top, Last, PcInv
<1>6. UNCHANGED <<req, store, memo, nextJob, results>>
  BY DEF DirectRow
<1>7. CASE y.obj = Subject
  <2>1. PICK t : t = Pop(s)
    OBVIOUS
  <2>2. /\ PathInv(t, n, vis, always, ever, c, item)
        /\ PcInv("ret", t, n, "allow", x, always, ever, c, item)
    BY <1>2, <1>4, <1>5, <1>7, <2>1, DirectStep
  <2>3. Becomes(w, "ret", t, n, "allow", x, vis, j) /\ "allow" \in Verdict
    BY <1>0, <1>1, <1>7, <2>1 DEF DirectRow, Return, Goto, Below, Pop, Becomes, TypeOK, Verdict
  <2> QED BY <1>1, <1>2, <1>4, <1>6, <2>2, <2>3, Quiet
<1>8. CASE y.obj # Subject
  <2>1. PICK f, t : f = [Last(s) EXCEPT !.rows = @ \ {y}] /\ t = Replace(s, f)
    OBVIOUS
  <2>2. \A N : ~Supports(y, N, always, c)
    BY <1>5, <1>8 DEF Supports
  <2>3. PathInv(t, n, vis, always, ever, c, item) /\ PcInv("loop", t, n, v, x, always, ever, c, item)
    BY <1>2, <1>4, <1>5, <2>1, <2>2, RowDropped
  <2>4. stack' = [stack EXCEPT ![w] = t]
    BY <1>1, <1>8, <2>1 DEF DirectRow, DropRow, SetTop, Top, Last, Replace
  <2>5. Becomes(w, "loop", t, n, v, x, vis, j)
    BY <1>0, <1>1, <1>3, <1>8, <2>4 DEF DirectRow, Becomes, TypeOK
  <2> QED BY <1>1, <1>2, <1>4, <1>6, <2>3, <2>5, Quiet
<1> QED BY <1>7, <1>8

\* A userset row is looked at, and checked if it is in the company.
LEMMA UsersetRowInv ==
  ASSUME IInv, NEW w \in Workers, NEW y \in Top(w).rows, UsersetRow(w, y)
  PROVE  IInv'
<1>0. TypeOK
  BY DEF IInv
<1>1. PICK s, n, v, x, vis, j, item, c :
        /\ s = stack[w] /\ n = cuts[w] /\ v = val[w] /\ x = callee[w] /\ vis = visiting[w]
        /\ j = job[w] /\ item = req.items[j] /\ c = req.company
  OBVIOUS
<1>2. /\ n \in Nat /\ v \in Verdict /\ x \in [goal : Key, depth : Nat] /\ j \in 0..Len(req.items)
      /\ always \subseteq tuples /\ tuples \subseteq ever /\ ever \subseteq AllTuples
  BY <1>1, WorkerFacts
<1>3. pc[w] = "loop"
  BY DEF UsersetRow, At
<1>4. /\ PathInv(s, n, vis, always, ever, c, item)
      /\ PcInv("loop", s, n, v, x, always, ever, c, item)
      /\ j \in DOMAIN req.items /\ item \in Key
  BY <1>1, <1>3, WorkerFacts DEF WorkerAt
<1>5. /\ y \in Last(s).rows /\ Last(s).goal.expr.op \in {"this", "ttu"} /\ y.rel # Self
  BY <1>1 DEF UsersetRow, Op, Top, Last
<1>6. UNCHANGED <<req, store, memo, nextJob, results>>
  BY DEF UsersetRow
<1>7. PICK f, t, z : /\ f = [Last(s) EXCEPT !.rows = @ \ {y}] /\ t = Replace(s, f)
                     /\ z = [goal |-> y, depth |-> Last(s).depth + 1]
  OBVIOUS
<1>8. stack' = [stack EXCEPT ![w] = t]
  BY <1>1, <1>7 DEF UsersetRow, DropRow, SetTop, Top, Last, Replace
<1>9. CASE InScope(w, y)
  <2>1. \/ Last(s).goal.expr.op = "ttu" \/ c = NoCompany
        \/ SubjectInCompany(ever, y.obj, c)
    BY <1>1, <1>2, <1>9, ScopeMono DEF InScope, Op, Top, Last
  <2>2. /\ PathInv(t, n, vis, always, ever, c, item)
        /\ z \in [goal : Key, depth : Nat] /\ PcInv("call", t, n, v, z, always, ever, c, item)
    <3>1. n \in Nat /\ ever \subseteq AllTuples
      BY <1>2
    <3> QED BY <1>4, <1>5, <1>7, <2>1, <3>1, RowAsked
  <2>3. Becomes(w, "call", t, n, v, z, vis, j)
    BY <1>0, <1>1, <1>7, <1>8, <1>9 DEF UsersetRow, Call, Goto, Top, Last, Becomes, TypeOK
  <2> QED BY <1>1, <1>2, <1>4, <1>6, <2>2, <2>3, Quiet
<1>10. CASE ~InScope(w, y)
  <2>1. /\ Last(s).goal.expr.op = "this" /\ c # NoCompany
        /\ ~SubjectInCompany(tuples, y.obj, c)
    BY <1>1, <1>5, <1>10 DEF InScope, Op, Top, Last
  <2>2. ~SubjectInCompany(always, y.obj, c)
    BY <1>2, <2>1, ScopeMono
  <2>3. \A N : ~Supports(y, N, always, c)
    BY <1>5, <2>1, <2>2 DEF Supports
  <2>4. PathInv(t, n, vis, always, ever, c, item) /\ PcInv("loop", t, n, v, x, always, ever, c, item)
    BY <1>2, <1>4, <1>5, <1>7, <2>1, <2>3, RowDropped
  <2>5. Becomes(w, "loop", t, n, v, x, vis, j)
    BY <1>0, <1>1, <1>3, <1>8, <1>10 DEF UsersetRow, Becomes, TypeOK
  <2> QED BY <1>1, <1>2, <1>4, <1>6, <2>4, <2>5, Quiet
<1> QED BY <1>9, <1>10

\* A verdict reaches an expression.
LEMMA ReturnToExprInv ==
  ASSUME IInv, NEW w \in Workers, ReturnToExpr(w)
  PROVE  IInv'
<1>0. TypeOK
  BY DEF IInv
<1>1. PICK s, n, v, x, vis, j, item, c :
        /\ s = stack[w] /\ n = cuts[w] /\ v = val[w] /\ x = callee[w] /\ vis = visiting[w]
        /\ j = job[w] /\ item = req.items[j] /\ c = req.company
  OBVIOUS
<1>2. /\ n \in Nat /\ v \in Verdict /\ x \in [goal : Key, depth : Nat] /\ j \in 0..Len(req.items)
      /\ always \subseteq tuples /\ tuples \subseteq ever /\ ever \subseteq AllTuples
  BY <1>1, WorkerFacts
<1>3. pc[w] = "ret"
  BY DEF ReturnToExpr, At
<1>4. /\ PathInv(s, n, vis, always, ever, c, item)
      /\ PcInv("ret", s, n, v, x, always, ever, c, item)
      /\ j \in DOMAIN req.items /\ item \in Key
  BY <1>1, <1>3, WorkerFacts DEF WorkerAt
<1>5. s # <<>> /\ Last(s).goal.expr.op # "check"
  BY <1>1 DEF ReturnToExpr, Op, Top, Last
<1>6. PICK t : t = Pop(s)
  OBVIOUS
<1>7. Decides(w) <=> \/ Last(s).goal.expr.op = "computed"
                     \/ Last(s).goal.expr.op = "intersection" /\ v = "deny"
                     \/ Last(s).goal.expr.op \in {"union", "this", "ttu"} /\ v = "allow"
  BY <1>1 DEF Decides, Op, Top, Last
<1>8. \/ /\ Decides(w)
         /\ PathInv(t, n, vis, always, ever, c, item)
         /\ PcInv("ret", t, n, v, x, always, ever, c, item)
      \/ ~Decides(w) /\ PcInv("loop", s, n, v, x, always, ever, c, item)
  BY <1>2, <1>4, <1>5, <1>6, <1>7, ReturnStep
<1>9. UNCHANGED <<req, store, memo, nextJob, results>>
  BY DEF ReturnToExpr
<1>10. CASE Decides(w)
  <2>1. Becomes(w, "ret", t, n, v, x, vis, j)
    BY <1>0, <1>1, <1>3, <1>6, <1>10 DEF ReturnToExpr, Below, Pop, Becomes, TypeOK
  <2> QED BY <1>1, <1>2, <1>4, <1>8, <1>9, <1>10, <2>1, Quiet
<1>11. CASE ~Decides(w)
  <2>1. Becomes(w, "loop", s, n, v, x, vis, j)
    BY <1>0, <1>1, <1>11 DEF ReturnToExpr, Goto, Becomes, TypeOK
  <2> QED BY <1>1, <1>2, <1>4, <1>8, <1>9, <1>11, <2>1, Quiet
<1> QED BY <1>10, <1>11

\* A verdict leaves check(), and is memoized unless it is a false found beneath a
\* cut.
LEMMA LeaveCheckInv ==
  ASSUME IInv, NEW w \in Workers, LeaveCheck(w)
  PROVE  IInv'
<1>0. TypeOK
  BY DEF IInv
<1>1. PICK s, n, v, x, vis, j, item, c :
        /\ s = stack[w] /\ n = cuts[w] /\ v = val[w] /\ x = callee[w] /\ vis = visiting[w]
        /\ j = job[w] /\ item = req.items[j] /\ c = req.company
  OBVIOUS
<1>2. /\ n \in Nat /\ v \in Verdict /\ x \in [goal : Key, depth : Nat] /\ j \in 0..Len(req.items)
      /\ always \subseteq tuples /\ tuples \subseteq ever /\ ever \subseteq AllTuples
  BY <1>1, WorkerFacts
<1>3. pc[w] = "ret"
  BY DEF LeaveCheck, At
<1>4. /\ PathInv(s, n, vis, always, ever, c, item)
      /\ PcInv("ret", s, n, v, x, always, ever, c, item)
      /\ j \in DOMAIN req.items /\ item \in Key
  BY <1>1, <1>3, WorkerFacts DEF WorkerAt
<1>5. s # <<>> /\ Last(s).goal.expr.op = "check"
  BY <1>1 DEF LeaveCheck, Op, Top, Last
<1>6. PICK t, k, z : t = Pop(s) /\ k = Last(s).goal /\ z = vis \ {Last(s).goal}
  OBVIOUS
<1>7. /\ PathInv(t, n, z, always, ever, c, item)
      /\ PcInv("ret", t, n, v, x, always, ever, c, item)
      /\ k \in Key
      /\ v = "allow" => k \in Derivable(ever, c, {})
      /\ v = "deny" /\ n = Last(s).cuts => k \notin Derivable(always, c, {})
  <2>1. /\ PathInv(t, n, vis \ {Last(s).goal}, always, ever, c, item)
        /\ PcInv("ret", t, n, v, x, always, ever, c, item)
        /\ Last(s).goal \in Key
        /\ v = "allow" => Last(s).goal \in Derivable(ever, c, {})
        /\ v = "deny" /\ n = Last(s).cuts => Last(s).goal \notin Derivable(always, c, {})
    <3>1. /\ n \in Nat /\ ever \subseteq AllTuples
          /\ PathInv(s, n, vis, always, ever, c, item)
          /\ PcInv("ret", s, n, v, x, always, ever, c, item)
      BY <1>2, <1>4
    <3>2. t = Pop(s)
      BY <1>6
    <3> QED BY <1>5, <3>1, <3>2, LeaveKey
  <2> QED BY <1>6, <2>1
<1>8. Becomes(w, "ret", t, n, v, x, z, j)
  BY <1>0, <1>1, <1>3, <1>6 DEF LeaveCheck, Below, Pop, Top, Last, Becomes, TypeOK
<1>9. UNCHANGED <<req, store, nextJob, results>>
  BY DEF LeaveCheck
<1>10. UNCHANGED <<req, tuples, ever, always, results>>
  BY <1>9 DEF store
<1>11. \/ memo' = memo
       \/ memo' = [memo EXCEPT ![k] = v] /\ (v = "allow" \/ n = Last(s).cuts)
  BY <1>1, <1>6 DEF LeaveCheck, Memoizable, Top, Last
<1>12. Verdicts'
  <2>1. ASSUME NEW i \in Key
        PROVE  Answers(memo'[i], i, Derivable(always, c, {}), Derivable(ever, c, {}))
    <3>1. Answers(memo[i], i, Derivable(always, c, {}), Derivable(ever, c, {}))
      BY <1>1 DEF IInv, Verdicts
    <3>2. CASE memo'[i] = memo[i]
      BY <3>1, <3>2
    <3>3. CASE memo'[i] # memo[i]
      <4>1. i = k /\ memo'[i] = v /\ (v = "allow" \/ n = Last(s).cuts)
        BY <1>0, <1>11, <3>3 DEF TypeOK
      <4> QED BY <1>7, <4>1 DEF Answers
    <3> QED BY <3>2, <3>3
  <2> QED BY <1>1, <1>10, <2>1 DEF IInv, Verdicts
<1>13. memo' \in [Key -> Verdict \cup {"none"}]
  BY <1>0, <1>2, <1>11 DEF TypeOK
<1>14. /\ nextJob' \in 1..(Len(req.items) + 1)
       /\ results' \in [DOMAIN req.items -> Verdict \cup Failure \cup {"none"}]
  BY <1>0, <1>9 DEF TypeOK
<1>15. WorkerAt("ret", t, n, v, x, z, j)
  BY <1>1, <1>4, <1>7 DEF WorkerAt
<1> QED BY <1>2, <1>8, <1>9, <1>12, <1>13, <1>14, <1>15, StepInv

\* Another request writes a tuple.
LEMMA WriteInv ==
  ASSUME IInv, NEW t \in AllTuples, Write(t)
  PROVE  IInv'
<1>0. TypeOK
  BY DEF IInv
<1>1. PICK A, E, B, U, c : /\ A = always /\ E = ever /\ B = always' /\ U = ever'
                           /\ c = req.company
  OBVIOUS
<1>2. B \subseteq A /\ E \subseteq U
  BY <1>1 DEF Write
<1>3. UNCHANGED <<req, memo, nextJob, results, job, pc, callee, stack, val, visiting, cuts>>
  BY DEF Write
<1>4. tuples' \subseteq AllTuples /\ ever' \subseteq AllTuples /\ writes' \in Nat
      /\ always' \subseteq tuples' /\ tuples' \subseteq ever'
  BY <1>0 DEF Write, TypeOK
<1>5. TypeOK'
  BY <1>0, <1>3, <1>4 DEF TypeOK
<1>6. ASSUME NEW w \in Workers PROVE WorkerInv(w)'
  <2>1. PICK s, n, v, x, vis, j, item, p :
          /\ s = stack[w] /\ n = cuts[w] /\ v = val[w] /\ x = callee[w] /\ vis = visiting[w]
          /\ j = job[w] /\ item = req.items[j] /\ p = pc[w]
    OBVIOUS
  <2>2. /\ n \in Nat /\ PathInv(s, n, vis, A, E, c, item) /\ PcInv(p, s, n, v, x, A, E, c, item)
        /\ p # "idle" => j \in DOMAIN req.items
    BY <1>1, <2>1, WorkerFacts DEF WorkerAt
  <2>3. PathInv(s, n, vis, B, U, c, item) /\ PcInv(p, s, n, v, x, B, U, c, item)
    BY <1>2, <2>2, StoreStep
  <2> QED BY <1>1, <1>3, <2>1, <2>2, <2>3 DEF WorkerInv, WorkerAt
<1>7. /\ Derivable(B, c, {}) \subseteq Derivable(A, c, {})
      /\ Derivable(E, c, {}) \subseteq Derivable(U, c, {})
  BY <1>2, DerivableMono
<1>8. \A v, y : Answers(v, y, Derivable(A, c, {}), Derivable(E, c, {})) =>
                Answers(v, y, Derivable(B, c, {}), Derivable(U, c, {}))
  BY <1>7 DEF Answers
<1>9. Verdicts'
  BY <1>1, <1>3, <1>8 DEF IInv, Verdicts
<1> QED BY <1>5, <1>6, <1>9 DEF IInv

\* The invariant is inductive.
LEMMA InitInv ==
  ASSUME Init
  PROVE  IInv
<1>1. req \in Requests /\ req.items \in Seq(Key) /\ Len(req.items) \in Nat
  BY EngineAssumption DEF Init
<1>2. TypeOK
  <2>1. tuples \subseteq AllTuples
    BY EngineAssumption DEF Init
  <2>2. NoCall \in [goal : Key, depth : Nat]
    <3>1. (CHOOSE r \in Rel : TRUE) \in Rel /\ Subject \in Object
      BY EngineAssumption
    <3>2. Userset(Subject, CHOOSE r \in Rel : TRUE) \in Key
      BY <3>1, UsersetIsKey
    <3> QED BY <3>2 DEF NoCall
  <2>3. nextJob \in 1..(Len(req.items) + 1)
    BY <1>1 DEF Init
  <2>4. job \in [Workers -> 0..Len(req.items)]
    BY <1>1 DEF Init
  <2>5. stack \in [Workers -> Seq(Frame)]
    BY DEF Init
  <2> QED BY <1>1, <2>1, <2>2, <2>3, <2>4, <2>5 DEF Init, TypeOK, Verdict
<1>3. ASSUME NEW w \in Workers PROVE WorkerInv(w)
  <2>1. PICK s, vis : s = stack[w] /\ vis = visiting[w]
    OBVIOUS
  <2>2. s = <<>> /\ vis = {} /\ pc[w] = "idle"
    BY <2>1 DEF Init
  <2>3. s \in Seq(Frame) /\ Len(s) = 0 /\ 1..Len(s) = {} /\ 1..Len(s) - 1 = {}
    BY <2>2
  <2>4. vis = Path(s, Len(s))
    BY <2>2, <2>3, NoPath
  <2>5. PathInv(s, cuts[w], vis, always, ever, req.company, req.items[job[w]])
    BY <2>2, <2>3, <2>4 DEF PathInv, StackInv, DepthInv
  <2> QED BY <2>1, <2>2, <2>5 DEF WorkerInv, WorkerAt, PcInv
<1>4. Verdicts
  BY DEF Init, Verdicts, Answers
<1> QED BY <1>2, <1>3, <1>4 DEF IInv

\* Every step keeps the invariant.
LEMMA NextInv ==
  ASSUME IInv, [Next]_vars
  PROVE  IInv'
<1>1. ASSUME NEW w \in Workers, WorkerStep(w) PROVE IInv'
  <2>1. CASE TakeJob(w)
    BY <2>1, TakeJobInv
  <2>2. CASE FinishJob(w)
    BY <2>2, FinishJobInv
  <2>3. CASE MemoHit(w)
    BY <2>3, MemoHitInv
  <2>4. CASE CycleCut(w)
    BY <2>4, CycleCutInv
  <2>5. CASE DepthExceeded(w)
    BY <2>5, AbortInv DEF DepthExceeded, Failure
  <2>6. CASE Unknown(w)
    BY <2>6, AbortInv DEF Unknown, Failure
  <2>7. CASE Enter(w)
    BY <2>7, EnterInv
  <2>8. CASE LeaveCheck(w)
    BY <2>8, LeaveCheckInv
  <2>9. CASE EvalComputed(w)
    BY <2>9, EvalComputedInv
  <2>10. CASE EvalNary(w)
    BY <2>10, EvalNaryInv
  <2>11. CASE EvalRows(w)
    BY <2>11, EvalRowsInv
  <2>12. CASE NextChild(w)
    BY <2>12, NextChildInv
  <2>13. CASE Exhausted(w)
    BY <2>13, ExhaustedInv
  <2>14. CASE RowStep(w)
    BY <2>14, DirectRowInv, UsersetRowInv DEF RowStep
  <2>15. CASE ReturnToExpr(w)
    BY <2>15, ReturnToExprInv
  <2>16. CASE QueryError(w)
    BY <2>16, AbortInv DEF QueryError, Failure
  <2> QED BY <1>1, <2>1, <2>2, <2>3, <2>4, <2>5, <2>6, <2>7, <2>8, <2>9, <2>10, <2>11,
             <2>12, <2>13, <2>14, <2>15, <2>16 DEF WorkerStep
<1>2. CASE UNCHANGED vars
  BY <1>2 DEF vars, store, IInv, TypeOK, WorkerInv, WorkerAt, Verdicts
<1> QED BY <1>1, <1>2, WriteInv DEF Next

-------------------------------------------------------------------------------
(* The theorems. *)

\* A set of naturals has a first one.
LEMMA FirstOf ==
  ASSUME NEW S \in SUBSET Nat, S # {}
  PROVE  \E m \in S : \A i \in S : ~(i < m)
<1> DEFINE R == OpToRel(<, Nat)
<1>1. IsWellFoundedOn(R, Nat)
  BY NatLessThanWellFounded
<1>2. \A x, y \in Nat : y < x => <<y, x>> \in R
  BY DEF OpToRel
<1> HIDE DEF R
<1>3. PICK m \in S : \A i \in S : ~(<<i, m>> \in R)
  BY <1>1, WFMin
<1> QED BY <1>2, <1>3

\* Truth is what can be derived: the last of the stages is the least closed set.
LEMMA TruthIsLeast ==
  ASSUME NEW T \in SUBSET AllTuples, NEW q \in Requests
  PROVE  Truth(T, q.company) = Derivable(T, q.company, {})
<1>1. PICK s, c : s = Stages(T, q.company) /\ c = q.company
  OBVIOUS
<1>2. /\ s \in Seq(SUBSET Goal) /\ s # <<>> /\ s[1] = {}
      /\ \A i \in 1..Len(s) - 1 : \A g \in s[i + 1] : Fires(s[i], T, c, g)
      /\ Closed(s[Len(s)], T, c)
  BY <1>1, TruthAssumption
<1>3. PICK L, n : L = Derivable(T, c, {}) /\ n = Len(s)
  OBVIOUS
<1>4. n \in Nat /\ n >= 1 /\ \A i \in 1..n : s[i] \in SUBSET Goal
  BY <1>2, <1>3, EmptySeq
<1>5. L \subseteq s[n]
  <2>1. s[n] \in SUBSET Goal
    BY <1>4
  <2>2. ClosedBut(s[n], T, c, {})
    BY <1>2, <1>3 DEF Closed, ClosedBut
  <2> QED BY <1>3, <2>1, <2>2 DEF Derivable
<1>6. \A i \in 1..n : s[i] \subseteq L
  <2>1. PICK S : S = {i \in 1..n : ~(s[i] \subseteq L)}
    OBVIOUS
  <2>2. S \in SUBSET Nat
    BY <1>4, <2>1
  <2>3. ASSUME S # {} PROVE FALSE
    <3>1. PICK m \in S : \A i \in S : ~(i < m)
      BY <2>2, <2>3, FirstOf
    <3>2. m \in 1..n /\ m \in Nat /\ ~(s[m] \subseteq L)
      BY <1>4, <2>1
    <3>3. m # 1
      BY <1>2, <3>2
    <3>4. PICK l : l = m - 1
      OBVIOUS
    <3>5. l \in 1..n - 1 /\ l + 1 = m /\ l < m /\ l \in 1..n
      BY <1>4, <3>2, <3>3, <3>4
    <3>6. s[l] \subseteq L
      BY <2>1, <3>1, <3>5
    <3>7. \A g \in s[m] : Fires(s[l], T, c, g) /\ g \in Goal
      BY <1>2, <1>3, <1>4, <3>2, <3>5
    <3>8. \A g \in s[m] : Fires(L, T, c, g)
      BY <3>6, <3>7, FiresMono
    <3>9. s[m] \subseteq L
      BY <1>3, <3>7, <3>8, DerivableClosed DEF ClosedBut
    <3> QED BY <3>2, <3>9
  <2> QED BY <2>1, <2>3
<1>7. s[n] = L
  BY <1>4, <1>5, <1>6
<1> QED BY <1>1, <1>3, <1>7 DEF Truth

\* The invariant of the evaluator holds: what each frame asks for and has tried,
\* what each verdict on the way up rests on, whichever worker memoized it.
THEOREM Invariant == Spec => []IInv
<1>1. Init => IInv
  BY InitInv
<1>2. IInv /\ [Next]_vars => IInv'
  BY NextInv
<1> QED BY <1>1, <1>2, PTL DEF Spec

\* Types.
THEOREM TypeCorrect == Spec => []TypeOK
<1>1. IInv => TypeOK
  BY DEF IInv
<1> QED BY <1>1, Invariant, PTL

\* The invariant's verdicts, said of Truth.
LEMMA Sound ==
  ASSUME IInv
  PROVE  AllowSound /\ DenySound
<1>1. req \in Requests /\ always \in SUBSET AllTuples /\ ever \in SUBSET AllTuples
  BY DEF IInv, TypeOK
<1>2. /\ Truth(ever, req.company) = Derivable(ever, req.company, {})
      /\ Truth(always, req.company) = Derivable(always, req.company, {})
  BY <1>1, TruthIsLeast
<1>3. DOMAIN results = DOMAIN req.items
  BY DEF IInv, TypeOK
<1>4. AllowSound
  BY <1>2, <1>3 DEF IInv, Verdicts, Answers, AllowSound
<1>5. DenySound
  BY <1>2, <1>3 DEF IInv, Verdicts, Answers, DenySound
<1> QED BY <1>4, <1>5

\* An allow, memoized or answered, follows from tuples stored at some moment of the
\* request (check, BatchCan), for every model, graph, batch and interleaving.
THEOREM Allowed == Spec => []AllowSound
<1>1. IInv => AllowSound
  BY Sound
<1> QED BY <1>1, Invariant, PTL

\* A deny, memoized or answered, is never given for what follows from tuples stored
\* throughout: cutting cycles, and not memoizing a false found beneath a cut, is
\* enough (check).
THEOREM Denied == Spec => []DenySound
<1>1. IInv => DenySound
  BY Sound
<1> QED BY <1>1, Invariant, PTL

\* The depth counts the distinct keys on the path, so that a tuple cycle never
\* spends the depth fence (check's visiting and depth).
THEOREM DepthCounts == Spec => []DepthIsPathLength
<1>1. ASSUME IInv, NEW w \in Workers
      PROVE  /\ visiting[w] = {stack[w][i].goal : i \in CheckFrames(w)}
             /\ Cardinality(visiting[w]) = Cardinality(CheckFrames(w))
             /\ At(w, "call") => callee[w].depth = Cardinality(visiting[w])
  <2>1. PICK s, m : s = stack[w] /\ m = Len(stack[w])
    OBVIOUS
  <2>2. /\ s \in Seq(Frame) /\ DepthInv(s) /\ visiting[w] = Path(s, m) /\ m \in Nat
        /\ pc[w] = "call" => callee[w].depth = CalleeDepth(s)
    BY <1>1, <2>1, WorkerFacts DEF WorkerAt, PathInv, PcInv
  <2>3. CheckFrames(w) = Checks(s, m)
    BY <2>1, <2>2 DEF CheckFrames, Checks
  <2>4. visiting[w] = {stack[w][i].goal : i \in CheckFrames(w)}
    BY <2>1, <2>2, <2>3 DEF Path
  <2>5. Cardinality(Path(s, m)) = CalleeDepth(s) /\ Cardinality(Checks(s, m)) = CalleeDepth(s)
    <3>1. CASE s = <<>>
      <4>1. m = 0
        BY <2>1, <3>1
      <4>2. Path(s, m) = {} /\ Checks(s, m) = {}
        BY <4>1, NoPath
      <4> QED BY <3>1, <4>2, FS_EmptySet DEF CalleeDepth
    <3>2. CASE s # <<>>
      <4>1. m \in 1..Len(s) /\ m = Len(s)
        BY <2>1, <2>2, <3>2, EmptySeq
      <4> QED BY <2>2, <3>2, <4>1 DEF CalleeDepth, DepthInv
    <3> QED BY <3>1, <3>2
  <2> QED BY <2>2, <2>3, <2>4, <2>5 DEF At
<1>2. IInv => DepthIsPathLength
  BY <1>1 DEF DepthIsPathLength
<1> QED BY <1>2, Invariant, PTL
=============================================================================
