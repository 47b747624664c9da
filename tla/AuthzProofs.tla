----------------------------- MODULE AuthzProofs -----------------------------
(***************************************************************************)
(* Proofs about the authz service: about the grant routes, for any         *)
(* companies, objects and requests and any number of requests at a time;   *)
(* and about the decision, for any objects, any batch and any number of    *)
(* changes while it runs.                                                  *)
(***************************************************************************)
EXTENDS Authz, FunctionTheorems, FiniteSetTheorems, SequenceTheorems, TLAPS

-------------------------------------------------------------------------------
(* The grant routes. *)

LedgerRow == [tuple : Tuple, op : {"grant", "revoke"}]

\* An open transaction of p and the committed tuples.  A request grants or
\* revokes, never both; its transaction holds nothing before its first
\* statement; no other open transaction holds the same row.
TxInv(p) ==
    /\ pc[p] \notin {"write", "cascade", "commit"} => Touched(p) = {} /\ entries[p] = <<>>
    /\ pc[p] \in {"decide", "conflict"} => at[p] = 1
    /\ Grants(p) => deleted[p] = {} /\ pc[p] \notin {"cleanup", "cascade"}
    /\ ~Grants(p) => inserted[p] = {}
    /\ deleted[p] \subseteq tuples /\ inserted[p] \cap tuples = {}
    /\ IsFiniteSet(inserted[p])
    /\ \A q \in Others(p) : Touched(p) \cap Touched(q) = {}

\* Its ledger rows are those of the tuples it changed.
EntriesInv(p) ==
    /\ \A i \in DOMAIN entries[p] :
          entries[p][i].tuple \in Touched(p) /\ entries[p][i].op = req[p].op
    /\ \A t \in Touched(p) : \E i \in DOMAIN entries[p] : entries[p][i].tuple = t

\* Whatever is stored or about to be, an object has one anchor.
Pending == UNION {inserted[p] : p \in Client}

OneAnchor ==
    \A t, u \in tuples \cup Pending :
        t.rel = "anchor" /\ u.rel = "anchor" /\ t.obj = u.obj => t = u

\* The tuples of p's request that its loop has checked, and written.
CheckedTo(p, i) ==
    pc[p] \in {"write", "commit"} \/ (pc[p] = "check" /\ i < at[p])

WrittenTo(p, i) ==
    pc[p] = "commit" \/ (pc[p] = "write" /\ i < at[p])

\* A grant in flight: what it checked still stands, or the end of the anchor has
\* been recorded as a race; it writes tuples of its body only.
FlightInv(p) ==
    Grants(p) =>
      /\ \A t \in inserted[p] : \E i \in DOMAIN Body(p) : Body(p)[i] = t
      /\ \A i \in DOMAIN Body(p) :
           LET t == Body(p)[i] IN
           /\ CheckedTo(p, i) /\ t.rel # "admin" =>
                \/ t.obj \in raced
                \/ Anchor(t.obj, req[p].company) \in tuples
                \/ InRequestAnchor(p, t.obj)
           /\ WrittenTo(p, i) /\ t.rel = "anchor" =>
                t.obj \in raced \/ t \in tuples \cup inserted[p]

\* A revoke: once the cascade of an anchor is done, the transaction has deleted
\* all of the object, unless a grant on it committed meanwhile.
CascadeInv(p) ==
    /\ pc[p] = "cascade" => Current(p) \in deleted[p] /\ Current(p).rel = "anchor"
    /\ \A a \in deleted[p] :
         /\ a.rel = "anchor"
         /\ ~(pc[p] = "cascade" /\ Current(p).obj = a.obj)
         => \/ a.obj \in raced
            \/ \A t \in tuples : t.obj = a.obj => t \in deleted[p]

\* A role belongs to the company its object is anchored to.
RoleInv ==
    \A t \in tuples :
        t.rel = "role" /\ t.obj \notin raced => Anchor(t.obj, grantedFor[t]) \in tuples

IInv ==
    /\ TypeOK
    /\ IsFiniteSet(tuples)
    /\ \A p \in Client : TxInv(p) /\ EntriesInv(p) /\ FlightInv(p) /\ CascadeInv(p)
    /\ OneAnchor
    /\ RoleInv
    /\ LedgerReplays

-----------------------------------------------------------------------------
(* Requests and tuples. *)

\* What validation guarantees of a request's body.
LEMMA RequestFacts ==
  ASSUME NEW r \in Request
  PROVE  /\ r.op \in {"grant", "revoke"} /\ r.company \in Company
         /\ r.tuples \in Seq(Tuple)
         /\ DOMAIN r.tuples = 1..Len(r.tuples) /\ Len(r.tuples) \in Nat
         /\ 1 \in DOMAIN r.tuples
         /\ \A i \in DOMAIN r.tuples : r.tuples[i] \in Tuple
<1>1. /\ r.op \in {"grant", "revoke"} /\ r.company \in Company
      /\ r.tuples \in Seq(Tuple) /\ r.tuples # <<>>
  BY GrantsAssumption
<1>2. DOMAIN r.tuples = 1..Len(r.tuples) /\ Len(r.tuples) \in Nat
  BY <1>1, LenProperties
<1>3. \A i \in DOMAIN r.tuples : r.tuples[i] \in Tuple
  BY <1>1, <1>2, ElementOfSeq
<1>4. Len(r.tuples) # 0
  BY <1>1, EmptySeq
<1> QED
  BY <1>1, <1>2, <1>3, <1>4

\* Anchors and roles are tuples on objects.
LEMMA TupleFacts ==
  ASSUME NEW t \in Tuple
  PROVE  /\ t.rel \in {"anchor", "role", "admin"}
         /\ t.rel = "anchor" => t.obj \in Object /\ t.sub \in Company
                                /\ t = Anchor(t.obj, t.sub)
         /\ t.rel = "role" => t.obj \in Object
BY DEF Tuple, Anchor

\* The request of a client.
LEMMA BodyFacts ==
  ASSUME TypeOK, NEW p \in Client
  PROVE  /\ req[p] \in Request /\ req[p].company \in Company
         /\ req[p].op \in {"grant", "revoke"}
         /\ Body(p) \in Seq(Tuple)
         /\ DOMAIN Body(p) = 1..Len(Body(p)) /\ Len(Body(p)) \in Nat
         /\ 1 \in DOMAIN Body(p)
         /\ \A i \in DOMAIN Body(p) : Body(p)[i] \in Tuple
         /\ at[p] \in DOMAIN Body(p) /\ at[p] \in Nat /\ Current(p) \in Tuple
<1>1. req[p] \in Request /\ at[p] \in DOMAIN Body(p)
  BY DEF TypeOK
<1> QED
  BY <1>1, RequestFacts DEF Body, Current

\* The order in which a cascade's rows are ledgered names each of them once.
LEMMA LedgerOrder ==
  ASSUME NEW S, IsFiniteSet(S), NEW s \in LedgerOrders(S)
  PROVE  /\ s \in Seq(S) /\ DOMAIN s = 1..Len(s) /\ Len(s) \in Nat
         /\ \A i, j \in DOMAIN s : s[i] = s[j] => i = j
         /\ \A t \in S : \E i \in DOMAIN s : s[i] = t
<1> DEFINE n == Cardinality(S)
<1>1. n \in Nat
  BY FS_CardinalityType
<1>2. /\ s \in [1..n -> S] /\ DOMAIN s = 1..n
      /\ \A i, j \in 1..n : s[i] = s[j] => i = j
  BY DEF LedgerOrders
<1>3. s \in Injection(1..n, S)
  BY <1>2, Fun_IsInj
<1>4. Cardinality(1..n) = n
  BY <1>1, FS_Interval
<1>5. s \in Surjection(1..n, S)
  BY <1>3, <1>4, FS_Injection
<1>6. \A t \in S : \E i \in 1..n : s[i] = t
  BY <1>5 DEF Surjection
<1> HIDE DEF n
<1>7. s \in Seq(S) /\ Len(s) = n
  BY <1>1, <1>2, SeqDef, LenProperties
<1> QED
  BY <1>1, <1>2, <1>6, <1>7

-----------------------------------------------------------------------------
(* The ledger. *)

\* A bounded set of positions has a last one.
LEMMA LastOfBounded ==
  ASSUME NEW n \in Nat, NEW S \in SUBSET (1..n), S # {}
  PROVE  \E m \in S : \A j \in S : j <= m
<1> DEFINE T == {k \in Nat : \E i \in S : k = n - i}
           R == OpToRel(<, Nat)
<1>1. IsWellFoundedOn(R, Nat)
  BY NatLessThanWellFounded
<1>2. \A x, y \in Nat : y < x => <<y, x>> \in R
  BY DEF OpToRel
<1>3. \A i \in S : n - i \in T
  OBVIOUS
<1> HIDE DEF R
<1>4. PICK x \in T : \A y \in T : ~(<<y, x>> \in R)
  <2>1. T \subseteq Nat
    OBVIOUS
  <2>2. T # {}
    BY <1>3
  <2> HIDE DEF T
  <2> QED
    BY <1>1, <2>1, <2>2, WFMin
<1>5. PICK i \in S : x = n - i
  OBVIOUS
<1>6. ASSUME NEW j \in S PROVE j <= i
  <2>1. n - j \in Nat /\ ~(n - j < x)
    BY <1>2, <1>3, <1>4
  <2> QED
    BY <1>5, <2>1
<1> QED
  BY <1>5, <1>6

\* Rows of one operation appended to the ledger decide the last entry of the
\* tuples they name and of no other.
LEMMA LedgerAppend ==
  ASSUME NEW X \in Seq(LedgerRow), NEW op, NEW t,
         ledger \in Seq(LedgerRow), ledger' = ledger \o X,
         \A i \in DOMAIN X : X[i].op = op
  PROVE  /\ (\A i \in DOMAIN X : X[i].tuple # t) => LastEntry(t)' = LastEntry(t)
         /\ (\E i \in DOMAIN X : X[i].tuple = t) => LastEntry(t)' = op
<1> DEFINE n == Len(ledger)
           m == Len(X)
           M == {i \in DOMAIN ledger : ledger[i].tuple = t}
           N == {i \in DOMAIN ledger' : ledger'[i].tuple = t}
           c == CHOOSE i \in M : \A j \in M : j <= i
           d == CHOOSE i \in N : \A j \in N : j <= i
<1>1. n \in Nat /\ m \in Nat /\ DOMAIN ledger = 1..n /\ DOMAIN X = 1..m
  BY LenProperties
<1>2. DOMAIN ledger' = 1..(n + m)
  BY ConcatProperties, LenProperties
<1>3. \A i \in 1..(n + m) : ledger'[i] = IF i <= n THEN ledger[i] ELSE X[i - n]
  BY ConcatProperties
<1>4. LastEntry(t) = IF M = {} THEN "none" ELSE ledger[c].op
  BY DEF LastEntry
<1>5. LastEntry(t)' = IF N = {} THEN "none" ELSE ledger'[d].op
  BY DEF LastEntry
<1>6. M \in SUBSET (1..n) /\ N \in SUBSET (1..(n + m))
  BY <1>1, <1>2
<1>7. ASSUME \A i \in DOMAIN X : X[i].tuple # t
      PROVE  LastEntry(t)' = LastEntry(t)
  <2>1. N = M
    <3>1. ASSUME NEW i \in N PROVE i \in M
      BY <1>1, <1>2, <1>3, <1>7
    <3>2. ASSUME NEW i \in M PROVE i \in N
      BY <1>1, <1>2, <1>3
    <3> QED
      BY <3>1, <3>2
  <2>2. CASE M = {}
    BY <1>4, <1>5, <2>1, <2>2
  <2>3. CASE M # {}
    <3>1. \E i \in M : \A j \in M : j <= i
      <4> HIDE DEF M
      <4> QED
        BY <1>1, <1>6, <2>3, LastOfBounded
    <3>2. c \in M
      BY <3>1
    <3>3. ledger'[c] = ledger[c]
      <4> HIDE DEF c
      <4> QED
        BY <1>1, <1>3, <3>2
    <3>4. d = c
      BY <2>1
    <3> HIDE DEF M, N, c, d
    <3> QED
      BY <1>4, <1>5, <2>1, <2>3, <3>3, <3>4
  <2> QED
    BY <2>2, <2>3
<1>8. ASSUME NEW k \in DOMAIN X, X[k].tuple = t
      PROVE  LastEntry(t)' = op
  <2>1. n + k \in N
    BY <1>1, <1>2, <1>3, <1>8
  <2>2. \E i \in N : \A j \in N : j <= i
    <3>1. n + m \in Nat
      BY <1>1
    <3> HIDE DEF N, n, m
    <3> QED
      BY <1>6, <2>1, <3>1, LastOfBounded
  <2>3. d \in N /\ \A j \in N : j <= d
    BY <2>2
  <2>4. d \in 1..(n + m) /\ n + k <= d
    <3> HIDE DEF N, d
    <3> QED
      BY <1>6, <2>1, <2>3
  <2> HIDE DEF N, d
  <2>5. ledger'[d] = X[d - n] /\ d - n \in DOMAIN X
    BY <1>1, <1>3, <2>4
  <2> QED
    BY <1>5, <2>1, <2>5
<1> QED
  BY <1>7, <1>8

-----------------------------------------------------------------------------
(* Steps. *)

PC == {"idle", "decide", "conflict", "check", "cleanup", "write", "cascade", "commit"}

\* A step of p leaves the other requests where they are.
Frame(p) ==
    \A q \in Others(p) :
        /\ pc'[q] = pc[q] /\ req'[q] = req[q] /\ at'[q] = at[q]
        /\ inserted'[q] = inserted[q] /\ deleted'[q] = deleted[q]
        /\ entries'[q] = entries[q]

\* The steps that write neither tuples nor a transaction.
Quiet(p) ==
    \/ Decide(p) \/ CheckConflict(p) \/ CheckTuple(p) \/ NotAnchoredHere(p)
    \/ OwnerCleanup(p) \/ Refuse(p) \/ \E r \in Request : Receive(p, r)

\* The checks and the writes both go through the body in order.
LEMMA AdvanceFacts ==
  ASSUME TypeOK, NEW p \in Client, Advance(p)
  PROVE  \/ /\ at[p] = Len(Body(p)) /\ at' = [at EXCEPT ![p] = 1]
            /\ pc' = [pc EXCEPT ![p] = "write"]
         \/ /\ at[p] + 1 \in DOMAIN Body(p) /\ at' = [at EXCEPT ![p] = at[p] + 1]
            /\ pc' = [pc EXCEPT ![p] = "check"]
<1>1. DOMAIN Body(p) = 1..Len(Body(p)) /\ Len(Body(p)) \in Nat /\ at[p] \in DOMAIN Body(p)
  BY BodyFacts
<1>2. at[p] # Len(Body(p)) => at[p] + 1 \in DOMAIN Body(p)
  BY <1>1
<1> QED
  BY <1>2 DEF Advance, Goto

\* The statements likewise, up to the commit.
LEMMA NextTupleFacts ==
  ASSUME TypeOK, NEW p \in Client, NextTuple(p)
  PROVE  \/ /\ at[p] = Len(Body(p)) /\ at' = at
            /\ pc' = [pc EXCEPT ![p] = "commit"]
         \/ /\ at[p] + 1 \in DOMAIN Body(p) /\ at' = [at EXCEPT ![p] = at[p] + 1]
            /\ pc' = [pc EXCEPT ![p] = "write"]
<1>1. DOMAIN Body(p) = 1..Len(Body(p)) /\ Len(Body(p)) \in Nat /\ at[p] \in DOMAIN Body(p)
  BY BodyFacts
<1>2. at[p] # Len(Body(p)) => at[p] + 1 \in DOMAIN Body(p)
  BY <1>1
<1> QED
  BY <1>2 DEF NextTuple, Goto

\* Moving along the body keeps the position inside it.
LEMMA MoveType ==
  ASSUME TypeOK, NEW p \in Client, req' = req, NEW i \in DOMAIN Body(p),
         at' \in {at, [at EXCEPT ![p] = i]}
  PROVE  at' \in [Client -> Nat] /\ \A q \in Client : at'[q] \in DOMAIN Body(q)'
<1>1. i \in Nat
  BY BodyFacts
<1>2. at \in [Client -> Nat] /\ \A q \in Client : at[q] \in DOMAIN Body(q)
  BY DEF TypeOK
<1>3. \A q \in Client : Body(q)' = Body(q)
  BY DEF Body
<1> QED
  BY <1>1, <1>2, <1>3

\* Every quiet step keeps the types and everything committed or open, and takes
\* its request to a place before its transaction's first statement.
LEMMA QuietFacts ==
  ASSUME IInv, NEW p \in Client, Quiet(p)
  PROVE  /\ TypeOK' /\ Frame(p) /\ UNCHANGED <<db, tx>>
         /\ pc[p] \in {"idle", "decide", "conflict", "check", "cleanup"}
         /\ pc'[p] \in {"idle", "decide", "conflict", "check", "cleanup", "write"}
<1> TypeOK
  BY DEF IInv
<1> USE DEF db, tx, At, Goto, Idle
<1>1. ASSUME NEW r \in Request, Receive(p, r)
      PROVE  /\ TypeOK' /\ Frame(p) /\ UNCHANGED <<db, tx>>
             /\ pc[p] = "idle" /\ pc'[p] = "decide"
  <2>1. 1 \in DOMAIN r.tuples
    BY RequestFacts
  <2>2. /\ req' = [req EXCEPT ![p] = r] /\ at' = [at EXCEPT ![p] = 1]
        /\ pc' = [pc EXCEPT ![p] = "decide"] /\ UNCHANGED <<db, tx>>
        /\ pc[p] = "idle" /\ received' \in 0..MaxRequests
    BY <1>1, GrantsAssumption DEF Receive, TypeOK
  <2>3. \A q \in Client : at'[q] \in DOMAIN Body(q)'
    BY <2>1, <2>2 DEF TypeOK, Body
  <2>4. TypeOK'
    BY <2>2, <2>3 DEF TypeOK
  <2> QED
    BY <2>2, <2>4 DEF Frame, Others, TypeOK
<1>2. ASSUME \/ Decide(p) \/ CheckConflict(p) \/ NotAnchoredHere(p) \/ Refuse(p)
      PROVE  /\ TypeOK' /\ Frame(p) /\ UNCHANGED <<db, tx>>
             /\ pc[p] \in {"decide", "conflict", "check", "cleanup"}
             /\ pc'[p] \in {"idle", "conflict", "check", "cleanup"}
  <2>1. /\ UNCHANGED <<db, received, req, at, tx>>
        /\ pc[p] \in {"decide", "conflict", "check", "cleanup"}
        /\ \E s \in {"idle", "conflict", "check", "cleanup"} : pc' = [pc EXCEPT ![p] = s]
    BY <1>2 DEF Decide, CheckConflict, NotAnchoredHere, Refuse
  <2>2. \A q \in Client : Body(q)' = Body(q)
    BY <2>1 DEF Body
  <2>3. TypeOK'
    BY <2>1, <2>2 DEF TypeOK
  <2> QED
    BY <2>1, <2>3 DEF Frame, Others, TypeOK
<1>3. ASSUME CheckTuple(p) \/ OwnerCleanup(p)
      PROVE  /\ TypeOK' /\ Frame(p) /\ UNCHANGED <<db, tx>>
             /\ pc[p] \in {"check", "cleanup"} /\ pc'[p] \in {"check", "write"}
  <2>1. /\ UNCHANGED <<db, received, req, tx>> /\ Advance(p)
        /\ pc[p] \in {"check", "cleanup"}
    BY <1>3 DEF CheckTuple, OwnerCleanup
  <2>2. PICK i \in DOMAIN Body(p) : at' = [at EXCEPT ![p] = i]
    BY <2>1, AdvanceFacts, BodyFacts
  <2>3. at' \in [Client -> Nat] /\ \A q \in Client : at'[q] \in DOMAIN Body(q)'
    BY <2>1, <2>2, MoveType
  <2>4. \E s \in {"check", "write"} : pc' = [pc EXCEPT ![p] = s]
    BY <2>1, AdvanceFacts
  <2>5. TypeOK'
    BY <2>1, <2>3, <2>4 DEF TypeOK
  <2> QED
    BY <2>1, <2>2, <2>4, <2>5 DEF Frame, Others, TypeOK
<1> QED
  BY <1>1, <1>2, <1>3 DEF Quiet

\* A statement of p's transaction that moves p along its body keeps the types of
\* everything but the transaction.
LEMMA StatementType ==
  ASSUME TypeOK, NEW p \in Client, NextTuple(p) \/ (Goto(p, "cascade") /\ UNCHANGED at),
         UNCHANGED <<db, received, req>>,
         inserted' \in [Client -> SUBSET Tuple], deleted' \in [Client -> SUBSET Tuple],
         entries' \in [Client -> Seq(LedgerRow)],
         \A q \in Others(p) : /\ inserted'[q] = inserted[q] /\ deleted'[q] = deleted[q]
                              /\ entries'[q] = entries[q]
  PROVE  TypeOK' /\ Frame(p)
<1>1. at' = at \/ \E i \in DOMAIN Body(p) : at' = [at EXCEPT ![p] = i]
  BY NextTupleFacts
<1>2. at' \in [Client -> Nat] /\ \A q \in Client : at'[q] \in DOMAIN Body(q)'
  BY <1>1, MoveType, BodyFacts
<1>3. \E s \in {"write", "cascade", "commit"} : pc' = [pc EXCEPT ![p] = s]
  BY NextTupleFacts DEF Goto
<1>4. TypeOK'
  BY <1>2, <1>3 DEF TypeOK, db, LedgerRow
<1> QED
  BY <1>1, <1>3, <1>4 DEF Frame, Others, TypeOK

\* An appended ledger row.
LEMMA EntryAppend ==
  ASSUME NEW e \in Seq(LedgerRow), NEW t \in Tuple, NEW op \in {"grant", "revoke"}
  PROVE  LET f == Append(e, Entry(t, op)) IN
         /\ f \in Seq(LedgerRow) /\ DOMAIN f = 1..(Len(e) + 1) /\ DOMAIN e = 1..Len(e)
         /\ Len(e) \in Nat
         /\ \A i \in 1..Len(e) : f[i] = e[i]
         /\ f[Len(e) + 1].tuple = t /\ f[Len(e) + 1].op = op
<1>1. Entry(t, op) \in LedgerRow /\ Entry(t, op).tuple = t /\ Entry(t, op).op = op
  BY DEF Entry, LedgerRow
<1> QED
  BY <1>1, AppendProperties, LenProperties

\* INSERT adds the tuple with its row, or finds it there.
LEMMA InsertFacts ==
  ASSUME IInv, NEW p \in Client, InsertTuple(p)
  PROVE  LET t == Current(p) IN
         /\ TypeOK' /\ Frame(p) /\ UNCHANGED <<tuples, ledger, grantedFor, raced, req>>
         /\ Grants(p) /\ pc[p] = "write" /\ NextTuple(p)
         /\ deleted' = deleted /\ deleted[p] = {} /\ ~Waits(p, t) /\ t \in Tuple
         /\ t.rel = "anchor" =>
              \A u \in tuples \cup inserted[p] : u.rel = "anchor" /\ u.obj = t.obj => u = t
         /\ \/ /\ t \in tuples \cup inserted[p]
               /\ inserted' = inserted /\ entries' = entries
            \/ /\ t \notin tuples \cup inserted[p]
               /\ inserted' = [inserted EXCEPT ![p] = inserted[p] \cup {t}]
               /\ inserted'[p] = inserted[p] \cup {t}
               /\ entries'[p] = Append(entries[p], Entry(t, "grant"))
<1> DEFINE t == Current(p)
<1> TypeOK
  BY DEF IInv
<1>1. t \in Tuple
  BY BodyFacts
<1>2. /\ UNCHANGED <<db, received, req>> /\ Grants(p) /\ pc[p] = "write" /\ NextTuple(p)
      /\ ~Waits(p, t)
      /\ t.rel = "anchor" => AnchorsOf(View(p), t.obj) \subseteq {t}
  BY DEF InsertTuple, At
<1>3. deleted[p] = {}
  BY <1>2 DEF IInv, TxInv
<1>4. View(p) = tuples \cup inserted[p]
  BY <1>3 DEF View
<1>5. \/ t \in View(p) /\ UNCHANGED tx
      \/ /\ t \notin View(p) /\ UNCHANGED deleted
         /\ inserted' = [inserted EXCEPT ![p] = @ \cup {t}]
         /\ entries' = [entries EXCEPT ![p] = Append(@, Entry(t, "grant"))]
  BY DEF InsertTuple
<1> HIDE DEF t
<1>6. /\ inserted' \in [Client -> SUBSET Tuple] /\ deleted' \in [Client -> SUBSET Tuple]
      /\ \A q \in Others(p) : inserted'[q] = inserted[q] /\ deleted'[q] = deleted[q]
  BY <1>1, <1>5 DEF TypeOK, tx, Others
<1>7. /\ entries' \in [Client -> Seq(LedgerRow)]
      /\ \A q \in Others(p) : entries'[q] = entries[q]
  <2>1. entries \in [Client -> Seq(LedgerRow)]
    BY DEF TypeOK, LedgerRow
  <2>2. Append(entries[p], Entry(t, "grant")) \in Seq(LedgerRow)
    BY <1>1, <2>1, EntryAppend
  <2> QED
    BY <1>5, <2>1, <2>2 DEF tx, Others
<1>8. TypeOK' /\ Frame(p)
  BY <1>2, <1>6, <1>7, StatementType
<1>9. \/ /\ t \in tuples \cup inserted[p]
         /\ inserted' = inserted /\ entries' = entries /\ deleted' = deleted
      \/ /\ t \notin tuples \cup inserted[p] /\ deleted' = deleted
         /\ inserted' = [inserted EXCEPT ![p] = inserted[p] \cup {t}]
         /\ inserted'[p] = inserted[p] \cup {t}
         /\ entries'[p] = Append(entries[p], Entry(t, "grant"))
  BY <1>4, <1>5 DEF tx, TypeOK
<1>10. t.rel = "anchor" =>
         \A u \in tuples \cup inserted[p] : u.rel = "anchor" /\ u.obj = t.obj => u = t
  BY <1>2, <1>4 DEF AnchorsOf
<1> QED
  BY <1>1, <1>2, <1>3, <1>8, <1>9, <1>10 DEF t, db

\* DELETE removes the tuple with its row and, of an anchor, goes on to the
\* object's rest; or it finds nothing.
LEMMA DeleteFacts ==
  ASSUME IInv, NEW p \in Client, DeleteTuple(p)
  PROVE  LET t == Current(p) IN
         /\ TypeOK' /\ Frame(p) /\ UNCHANGED <<tuples, ledger, grantedFor, raced, req>>
         /\ ~Grants(p) /\ pc[p] = "write" /\ t \in Tuple
         /\ inserted' = inserted /\ inserted[p] = {}
         /\ \/ /\ t \notin tuples \ deleted[p] /\ NextTuple(p)
               /\ deleted' = deleted /\ entries' = entries
            \/ /\ t \in tuples \ deleted[p] /\ \A q \in Others(p) : t \notin deleted[q]
               /\ deleted'[p] = deleted[p] \cup {t}
               /\ entries'[p] = Append(entries[p], Entry(t, "revoke"))
               /\ \/ t.rel = "anchor" /\ pc' = [pc EXCEPT ![p] = "cascade"] /\ at' = at
                  \/ t.rel # "anchor" /\ NextTuple(p)
<1> DEFINE t == Current(p)
<1> TypeOK
  BY DEF IInv
<1>1. t \in Tuple
  BY BodyFacts
<1>2. /\ UNCHANGED <<db, received, req>> /\ ~Grants(p) /\ pc[p] = "write"
      /\ \A q \in Others(p) : t \notin deleted[q]
  BY DEF DeleteTuple, At
<1>3. inserted[p] = {}
  BY <1>2 DEF IInv, TxInv
<1>4. View(p) = tuples \ deleted[p]
  BY <1>3 DEF View
<1>5. \/ t \notin View(p) /\ UNCHANGED tx /\ NextTuple(p)
      \/ /\ t \in View(p) /\ UNCHANGED inserted
         /\ deleted' = [deleted EXCEPT ![p] = @ \cup {t}]
         /\ entries' = [entries EXCEPT ![p] = Append(@, Entry(t, "revoke"))]
         /\ \/ t.rel = "anchor" /\ Goto(p, "cascade") /\ UNCHANGED at
            \/ t.rel # "anchor" /\ NextTuple(p)
  BY DEF DeleteTuple
<1> HIDE DEF t
<1>6. /\ inserted' \in [Client -> SUBSET Tuple] /\ deleted' \in [Client -> SUBSET Tuple]
      /\ \A q \in Others(p) : inserted'[q] = inserted[q] /\ deleted'[q] = deleted[q]
  BY <1>1, <1>5 DEF TypeOK, tx, Others
<1>7. /\ entries' \in [Client -> Seq(LedgerRow)]
      /\ \A q \in Others(p) : entries'[q] = entries[q]
  <2>1. entries \in [Client -> Seq(LedgerRow)]
    BY DEF TypeOK, LedgerRow
  <2>2. Append(entries[p], Entry(t, "revoke")) \in Seq(LedgerRow)
    BY <1>1, <2>1, EntryAppend
  <2> QED
    BY <1>5, <2>1, <2>2 DEF tx, Others
<1>8. TypeOK' /\ Frame(p)
  BY <1>2, <1>5, <1>6, <1>7, StatementType
<1>9. \/ /\ t \notin tuples \ deleted[p] /\ NextTuple(p)
         /\ deleted' = deleted /\ entries' = entries /\ inserted' = inserted
      \/ /\ t \in tuples \ deleted[p] /\ inserted' = inserted
         /\ deleted'[p] = deleted[p] \cup {t}
         /\ entries'[p] = Append(entries[p], Entry(t, "revoke"))
         /\ \/ t.rel = "anchor" /\ pc' = [pc EXCEPT ![p] = "cascade"] /\ at' = at
            \/ t.rel # "anchor" /\ NextTuple(p)
  BY <1>4, <1>5 DEF tx, TypeOK, Goto
<1> QED
  BY <1>1, <1>2, <1>3, <1>8, <1>9 DEF t, db

\* A concatenation ends with the second sequence's elements.
LEMMA ConcatFacts ==
  ASSUME NEW S, NEW e \in Seq(S), NEW X \in Seq(S)
  PROVE  /\ e \o X \in Seq(S) /\ Len(e) \in Nat /\ Len(X) \in Nat
         /\ DOMAIN e = 1..Len(e) /\ DOMAIN X = 1..Len(X)
         /\ DOMAIN (e \o X) = 1..(Len(e) + Len(X))
         /\ \A i \in DOMAIN e : (e \o X)[i] = e[i]
         /\ \A i \in DOMAIN X : (e \o X)[Len(e) + i] = X[i]
         /\ \A i \in DOMAIN (e \o X) :
              i \in DOMAIN e \/ \E j \in DOMAIN X : i = Len(e) + j
<1>1. /\ Len(e) \in Nat /\ Len(X) \in Nat
      /\ DOMAIN e = 1..Len(e) /\ DOMAIN X = 1..Len(X)
  BY LenProperties
<1>2. /\ e \o X \in Seq(S) /\ Len(e \o X) = Len(e) + Len(X)
      /\ \A i \in 1..(Len(e) + Len(X)) :
           (e \o X)[i] = IF i <= Len(e) THEN e[i] ELSE X[i - Len(e)]
  BY ConcatProperties
<1>3. DOMAIN (e \o X) = 1..(Len(e) + Len(X))
  BY <1>2, LenProperties
<1>4. \A i \in DOMAIN e : (e \o X)[i] = e[i]
  BY <1>1, <1>2
<1>5. ASSUME NEW i \in DOMAIN X PROVE (e \o X)[Len(e) + i] = X[i]
  <2>1. /\ i \in Nat /\ i >= 1 /\ Len(e) + i \in 1..(Len(e) + Len(X))
        /\ ~(Len(e) + i <= Len(e)) /\ Len(e) + i - Len(e) = i
    BY <1>1
  <2> QED
    BY <1>2, <2>1
<1>6. ASSUME NEW i \in DOMAIN (e \o X), i \notin DOMAIN e
      PROVE  \E j \in DOMAIN X : i = Len(e) + j
  <2>1. i - Len(e) \in DOMAIN X /\ i = Len(e) + (i - Len(e))
    BY <1>1, <1>3, <1>6
  <2> QED
    BY <2>1
<1> QED
  BY <1>1, <1>2, <1>3, <1>4, <1>5, <1>6

\* The cascade deletes all the transaction sees of the object, with its rows.
LEMMA CascadeFacts ==
  ASSUME IInv, NEW p \in Client, Cascade(p)
  PROVE  LET rest == {t \in tuples \ deleted[p] : t.obj = Current(p).obj} IN
         /\ TypeOK' /\ Frame(p) /\ UNCHANGED <<tuples, ledger, grantedFor, raced, req>>
         /\ ~Grants(p) /\ pc[p] = "cascade" /\ NextTuple(p)
         /\ inserted' = inserted /\ inserted[p] = {}
         /\ \A q \in Others(p) : rest \cap deleted[q] = {}
         /\ deleted'[p] = deleted[p] \cup rest
         /\ \E X \in Seq(LedgerRow) :
              /\ entries'[p] = entries[p] \o X
              /\ \A i \in DOMAIN X : X[i].tuple \in rest /\ X[i].op = "revoke"
              /\ \A t \in rest : \E i \in DOMAIN X : X[i].tuple = t
<1> DEFINE rest == {t \in tuples \ deleted[p] : t.obj = Current(p).obj}
<1> TypeOK
  BY DEF IInv
<1>1. /\ UNCHANGED <<db, received, req, inserted>> /\ pc[p] = "cascade" /\ NextTuple(p)
      /\ \A q \in Others(p) : Rest(p) \cap deleted[q] = {}
      /\ deleted' = [deleted EXCEPT ![p] = @ \cup Rest(p)]
  BY DEF Cascade, At
<1>2. ~Grants(p) /\ inserted[p] = {}
  BY <1>1 DEF IInv, TxInv
<1>3. Rest(p) = rest
  BY <1>2 DEF Rest, View
<1>4. rest \subseteq Tuple /\ IsFiniteSet(rest)
  BY FS_Subset DEF IInv, TypeOK
<1> HIDE DEF rest
<1>5. PICK s \in LedgerOrders(rest) :
        entries' = [entries EXCEPT ![p] = @ \o [i \in DOMAIN s |-> Entry(s[i], "revoke")]]
  BY <1>3 DEF Cascade
<1> DEFINE X == [i \in DOMAIN s |-> Entry(s[i], "revoke")]
<1>6. /\ s \in Seq(rest) /\ DOMAIN s = 1..Len(s) /\ Len(s) \in Nat
      /\ \A t \in rest : \E i \in DOMAIN s : s[i] = t
  BY <1>4, LedgerOrder
<1>7. \A i \in DOMAIN s : s[i] \in rest
  BY <1>6, ElementOfSeq
<1>8. \A i \in DOMAIN s : /\ X[i] \in LedgerRow
                          /\ X[i].tuple = s[i] /\ X[i].op = "revoke"
  BY <1>4, <1>7 DEF Entry, LedgerRow
<1>9. X \in Seq(LedgerRow) /\ DOMAIN X = DOMAIN s
  <2>1. X \in [1..Len(s) -> LedgerRow]
    BY <1>6, <1>8
  <2> QED
    BY <1>6, <2>1, SeqDef
<1> HIDE DEF X
<1>10. entries \in [Client -> Seq(LedgerRow)] /\ entries' = [entries EXCEPT ![p] = @ \o X]
  BY <1>5 DEF TypeOK, LedgerRow, X
<1>11. /\ entries' \in [Client -> Seq(LedgerRow)] /\ entries'[p] = entries[p] \o X
       /\ \A q \in Others(p) : entries'[q] = entries[q]
  BY <1>9, <1>10, ConcatFacts DEF Others
<1>12. /\ deleted' \in [Client -> SUBSET Tuple] /\ deleted'[p] = deleted[p] \cup rest
       /\ \A q \in Others(p) : deleted'[q] = deleted[q] /\ inserted'[q] = inserted[q]
       /\ inserted' \in [Client -> SUBSET Tuple]
  BY <1>1, <1>3, <1>4 DEF TypeOK, Others
<1>13. TypeOK' /\ Frame(p)
  BY <1>1, <1>11, <1>12, StatementType
<1>14. \A i \in DOMAIN X : X[i].tuple \in rest /\ X[i].op = "revoke"
  BY <1>7, <1>8, <1>9
<1>15. \A t \in rest : \E i \in DOMAIN X : X[i].tuple = t
  BY <1>6, <1>8, <1>9
<1> QED
  BY <1>1, <1>2, <1>3, <1>9, <1>11, <1>12, <1>13, <1>14, <1>15 DEF rest, db

\* A transaction that ends leaves nothing open.
LEMMA EndFacts ==
  ASSUME TypeOK, NEW p \in Client, EndTx(p), UNCHANGED <<req, at>>
  PROVE  /\ Frame(p) /\ pc' \in [Client -> PC] /\ pc'[p] = "idle"
         /\ inserted' \in [Client -> SUBSET Tuple] /\ inserted'[p] = {}
         /\ deleted' \in [Client -> SUBSET Tuple] /\ deleted'[p] = {}
         /\ entries' \in [Client -> Seq(LedgerRow)] /\ entries'[p] = <<>>
         /\ at' \in [Client -> Nat] /\ \A q \in Client : at'[q] \in DOMAIN Body(q)'
<1>1. entries \in [Client -> Seq(LedgerRow)] /\ <<>> \in Seq(LedgerRow)
  BY EmptySeq DEF TypeOK, LedgerRow
<1>2. /\ entries' \in [Client -> Seq(LedgerRow)] /\ entries'[p] = <<>>
      /\ \A q \in Others(p) : entries'[q] = entries[q]
  BY <1>1 DEF EndTx, Others
<1>3. /\ pc' \in [Client -> PC] /\ pc'[p] = "idle"
      /\ inserted' \in [Client -> SUBSET Tuple] /\ inserted'[p] = {}
      /\ deleted' \in [Client -> SUBSET Tuple] /\ deleted'[p] = {}
      /\ \A q \in Others(p) : /\ pc'[q] = pc[q]
                              /\ inserted'[q] = inserted[q] /\ deleted'[q] = deleted[q]
  BY DEF EndTx, Goto, Idle, TypeOK, Others, PC
<1>4. at' \in [Client -> Nat] /\ \A q \in Client : at'[q] \in DOMAIN Body(q)'
  BY DEF TypeOK, Body
<1> QED
  BY <1>2, <1>3, <1>4 DEF Frame

\* A conflict of anchors, or a failure, rolls back.
LEMMA RollbackFacts ==
  ASSUME IInv, NEW p \in Client, AnchorConflict(p) \/ Rollback(p)
  PROVE  /\ TypeOK' /\ Frame(p) /\ UNCHANGED <<tuples, ledger, grantedFor, raced, req>>
         /\ pc'[p] = "idle" /\ inserted'[p] = {} /\ deleted'[p] = {} /\ entries'[p] = <<>>
<1> TypeOK
  BY DEF IInv
<1>1. EndTx(p) /\ UNCHANGED <<db, received, req, at>>
  BY DEF AnchorConflict, Rollback
<1>2. TypeOK'
  BY <1>1, EndFacts DEF TypeOK, db, LedgerRow, PC
<1> QED
  BY <1>1, <1>2, EndFacts DEF db

\* The commit publishes the transaction and records the races it decides.
LEMMA CommitFacts ==
  ASSUME IInv, NEW p \in Client, Commit(p)
  PROVE  /\ TypeOK' /\ Frame(p) /\ req' = req /\ pc[p] = "commit"
         /\ pc'[p] = "idle" /\ inserted'[p] = {} /\ deleted'[p] = {} /\ entries'[p] = <<>>
         /\ tuples' = (tuples \ deleted[p]) \cup inserted[p]
         /\ ledger' = ledger \o entries[p]
         /\ entries[p] \in Seq(LedgerRow) /\ ledger \in Seq(LedgerRow)
         /\ \A t \in inserted[p] : grantedFor'[t] = req[p].company
         /\ \A t \in Tuple \ inserted[p] : grantedFor'[t] = grantedFor[t]
         /\ raced' = raced \cup {o \in Object : Races(p, o)}
<1> TypeOK
  BY DEF IInv
<1>1. /\ EndTx(p) /\ UNCHANGED <<received, req, at>> /\ pc[p] = "commit"
      /\ tuples' = (tuples \ deleted[p]) \cup inserted[p]
      /\ ledger' = ledger \o entries[p]
      /\ grantedFor' = [t \in Tuple |-> IF t \in inserted[p] THEN req[p].company
                                                             ELSE grantedFor[t]]
      /\ raced' = raced \cup {o \in Object : Races(p, o)}
  BY DEF Commit, At, View
<1>2. /\ entries[p] \in Seq(LedgerRow) /\ ledger \in Seq(LedgerRow)
      /\ inserted[p] \subseteq Tuple /\ tuples \subseteq Tuple /\ req[p].company \in Company
  BY BodyFacts DEF TypeOK, LedgerRow
<1>3. ledger' \in Seq(LedgerRow)
  BY <1>1, <1>2, ConcatFacts
<1>4. grantedFor' \in [Tuple -> Company]
  BY <1>1, <1>2 DEF TypeOK
<1>5. tuples' \subseteq Tuple /\ raced' \subseteq Object
  BY <1>1, <1>2 DEF TypeOK
<1>6. TypeOK'
  BY <1>1, <1>3, <1>4, <1>5, EndFacts DEF TypeOK, LedgerRow, PC
<1> QED
  BY <1>1, <1>2, <1>6, EndFacts

\* The steps of Next, by what they write.
LEMMA NextCases ==
  ASSUME Next
  PROVE  \E p \in Client : \/ Quiet(p) \/ InsertTuple(p) \/ DeleteTuple(p) \/ Cascade(p)
                           \/ AnchorConflict(p) \/ Rollback(p) \/ Commit(p)
BY DEF Next, Step, Quiet

-----------------------------------------------------------------------------
(* Preservation, one part of the invariant at a time. *)

\* What a request says depends on the request alone.
LEMMA SameRequest ==
  ASSUME NEW p, req'[p] = req[p]
  PROVE  /\ Body(p)' = Body(p) /\ (Grants(p)' <=> Grants(p))
         /\ \A o : InRequestAnchor(p, o)' <=> InRequestAnchor(p, o)
BY DEF Body, Grants, InRequestAnchor, Anchor

\* A step of p changes nothing that another request says or holds.
LEMMA SameOther ==
  ASSUME NEW p, NEW q \in Others(p), Frame(p)
  PROVE  /\ Body(q)' = Body(q) /\ (Grants(q)' <=> Grants(q)) /\ Current(q)' = Current(q)
         /\ Touched(q)' = Touched(q)
         /\ \A o : InRequestAnchor(q, o)' <=> InRequestAnchor(q, o)
         /\ \A i : CheckedTo(q, i)' <=> CheckedTo(q, i)
         /\ \A i : WrittenTo(q, i)' <=> WrittenTo(q, i)
<1>1. pc'[q] = pc[q] /\ req'[q] = req[q] /\ at'[q] = at[q]
  BY DEF Frame
<1>2. inserted'[q] = inserted[q] /\ deleted'[q] = deleted[q]
  BY DEF Frame
<1>3. Body(q)' = Body(q)
  BY <1>1 DEF Body
<1>4. Current(q)' = Current(q)
  BY <1>1, <1>3 DEF Current
<1>5. Touched(q)' = Touched(q)
  BY <1>2 DEF Touched
<1>6. /\ \A i : CheckedTo(q, i)' <=> CheckedTo(q, i)
      /\ \A i : WrittenTo(q, i)' <=> WrittenTo(q, i)
  BY <1>1 DEF CheckedTo, WrittenTo
<1> QED
  BY <1>1, <1>3, <1>4, <1>5, <1>6, SameRequest

\* The other open transactions, when p's step keeps the rows they hold.
LEMMA TxOthers ==
  ASSUME IInv, NEW p \in Client, Frame(p),
         \A q \in Others(p) : /\ Touched(p)' \cap Touched(q) = {}
                              /\ deleted[q] \subseteq tuples' /\ inserted[q] \cap tuples' = {}
  PROVE  \A q \in Others(p) : TxInv(q)'
<1> SUFFICES ASSUME NEW q \in Others(p) PROVE TxInv(q)'
  OBVIOUS
<1>1. TxInv(q) /\ q \in Client /\ q # p
  BY DEF IInv, Others
<1>2. /\ pc'[q] = pc[q] /\ at'[q] = at[q] /\ inserted'[q] = inserted[q]
      /\ deleted'[q] = deleted[q] /\ entries'[q] = entries[q]
  BY DEF Frame
<1>3. Grants(q)' <=> Grants(q)
  BY SameOther
<1>4. ASSUME NEW r \in Others(q) PROVE Touched(q)' \cap Touched(r)' = {}
  <2>1. Touched(q)' = Touched(q)
    BY SameOther
  <2>2. CASE r = p
    BY <2>1, <2>2
  <2>3. CASE r # p
    <3>1. r \in Others(p)
      BY <2>3 DEF Others
    <3>2. Touched(r)' = Touched(r)
      BY <3>1, SameOther
    <3> QED
      BY <1>1, <1>4, <2>1, <3>2 DEF TxInv
  <2> QED
    BY <2>2, <2>3
<1>5. Touched(q)' = Touched(q)
  BY SameOther
<1>6. \A r \in Others(q)' : (Touched(q) \cap Touched(r))' = {}
  BY <1>4 DEF Others
<1> QED
  BY <1>1, <1>2, <1>3, <1>5, <1>6 DEF TxInv

\* p's own transaction, when its statement keeps clear of the rows of others.
LEMMA TxOwn ==
  ASSUME IInv, NEW p \in Client, Frame(p), tuples' = tuples, req' = req,
         pc[p] \in {"write", "cascade"}, pc'[p] \in {"write", "cascade", "commit"},
         pc'[p] = "cascade" => ~Grants(p),
         IsFiniteSet(inserted'[p]),
         IF Grants(p) THEN deleted'[p] = {} /\ inserted'[p] \cap tuples = {}
                      ELSE inserted'[p] = {} /\ deleted'[p] \subseteq tuples,
         \A q \in Others(p) : Touched(p)' \cap Touched(q) = {}
  PROVE  \A q \in Client : TxInv(q)'
<1>1. Grants(p)' <=> Grants(p)
  BY SameRequest
<1>2. \A q \in Others(p) : Touched(q)' = Touched(q)
  BY SameOther
<1>3. \A q \in Others(p)' : (Touched(p) \cap Touched(q))' = {}
  BY <1>2 DEF Others
<1>4. TxInv(p)'
  BY <1>1, <1>3 DEF TxInv
<1>5. ASSUME NEW q \in Others(p)
      PROVE  deleted[q] \subseteq tuples' /\ inserted[q] \cap tuples' = {}
  BY <1>5 DEF IInv, TxInv, Others
<1> QED
  BY <1>4, <1>5, TxOthers DEF Others

\* Open transactions stay disjoint: an INSERT waits for a touched key, a DELETE
\* for a locked row, and a commit publishes rows no other transaction holds.
LEMMA NextTx ==
  ASSUME IInv, Next
  PROVE  IsFiniteSet(tuples') /\ \A q \in Client : TxInv(q)'
<1> TypeOK /\ IsFiniteSet(tuples)
  BY DEF IInv
<1>0. PICK p \in Client : \/ Quiet(p) \/ InsertTuple(p) \/ DeleteTuple(p) \/ Cascade(p)
                          \/ AnchorConflict(p) \/ Rollback(p) \/ Commit(p)
  BY NextCases
<1>a. TxInv(p) /\ \A q \in Others(p) : TxInv(q)
  BY DEF IInv, Others
<1>1. CASE Quiet(p)
  <2>1. /\ Frame(p) /\ UNCHANGED <<db, tx>>
        /\ pc[p] \in {"idle", "decide", "conflict", "check", "cleanup"}
        /\ pc'[p] \in {"idle", "decide", "conflict", "check", "cleanup", "write"}
    BY <1>1, QuietFacts
  <2>2. /\ Touched(p) = {} /\ entries[p] = <<>> /\ Touched(p)' = {} /\ entries'[p] = <<>>
        /\ deleted'[p] = {} /\ inserted'[p] = {} /\ IsFiniteSet(inserted'[p])
    BY <1>a, <2>1 DEF TxInv, tx, Touched
  <2>3. pc'[p] \in {"decide", "conflict"} => at'[p] = 1
    <3>1. CASE \E r \in Request : Receive(p, r)
      BY <3>1 DEF Receive, TypeOK
    <3>2. CASE Decide(p)
      BY <1>a, <3>2 DEF Decide, At, TxInv
    <3>3. CASE CheckConflict(p) \/ NotAnchoredHere(p) \/ Refuse(p)
      BY <3>3 DEF CheckConflict, NotAnchoredHere, Refuse, Goto, Idle, TypeOK
    <3>4. CASE CheckTuple(p) \/ OwnerCleanup(p)
      BY <3>4, AdvanceFacts DEF CheckTuple, OwnerCleanup, TypeOK
    <3> QED
      BY <1>1, <3>1, <3>2, <3>3, <3>4 DEF Quiet
  <2>4. pc'[p] \in {"cleanup", "cascade"} => ~Grants(p)'
    <3>1. CASE \E r \in Request : Receive(p, r)
      BY <3>1 DEF Receive, Goto, TypeOK
    <3>2. CASE Decide(p) \/ CheckConflict(p) \/ Refuse(p)
      BY <3>2 DEF Decide, CheckConflict, Refuse, Goto, Idle, TypeOK
    <3>3. CASE NotAnchoredHere(p)
      BY <3>3, SameRequest DEF NotAnchoredHere
    <3>4. CASE CheckTuple(p) \/ OwnerCleanup(p)
      BY <3>4, AdvanceFacts DEF CheckTuple, OwnerCleanup, TypeOK
    <3> QED
      BY <1>1, <3>1, <3>2, <3>3, <3>4 DEF Quiet
  <2>5. TxInv(p)'
    BY <2>2, <2>3, <2>4 DEF TxInv
  <2>6. \A q \in Others(p) : TxInv(q)'
    BY <1>a, <2>1, <2>2, TxOthers DEF TxInv, db
  <2> QED
    BY <2>1, <2>5, <2>6 DEF db, Others
<1>2. CASE InsertTuple(p)
  <2> DEFINE t == Current(p)
  <2>1. /\ Frame(p) /\ tuples' = tuples /\ req' = req
        /\ Grants(p) /\ pc[p] = "write" /\ NextTuple(p)
        /\ deleted' = deleted /\ deleted[p] = {} /\ ~Waits(p, t)
    BY <1>2, InsertFacts
  <2>2. \/ inserted'[p] = inserted[p]
        \/ t \notin tuples \cup inserted[p] /\ inserted'[p] = inserted[p] \cup {t}
    BY <1>2, InsertFacts
  <2>3. pc'[p] \in {"write", "commit"}
    BY <2>1, NextTupleFacts DEF TypeOK
  <2>4. IsFiniteSet(inserted'[p]) /\ inserted'[p] \cap tuples = {}
    BY <1>a, <2>2, FS_AddElement DEF TxInv
  <2>5. \A q \in Others(p) : t \notin Touched(q)
    BY <2>1 DEF Waits, SameKey
  <2> HIDE DEF t
  <2>6. \A q \in Others(p) : Touched(p)' \cap Touched(q) = {}
    BY <1>a, <2>1, <2>2, <2>5 DEF TxInv, Touched
  <2> QED
    BY <2>1, <2>3, <2>4, <2>6, TxOwn
<1>3. CASE DeleteTuple(p)
  <2> DEFINE t == Current(p)
  <2>1. /\ Frame(p) /\ tuples' = tuples /\ req' = req /\ ~Grants(p) /\ pc[p] = "write"
        /\ inserted' = inserted /\ inserted[p] = {}
    BY <1>3, DeleteFacts
  <2>2. \/ deleted'[p] = deleted[p]
        \/ /\ t \in tuples /\ deleted'[p] = deleted[p] \cup {t}
           /\ \A q \in Others(p) : t \notin deleted[q]
    BY <1>3, DeleteFacts
  <2>3. pc'[p] \in {"write", "cascade", "commit"}
    BY <1>3, DeleteFacts, NextTupleFacts DEF TypeOK
  <2>4. deleted'[p] \subseteq tuples
    BY <1>a, <2>2 DEF TxInv
  <2> HIDE DEF t
  <2>5. \A q \in Others(p) : Touched(p)' \cap Touched(q) = {}
    BY <1>a, <2>1, <2>2 DEF TxInv, Touched
  <2>6. IsFiniteSet(inserted'[p])
    BY <2>1, FS_EmptySet
  <2> QED
    BY <2>1, <2>3, <2>4, <2>5, <2>6, TxOwn
<1>4. CASE Cascade(p)
  <2> DEFINE rest == {t \in tuples \ deleted[p] : t.obj = Current(p).obj}
  <2>1. /\ Frame(p) /\ tuples' = tuples /\ req' = req /\ ~Grants(p) /\ pc[p] = "cascade"
        /\ inserted' = inserted /\ inserted[p] = {} /\ NextTuple(p)
        /\ deleted'[p] = deleted[p] \cup rest
        /\ \A q \in Others(p) : rest \cap deleted[q] = {}
    BY <1>4, CascadeFacts
  <2>2. rest \subseteq tuples
    OBVIOUS
  <2> HIDE DEF rest
  <2>3. pc'[p] \in {"write", "commit"}
    BY <2>1, NextTupleFacts DEF TypeOK
  <2>4. deleted'[p] \subseteq tuples
    BY <1>a, <2>1, <2>2 DEF TxInv
  <2>5. \A q \in Others(p) : Touched(p)' \cap Touched(q) = {}
    BY <1>a, <2>1, <2>2 DEF TxInv, Touched
  <2>6. IsFiniteSet(inserted'[p])
    BY <2>1, FS_EmptySet
  <2> QED
    BY <2>1, <2>3, <2>4, <2>5, <2>6, TxOwn
<1>5. CASE AnchorConflict(p) \/ Rollback(p)
  <2>1. /\ Frame(p) /\ tuples' = tuples /\ pc'[p] = "idle" /\ inserted'[p] = {}
        /\ deleted'[p] = {} /\ entries'[p] = <<>>
    BY <1>5, RollbackFacts
  <2>2. Touched(p)' = {} /\ IsFiniteSet(inserted'[p])
    BY <2>1, FS_EmptySet DEF Touched
  <2>3. TxInv(p)'
    BY <2>1, <2>2 DEF TxInv
  <2>4. \A q \in Others(p) : TxInv(q)'
    BY <1>a, <2>1, <2>2, TxOthers DEF TxInv
  <2> QED
    BY <2>1, <2>3, <2>4 DEF Others
<1>6. CASE Commit(p)
  <2>1. /\ Frame(p) /\ pc'[p] = "idle" /\ inserted'[p] = {}
        /\ deleted'[p] = {} /\ entries'[p] = <<>>
        /\ tuples' = (tuples \ deleted[p]) \cup inserted[p]
    BY <1>6, CommitFacts
  <2>2. Touched(p)' = {} /\ IsFiniteSet(inserted'[p])
    BY <2>1, FS_EmptySet DEF Touched
  <2>3. TxInv(p)'
    BY <2>1, <2>2 DEF TxInv
  <2>4. ASSUME NEW q \in Others(p)
        PROVE  deleted[q] \subseteq tuples' /\ inserted[q] \cap tuples' = {}
    BY <1>a, <2>1, <2>4 DEF TxInv, Touched
  <2>5. \A q \in Others(p) : TxInv(q)'
    BY <2>1, <2>2, <2>4, TxOthers
  <2>6. IsFiniteSet(tuples')
    <3>1. IsFiniteSet(tuples \ deleted[p])
      BY FS_Difference
    <3> QED
      BY <1>a, <2>1, <3>1, FS_Union DEF TxInv
  <2> QED
    BY <2>3, <2>5, <2>6 DEF Others
<1> QED
  BY <1>0, <1>1, <1>2, <1>3, <1>4, <1>5, <1>6

\* One more tuple with its row.
LEMMA EntriesGrow ==
  ASSUME NEW p, NEW t \in Tuple, EntriesInv(p), entries[p] \in Seq(LedgerRow),
         req'[p] = req[p], req[p].op \in {"grant", "revoke"},
         Touched(p)' = Touched(p) \cup {t},
         entries'[p] = Append(entries[p], Entry(t, req[p].op))
  PROVE  EntriesInv(p)'
<1> DEFINE n == Len(entries[p])
<1>1. /\ DOMAIN entries'[p] = 1..(n + 1) /\ DOMAIN entries[p] = 1..n /\ n \in Nat
      /\ \A i \in 1..n : entries'[p][i] = entries[p][i]
      /\ entries'[p][n + 1].tuple = t /\ entries'[p][n + 1].op = req[p].op
  BY EntryAppend
<1> HIDE DEF n
<1>2. ASSUME NEW i \in DOMAIN entries'[p]
      PROVE  entries'[p][i].tuple \in Touched(p)' /\ entries'[p][i].op = req'[p].op
  <2>1. i \in DOMAIN entries[p] \/ i = n + 1
    BY <1>1
  <2> QED
    BY <1>1, <2>1 DEF EntriesInv
<1>3. ASSUME NEW u \in Touched(p)'
      PROVE  \E i \in DOMAIN entries'[p] : entries'[p][i].tuple = u
  <2>1. CASE u \in Touched(p)
    <3>1. PICK i \in DOMAIN entries[p] : entries[p][i].tuple = u
      BY <2>1 DEF EntriesInv
    <3>2. i \in DOMAIN entries'[p]
      BY <1>1
    <3> QED
      BY <1>1, <3>1, <3>2
  <2>2. CASE u = t
    <3>1. n + 1 \in DOMAIN entries'[p]
      BY <1>1
    <3> QED
      BY <1>1, <2>2, <3>1
  <2> QED
    BY <2>1, <2>2
<1> QED
  BY <1>2, <1>3 DEF EntriesInv

\* Every statement that changes a tuple writes its ledger row, and no other does.
LEMMA NextEntries ==
  ASSUME IInv, Next
  PROVE  \A q \in Client : EntriesInv(q)'
<1> TypeOK
  BY DEF IInv
<1>0. PICK p \in Client : \/ Quiet(p) \/ InsertTuple(p) \/ DeleteTuple(p) \/ Cascade(p)
                          \/ AnchorConflict(p) \/ Rollback(p) \/ Commit(p)
  BY NextCases
<1>a. TxInv(p) /\ EntriesInv(p) /\ entries[p] \in Seq(LedgerRow)
  BY DEF IInv, TypeOK, LedgerRow
<1>b. ASSUME Frame(p), NEW q \in Others(p) PROVE EntriesInv(q)'
  <2>1. EntriesInv(q) /\ entries'[q] = entries[q] /\ req'[q] = req[q]
    BY <1>b DEF IInv, Others, Frame
  <2>2. Touched(q)' = Touched(q)
    BY <1>b, SameOther
  <2> QED
    BY <2>1, <2>2 DEF EntriesInv
<1>c. ASSUME Touched(p)' = {}, entries'[p] = <<>> PROVE EntriesInv(p)'
  BY <1>c DEF EntriesInv
<1>1. CASE Quiet(p)
  <2>1. /\ Frame(p) /\ UNCHANGED tx
        /\ pc[p] \in {"idle", "decide", "conflict", "check", "cleanup"}
    BY <1>1, QuietFacts
  <2>2. Touched(p)' = {} /\ entries'[p] = <<>>
    BY <1>a, <2>1 DEF TxInv, tx, Touched
  <2> QED
    BY <1>b, <1>c, <2>1, <2>2 DEF Others
<1>2. CASE InsertTuple(p)
  <2> DEFINE t == Current(p)
  <2>1. /\ Frame(p) /\ req' = req /\ Grants(p) /\ deleted' = deleted /\ t \in Tuple
        /\ \/ inserted' = inserted /\ entries' = entries
           \/ /\ inserted'[p] = inserted[p] \cup {t}
              /\ entries'[p] = Append(entries[p], Entry(t, "grant"))
    BY <1>2, InsertFacts
  <2> HIDE DEF t
  <2>2. ASSUME inserted' = inserted, entries' = entries PROVE EntriesInv(p)'
    BY <1>a, <2>1, <2>2 DEF EntriesInv, Touched
  <2>3. ASSUME inserted'[p] = inserted[p] \cup {t},
               entries'[p] = Append(entries[p], Entry(t, "grant"))
        PROVE  EntriesInv(p)'
    <3>1. Touched(p)' = Touched(p) \cup {t}
      BY <2>1, <2>3 DEF Touched
    <3>2. req'[p] = req[p] /\ req[p].op = "grant"
      BY <2>1 DEF Grants
    <3> QED
      BY <1>a, <2>1, <2>3, <3>1, <3>2, EntriesGrow
  <2>4. EntriesInv(p)'
    BY <2>1, <2>2, <2>3
  <2> QED
    BY <1>b, <2>1, <2>4 DEF Others
<1>3. CASE DeleteTuple(p)
  <2> DEFINE t == Current(p)
  <2>1. /\ Frame(p) /\ req' = req /\ ~Grants(p) /\ inserted' = inserted /\ t \in Tuple
        /\ \/ deleted' = deleted /\ entries' = entries
           \/ /\ deleted'[p] = deleted[p] \cup {t}
              /\ entries'[p] = Append(entries[p], Entry(t, "revoke"))
    BY <1>3, DeleteFacts
  <2> HIDE DEF t
  <2>2. ASSUME deleted' = deleted, entries' = entries PROVE EntriesInv(p)'
    BY <1>a, <2>1, <2>2 DEF EntriesInv, Touched
  <2>3. ASSUME deleted'[p] = deleted[p] \cup {t},
               entries'[p] = Append(entries[p], Entry(t, "revoke"))
        PROVE  EntriesInv(p)'
    <3>1. Touched(p)' = Touched(p) \cup {t}
      BY <2>1, <2>3 DEF Touched
    <3>2. req'[p] = req[p] /\ req[p].op = "revoke"
      BY <2>1, BodyFacts DEF Grants
    <3> QED
      BY <1>a, <2>1, <2>3, <3>1, <3>2, EntriesGrow
  <2>4. EntriesInv(p)'
    BY <2>1, <2>2, <2>3
  <2> QED
    BY <1>b, <2>1, <2>4 DEF Others
<1>4. CASE Cascade(p)
  <2> DEFINE rest == {t \in tuples \ deleted[p] : t.obj = Current(p).obj}
             n == Len(entries[p])
  <2>1. /\ Frame(p) /\ req' = req /\ ~Grants(p) /\ inserted' = inserted
        /\ deleted'[p] = deleted[p] \cup rest
    BY <1>4, CascadeFacts
  <2>2. PICK X \in Seq(LedgerRow) :
              /\ entries'[p] = entries[p] \o X
              /\ \A i \in DOMAIN X : X[i].tuple \in rest /\ X[i].op = "revoke"
              /\ \A t \in rest : \E i \in DOMAIN X : X[i].tuple = t
    BY <1>4, CascadeFacts
  <2> HIDE DEF rest
  <2>3. Touched(p)' = Touched(p) \cup rest
    BY <2>1 DEF Touched
  <2>4. /\ n \in Nat /\ DOMAIN entries[p] = 1..n /\ DOMAIN X = 1..Len(X) /\ Len(X) \in Nat
        /\ DOMAIN entries'[p] = 1..(n + Len(X))
        /\ \A i \in DOMAIN entries[p] : entries'[p][i] = entries[p][i]
        /\ \A i \in DOMAIN X : entries'[p][n + i] = X[i]
        /\ \A i \in DOMAIN entries'[p] :
             i \in DOMAIN entries[p] \/ \E j \in DOMAIN X : i = n + j
    BY <1>a, <2>2, ConcatFacts
  <2>5. req'[p].op = "revoke" /\ req[p].op = "revoke"
    BY <2>1, BodyFacts DEF Grants
  <2>6. ASSUME NEW i \in DOMAIN entries'[p]
        PROVE  entries'[p][i].tuple \in Touched(p)' /\ entries'[p][i].op = req'[p].op
    BY <1>a, <2>2, <2>3, <2>4, <2>5, <2>6 DEF EntriesInv
  <2>7. ASSUME NEW t \in Touched(p)'
        PROVE  \E i \in DOMAIN entries'[p] : entries'[p][i].tuple = t
    <3>1. CASE t \in Touched(p)
      <4>1. PICK i \in DOMAIN entries[p] : entries[p][i].tuple = t
        BY <1>a, <3>1 DEF EntriesInv
      <4>2. i \in DOMAIN entries'[p]
        BY <2>4, <4>1
      <4> QED
        BY <2>4, <4>1, <4>2
    <3>2. CASE t \in rest
      <4>1. PICK i \in DOMAIN X : X[i].tuple = t
        BY <2>2, <3>2
      <4>2. n + i \in DOMAIN entries'[p]
        BY <2>4, <4>1
      <4> QED
        BY <2>4, <4>1, <4>2
    <3> QED
      BY <2>3, <3>1, <3>2
  <2>8. EntriesInv(p)'
    BY <2>6, <2>7 DEF EntriesInv
  <2> QED
    BY <1>b, <2>1, <2>8 DEF Others
<1>5. CASE AnchorConflict(p) \/ Rollback(p) \/ Commit(p)
  <2>1. Frame(p) /\ inserted'[p] = {} /\ deleted'[p] = {} /\ entries'[p] = <<>>
    BY <1>5, RollbackFacts, CommitFacts
  <2>2. Touched(p)' = {}
    BY <2>1 DEF Touched
  <2> QED
    BY <1>b, <1>c, <2>1, <2>2 DEF Others
<1> QED
  BY <1>0, <1>1, <1>2, <1>3, <1>4, <1>5

\* Two pending or stored anchors of one object are one: an INSERT waits for
\* transactions that touched the object's anchor and finds no other.
LEMMA NextOneAnchor ==
  ASSUME IInv, Next
  PROVE  OneAnchor'
<1> TypeOK /\ OneAnchor
  BY DEF IInv
<1>0. PICK p \in Client : \/ Quiet(p) \/ InsertTuple(p) \/ DeleteTuple(p) \/ Cascade(p)
                          \/ AnchorConflict(p) \/ Rollback(p) \/ Commit(p)
  BY NextCases
<1>a. ASSUME tuples' \subseteq tuples \cup Pending, Frame(p), inserted'[p] \subseteq inserted[p]
      PROVE  OneAnchor'
  <2>1. Pending' \subseteq Pending
    BY <1>a DEF Pending, Frame, Others
  <2> QED
    BY <1>a, <2>1 DEF OneAnchor
<1>1. CASE Quiet(p)
  BY <1>a, <1>1, QuietFacts DEF db, tx
<1>2. CASE InsertTuple(p)
  <2> DEFINE t == Current(p)
  <2>1. /\ Frame(p) /\ tuples' = tuples /\ ~Waits(p, t)
        /\ t.rel = "anchor" =>
             \A u \in tuples \cup inserted[p] : u.rel = "anchor" /\ u.obj = t.obj => u = t
        /\ \/ inserted' = inserted
           \/ inserted'[p] = inserted[p] \cup {t}
    BY <1>2, InsertFacts
  <2>2. CASE inserted' = inserted
    BY <1>a, <2>1, <2>2
  <2>3. CASE inserted'[p] = inserted[p] \cup {t}
    <3>1. ASSUME NEW q \in Others(p), NEW u \in inserted[q], t.rel = "anchor",
                 u.rel = "anchor", u.obj = t.obj
          PROVE  FALSE
      BY <2>1, <3>1 DEF Waits, SameKey, Touched
    <3> HIDE DEF t
    <3>2. Pending' \subseteq Pending \cup {t}
      BY <2>1, <2>3 DEF Pending, Frame, Others
    <3>3. ASSUME NEW u \in tuples \cup Pending, t.rel = "anchor", u.rel = "anchor",
                 u.obj = t.obj
          PROVE  u = t
      <4>1. CASE u \in tuples \cup inserted[p]
        BY <2>1, <3>3, <4>1
      <4>2. CASE \E q \in Others(p) : u \in inserted[q]
        BY <3>1, <3>3, <4>2
      <4> QED
        BY <3>3, <4>1, <4>2 DEF Pending, Others
    <3> QED
      BY <2>1, <3>2, <3>3 DEF OneAnchor
  <2> QED
    BY <2>1, <2>2, <2>3
<1>3. CASE DeleteTuple(p)
  BY <1>a, <1>3, DeleteFacts
<1>4. CASE Cascade(p)
  BY <1>a, <1>4, CascadeFacts
<1>5. CASE AnchorConflict(p) \/ Rollback(p)
  BY <1>a, <1>5, RollbackFacts
<1>6. CASE Commit(p)
  <2>1. /\ Frame(p) /\ inserted'[p] = {}
        /\ tuples' = (tuples \ deleted[p]) \cup inserted[p]
    BY <1>6, CommitFacts
  <2> QED
    BY <1>a, <2>1 DEF Pending
<1> QED
  BY <1>0, <1>1, <1>2, <1>3, <1>4, <1>5, <1>6

\* A commit that ends an anchor under a grant in flight is recorded.
LEMMA CommitRaces ==
  ASSUME IInv, NEW p \in Client, Commit(p), NEW q \in Others(p), Grants(q),
         pc[q] \in {"check", "write", "commit"}, NEW i \in DOMAIN Body(q),
         NEW a \in tuples, a.rel = "anchor", a.obj = Body(q)[i].obj, a \notin tuples'
  PROVE  a.obj \in raced'
<1>1. a \in deleted[p] /\ a \in Tuple
  BY CommitFacts DEF IInv, TypeOK
<1>2. a.obj \in Object
  BY <1>1, TupleFacts
<1>3. AnchorsOf(deleted[p], a.obj) # {}
  BY <1>1 DEF AnchorsOf
<1>4. Races(p, a.obj)
  BY <1>3 DEF Races, InFlight
<1> QED
  BY <1>2, <1>4, CommitFacts

\* The grants in flight, when another request takes a step.
LEMMA FlightOthers ==
  ASSUME IInv, NEW p \in Client, Frame(p),
         UNCHANGED <<tuples, raced>> \/ Commit(p)
  PROVE  \A q \in Others(p) : FlightInv(q)'
<1> SUFFICES ASSUME NEW q \in Others(p), Grants(q)' PROVE FlightInv(q)'
  BY DEF FlightInv
<1> TypeOK
  BY DEF IInv
<1>1. q \in Client /\ FlightInv(q)
  BY DEF IInv, Others
<1>2. /\ Body(q)' = Body(q) /\ Grants(q) /\ inserted'[q] = inserted[q] /\ req'[q] = req[q]
      /\ \A o : InRequestAnchor(q, o)' <=> InRequestAnchor(q, o)
      /\ \A i : CheckedTo(q, i)' <=> CheckedTo(q, i)
      /\ \A i : WrittenTo(q, i)' <=> WrittenTo(q, i)
  BY SameOther DEF Frame
<1>3. raced \subseteq raced'
  BY CommitFacts
<1>4. ASSUME NEW i \in DOMAIN Body(q), CheckedTo(q, i), Body(q)[i].rel # "admin"
      PROVE  LET t == Body(q)[i] IN
             \/ t.obj \in raced'
             \/ Anchor(t.obj, req[q].company) \in tuples'
             \/ InRequestAnchor(q, t.obj)
  <2> DEFINE t == Body(q)[i]
             a == Anchor(t.obj, req[q].company)
  <2>1. pc[q] \in {"check", "write", "commit"}
    BY <1>4 DEF CheckedTo
  <2>2. a.rel = "anchor" /\ a.obj = t.obj
    BY DEF Anchor
  <2>3. t.obj \in raced \/ a \in tuples \/ InRequestAnchor(q, t.obj)
    BY <1>1, <1>2, <1>4 DEF FlightInv
  <2>4. a \in tuples => a \in tuples' \/ t.obj \in raced'
    <3> HIDE DEF a
    <3> QED
      BY <1>2, <2>1, <2>2, CommitRaces
  <2> QED
    BY <1>3, <2>3, <2>4
<1>5. ASSUME NEW i \in DOMAIN Body(q), WrittenTo(q, i), Body(q)[i].rel = "anchor"
      PROVE  LET t == Body(q)[i] IN t.obj \in raced' \/ t \in tuples' \cup inserted[q]
  <2> DEFINE t == Body(q)[i]
  <2>1. pc[q] \in {"check", "write", "commit"}
    BY <1>5 DEF WrittenTo
  <2>2. t.obj \in raced \/ t \in tuples \cup inserted[q]
    BY <1>1, <1>2, <1>5 DEF FlightInv
  <2>3. t \in tuples => t \in tuples' \/ t.obj \in raced'
    BY <1>2, <1>5, <2>1, CommitRaces
  <2> QED
    BY <1>3, <2>2, <2>3
<1>6. \A t \in inserted[q] : \E i \in DOMAIN Body(q) : Body(q)[i] = t
  BY <1>1, <1>2 DEF FlightInv
<1>7. \A o, c : Anchor(o, c)' = Anchor(o, c)
  BY DEF Anchor
<1> QED
  BY <1>2, <1>4, <1>5, <1>6, <1>7 DEF FlightInv

\* What a grant in flight has checked and written still stands, or was raced.
LEMMA NextFlight ==
  ASSUME IInv, Next
  PROVE  \A q \in Client : FlightInv(q)'
<1> TypeOK
  BY DEF IInv
<1>0. PICK p \in Client : \/ Quiet(p) \/ InsertTuple(p) \/ DeleteTuple(p) \/ Cascade(p)
                          \/ AnchorConflict(p) \/ Rollback(p) \/ Commit(p)
  BY NextCases
<1>a. TxInv(p) /\ FlightInv(p)
  BY DEF IInv
<1>b. ASSUME Frame(p), UNCHANGED <<tuples, raced>> \/ Commit(p), FlightInv(p)'
      PROVE  \A q \in Client : FlightInv(q)'
  BY <1>b, FlightOthers DEF Others
<1>c. ASSUME inserted'[p] = {}, pc'[p] \notin {"check", "write", "commit"}
      PROVE  FlightInv(p)'
  BY <1>c DEF FlightInv, CheckedTo, WrittenTo
<1>d. /\ DOMAIN Body(p) = 1..Len(Body(p)) /\ Len(Body(p)) \in Nat /\ at[p] \in Nat
      /\ at[p] \in DOMAIN Body(p)
  BY BodyFacts
<1>1. CASE Quiet(p)
  <2>1. /\ Frame(p) /\ UNCHANGED <<tuples, raced>> /\ inserted' = inserted
        /\ pc[p] \in {"idle", "decide", "conflict", "check", "cleanup"}
    BY <1>1, QuietFacts DEF db, tx
  <2>2. inserted'[p] = {}
    BY <1>a, <2>1 DEF TxInv, Touched
  <2>3. ASSUME \E r \in Request : Receive(p, r) PROVE FlightInv(p)'
    <3>1. pc'[p] = "decide"
      BY <2>3 DEF Receive, Goto, TypeOK
    <3> QED
      BY <1>c, <2>2, <3>1
  <2>4. ASSUME Decide(p) \/ NotAnchoredHere(p) \/ Refuse(p) PROVE FlightInv(p)'
    <3>1. pc'[p] \in {"conflict", "cleanup", "idle"}
      BY <2>4 DEF Decide, NotAnchoredHere, Refuse, Goto, Idle, TypeOK
    <3> QED
      BY <1>c, <2>2, <3>1
  <2>5. ASSUME CheckConflict(p) PROVE FlightInv(p)'
    <3>1. pc'[p] = "check" /\ at'[p] = 1 /\ req' = req
      BY <1>a, <2>5 DEF CheckConflict, At, Goto, TypeOK, TxInv
    <3>2. Body(p)' = Body(p)
      BY <3>1, SameRequest
    <3>3. \A i \in DOMAIN Body(p) : ~CheckedTo(p, i)' /\ ~WrittenTo(p, i)'
      BY <1>d, <3>1 DEF CheckedTo, WrittenTo
    <3> QED
      BY <2>2, <3>2, <3>3 DEF FlightInv
  <2>6. ASSUME CheckTuple(p) PROVE FlightInv(p)'
    <3>1. Advance(p) /\ Admissible(p, Current(p)) /\ pc[p] = "check" /\ req' = req
      BY <2>6 DEF CheckTuple, At
    <3>2. /\ Body(p)' = Body(p) /\ (Grants(p)' <=> Grants(p))
          /\ \A o : InRequestAnchor(p, o)' <=> InRequestAnchor(p, o)
      BY <3>1, SameRequest
    <3>3. \/ at[p] = Len(Body(p)) /\ at'[p] = 1 /\ pc'[p] = "write"
          \/ at'[p] = at[p] + 1 /\ pc'[p] = "check"
      BY <3>1, AdvanceFacts DEF TypeOK
    <3>4. ASSUME NEW i \in DOMAIN Body(p), CheckedTo(p, i)', i # at[p] PROVE CheckedTo(p, i)
      <4>1. i \in Nat /\ i < at[p]
        BY <1>d, <3>3, <3>4 DEF CheckedTo
      <4> QED
        BY <3>1, <4>1 DEF CheckedTo
    <3>5. \A i \in DOMAIN Body(p) : ~WrittenTo(p, i)'
      BY <1>d, <3>3 DEF WrittenTo
    <3>6. ASSUME Grants(p), Body(p)[at[p]].rel # "admin"
          PROVE  LET t == Body(p)[at[p]] IN
                 Anchor(t.obj, req[p].company) \in tuples \/ InRequestAnchor(p, t.obj)
      BY <3>1, <3>6 DEF Admissible, Current
    <3>7. ASSUME Grants(p), NEW i \in DOMAIN Body(p), CheckedTo(p, i)', Body(p)[i].rel # "admin"
          PROVE  LET t == Body(p)[i] IN
                 \/ t.obj \in raced
                 \/ Anchor(t.obj, req[p].company) \in tuples
                 \/ InRequestAnchor(p, t.obj)
      <4>1. CASE i = at[p]
        BY <3>6, <3>7, <4>1
      <4>2. CASE i # at[p]
        BY <1>a, <3>4, <3>7, <4>2 DEF FlightInv
      <4> QED
        BY <4>1, <4>2
    <3>8. \A o, c : Anchor(o, c)' = Anchor(o, c)
      BY DEF Anchor
    <3> QED
      BY <2>1, <2>2, <3>1, <3>2, <3>5, <3>7, <3>8 DEF FlightInv
  <2>7. ASSUME OwnerCleanup(p) PROVE FlightInv(p)'
    <3>1. pc[p] = "cleanup" /\ req' = req
      BY <2>7 DEF OwnerCleanup, At
    <3>2. ~Grants(p)'
      BY <1>a, <3>1, SameRequest DEF TxInv
    <3> QED
      BY <3>2 DEF FlightInv
  <2> QED
    BY <1>1, <1>b, <2>1, <2>3, <2>4, <2>5, <2>6, <2>7 DEF Quiet
<1>2. CASE InsertTuple(p)
  <2> DEFINE t == Current(p)
  <2>1. /\ Frame(p) /\ UNCHANGED <<tuples, raced>> /\ req' = req
        /\ Grants(p) /\ pc[p] = "write" /\ NextTuple(p)
        /\ \/ t \in tuples \cup inserted[p] /\ inserted'[p] = inserted[p]
           \/ inserted'[p] = inserted[p] \cup {t}
    BY <1>2, InsertFacts
  <2>2. /\ Body(p)' = Body(p)
        /\ \A o : InRequestAnchor(p, o)' <=> InRequestAnchor(p, o)
    BY <2>1, SameRequest
  <2>3. \/ at[p] = Len(Body(p)) /\ pc'[p] = "commit"
        \/ at'[p] = at[p] + 1 /\ pc'[p] = "write"
    BY <2>1, NextTupleFacts DEF TypeOK
  <2>4. \A i \in DOMAIN Body(p) : CheckedTo(p, i)
    BY <2>1 DEF CheckedTo
  <2>5. ASSUME NEW i \in DOMAIN Body(p), WrittenTo(p, i)', i # at[p] PROVE WrittenTo(p, i)
    <3>1. i \in Nat /\ i < at[p]
      BY <1>d, <2>3, <2>5 DEF WrittenTo
    <3> QED
      BY <2>1, <3>1 DEF WrittenTo
  <2>6. /\ t = Body(p)[at[p]] /\ t \in tuples \cup inserted'[p]
        /\ inserted[p] \subseteq inserted'[p]
    BY <2>1 DEF Current
  <2> HIDE DEF t
  <2>7. ASSUME NEW i \in DOMAIN Body(p), WrittenTo(p, i)', Body(p)[i].rel = "anchor"
        PROVE  Body(p)[i].obj \in raced \/ Body(p)[i] \in tuples \cup inserted'[p]
    <3>1. CASE i = at[p]
      BY <2>6, <3>1
    <3>2. CASE i # at[p]
      BY <1>a, <2>1, <2>5, <2>6, <2>7, <3>2 DEF FlightInv
    <3> QED
      BY <3>1, <3>2
  <2>8. \A u \in inserted'[p] : \E i \in DOMAIN Body(p) : Body(p)[i] = u
    BY <1>a, <1>d, <2>1, <2>6 DEF FlightInv
  <2>9. ASSUME NEW i \in DOMAIN Body(p), Body(p)[i].rel # "admin"
        PROVE  LET u == Body(p)[i] IN
               \/ u.obj \in raced
               \/ Anchor(u.obj, req[p].company) \in tuples
               \/ InRequestAnchor(p, u.obj)
    BY <1>a, <2>1, <2>4, <2>9 DEF FlightInv
  <2>10. \A o, c : Anchor(o, c)' = Anchor(o, c)
    BY DEF Anchor
  <2>11. FlightInv(p)'
    BY <2>1, <2>2, <2>7, <2>8, <2>9, <2>10 DEF FlightInv
  <2> QED
    BY <1>b, <2>1, <2>11
<1>3. CASE DeleteTuple(p) \/ Cascade(p)
  <2>1. Frame(p) /\ UNCHANGED <<tuples, raced>> /\ req' = req /\ ~Grants(p)
    BY <1>3, DeleteFacts, CascadeFacts
  <2>2. ~Grants(p)'
    BY <2>1, SameRequest
  <2>3. FlightInv(p)'
    BY <2>2 DEF FlightInv
  <2> QED
    BY <1>b, <2>1, <2>3
<1>4. CASE AnchorConflict(p) \/ Rollback(p)
  BY <1>4, <1>b, <1>c, RollbackFacts
<1>5. CASE Commit(p)
  BY <1>5, <1>b, <1>c, CommitFacts
<1> QED
  BY <1>0, <1>1, <1>2, <1>3, <1>4, <1>5

\* The revokes under way, when another request takes a step: a grant on the
\* object that commits now is recorded.
LEMMA CascadeOthers ==
  ASSUME IInv, NEW p \in Client, Frame(p),
         UNCHANGED <<tuples, raced>> \/ Commit(p)
  PROVE  \A q \in Others(p) : CascadeInv(q)'
<1> SUFFICES ASSUME NEW q \in Others(p) PROVE CascadeInv(q)'
  OBVIOUS
<1>1. CascadeInv(q) /\ deleted[q] \subseteq Tuple
  BY DEF IInv, Others, TypeOK
<1>2. pc'[q] = pc[q] /\ deleted'[q] = deleted[q] /\ Current(q)' = Current(q)
  BY SameOther DEF Frame
<1>3. raced \subseteq raced'
  BY CommitFacts
<1>4. ASSUME NEW a \in deleted[q], a.rel = "anchor",
             ~(pc[q] = "cascade" /\ Current(q).obj = a.obj)
      PROVE  a.obj \in raced' \/ \A t \in tuples' : t.obj = a.obj => t \in deleted[q]
  <2>1. a.obj \in raced \/ \A t \in tuples : t.obj = a.obj => t \in deleted[q]
    BY <1>1, <1>4 DEF CascadeInv
  <2>2. ASSUME Commit(p), NEW t \in inserted[p], t.obj = a.obj PROVE a.obj \in raced'
    <3>1. a.obj \in Object
      BY <1>1, <1>4, TupleFacts
    <3>2. AnchorsOf(deleted[q], a.obj) # {}
      BY <1>4 DEF AnchorsOf
    <3>3. Races(p, a.obj)
      BY <2>2, <3>2 DEF Races
    <3> QED
      BY <2>2, <3>1, <3>3, CommitFacts
  <2>3. Commit(p) => tuples' \subseteq tuples \cup inserted[p]
    BY CommitFacts
  <2> QED
    BY <1>3, <2>1, <2>2, <2>3
<1> QED
  BY <1>1, <1>2, <1>4 DEF CascadeInv

\* A revoked anchor takes the whole object along, or was raced.
LEMMA NextCascade ==
  ASSUME IInv, Next
  PROVE  \A q \in Client : CascadeInv(q)'
<1> TypeOK
  BY DEF IInv
<1>0. PICK p \in Client : \/ Quiet(p) \/ InsertTuple(p) \/ DeleteTuple(p) \/ Cascade(p)
                          \/ AnchorConflict(p) \/ Rollback(p) \/ Commit(p)
  BY NextCases
<1>a. TxInv(p) /\ CascadeInv(p)
  BY DEF IInv
<1>b. ASSUME Frame(p), UNCHANGED <<tuples, raced>> \/ Commit(p), CascadeInv(p)'
      PROVE  \A q \in Client : CascadeInv(q)'
  BY <1>b, CascadeOthers DEF Others
<1>c. ASSUME deleted'[p] = {}, pc'[p] # "cascade" PROVE CascadeInv(p)'
  BY <1>c DEF CascadeInv
<1>1. CASE Quiet(p)
  <2>1. /\ Frame(p) /\ UNCHANGED <<tuples, raced>> /\ deleted' = deleted
        /\ pc[p] \in {"idle", "decide", "conflict", "check", "cleanup"} /\ pc'[p] # "cascade"
    BY <1>1, QuietFacts DEF db, tx
  <2>2. deleted'[p] = {}
    BY <1>a, <2>1 DEF TxInv, Touched
  <2> QED
    BY <1>b, <1>c, <2>1, <2>2
<1>2. CASE InsertTuple(p)
  <2>1. /\ Frame(p) /\ UNCHANGED <<tuples, raced>> /\ deleted' = deleted /\ deleted[p] = {}
        /\ NextTuple(p)
    BY <1>2, InsertFacts
  <2>2. pc'[p] # "cascade"
    BY <2>1, NextTupleFacts DEF TypeOK
  <2> QED
    BY <1>b, <1>c, <2>1, <2>2
<1>3. CASE DeleteTuple(p)
  <2> DEFINE t == Current(p)
  <2>1. Frame(p) /\ UNCHANGED <<tuples, raced>> /\ req' = req /\ pc[p] = "write"
    BY <1>3, DeleteFacts
  <2>2. \/ NextTuple(p) /\ deleted'[p] = deleted[p]
        \/ /\ deleted'[p] = deleted[p] \cup {t}
           /\ \/ t.rel = "anchor" /\ pc'[p] = "cascade" /\ at' = at
              \/ t.rel # "anchor" /\ NextTuple(p)
    BY <1>3, DeleteFacts DEF TypeOK
  <2>3. NextTuple(p) => pc'[p] # "cascade"
    BY NextTupleFacts DEF TypeOK
  <2>4. at' = at => Current(p)' = t
    BY <2>1, SameRequest DEF Current
  <2> HIDE DEF t
  <2>5. \A a \in deleted[p] : a.rel = "anchor" =>
          a.obj \in raced \/ \A u \in tuples : u.obj = a.obj => u \in deleted[p]
    BY <1>a, <2>1 DEF CascadeInv
  <2>6. CascadeInv(p)'
    BY <2>1, <2>2, <2>3, <2>4, <2>5 DEF CascadeInv
  <2> QED
    BY <1>b, <2>1, <2>6
<1>4. CASE Cascade(p)
  <2> DEFINE rest == {t \in tuples \ deleted[p] : t.obj = Current(p).obj}
  <2>1. /\ Frame(p) /\ UNCHANGED <<tuples, raced>> /\ NextTuple(p) /\ pc[p] = "cascade"
        /\ deleted'[p] = deleted[p] \cup rest
    BY <1>4, CascadeFacts
  <2>2. pc'[p] # "cascade"
    BY <2>1, NextTupleFacts DEF TypeOK
  <2>3. ASSUME NEW a \in deleted'[p], a.rel = "anchor"
        PROVE  a.obj \in raced \/ \A u \in tuples : u.obj = a.obj => u \in deleted'[p]
    <3>1. CASE a.obj = Current(p).obj
      BY <2>1, <3>1
    <3>2. CASE a.obj # Current(p).obj
      <4>1. a \in deleted[p]
        BY <2>1, <2>3, <3>2
      <4>2. a.obj \in raced \/ \A u \in tuples : u.obj = a.obj => u \in deleted[p]
        BY <1>a, <2>3, <3>2, <4>1 DEF CascadeInv
      <4> QED
        BY <2>1, <4>2
    <3> QED
      BY <3>1, <3>2
  <2> HIDE DEF rest
  <2>4. CascadeInv(p)'
    BY <2>1, <2>2, <2>3 DEF CascadeInv
  <2> QED
    BY <1>b, <2>1, <2>4
<1>5. CASE AnchorConflict(p) \/ Rollback(p)
  BY <1>5, <1>b, <1>c, RollbackFacts
<1>6. CASE Commit(p)
  BY <1>6, <1>b, <1>c, CommitFacts
<1> QED
  BY <1>0, <1>1, <1>2, <1>3, <1>4, <1>5, <1>6

\* Only a commit changes what is stored, and in the ledger.
LEMMA OnlyCommits ==
  ASSUME IInv, Next
  PROVE  UNCHANGED <<tuples, ledger, grantedFor, raced>> \/ \E p \in Client : Commit(p)
BY NextCases, QuietFacts, InsertFacts, DeleteFacts, CascadeFacts, RollbackFacts DEF db

\* A role committed by a grant finds the anchor the grant checked or brought; a
\* role that stays finds its anchor, whose end would have taken the role along.
LEMMA NextRole ==
  ASSUME IInv, Next
  PROVE  RoleInv'
<1> TypeOK /\ RoleInv /\ OneAnchor
  BY DEF IInv
<1>1. CASE UNCHANGED <<tuples, ledger, grantedFor, raced>>
  BY <1>1 DEF RoleInv, Anchor
<1>2. ASSUME NEW p \in Client, Commit(p) PROVE RoleInv'
  <2>1. /\ tuples' = (tuples \ deleted[p]) \cup inserted[p] /\ pc[p] = "commit"
        /\ \A t \in inserted[p] : grantedFor'[t] = req[p].company
        /\ \A t \in Tuple \ inserted[p] : grantedFor'[t] = grantedFor[t]
        /\ raced \subseteq raced'
    BY <1>2, CommitFacts
  <2>2. TxInv(p) /\ FlightInv(p) /\ CascadeInv(p)
    BY DEF IInv
  <2>3. \A o, c : Anchor(o, c)' = Anchor(o, c) /\ Anchor(o, c).rel = "anchor"
                  /\ Anchor(o, c).obj = o
    BY DEF Anchor
  <2>4. tuples \subseteq Tuple /\ inserted[p] \subseteq Tuple
    BY DEF TypeOK
  <2>5. ASSUME NEW t \in inserted[p], t.rel = "role", t.obj \notin raced'
        PROVE  Anchor(t.obj, req[p].company) \in tuples'
    <3> DEFINE a == Anchor(t.obj, req[p].company)
    <3>1. Grants(p) /\ deleted[p] = {}
      BY <2>2, <2>5 DEF TxInv
    <3>2. PICK i \in DOMAIN Body(p) : Body(p)[i] = t
      BY <2>2, <2>5, <3>1 DEF FlightInv
    <3>3. CheckedTo(p, i)
      BY <2>1 DEF CheckedTo
    <3>4. a \in tuples \/ InRequestAnchor(p, t.obj)
      BY <2>1, <2>2, <2>5, <3>1, <3>2, <3>3 DEF FlightInv
    <3>5. ASSUME InRequestAnchor(p, t.obj) PROVE a \in tuples \cup inserted[p]
      <4>1. PICK j \in DOMAIN Body(p) : Body(p)[j] = a
        BY <3>5 DEF InRequestAnchor
      <4>2. WrittenTo(p, j)
        BY <2>1 DEF WrittenTo
      <4>3. a.rel = "anchor" /\ a.obj = t.obj /\ a.obj \notin raced
        BY <2>1, <2>3, <2>5
      <4> HIDE DEF a
      <4> QED
        BY <2>2, <3>1, <4>1, <4>2, <4>3 DEF FlightInv
    <3> QED
      BY <2>1, <3>1, <3>4, <3>5
  <2>6. ASSUME NEW t \in tuples \ deleted[p], t \notin inserted[p], t.rel = "role",
               t.obj \notin raced'
        PROVE  Anchor(t.obj, grantedFor'[t]) \in tuples'
    <3> DEFINE a == Anchor(t.obj, grantedFor[t])
    <3>1. grantedFor'[t] = grantedFor[t] /\ a \in tuples
      BY <2>1, <2>4, <2>6 DEF RoleInv
    <3>2. ASSUME a \in deleted[p] PROVE FALSE
      <4>1. a.rel = "anchor" /\ a.obj = t.obj
        BY <2>3
      <4> HIDE DEF a
      <4> QED
        BY <2>1, <2>2, <2>6, <3>2, <4>1 DEF CascadeInv
    <3> QED
      BY <2>1, <3>1, <3>2
  <2>7. ASSUME NEW t \in tuples', t.rel = "role", t.obj \notin raced'
        PROVE  Anchor(t.obj, grantedFor'[t]) \in tuples'
    <3>1. CASE t \in inserted[p]
      BY <2>1, <2>5, <2>7, <3>1
    <3>2. CASE t \notin inserted[p]
      BY <2>1, <2>6, <2>7, <3>2
    <3> QED
      BY <3>1, <3>2
  <2> QED
    BY <2>3, <2>7 DEF RoleInv
<1> QED
  BY <1>1, <1>2, OnlyCommits

\* The commit appends one row per tuple it changes, of its request's operation.
LEMMA NextLedger ==
  ASSUME IInv, Next
  PROVE  LedgerReplays'
<1> TypeOK /\ LedgerReplays
  BY DEF IInv
<1>1. CASE UNCHANGED <<tuples, ledger, grantedFor, raced>>
  BY <1>1 DEF LedgerReplays, LastEntry
<1>2. ASSUME NEW p \in Client, Commit(p) PROVE LedgerReplays'
  <2> SUFFICES ASSUME NEW t \in Tuple
               PROVE  t \in tuples' <=> \/ LastEntry(t)' = "grant"
                                        \/ LastEntry(t)' = "none" /\ t \in InitTuples
    BY DEF LedgerReplays
  <2>1. /\ tuples' = (tuples \ deleted[p]) \cup inserted[p]
        /\ ledger' = ledger \o entries[p]
        /\ entries[p] \in Seq(LedgerRow) /\ ledger \in Seq(LedgerRow)
    BY <1>2, CommitFacts
  <2>2. TxInv(p) /\ EntriesInv(p)
    BY DEF IInv
  <2>3. /\ (\A i \in DOMAIN entries[p] : entries[p][i].tuple # t)
             => LastEntry(t)' = LastEntry(t)
        /\ (\E i \in DOMAIN entries[p] : entries[p][i].tuple = t)
             => LastEntry(t)' = req[p].op
    <3> DEFINE X == entries[p]
               op == req[p].op
    <3>1. /\ X \in Seq(LedgerRow) /\ ledger \in Seq(LedgerRow) /\ ledger' = ledger \o X
          /\ \A i \in DOMAIN X : X[i].op = op
      BY <2>1, <2>2 DEF EntriesInv
    <3> HIDE DEF X, op
    <3>2. /\ (\A i \in DOMAIN X : X[i].tuple # t) => LastEntry(t)' = LastEntry(t)
          /\ (\E i \in DOMAIN X : X[i].tuple = t) => LastEntry(t)' = op
      BY <3>1, LedgerAppend, Zenon
    <3> QED
      BY <3>2 DEF X, op
  <2>4. CASE t \in Touched(p)
    <3>1. LastEntry(t)' = req[p].op
      BY <2>2, <2>3, <2>4 DEF EntriesInv
    <3>2. CASE Grants(p)
      BY <2>1, <2>2, <2>4, <3>1, <3>2 DEF TxInv, Touched, Grants
    <3>3. CASE ~Grants(p)
      <4>1. req[p].op = "revoke"
        BY <3>3, BodyFacts DEF Grants
      <4> QED
        BY <2>1, <2>2, <2>4, <3>1, <3>3, <4>1 DEF TxInv, Touched
    <3> QED
      BY <3>2, <3>3
  <2>5. CASE t \notin Touched(p)
    <3>1. LastEntry(t)' = LastEntry(t)
      BY <2>2, <2>3, <2>5 DEF EntriesInv
    <3>2. t \in tuples' <=> t \in tuples
      BY <2>1, <2>5 DEF Touched
    <3> QED
      BY <3>1, <3>2 DEF LedgerReplays
  <2> QED
    BY <2>4, <2>5
<1> QED
  BY <1>1, <1>2, OnlyCommits

\* Every step keeps the types.
LEMMA NextType ==
  ASSUME IInv, Next
  PROVE  TypeOK'
BY NextCases, QuietFacts, InsertFacts, DeleteFacts, CascadeFacts, RollbackFacts, CommitFacts

\* An empty ledger over the first tuples, and no request under way.
LEMMA InitInv == Init => IInv
<1> SUFFICES ASSUME Init PROVE IInv
  OBVIOUS
<1> USE DEF Init
<1>1. NoRequest \in Request
  BY GrantsAssumption DEF NoRequest
<1>2. 1 \in DOMAIN NoRequest.tuples /\ NoOne \in Company
  BY <1>1, RequestFacts DEF NoOne
<1>3. \A t \in Tuple : t.rel = "anchor" => t.sub \in Company
  BY TupleFacts
<1>4. <<>> \in Seq(LedgerRow) /\ DOMAIN <<>> = {}
  BY EmptySeq
<1>5. TypeOK
  <2>1. \A p \in Client : at[p] \in DOMAIN Body(p)
    BY <1>2 DEF Body
  <2>2. grantedFor \in [Tuple -> Company]
    BY <1>2, <1>3
  <2> QED
    BY <1>1, <1>4, <2>1, <2>2, GrantsAssumption DEF TypeOK, LedgerRow, Idle
<1>6. IsFiniteSet(tuples)
  BY GrantsAssumption
<1>7. ASSUME NEW p \in Client PROVE TxInv(p) /\ EntriesInv(p) /\ FlightInv(p) /\ CascadeInv(p)
  <2>1. /\ pc[p] = "idle" /\ at[p] = 1 /\ inserted[p] = {} /\ deleted[p] = {}
        /\ entries[p] = <<>>
    BY DEF Idle
  <2>2. Touched(p) = {} /\ \A q \in Others(p) : Touched(q) = {}
    BY DEF Touched, Others
  <2>3. IsFiniteSet(inserted[p])
    BY <2>1, FS_EmptySet
  <2> QED
    BY <1>4, <2>1, <2>2, <2>3
       DEF TxInv, EntriesInv, FlightInv, CheckedTo, WrittenTo, CascadeInv
<1>8. OneAnchor
  <2>1. Pending = {}
    BY DEF Pending
  <2> QED
    BY <2>1, GrantsAssumption DEF OneAnchor
<1>9. RoleInv
  BY GrantsAssumption DEF RoleInv
<1>10. LedgerReplays
  <2>1. \A t : LastEntry(t) = "none"
    BY <1>4 DEF LastEntry
  <2> QED
    BY <2>1, GrantsAssumption DEF LedgerReplays
<1> QED
  BY <1>5, <1>6, <1>7, <1>8, <1>9, <1>10 DEF IInv

\* A step that changes nothing.
LEMMA StutterInv == IInv /\ UNCHANGED vars => IInv'
<1> SUFFICES ASSUME IInv, UNCHANGED vars PROVE IInv'
  OBVIOUS
<1> USE DEF vars
<1>1. TypeOK' /\ IsFiniteSet(tuples)'
  BY DEF IInv, TypeOK, Body
<1>2. ASSUME NEW p \in Client PROVE TxInv(p)' /\ EntriesInv(p)'
  <2>1. TxInv(p) /\ EntriesInv(p)
    BY DEF IInv
  <2>2. /\ (Grants(p)' <=> Grants(p)) /\ Others(p)' = Others(p)
        /\ \A q : Touched(q)' = Touched(q)
    BY DEF Grants, Others, Touched
  <2> QED
    BY <2>1, <2>2 DEF TxInv, EntriesInv
<1>3. ASSUME NEW p \in Client PROVE FlightInv(p)' /\ CascadeInv(p)'
  <2>1. FlightInv(p) /\ CascadeInv(p)
    BY DEF IInv
  <2>2. /\ Body(p)' = Body(p) /\ (Grants(p)' <=> Grants(p))
        /\ \A o : InRequestAnchor(p, o)' <=> InRequestAnchor(p, o)
    BY SameRequest
  <2>3. /\ Current(p)' = Current(p) /\ \A o, c : Anchor(o, c)' = Anchor(o, c)
        /\ \A i : CheckedTo(p, i)' <=> CheckedTo(p, i)
        /\ \A i : WrittenTo(p, i)' <=> WrittenTo(p, i)
    BY <2>2 DEF Current, Anchor, CheckedTo, WrittenTo
  <2> QED
    BY <2>1, <2>2, <2>3 DEF FlightInv, CascadeInv
<1>4. OneAnchor' /\ RoleInv' /\ LedgerReplays'
  BY DEF IInv, OneAnchor, Pending, RoleInv, Anchor, LedgerReplays, LastEntry
<1> QED
  BY <1>1, <1>2, <1>3, <1>4 DEF IInv

LEMMA NextInv == IInv /\ Next => IInv'
  BY NextType, NextTx, NextEntries, NextFlight, NextCascade, NextOneAnchor, NextRole, NextLedger
     DEF IInv

-----------------------------------------------------------------------------
(* Theorems. *)

(* The inductive invariant of the grant routes: types, the open transactions   *)
(* and their ledger rows, what grants in flight have checked, what cascades    *)
(* have deleted, the anchors, the roles and the ledger.                        *)
THEOREM Invariant == Spec => []IInv
<1>1. Init => IInv
  BY InitInv
<1>2. ASSUME IInv, [Next]_vars PROVE IInv'
  <2>1. CASE Next
    BY <1>2, <2>1, NextInv
  <2>2. CASE UNCHANGED vars
    BY <1>2, <2>2, StutterInv
  <2> QED
    BY <1>2, <2>1, <2>2
<1> QED
  BY <1>1, <1>2, PTL DEF Spec

(* Tuples, ledger, requests and their transactions keep their types; a request *)
(* always points at a tuple of its body.                                       *)
THEOREM TypeCorrect == Spec => []TypeOK
<1>1. IInv => TypeOK
  BY DEF IInv
<1> QED
  BY <1>1, Invariant, PTL

(* The ledger replays to the tuple table at every moment, whatever grants,     *)
(* revokes, cascades, conflicts and rollbacks overlap.                         *)
THEOREM LedgerReplaysHolds == Spec => []LedgerReplays
<1>1. IInv => LedgerReplays
  BY DEF IInv
<1> QED
  BY <1>1, Invariant, PTL

(* No object ever has two anchors, and a role outlives the end of its object's *)
(* anchor only when a grant on the object was between its check and its commit *)
(* at that moment.                                                             *)
THEOREM NoRevival == Spec => []NoRevivalUnlessRaced
<1>1. ASSUME IInv PROVE NoRevivalUnlessRaced
  <2>0. tuples \subseteq Tuple /\ OneAnchor /\ RoleInv
    BY <1>1 DEF IInv, TypeOK
  <2>1. ASSUME NEW o \in Object PROVE Cardinality(AnchorsOf(tuples, o)) <= 1
    <3>1. \A t, u \in AnchorsOf(tuples, o) : t = u
      BY <2>0 DEF OneAnchor, AnchorsOf
    <3>2. CASE AnchorsOf(tuples, o) = {}
      BY <3>2, FS_EmptySet
    <3>3. CASE AnchorsOf(tuples, o) # {}
      <4>1. PICK t : AnchorsOf(tuples, o) = {t}
        BY <3>1, <3>3
      <4>2. Cardinality({t}) = 1
        BY FS_Singleton
      <4> QED
        BY <4>1, <4>2
    <3> QED
      BY <3>2, <3>3
  <2>2. ASSUME NEW t \in tuples, t.obj \notin raced, t.rel = "role"
        PROVE  AnchorsOf(tuples, t.obj) = {Anchor(t.obj, grantedFor[t])}
    <3> DEFINE a == Anchor(t.obj, grantedFor[t])
    <3>1. a \in tuples /\ a.rel = "anchor" /\ a.obj = t.obj
      BY <2>0, <2>2 DEF RoleInv, Anchor
    <3> HIDE DEF a
    <3>2. AnchorsOf(tuples, t.obj) = {a}
      BY <2>0, <3>1 DEF OneAnchor, AnchorsOf
    <3> QED
      BY <3>2 DEF a
  <2> QED
    BY <2>1, <2>2 DEF NoRevivalUnlessRaced, RoleMatchesAnchor
<1> QED
  BY <1>1, Invariant, PTL

-------------------------------------------------------------------------------
(* The decision. *)

\* What an item may ask about.
Asking == Target \cup {NoObject}

Steps == {"load", "subject", "keycloak", "scope", "operator", "membership", "role", "module",
          "bind", "relation", "done"}

DecisionType ==
    /\ asked \in Requests
    /\ facts \in D!Situation
    /\ history \in SUBSET D!Situation
    /\ facts \in history
    /\ IsFiniteSet(history)
    /\ changes \in Nat
    /\ failed \in BOOLEAN /\ loaded \in BOOLEAN /\ lifecycle \in BOOLEAN
    /\ step \in Steps
    /\ item \in Nat
    /\ step \notin {"bind", "relation", "done"} => item = 1
    /\ step \in {"bind", "relation"} => item \in DOMAIN asked.items
    /\ results \in [DOMAIN asked.items -> D!Reason \cup {"none"}]

\* What Evaluate has read by each step was so at some moment of the request.
InCompany == asked.scope = "company"

PastSubject == step \notin {"load", "subject", "done"}
PastKeycloak == PastSubject /\ step # "keycloak"
PastScope == PastKeycloak /\ step # "scope"
PastMember == step \in {"module", "bind", "relation"}
PerItem == step \in {"bind", "relation"}

ModelRead == step \notin {"load", "done"} => \E s \in history : loaded <=> D!Holds(s, "module")

SubjectRead == PastSubject =>
    /\ \E s \in history : D!Holds(s, "found")
    /\ \E s \in history : lifecycle <=> D!Holds(s, "lifecycle")

KeycloakRead == PastKeycloak => lifecycle /\ \E s \in history : D!Holds(s, "kc")

ScopeRead == PastScope =>
    /\ InCompany => \E s \in history : D!Holds(s, "company")
    /\ ~InCompany =>
         /\ PerItem /\ asked.batch /\ asked.superadminRole
         /\ \E s \in history : D!Holds(s, "superadmin")

MemberRead ==
    /\ step = "operator" => asked.operator
    /\ step \in {"membership", "role"} => \E s \in history : ~D!Operates(s)
    /\ step = "role" => asked.companyRole /\ \E s \in history : D!Member(s) = "yes"
    /\ InCompany /\ PastMember =>
         /\ \E s \in history : D!Operates(s) \/ D!Member(s) = "yes"
         /\ \E s \in history :
              D!Operates(s) \/ ~asked.companyRole \/ D!Holds(s, "companyRole")

ModuleRead == InCompany /\ PerItem =>
    asked.foundation \/ \E s \in history : D!Holds(s, "module")

Anchored(s, o) ==
    \/ Kind[o] \in {"company", "company_module"} /\ Names[o]
    \/ Kind[o] \in {"org", "module"} /\ s[<<"anchor", o>>] = "yes"

\* The object that is asked about, once it is bound to the company.
BindingRead == step = "relation" =>
    /\ asked.items[item] \in Target
    /\ InCompany =>
         /\ Kind[asked.items[item]] = "module" => loaded
         /\ \E s \in history : Anchored(s, asked.items[item])

StepsRead ==
    /\ ModelRead
    /\ SubjectRead
    /\ KeycloakRead
    /\ ScopeRead
    /\ MemberRead
    /\ ModuleRead
    /\ BindingRead

\* Reason r for an item that asks about o has its grounds in the history.
Grounded(r, o, down) ==
    /\ r = "ALLOWED" => \A c \in D!Condition : \E s \in history : D!Meets(c, s, o)
    /\ r \in D!Denial =>
         \/ \E s \in history, c \in D!Condition :
              /\ ~D!Fulfils(c, s, o) /\ D!ReasonOf(c, s) = r
              /\ \E t \in history : ~D!Excused(c, t)
         \/ ~InCompany /\ r = "ENGINE_DENIED"
    /\ r = D!Unavailable =>
         \/ down
         \/ \E s \in history : s[<<"kc", NoObject>>] = "unknown" \/ ~D!Holds(s, "found")

\* When nothing changes, the reason is the reference's.
Ordered(r, o) ==
    history = {facts} => r = D!Reference(facts, o) \/ (~InCompany /\ asked.batch)

Fits(r, o, down) == Grounded(r, o, down) /\ (~down => Ordered(r, o))

AnswersFit ==
    \A i \in DOMAIN asked.items :
        /\ Grounded(results[i], asked.items[i], failed)
        /\ ~failed /\ (step = "done" \/ i < item) => Ordered(results[i], asked.items[i])

DecisionInv == DecisionType /\ StepsRead /\ AnswersFit

-------------------------------------------------------------------------------

\* A request names objects or none, and has an item.
LEMMA AskedFacts ==
  ASSUME asked \in Requests
  PROVE  /\ asked.scope \in {"global", "company"}
         /\ asked.batch \in BOOLEAN /\ asked.superadminRole \in BOOLEAN
         /\ asked.operator \in BOOLEAN /\ asked.companyRole \in BOOLEAN
         /\ asked.foundation \in BOOLEAN
         /\ asked.items \in Seq(Asking)
         /\ Len(asked.items) \in Nat \ {0}
         /\ DOMAIN asked.items = 1 .. Len(asked.items)
         /\ \A i \in DOMAIN asked.items : asked.items[i] \in Asking
<1>1. asked \in D!CanRequest /\ asked.items # <<>>
  BY DecisionConstants DEF D!DecisionAssumption
<1>2. asked.items \in Seq(Asking)
  BY <1>1 DEF D!CanRequest, Asking
<1>3. Len(asked.items) \in Nat \ {0}
  BY <1>1, <1>2
<1>4. DOMAIN asked.items = 1 .. Len(asked.items)
  BY <1>2
<1>5. \A i \in DOMAIN asked.items : asked.items[i] \in Asking
  BY <1>2, <1>4
<1> QED BY <1>1, <1>2, <1>3, <1>4, <1>5 DEF D!CanRequest

LEMMA KindFacts ==
  /\ NoObject \notin Target
  /\ \A o \in Target :
       /\ Kind[o] \in {"company", "company_module", "module", "org", "unbindable"}
       /\ Names[o] \in BOOLEAN
  BY DecisionConstants DEF D!DecisionAssumption

\* What each condition is.
LEMMA FulfilsFacts ==
  ASSUME NEW s, NEW o \in Asking
  PROVE  /\ D!Fulfils("found", s, o) <=> D!Holds(s, "found")
         /\ D!Fulfils("kc", s, o) <=> D!Holds(s, "kc")
         /\ D!Fulfils("lifecycle", s, o) <=> D!Holds(s, "lifecycle")
         /\ D!Fulfils("platformRole", s, o) <=>
              (asked.scope = "global" => asked.superadminRole /\ D!Holds(s, "superadmin"))
         /\ D!Fulfils("company", s, o) <=> (InCompany => D!Holds(s, "company"))
         /\ D!Fulfils("member", s, o) <=> (InCompany => D!Member(s) = "yes")
         /\ D!Fulfils("companyRole", s, o) <=>
              (InCompany => ~asked.companyRole \/ D!Holds(s, "companyRole"))
         /\ D!Fulfils("module", s, o) <=>
              (InCompany => asked.foundation \/ D!Holds(s, "module"))
         /\ D!Fulfils("typeLoaded", s, o) <=>
              (InCompany /\ o # NoObject => (Kind[o] = "module" => D!Holds(s, "module")))
         /\ D!Fulfils("anchored", s, o) <=> (InCompany /\ o # NoObject => Anchored(s, o))
         /\ D!Fulfils("related", s, o) <=>
              (InCompany /\ o # NoObject => s[<<"relation", o>>] = "yes")
<1> USE DEF InCompany
<1>1. /\ D!Fulfils("found", s, o) <=> D!Holds(s, "found")
      /\ D!Fulfils("kc", s, o) <=> D!Holds(s, "kc")
      /\ D!Fulfils("lifecycle", s, o) <=> D!Holds(s, "lifecycle")
      /\ D!Fulfils("platformRole", s, o) <=>
           (asked.scope = "global" => asked.superadminRole /\ D!Holds(s, "superadmin"))
  BY DEF D!Fulfils
<1>2. /\ D!Fulfils("company", s, o) <=> (InCompany => D!Holds(s, "company"))
      /\ D!Fulfils("member", s, o) <=> (InCompany => D!Member(s) = "yes")
      /\ D!Fulfils("companyRole", s, o) <=>
           (InCompany => ~asked.companyRole \/ D!Holds(s, "companyRole"))
      /\ D!Fulfils("module", s, o) <=>
           (InCompany => asked.foundation \/ D!Holds(s, "module"))
  BY DEF D!Fulfils, D!FulfilsCompany
<1>3. D!Fulfils("typeLoaded", s, o) <=>
        (InCompany /\ o # NoObject => (Kind[o] = "module" => D!Holds(s, "module")))
  BY DEF D!Fulfils, D!FulfilsCompany, D!FulfilsObject
<1>4. D!Fulfils("anchored", s, o) <=> (InCompany /\ o # NoObject => Anchored(s, o))
  BY DEF D!Fulfils, D!FulfilsCompany, D!FulfilsObject, Anchored
<1>5. D!Fulfils("related", s, o) <=>
        (InCompany /\ o # NoObject => s[<<"relation", o>>] = "yes")
  BY DEF D!Fulfils, D!FulfilsCompany, D!FulfilsObject
<1> QED BY <1>1, <1>2, <1>3, <1>4, <1>5

\* The operator exception is about two of them.
LEMMA MeetsFacts ==
  ASSUME NEW s, NEW o
  PROVE  /\ \A c : c \notin {"member", "companyRole"} =>
              (D!Meets(c, s, o) <=> D!Fulfils(c, s, o)) /\ ~D!Excused(c, s)
         /\ \A c \in {"member", "companyRole"} :
              /\ D!Meets(c, s, o) <=> D!Operates(s) \/ D!Fulfils(c, s, o)
              /\ D!Excused(c, s) <=> D!Operates(s)
  BY DEF D!Meets, D!Excused

LEMMA ReasonFacts ==
  ASSUME NEW s
  PROVE  /\ D!ReasonOf("found", s) = "AUTH_USER_NOT_FOUND"
         /\ D!ReasonOf("kc", s) = IF s[<<"kc", NoObject>>] = "no" THEN "KEYCLOAK_DISABLED"
                                                                 ELSE D!Unavailable
         /\ D!ReasonOf("lifecycle", s) = "USER_LIFECYCLE_DISABLED"
         /\ D!ReasonOf("platformRole", s) = "PLATFORM_ROLE_REQUIRED"
         /\ D!ReasonOf("company", s) = "COMPANY_INACTIVE"
         /\ D!ReasonOf("member", s) = IF D!Member(s) = "no" THEN "COMPANY_MEMBERSHIP_REQUIRED"
                                                           ELSE "COMPANY_ACCESS_BLOCKED"
         /\ D!ReasonOf("companyRole", s) = "COMPANY_ROLE_REQUIRED"
         /\ D!ReasonOf("module", s) = "MODULE_DISABLED"
         /\ \A c \in {"typeLoaded", "anchored", "related"} :
              D!ReasonOf(c, s) = "ENGINE_DENIED"
  BY DEF D!ReasonOf

LEMMA OrderFacts ==
  /\ DOMAIN D!Order = 1 .. 11
  /\ D!Order[1] = "found" /\ D!Order[2] = "kc" /\ D!Order[3] = "lifecycle"
  /\ D!Order[4] = "platformRole" /\ D!Order[5] = "company" /\ D!Order[6] = "member"
  /\ D!Order[7] = "companyRole" /\ D!Order[8] = "module" /\ D!Order[9] = "typeLoaded"
  /\ D!Order[10] = "anchored" /\ D!Order[11] = "related"
  BY DEF D!Order

\* The reference is the reason of the first condition that is not met.
LEMMA FirstUnmet ==
  ASSUME NEW s, NEW o, NEW k \in 1 .. 11, ~D!Meets(D!Order[k], s, o),
         \A j \in 1 .. 11 : j < k => D!Meets(D!Order[j], s, o)
  PROVE  D!Reference(s, o) = D!ReasonOf(D!Order[k], s)
<1> DEFINE unmet == {i \in DOMAIN D!Order : ~D!Meets(D!Order[i], s, o)}
           first == CHOOSE i \in unmet : \A j \in unmet : i <= j
<1>1. k \in unmet /\ \A j \in unmet : k <= j /\ j \in 1 .. 11
  BY OrderFacts
<1>2. first = k
  <2>1. first \in unmet /\ \A j \in unmet : first <= j
    BY <1>1
  <2> QED BY <1>1, <2>1
<1> HIDE DEF first
<1> QED BY <1>1, <1>2 DEF D!Reference, first

LEMMA AllMet ==
  ASSUME NEW s, NEW o, \A c \in D!Condition : D!Meets(c, s, o)
  PROVE  D!Reference(s, o) = "ALLOWED"
<1> DEFINE unmet == {i \in DOMAIN D!Order : ~D!Meets(D!Order[i], s, o)}
<1>1. \A i \in 1 .. 11 : D!Order[i] \in D!Condition
  BY OrderFacts DEF D!Condition
<1>2. unmet = {}
  BY <1>1, OrderFacts
<1> QED BY <1>2 DEF D!Reference

-------------------------------------------------------------------------------
(* Steps that leave the request and the history alone. *)

LEMMA SameRequestMeans ==
  ASSUME asked' = asked
  PROVE  /\ InCompany' <=> InCompany
         /\ \A s : D!Operates(s)' <=> D!Operates(s)
         /\ \A c, s, o : D!Fulfils(c, s, o)' <=> D!Fulfils(c, s, o)
         /\ \A c, s : D!Excused(c, s)' <=> D!Excused(c, s)
         /\ \A c, s, o : D!Meets(c, s, o)' <=> D!Meets(c, s, o)
         /\ \A s, o : D!Reference(s, o)' = D!Reference(s, o)
<1>1. InCompany' <=> InCompany
  BY DEF InCompany
<1>2. \A s : D!Operates(s)' <=> D!Operates(s)
  BY DEF D!Operates, D!Holds
<1>3. \A c, s, o : D!Fulfils(c, s, o)' <=> D!Fulfils(c, s, o)
  <2>1. \A c, s, o : D!FulfilsCompany(c, s, o)' <=> D!FulfilsCompany(c, s, o)
    BY DEF D!FulfilsCompany, D!FulfilsObject, D!Holds, D!Member
  <2> QED BY <2>1 DEF D!Fulfils, D!Holds
<1>4. \A c, s : D!Excused(c, s)' <=> D!Excused(c, s)
  BY <1>2 DEF D!Excused
<1>5. \A c, s, o : D!Meets(c, s, o)' <=> D!Meets(c, s, o)
  BY <1>3, <1>4 DEF D!Meets
<1>6. ASSUME NEW s, NEW o PROVE D!Reference(s, o)' = D!Reference(s, o)
  <2>1. {i \in DOMAIN D!Order : ~D!Meets(D!Order[i], s, o)'}
          = {i \in DOMAIN D!Order : ~D!Meets(D!Order[i], s, o)}
    BY <1>5
  <2> QED BY <2>1 DEF D!Reference, D!ReasonOf, D!Member
<1> QED BY <1>1, <1>2, <1>3, <1>4, <1>5, <1>6

\* Grounds stay when the history grows.
LEMMA GroundsStay ==
  ASSUME asked' = asked, history \subseteq history', NEW r, NEW o, NEW down, NEW then,
         down => then, Grounded(r, o, down)
  PROVE  Grounded(r, o, then)'
<1>1. r = "ALLOWED" => \A c \in D!Condition : \E s \in history' : D!Meets(c, s, o)'
  BY SameRequestMeans DEF Grounded
<1>2. r \in D!Denial =>
         \/ \E s \in history', c \in D!Condition :
              /\ ~D!Fulfils(c, s, o)' /\ D!ReasonOf(c, s) = r
              /\ \E t \in history' : ~D!Excused(c, t)'
         \/ ~InCompany' /\ r = "ENGINE_DENIED"
  BY SameRequestMeans DEF Grounded
<1>3. r = D!Unavailable =>
         \/ then
         \/ \E s \in history' : s[<<"kc", NoObject>>] = "unknown" \/ ~D!Holds(s, "found")
  BY DEF Grounded
<1> QED BY <1>1, <1>2, <1>3 DEF Grounded, D!ReasonOf, D!Member, D!Holds

LEMMA OrderedStays ==
  ASSUME asked' = asked, history' = history, facts' = facts, NEW r, NEW o, Ordered(r, o)
  PROVE  Ordered(r, o)'
  BY SameRequestMeans DEF Ordered

\* What a step of Evaluate leaves alone.
Evaluates == /\ UNCHANGED <<asked, facts, changes, history, loaded>>
             /\ failed' \in BOOLEAN /\ (failed => failed')
             /\ lifecycle' \in BOOLEAN

\* Decide: the decision of every item.
LEMMA Decided ==
  ASSUME DecisionInv, Evaluates, NEW r \in D!Reason, D!Decide(r), item' = item,
         \A o \in Asking : Fits(r, o, failed')
  PROVE  DecisionInv'
<1>1. DecisionType /\ AnswersFit
  BY DEF DecisionInv
<1>2. /\ step' = "done"
      /\ \A i \in DOMAIN asked.items : results'[i] = r
      /\ results' \in [DOMAIN asked.items -> D!Reason \cup {"none"}]
  BY <1>1, AskedFacts DEF DecisionType, D!Decide, D!Fill, D!Goto
<1>3. DecisionType'
  BY <1>1, <1>2 DEF DecisionType, Evaluates, Steps
<1>4. StepsRead'
  BY <1>2 DEF StepsRead, ModelRead, SubjectRead, KeycloakRead, ScopeRead, MemberRead, ModuleRead,
     BindingRead, PastSubject, PastKeycloak, PastScope, PastMember, PerItem
<1>5. ASSUME NEW i \in DOMAIN asked.items
      PROVE  /\ Grounded(results[i], asked.items[i], failed)'
             /\ (~failed /\ (step = "done" \/ i < item) => Ordered(results[i], asked.items[i]))'
  <2>1. PICK o, down : o = asked.items[i] /\ down = failed'
    OBVIOUS
  <2>2. o \in Asking /\ Fits(r, o, down)
    BY <1>1, <1>5, <2>1, AskedFacts DEF DecisionType
  <2>3. Grounded(r, o, down)'
    BY <2>2, GroundsStay DEF Fits, Evaluates
  <2>4. ~down => Ordered(r, o)'
    BY <2>2, OrderedStays DEF Fits, Evaluates
  <2>5. results'[i] = r /\ asked'.items[i] = o /\ failed' = down
    BY <1>2, <1>5, <2>1 DEF Evaluates
  <2> QED BY <2>3, <2>4, <2>5
<1>6. AnswersFit'
  <2>1. DOMAIN asked'.items = DOMAIN asked.items
    BY DEF Evaluates
  <2> QED BY <1>5, <2>1 DEF AnswersFit
<1> QED BY <1>3, <1>4, <1>6 DEF DecisionInv

\* Answer: the decision of one item.
LEMMA Answered ==
  ASSUME DecisionInv, Evaluates, NEW r \in D!Reason, D!Answer(r), PerItem,
         lifecycle' = lifecycle, Fits(r, asked.items[item], failed')
  PROVE  DecisionInv'
<1>1. DecisionType /\ StepsRead /\ AnswersFit
  BY DEF DecisionInv
<1>2. /\ Len(asked.items) \in Nat \ {0} /\ DOMAIN asked.items = 1 .. Len(asked.items)
      /\ item \in 1 .. Len(asked.items)
  BY <1>1, AskedFacts DEF DecisionType, PerItem
<1>3. /\ results' = [results EXCEPT ![item] = r] /\ item' = item + 1
      /\ step' = IF item = Len(asked.items) THEN "done" ELSE "bind"
  BY DEF D!Answer, D!Goto
<1>4. /\ results' \in [DOMAIN asked.items -> D!Reason \cup {"none"}]
      /\ results'[item] = r
      /\ \A i \in DOMAIN asked.items : i # item => results'[i] = results[i]
  BY <1>1, <1>2, <1>3 DEF DecisionType
<1>5. DecisionType'
  BY <1>1, <1>2, <1>3, <1>4 DEF DecisionType, Evaluates, Steps
<1>6. StepsRead'
  <2>1. step' = "bind" \/ step' = "done"
    BY <1>3
  <2>2. ModelRead' /\ SubjectRead' /\ KeycloakRead'
    BY <1>1, <2>1 DEF StepsRead, ModelRead, SubjectRead, KeycloakRead, PastSubject, PastKeycloak,
       PerItem, Evaluates, D!Holds
  <2>3. ScopeRead' /\ ModuleRead' /\ BindingRead'
    BY <1>1, <2>1 DEF StepsRead, ScopeRead, ModuleRead, BindingRead, PastSubject, PastKeycloak,
       PastScope, PerItem, InCompany, Evaluates, D!Holds
  <2>4. MemberRead'
    BY <1>1, <2>1, SameRequestMeans DEF StepsRead, MemberRead, PastMember, PerItem, Evaluates,
       D!Holds, D!Member
  <2> QED BY <2>2, <2>3, <2>4 DEF StepsRead
<1>7. ASSUME NEW i \in DOMAIN asked.items
      PROVE  /\ Grounded(results[i], asked.items[i], failed)'
             /\ (~failed /\ (step = "done" \/ i < item) => Ordered(results[i], asked.items[i]))'
  <2>1. PICK o, q, was, down : /\ o = asked.items[i] /\ q = results'[i]
                               /\ was = failed /\ down = failed'
    OBVIOUS
  <2>2. CASE i = item
    <3>1. q = r /\ Fits(r, o, down)
      BY <1>4, <2>1, <2>2
    <3>2. Grounded(q, o, down)'
      BY <3>1, GroundsStay DEF Fits, Evaluates
    <3>3. ~down => Ordered(q, o)'
      BY <3>1, OrderedStays DEF Fits, Evaluates
    <3>4. results'[i] = q /\ asked'.items[i] = o /\ failed' = down
      BY <2>1 DEF Evaluates
    <3> QED BY <3>2, <3>3, <3>4
  <2>3. CASE i # item
    <3>1. q = results[i] /\ Grounded(q, o, was)
      BY <1>1, <1>4, <1>7, <2>1, <2>3 DEF AnswersFit
    <3>2. Grounded(q, o, down)'
      BY <2>1, <3>1, GroundsStay DEF Evaluates
    <3>3. i < item' \/ step' = "done" => i < item
      BY <1>2, <1>3, <1>7, <2>3
    <3>4. ~was /\ i < item => Ordered(q, o)
      BY <1>1, <1>7, <2>1, <3>1 DEF AnswersFit
    <3>5. ~down /\ i < item => Ordered(q, o)'
      BY <2>1, <3>4, OrderedStays DEF Evaluates
    <3>6. results'[i] = q /\ asked'.items[i] = o /\ failed' = down
      BY <2>1 DEF Evaluates
    <3> QED BY <3>2, <3>3, <3>5, <3>6
  <2> QED BY <2>2, <2>3
<1>8. AnswersFit'
  <2>1. DOMAIN asked'.items = DOMAIN asked.items
    BY DEF Evaluates
  <2> QED BY <1>7, <2>1 DEF AnswersFit
<1> QED BY <1>5, <1>6, <1>8 DEF DecisionInv

\* A step that goes on to the next.
LEMMA WentOn ==
  ASSUME DecisionInv, UNCHANGED <<asked, facts, history, failed, item, results>>,
         changes' = changes, loaded' \in BOOLEAN, lifecycle' \in BOOLEAN,
         step # "done", step' \in Steps \ {"done"}, PerItem => step' = "relation",
         StepsRead'
  PROVE  DecisionInv'
<1>1. DecisionType /\ AnswersFit
  BY DEF DecisionInv
<1>2. DecisionType'
  BY <1>1, AskedFacts DEF DecisionType, PerItem, Steps
<1>3. ASSUME NEW i \in DOMAIN asked.items
      PROVE  /\ Grounded(results[i], asked.items[i], failed)'
             /\ (~failed /\ (step = "done" \/ i < item) => Ordered(results[i], asked.items[i]))'
  <2>1. PICK o, q, down : o = asked.items[i] /\ q = results[i] /\ down = failed
    OBVIOUS
  <2>2. Grounded(q, o, down) /\ (~down /\ i < item => Ordered(q, o))
    BY <1>1, <1>3, <2>1 DEF AnswersFit
  <2>3. Grounded(q, o, down)'
    BY <2>2, GroundsStay
  <2>4. ~down /\ i < item => Ordered(q, o)'
    BY <2>2, OrderedStays
  <2>5. results'[i] = q /\ asked'.items[i] = o /\ failed' = down /\ item' = item
    BY <2>1
  <2> QED BY <2>3, <2>4, <2>5
<1>4. AnswersFit'
  BY <1>3 DEF AnswersFit
<1> QED BY <1>2, <1>4 DEF DecisionInv

-------------------------------------------------------------------------------
(* Reasons that fit. *)

\* The k-th condition was not fulfilled in s, and those before were met.
Refused(k, s, o) ==
    /\ s \in history
    /\ ~D!Fulfils(D!Order[k], s, o)
    /\ \E t \in history : ~D!Excused(D!Order[k], t)
    /\ \A j \in 1 .. 11 : j < k => \E t \in history : D!Meets(D!Order[j], t, o)

LEMMA RefusalFits ==
  ASSUME DecisionType, NEW o \in Asking, NEW k \in 1 .. 11, NEW s, Refused(k, s, o), NEW down,
         D!ReasonOf(D!Order[k], s) \in D!Denial
  PROVE  Fits(D!ReasonOf(D!Order[k], s), o, down)
<1>1. PICK r : r = D!ReasonOf(D!Order[k], s)
  OBVIOUS
<1>2. r \in D!Denial /\ r # "ALLOWED" /\ r # D!Unavailable
  BY <1>1 DEF D!Denial, D!Unavailable
<1>3. D!Order[k] \in D!Condition
  BY OrderFacts DEF D!Condition
<1>4. Grounded(r, o, down)
  BY <1>1, <1>2, <1>3 DEF Grounded, Refused
<1>5. Ordered(r, o)
  <2>1. ASSUME history = {facts} PROVE r = D!Reference(facts, o)
    <3>1. s = facts /\ ~D!Meets(D!Order[k], facts, o)
      BY <2>1 DEF Refused, D!Meets
    <3>2. \A j \in 1 .. 11 : j < k => D!Meets(D!Order[j], facts, o)
      BY <2>1 DEF Refused
    <3> QED BY <1>1, <3>1, <3>2, FirstUnmet
  <2> QED BY <2>1 DEF Ordered
<1> QED BY <1>1, <1>4, <1>5 DEF Fits

LEMMA AllowFits ==
  ASSUME NEW o \in Asking, NEW down,
         \A c \in D!Condition : \E s \in history : D!Meets(c, s, o)
  PROVE  Fits("ALLOWED", o, down)
<1>1. Grounded("ALLOWED", o, down)
  BY DEF Grounded, D!Denial, D!Unavailable
<1>2. history = {facts} => D!Reference(facts, o) = "ALLOWED"
  BY AllMet
<1> QED BY <1>1, <1>2 DEF Fits, Ordered

\* A source that is down is said to be.
LEMMA DownFits ==
  ASSUME NEW o, NEW r \in {D!Unavailable, D!Error}
  PROVE  Fits(r, o, TRUE)
  BY DEF Fits, Grounded, D!Denial, D!Unavailable, D!Error

\* What was met by each step.
LEMMA MetSoFar ==
  ASSUME DecisionInv, NEW o \in Asking
  PROVE  /\ PastSubject => \E s \in history : D!Meets("found", s, o)
         /\ PastKeycloak => /\ \E s \in history : D!Meets("kc", s, o)
                            /\ \E s \in history : D!Meets("lifecycle", s, o)
         /\ InCompany \/ PastScope => \E s \in history : D!Meets("platformRole", s, o)
         /\ PastScope \/ ~InCompany => \E s \in history : D!Meets("company", s, o)
         /\ PastMember \/ ~InCompany => /\ \E s \in history : D!Meets("member", s, o)
                                        /\ \E s \in history : D!Meets("companyRole", s, o)
         /\ step = "role" => \E s \in history : D!Meets("member", s, o)
         /\ PerItem \/ ~InCompany => \E s \in history : D!Meets("module", s, o)
         /\ ~InCompany \/ o = NoObject =>
              \A c \in {"typeLoaded", "anchored", "related"} :
                \E s \in history : D!Meets(c, s, o)
<1>1. DecisionType /\ StepsRead /\ facts \in history
  BY DEF DecisionInv, DecisionType
<1>2. \A s : /\ D!Meets("found", s, o) <=> D!Holds(s, "found")
             /\ D!Meets("kc", s, o) <=> D!Holds(s, "kc")
             /\ D!Meets("lifecycle", s, o) <=> D!Holds(s, "lifecycle")
  BY FulfilsFacts, MeetsFacts
<1>3. \A s : /\ D!Meets("platformRole", s, o) <=>
                  (asked.scope = "global" => asked.superadminRole /\ D!Holds(s, "superadmin"))
             /\ D!Meets("company", s, o) <=> (InCompany => D!Holds(s, "company"))
             /\ D!Meets("module", s, o) <=>
                  (InCompany => asked.foundation \/ D!Holds(s, "module"))
  BY FulfilsFacts, MeetsFacts
<1>4. \A s : /\ D!Meets("member", s, o) <=>
                  D!Operates(s) \/ (InCompany => D!Member(s) = "yes")
             /\ D!Meets("companyRole", s, o) <=>
                  D!Operates(s) \/ (InCompany => ~asked.companyRole \/ D!Holds(s, "companyRole"))
  BY FulfilsFacts, MeetsFacts
<1>5. ~InCompany \/ o = NoObject =>
         \A c \in {"typeLoaded", "anchored", "related"} : D!Meets(c, facts, o)
  BY FulfilsFacts, MeetsFacts
<1>6. PastSubject => \E s \in history : D!Meets("found", s, o)
  BY <1>1, <1>2 DEF StepsRead, SubjectRead
<1>7. PastKeycloak => /\ \E s \in history : D!Meets("kc", s, o)
                      /\ \E s \in history : D!Meets("lifecycle", s, o)
  BY <1>1, <1>2 DEF StepsRead, SubjectRead, KeycloakRead, PastKeycloak
<1>8. InCompany \/ PastScope => \E s \in history : D!Meets("platformRole", s, o)
  BY <1>1, <1>3 DEF StepsRead, ScopeRead, InCompany
<1>9. PastScope \/ ~InCompany => \E s \in history : D!Meets("company", s, o)
  BY <1>1, <1>3 DEF StepsRead, ScopeRead
<1>10. PastMember \/ ~InCompany => /\ \E s \in history : D!Meets("member", s, o)
                                   /\ \E s \in history : D!Meets("companyRole", s, o)
  BY <1>1, <1>4 DEF StepsRead, MemberRead
<1>11. step = "role" => \E s \in history : D!Meets("member", s, o)
  BY <1>1, <1>4 DEF StepsRead, MemberRead
<1>12. PerItem \/ ~InCompany => \E s \in history : D!Meets("module", s, o)
  BY <1>1, <1>3 DEF StepsRead, ModuleRead
<1> QED BY <1>1, <1>5, <1>6, <1>7, <1>8, <1>9, <1>10, <1>11, <1>12

-------------------------------------------------------------------------------
(* The steps that every item shares. *)

LEMMA LoadSteps ==
  ASSUME DecisionInv, D!LoadModel
  PROVE  DecisionInv'
<1>1. /\ step = "load" /\ step' = "subject" /\ loaded' = (D!Ask("module") = "yes")
      /\ UNCHANGED <<asked, facts, changes, history, failed, lifecycle, item, results>>
  BY DEF D!LoadModel, D!Goto, D!world
<1>2. facts \in history /\ lifecycle \in BOOLEAN
  BY DEF DecisionInv, DecisionType
<1>3. StepsRead'
  <2>1. ModelRead'
    BY <1>1, <1>2 DEF ModelRead, D!Holds, D!Ask
  <2>2. SubjectRead' /\ KeycloakRead' /\ ScopeRead' /\ MemberRead' /\ ModuleRead' /\ BindingRead'
    BY <1>1 DEF SubjectRead, KeycloakRead, ScopeRead, MemberRead, ModuleRead, BindingRead,
       PastSubject, PastKeycloak, PastScope, PastMember, PerItem
  <2> QED BY <2>1, <2>2 DEF StepsRead
<1> QED BY <1>1, <1>2, <1>3, WentOn DEF Steps, PerItem

LEMMA SubjectSteps ==
  ASSUME DecisionInv, D!SubjectLookup
  PROVE  DecisionInv'
<1>1. /\ step = "subject" /\ lifecycle' = (D!Ask("lifecycle") = "yes")
      /\ UNCHANGED <<asked, facts, changes, history, failed, loaded, item>>
  BY DEF D!SubjectLookup, D!world
<1>2. DecisionType /\ StepsRead /\ facts \in history
  BY DEF DecisionInv, DecisionType
<1>3. CASE D!Ask("found") = "yes"
  <2>1. step' = "keycloak" /\ results' = results
    BY <1>3 DEF D!SubjectLookup, D!Goto
  <2>2. ModelRead' /\ SubjectRead'
    BY <1>1, <1>2, <1>3, <2>1 DEF StepsRead, ModelRead, SubjectRead, D!Holds, D!Ask
  <2>3. KeycloakRead' /\ ScopeRead' /\ MemberRead' /\ ModuleRead' /\ BindingRead'
    BY <2>1 DEF KeycloakRead, ScopeRead, MemberRead, ModuleRead, BindingRead,
       PastSubject, PastKeycloak, PastScope, PastMember, PerItem
  <2> QED BY <1>1, <1>2, <2>1, <2>2, <2>3, WentOn DEF StepsRead, Steps, PerItem, DecisionType
<1>4. CASE D!Ask("found") # "yes"
  <2>1. D!Decide("AUTH_USER_NOT_FOUND")
    BY <1>4 DEF D!SubjectLookup
  <2>2. ASSUME NEW o \in Asking PROVE Fits("AUTH_USER_NOT_FOUND", o, failed')
    <3>1. ~D!Fulfils(D!Order[1], facts, o) /\ ~D!Excused(D!Order[1], facts)
      BY <1>4, FulfilsFacts, MeetsFacts, OrderFacts DEF D!Ask, D!Holds
    <3>2. Refused(1, facts, o)
      BY <1>2, <3>1 DEF Refused
    <3>3. D!ReasonOf(D!Order[1], facts) = "AUTH_USER_NOT_FOUND"
      BY ReasonFacts, OrderFacts
    <3> QED BY <1>2, <3>2, <3>3, RefusalFits DEF D!Denial
  <2> QED
    BY <1>1, <1>2, <2>1, <2>2, Decided DEF Evaluates, D!Reason, D!Denial, DecisionType
<1> QED BY <1>3, <1>4

LEMMA KeycloakSteps ==
  ASSUME DecisionInv, D!KeycloakEnabled
  PROVE  DecisionInv'
<1>1. /\ step = "keycloak"
      /\ UNCHANGED <<asked, facts, changes, history, failed, loaded, lifecycle, item>>
  BY DEF D!KeycloakEnabled, D!world
<1>2. DecisionType /\ StepsRead /\ facts \in history
  BY DEF DecisionInv, DecisionType
<1>3. Evaluates
  BY <1>1, <1>2 DEF Evaluates, DecisionType
<1>4. \A o \in Asking : \E s \in history : D!Meets("found", s, o)
  BY <1>1, MetSoFar DEF PastSubject
<1>5. <<"kc", NoObject>> \in D!Fact /\ facts[<<"kc", NoObject>>] \in {"yes", "no", "unknown"}
  <2>1. <<"kc", NoObject>> \in D!Fact
    BY DEF D!Fact, D!Scalars
  <2>2. facts[<<"kc", NoObject>>] \in D!Answers(<<"kc", NoObject>>)
    BY <1>2, <2>1 DEF DecisionType, D!Situation
  <2> QED BY <2>1, <2>2 DEF D!Answers
<1>6. CASE D!KeycloakState = "unknown"
  <2>1. D!Decide(D!Unavailable)
    BY <1>6 DEF D!KeycloakEnabled
  <2>2. facts[<<"kc", NoObject>>] = "unknown" \/ ~D!Holds(facts, "found")
    BY <1>6 DEF D!KeycloakState, D!Ask, D!Holds
  <2>3. ASSUME NEW o \in Asking PROVE Fits(D!Unavailable, o, failed')
    <3>1. Grounded(D!Unavailable, o, failed')
      BY <1>2, <2>2 DEF Grounded, D!Unavailable, D!Denial
    <3>2. ASSUME history = {facts} PROVE D!Reference(facts, o) = D!Unavailable
      <4>1. D!Holds(facts, "found") /\ D!Meets("found", facts, o)
        BY <1>4, <2>3, <3>2, FulfilsFacts, MeetsFacts
      <4>2. facts[<<"kc", NoObject>>] = "unknown"
        BY <2>2, <4>1
      <4>3. ~D!Meets("kc", facts, o)
        BY <2>3, <4>2, FulfilsFacts, MeetsFacts DEF D!Holds
      <4>4. D!Reference(facts, o) = D!ReasonOf(D!Order[2], facts)
        BY <4>1, <4>3, FirstUnmet, OrderFacts
      <4> QED BY <4>2, <4>4, ReasonFacts, OrderFacts
    <3> QED BY <3>1, <3>2 DEF Fits, Ordered
  <2> QED BY <1>1, <1>3, <2>1, <2>3, Decided DEF D!Reason
<1>7. CASE D!KeycloakState = "no"
  <2>1. D!Decide("KEYCLOAK_DISABLED")
    BY <1>7 DEF D!KeycloakEnabled
  <2>2. facts[<<"kc", NoObject>>] = "no"
    BY <1>7 DEF D!KeycloakState, D!Ask
  <2>3. ASSUME NEW o \in Asking PROVE Fits("KEYCLOAK_DISABLED", o, failed')
    <3>1. ~D!Fulfils(D!Order[2], facts, o) /\ ~D!Excused(D!Order[2], facts)
      BY <2>2, FulfilsFacts, MeetsFacts, OrderFacts DEF D!Holds
    <3>2. Refused(2, facts, o)
      BY <1>2, <1>4, <2>3, <3>1, OrderFacts DEF Refused
    <3>3. D!ReasonOf(D!Order[2], facts) = "KEYCLOAK_DISABLED"
      BY <2>2, ReasonFacts, OrderFacts
    <3> QED BY <1>2, <3>2, <3>3, RefusalFits DEF D!Denial
  <2> QED BY <1>1, <1>3, <2>1, <2>3, Decided DEF D!Reason, D!Denial
<1>8. CASE D!KeycloakState \notin {"unknown", "no"}
  <2>1. IF lifecycle THEN step' = "scope" /\ results' = results
                     ELSE D!Decide("USER_LIFECYCLE_DISABLED")
    BY <1>8 DEF D!KeycloakEnabled, D!Goto
  <2>2. D!Holds(facts, "kc")
    BY <1>5, <1>8 DEF D!KeycloakState, D!Ask, D!Holds
  <2>3. CASE lifecycle
    <3>1. step' = "scope" /\ results' = results
      BY <2>1, <2>3
    <3>2. ModelRead' /\ SubjectRead' /\ KeycloakRead'
      BY <1>1, <1>2, <2>2, <2>3, <3>1
         DEF StepsRead, ModelRead, SubjectRead, KeycloakRead, PastSubject, D!Holds
    <3>3. ScopeRead' /\ MemberRead' /\ ModuleRead' /\ BindingRead'
      BY <3>1 DEF ScopeRead, MemberRead, ModuleRead, BindingRead,
         PastSubject, PastKeycloak, PastScope, PastMember, PerItem
    <3> QED BY <1>1, <1>2, <3>1, <3>2, <3>3, WentOn DEF StepsRead, Steps, PerItem, DecisionType
  <2>4. CASE ~lifecycle
    <3>1. D!Decide("USER_LIFECYCLE_DISABLED")
      BY <2>1, <2>4
    <3>2. PICK s \in history : ~D!Holds(s, "lifecycle")
      BY <1>1, <1>2, <2>4 DEF StepsRead, SubjectRead, PastSubject
    <3>3. ASSUME NEW o \in Asking PROVE Fits("USER_LIFECYCLE_DISABLED", o, failed')
      <4>1. ~D!Fulfils(D!Order[3], s, o) /\ ~D!Excused(D!Order[3], s)
        BY <3>2, FulfilsFacts, MeetsFacts, OrderFacts
      <4>2. D!Meets("kc", facts, o)
        BY <2>2, FulfilsFacts, MeetsFacts
      <4>3. Refused(3, s, o)
        BY <1>2, <1>4, <3>3, <4>1, <4>2, OrderFacts DEF Refused
      <4>4. D!ReasonOf(D!Order[3], s) = "USER_LIFECYCLE_DISABLED"
        BY ReasonFacts, OrderFacts
      <4> QED BY <1>2, <4>3, <4>4, RefusalFits DEF D!Denial
    <3> QED BY <1>1, <1>3, <3>1, <3>3, Decided DEF D!Reason, D!Denial
  <2> QED BY <2>3, <2>4
<1> QED BY <1>6, <1>7, <1>8

LEMMA PlatformRoleSteps ==
  ASSUME DecisionInv, D!PlatformRole
  PROVE  DecisionInv'
<1>1. /\ step = "scope" /\ asked.scope = "global"
      /\ UNCHANGED <<asked, facts, changes, history, failed, loaded, lifecycle, item>>
  BY DEF D!PlatformRole, D!world
<1>2. DecisionType /\ StepsRead /\ facts \in history
  BY DEF DecisionInv, DecisionType
<1>3. Evaluates
  BY <1>1, <1>2 DEF Evaluates, DecisionType
<1>4. PastSubject /\ PastKeycloak /\ ~InCompany
  BY <1>1 DEF PastSubject, PastKeycloak, InCompany
<1>5. D!HasPlatformRole <=> asked.superadminRole /\ D!Holds(facts, "superadmin")
  BY DEF D!HasPlatformRole, D!Ask, D!Holds
<1>6. \A o \in Asking : D!Meets("platformRole", facts, o) <=> D!HasPlatformRole
  BY <1>1, <1>5, FulfilsFacts, MeetsFacts
<1>7. CASE ~D!HasPlatformRole
  <2>1. D!Decide("PLATFORM_ROLE_REQUIRED")
    BY <1>7 DEF D!PlatformRole
  <2>2. ASSUME NEW o \in Asking PROVE Fits("PLATFORM_ROLE_REQUIRED", o, failed')
    <3>1. ~D!Fulfils(D!Order[4], facts, o) /\ ~D!Excused(D!Order[4], facts)
      BY <1>6, <1>7, MeetsFacts, OrderFacts
    <3>2. Refused(4, facts, o)
      BY <1>2, <1>4, <3>1, MetSoFar, OrderFacts DEF Refused
    <3>3. D!ReasonOf(D!Order[4], facts) = "PLATFORM_ROLE_REQUIRED"
      BY ReasonFacts, OrderFacts
    <3> QED BY <1>2, <3>2, <3>3, RefusalFits DEF D!Denial
  <2> QED BY <1>1, <1>3, <2>1, <2>2, Decided DEF D!Reason, D!Denial
<1>8. CASE D!HasPlatformRole /\ asked.batch
  <2>1. step' = "bind" /\ results' = results
    BY <1>8 DEF D!PlatformRole, D!Goto
  <2>2. ModelRead' /\ SubjectRead' /\ KeycloakRead' /\ BindingRead'
    BY <1>1, <1>2, <1>4, <2>1 DEF StepsRead, ModelRead, SubjectRead, KeycloakRead, BindingRead,
       PastSubject, PastKeycloak, D!Holds
  <2>3. ScopeRead' /\ MemberRead' /\ ModuleRead'
    BY <1>1, <1>2, <1>4, <1>5, <1>8, <2>1
       DEF ScopeRead, MemberRead, ModuleRead, PerItem, InCompany, D!Holds
  <2>4. 1 \in DOMAIN asked.items
    BY <1>2, AskedFacts DEF DecisionType
  <2> QED
    BY <1>1, <1>2, <2>1, <2>2, <2>3, <2>4, WentOn DEF StepsRead, Steps, PerItem, DecisionType
<1>9. CASE D!HasPlatformRole /\ ~asked.batch
  <2>1. D!Decide("ALLOWED")
    BY <1>9 DEF D!PlatformRole
  <2>2. ASSUME NEW o \in Asking PROVE Fits("ALLOWED", o, failed')
    <3>1. \A c \in D!Condition : \E s \in history : D!Meets(c, s, o)
      BY <1>2, <1>4, <1>6, <1>9, <2>2, MetSoFar DEF D!Condition
    <3> QED BY <3>1, AllowFits
  <2> QED BY <1>1, <1>3, <2>1, <2>2, Decided DEF D!Reason
<1> QED
  <2>1. asked.batch \in BOOLEAN
    BY <1>2, AskedFacts DEF DecisionType
  <2> QED BY <1>7, <1>8, <1>9, <2>1

LEMMA CompanySteps ==
  ASSUME DecisionInv, D!CompanyState
  PROVE  DecisionInv'
<1>1. /\ step = "scope" /\ asked.scope = "company"
      /\ UNCHANGED <<asked, facts, changes, history, failed, loaded, lifecycle, item>>
  BY DEF D!CompanyState, D!world
<1>2. DecisionType /\ StepsRead /\ facts \in history
  BY DEF DecisionInv, DecisionType
<1>3. Evaluates
  BY <1>1, <1>2 DEF Evaluates, DecisionType
<1>4. PastSubject /\ PastKeycloak /\ InCompany
  BY <1>1 DEF PastSubject, PastKeycloak, InCompany
<1>5. CASE D!Ask("company") = "yes"
  <2>1. step' = (IF asked.operator THEN "operator" ELSE "membership") /\ results' = results
    BY <1>5 DEF D!CompanyState, D!Goto
  <2>2. ModelRead' /\ SubjectRead' /\ KeycloakRead' /\ BindingRead' /\ ModuleRead'
    BY <1>1, <1>2, <1>4, <2>1 DEF StepsRead, ModelRead, SubjectRead, KeycloakRead, BindingRead,
       ModuleRead, PerItem, PastSubject, PastKeycloak, D!Holds
  <2>3. ScopeRead'
    BY <1>1, <1>2, <1>4, <1>5 DEF ScopeRead, InCompany, D!Holds, D!Ask
  <2>4. MemberRead'
    <3>1. step' = "membership" => ~D!Operates(facts)
      BY <2>1 DEF D!Operates
    <3> QED BY <1>1, <1>2, <2>1, <3>1, SameRequestMeans DEF MemberRead, PastMember
  <2> QED
    BY <1>1, <1>2, <2>1, <2>2, <2>3, <2>4, WentOn DEF StepsRead, Steps, PerItem, DecisionType
<1>6. CASE D!Ask("company") # "yes"
  <2>1. D!Decide("COMPANY_INACTIVE")
    BY <1>6 DEF D!CompanyState
  <2>2. ASSUME NEW o \in Asking PROVE Fits("COMPANY_INACTIVE", o, failed')
    <3>0. ~D!Holds(facts, "company")
      BY <1>6 DEF D!Ask, D!Holds
    <3>1. ~D!Fulfils(D!Order[5], facts, o) /\ ~D!Excused(D!Order[5], facts)
      BY <1>4, <3>0, FulfilsFacts, MeetsFacts, OrderFacts
    <3>2. Refused(5, facts, o)
      BY <1>2, <1>4, <3>1, MetSoFar, OrderFacts DEF Refused
    <3>3. D!ReasonOf(D!Order[5], facts) = "COMPANY_INACTIVE"
      BY ReasonFacts, OrderFacts
    <3> QED BY <1>2, <3>2, <3>3, RefusalFits DEF D!Denial
  <2> QED BY <1>1, <1>3, <2>1, <2>2, Decided DEF D!Reason, D!Denial
<1> QED BY <1>5, <1>6

LEMMA OperatorSteps ==
  ASSUME DecisionInv, D!OperatorException
  PROVE  DecisionInv'
<1>1. /\ step = "operator" /\ results' = results
      /\ step' = IF D!HasPlatformRole THEN "module" ELSE "membership"
      /\ UNCHANGED <<asked, facts, changes, history, failed, loaded, lifecycle, item>>
  BY DEF D!OperatorException, D!world, D!Goto
<1>2. DecisionType /\ StepsRead /\ facts \in history
  BY DEF DecisionInv, DecisionType
<1>3. PastSubject /\ PastKeycloak /\ PastScope /\ InCompany
  BY <1>1, <1>2 DEF PastSubject, PastKeycloak, PastScope, StepsRead, ScopeRead, PerItem
<1>4. ModelRead' /\ SubjectRead' /\ KeycloakRead' /\ BindingRead' /\ ModuleRead'
  BY <1>1, <1>2, <1>3 DEF StepsRead, ModelRead, SubjectRead, KeycloakRead, BindingRead,
     ModuleRead, PerItem, PastSubject, PastKeycloak, D!Holds
<1>5. ScopeRead'
  BY <1>1, <1>2, <1>3 DEF StepsRead, ScopeRead, InCompany, D!Holds
<1>6. MemberRead'
  <2>1. asked.operator => (D!Operates(facts) <=> D!HasPlatformRole)
    BY DEF D!Operates, D!HasPlatformRole, D!Ask, D!Holds
  <2>2. ~D!HasPlatformRole => ~D!Operates(facts)
    BY DEF D!Operates, D!HasPlatformRole, D!Ask, D!Holds
  <2>3. asked.operator
    BY <1>1, <1>2 DEF StepsRead, MemberRead
  <2> QED BY <1>1, <1>2, <2>1, <2>2, <2>3, SameRequestMeans DEF MemberRead, PastMember
<1> QED
  BY <1>1, <1>2, <1>4, <1>5, <1>6, WentOn DEF StepsRead, Steps, PerItem, DecisionType

LEMMA MembershipSteps ==
  ASSUME DecisionInv, D!Membership
  PROVE  DecisionInv'
<1>1. /\ step = "membership"
      /\ UNCHANGED <<asked, facts, changes, history, failed, loaded, lifecycle, item>>
  BY DEF D!Membership, D!world
<1>2. DecisionType /\ StepsRead /\ facts \in history
  BY DEF DecisionInv, DecisionType
<1>3. Evaluates
  BY <1>1, <1>2 DEF Evaluates, DecisionType
<1>4. PastSubject /\ PastKeycloak /\ PastScope /\ InCompany
  BY <1>1, <1>2 DEF PastSubject, PastKeycloak, PastScope, StepsRead, ScopeRead, PerItem
<1>5. D!Member(facts) \in {"yes", "no", "blocked"} /\ D!Ask("member") = D!Member(facts)
  <2>1. <<"member", NoObject>> \in D!Fact
    BY DEF D!Fact, D!Scalars
  <2>2. facts[<<"member", NoObject>>] \in D!Answers(<<"member", NoObject>>)
    BY <1>2, <2>1 DEF DecisionType, D!Situation
  <2> QED BY <2>2 DEF D!Answers, D!Member, D!Ask
<1>6. PICK t \in history : ~D!Operates(t)
  BY <1>1, <1>2 DEF StepsRead, MemberRead
<1>7. CASE D!Member(facts) # "yes"
  <2> DEFINE r == IF D!Member(facts) = "no" THEN "COMPANY_MEMBERSHIP_REQUIRED"
                                            ELSE "COMPANY_ACCESS_BLOCKED"
  <2>1. D!Decide(r)
    BY <1>5, <1>7 DEF D!Membership
  <2>2. r \in D!Denial /\ r \in D!Reason
    BY DEF D!Denial, D!Reason
  <2>3. \A o \in Asking : D!ReasonOf(D!Order[6], facts) = r
    BY ReasonFacts, OrderFacts
  <2> HIDE DEF r
  <2>4. ASSUME NEW o \in Asking PROVE Fits(r, o, failed')
    <3>1. ~D!Fulfils(D!Order[6], facts, o) /\ ~D!Excused(D!Order[6], t)
      BY <1>4, <1>6, <1>7, FulfilsFacts, MeetsFacts, OrderFacts
    <3>2. \E x \in history : ~D!Excused(D!Order[6], x)
      BY <3>1
    <3>3. Refused(6, facts, o)
      BY <1>2, <1>4, <3>1, <3>2, MetSoFar, OrderFacts DEF Refused
    <3> QED BY <1>2, <2>2, <2>3, <3>3, RefusalFits
  <2> QED BY <1>1, <1>3, <2>1, <2>2, <2>4, Decided
<1>8. CASE D!Member(facts) = "yes"
  <2>1. step' = (IF asked.companyRole THEN "role" ELSE "module") /\ results' = results
    BY <1>5, <1>8 DEF D!Membership, D!Goto
  <2>2. ModelRead' /\ SubjectRead' /\ KeycloakRead' /\ BindingRead' /\ ModuleRead'
    BY <1>1, <1>2, <1>4, <2>1 DEF StepsRead, ModelRead, SubjectRead, KeycloakRead, BindingRead,
       ModuleRead, PerItem, PastSubject, PastKeycloak, D!Holds
  <2>3. ScopeRead'
    BY <1>1, <1>2, <1>4 DEF StepsRead, ScopeRead, InCompany, D!Holds
  <2>4. MemberRead'
    BY <1>1, <1>2, <1>6, <1>8, <2>1, SameRequestMeans
       DEF MemberRead, PastMember, D!Member
  <2> QED
    BY <1>1, <1>2, <2>1, <2>2, <2>3, <2>4, WentOn DEF StepsRead, Steps, PerItem, DecisionType
<1> QED BY <1>7, <1>8

LEMMA CompanyRoleSteps ==
  ASSUME DecisionInv, D!CompanyRole
  PROVE  DecisionInv'
<1>1. /\ step = "role"
      /\ UNCHANGED <<asked, facts, changes, history, failed, loaded, lifecycle, item>>
  BY DEF D!CompanyRole, D!world
<1>2. DecisionType /\ StepsRead /\ facts \in history
  BY DEF DecisionInv, DecisionType
<1>3. Evaluates
  BY <1>1, <1>2 DEF Evaluates, DecisionType
<1>4. PastSubject /\ PastKeycloak /\ PastScope /\ InCompany
  BY <1>1, <1>2 DEF PastSubject, PastKeycloak, PastScope, StepsRead, ScopeRead, PerItem
<1>5. PICK t \in history : ~D!Operates(t)
  BY <1>1, <1>2 DEF StepsRead, MemberRead
<1>6. asked.companyRole /\ \E s \in history : D!Member(s) = "yes"
  BY <1>1, <1>2 DEF StepsRead, MemberRead
<1>7. CASE D!Ask("companyRole") = "yes"
  <2>1. step' = "module" /\ results' = results
    BY <1>7 DEF D!CompanyRole, D!Goto
  <2>2. ModelRead' /\ SubjectRead' /\ KeycloakRead' /\ BindingRead' /\ ModuleRead'
    BY <1>1, <1>2, <1>4, <2>1 DEF StepsRead, ModelRead, SubjectRead, KeycloakRead, BindingRead,
       ModuleRead, PerItem, PastSubject, PastKeycloak, D!Holds
  <2>3. ScopeRead'
    BY <1>1, <1>2, <1>4 DEF StepsRead, ScopeRead, InCompany, D!Holds
  <2>4. MemberRead'
    <3>1. D!Holds(facts, "companyRole")
      BY <1>7 DEF D!Holds, D!Ask
    <3> QED
      BY <1>1, <1>2, <1>6, <2>1, <3>1, SameRequestMeans DEF MemberRead, D!Member, D!Holds
  <2> QED
    BY <1>1, <1>2, <2>1, <2>2, <2>3, <2>4, WentOn DEF StepsRead, Steps, PerItem, DecisionType
<1>8. CASE D!Ask("companyRole") # "yes"
  <2>1. D!Decide("COMPANY_ROLE_REQUIRED")
    BY <1>8 DEF D!CompanyRole
  <2>2. ASSUME NEW o \in Asking PROVE Fits("COMPANY_ROLE_REQUIRED", o, failed')
    <3>0. ~D!Holds(facts, "companyRole")
      BY <1>8 DEF D!Ask, D!Holds
    <3>1. ~D!Fulfils(D!Order[7], facts, o) /\ ~D!Excused(D!Order[7], t)
      BY <1>4, <1>5, <1>6, <3>0, FulfilsFacts, MeetsFacts, OrderFacts
    <3>2. \E x \in history : ~D!Excused(D!Order[7], x)
      BY <3>1
    <3>3. Refused(7, facts, o)
      BY <1>1, <1>2, <1>4, <3>1, <3>2, MetSoFar, OrderFacts DEF Refused
    <3>4. D!ReasonOf(D!Order[7], facts) = "COMPANY_ROLE_REQUIRED"
      BY ReasonFacts, OrderFacts
    <3> QED BY <1>2, <3>3, <3>4, RefusalFits DEF D!Denial
  <2> QED BY <1>1, <1>3, <2>1, <2>2, Decided DEF D!Reason, D!Denial
<1> QED BY <1>7, <1>8

LEMMA ModuleSteps ==
  ASSUME DecisionInv, D!ModuleState
  PROVE  DecisionInv'
<1>1. /\ step = "module"
      /\ UNCHANGED <<asked, facts, changes, history, failed, loaded, lifecycle, item>>
  BY DEF D!ModuleState, D!world
<1>2. DecisionType /\ StepsRead /\ facts \in history
  BY DEF DecisionInv, DecisionType
<1>3. Evaluates
  BY <1>1, <1>2 DEF Evaluates, DecisionType
<1>4. PastSubject /\ PastKeycloak /\ PastScope /\ PastMember /\ InCompany
  BY <1>1, <1>2 DEF PastSubject, PastKeycloak, PastScope, PastMember, StepsRead, ScopeRead, PerItem
<1>5. CASE asked.foundation \/ D!Ask("module") = "yes"
  <2>1. step' = "bind" /\ results' = results
    BY <1>5 DEF D!ModuleState, D!Goto
  <2>2. ModelRead' /\ SubjectRead' /\ KeycloakRead' /\ BindingRead'
    BY <1>1, <1>2, <1>4, <2>1 DEF StepsRead, ModelRead, SubjectRead, KeycloakRead, BindingRead,
       PastSubject, PastKeycloak, D!Holds
  <2>3. ScopeRead' /\ ModuleRead'
    BY <1>1, <1>2, <1>4, <1>5 DEF StepsRead, ScopeRead, ModuleRead, InCompany, D!Holds, D!Ask
  <2>4. MemberRead'
    BY <1>1, <1>2, <1>4, <2>1, SameRequestMeans DEF StepsRead, MemberRead, D!Member, D!Holds
  <2>5. 1 \in DOMAIN asked.items
    BY <1>2, AskedFacts DEF DecisionType
  <2> QED
    BY <1>1, <1>2, <2>1, <2>2, <2>3, <2>4, <2>5, WentOn DEF StepsRead, Steps, PerItem, DecisionType
<1>6. CASE ~asked.foundation /\ D!Ask("module") # "yes"
  <2>1. D!Decide("MODULE_DISABLED")
    BY <1>6 DEF D!ModuleState
  <2>2. ASSUME NEW o \in Asking PROVE Fits("MODULE_DISABLED", o, failed')
    <3>0. ~D!Holds(facts, "module")
      BY <1>6 DEF D!Ask, D!Holds
    <3>1. ~D!Fulfils(D!Order[8], facts, o) /\ ~D!Excused(D!Order[8], facts)
      BY <1>4, <1>6, <3>0, FulfilsFacts, MeetsFacts, OrderFacts
    <3>2. Refused(8, facts, o)
      BY <1>2, <1>4, <3>1, MetSoFar, OrderFacts DEF Refused
    <3>3. D!ReasonOf(D!Order[8], facts) = "MODULE_DISABLED"
      BY ReasonFacts, OrderFacts
    <3> QED BY <1>2, <3>2, <3>3, RefusalFits DEF D!Denial
  <2> QED BY <1>1, <1>3, <2>1, <2>2, Decided DEF D!Reason, D!Denial
<1> QED BY <1>5, <1>6

-------------------------------------------------------------------------------
(* The relation leg of each item. *)

LEMMA NoLegSteps ==
  ASSUME DecisionInv, D!NoRelationLeg
  PROVE  DecisionInv'
<1>1. /\ step = "bind" /\ asked.items[item] = NoObject /\ D!Answer("ALLOWED")
      /\ UNCHANGED <<asked, facts, changes, history, failed, loaded, lifecycle>>
  BY DEF D!NoRelationLeg, D!world, D!Current
<1>2. DecisionType
  BY DEF DecisionInv
<1>3. Evaluates /\ PerItem
  BY <1>1, <1>2 DEF Evaluates, PerItem, DecisionType
<1>4. PastSubject /\ PastKeycloak /\ PastScope /\ PastMember
  BY <1>1 DEF PastSubject, PastKeycloak, PastScope, PastMember
<1>5. NoObject \in Asking
  BY DEF Asking
<1>6. \A c \in D!Condition : \E s \in history : D!Meets(c, s, NoObject)
  BY <1>3, <1>4, <1>5, MetSoFar DEF D!Condition
<1>7. Fits("ALLOWED", asked.items[item], failed')
  BY <1>1, <1>5, <1>6, AllowFits
<1> QED BY <1>1, <1>3, <1>7, Answered DEF D!Reason

\* The model's types of a module are those that were loaded.
LEMMA LoadedFacts ==
  ASSUME DecisionInv, PerItem, NEW o \in Target, Kind[o] = "module"
  PROVE  /\ loaded => \E s \in history : D!Meets("typeLoaded", s, o)
         /\ ~loaded => \E s \in history : ~D!Holds(s, "module")
<1>1. PICK s \in history : loaded <=> D!Holds(s, "module")
  BY DEF DecisionInv, StepsRead, ModelRead, PerItem
<1>2. D!Holds(s, "module") => D!Meets("typeLoaded", s, o)
  BY FulfilsFacts, MeetsFacts DEF Asking
<1> QED BY <1>1, <1>2

\* The conditions before those of the object.
LEMMA SharedMet ==
  ASSUME DecisionInv, PerItem, NEW o \in Asking, NEW j \in 1 .. 11, j < 9
  PROVE  \E s \in history : D!Meets(D!Order[j], s, o)
<1>1. PastSubject /\ PastKeycloak /\ PastScope /\ PastMember
  BY DEF PastSubject, PastKeycloak, PastScope, PastMember, PerItem
<1>2. j \in {1, 2, 3, 4, 5, 6, 7, 8}
  OBVIOUS
<1> QED BY <1>1, <1>2, MetSoFar, OrderFacts

LEMMA BindSteps ==
  ASSUME DecisionInv, D!BindObject
  PROVE  DecisionInv'
<1>1. /\ step = "bind" /\ asked.items[item] # NoObject
      /\ UNCHANGED <<asked, facts, changes, history, failed, loaded, lifecycle>>
  BY DEF D!BindObject, D!world, D!Current
<1>2. DecisionType /\ StepsRead /\ facts \in history
  BY DEF DecisionInv, DecisionType
<1>3. Evaluates /\ PerItem
  BY <1>1, <1>2 DEF Evaluates, PerItem, DecisionType
<1>4. PICK o : o = asked.items[item]
  OBVIOUS
<1>5. o \in Target /\ o \in Asking /\ o # NoObject
  BY <1>1, <1>2, <1>4, AskedFacts, KindFacts DEF DecisionType, Asking
<1>6. CASE asked.scope = "global" \/ D!Bound(o)
  <2>1. step' = "relation" /\ results' = results /\ item' = item
    BY <1>4, <1>6 DEF D!BindObject, D!Current, D!Goto
  <2>2. ModelRead' /\ SubjectRead' /\ KeycloakRead'
    BY <1>1, <1>2, <2>1 DEF StepsRead, ModelRead, SubjectRead, KeycloakRead,
       PastSubject, PastKeycloak, D!Holds
  <2>3. ScopeRead' /\ ModuleRead'
    BY <1>1, <1>2, <2>1 DEF StepsRead, ScopeRead, ModuleRead, PerItem, PastSubject, PastKeycloak,
       PastScope, InCompany, D!Holds
  <2>4. MemberRead'
    BY <1>1, <1>2, <2>1, SameRequestMeans DEF StepsRead, MemberRead, PastMember, D!Member, D!Holds
  <2>5. BindingRead'
    <3>1. InCompany => (Kind[o] = "module" => loaded) /\ Anchored(facts, o)
      BY <1>5, <1>6, KindFacts DEF InCompany, D!Bound, D!Bindable, Anchored
    <3> QED BY <1>1, <1>2, <1>4, <1>5, <2>1, <3>1 DEF BindingRead, InCompany, Anchored
  <2> QED
    BY <1>1, <1>2, <2>1, <2>2, <2>3, <2>4, <2>5, WentOn DEF StepsRead, Steps, PerItem, DecisionType
<1>7. CASE asked.scope # "global" /\ ~D!Bound(o)
  <2>1. D!Answer("ENGINE_DENIED")
    BY <1>4, <1>7 DEF D!BindObject, D!Current
  <2>2. InCompany
    BY <1>2, <1>7, AskedFacts DEF InCompany, DecisionType
  <2>3. CASE Kind[o] = "module" /\ ~loaded
    <3>1. PICK s \in history : ~D!Holds(s, "module")
      BY <1>3, <1>5, <2>3, LoadedFacts
    <3>2. ~D!Fulfils(D!Order[9], s, o) /\ ~D!Excused(D!Order[9], s)
      BY <1>5, <2>2, <2>3, <3>1, FulfilsFacts, MeetsFacts, OrderFacts
    <3>3. Refused(9, s, o)
      BY <1>3, <1>5, <3>2, SharedMet DEF Refused
    <3>4. D!ReasonOf(D!Order[9], s) = "ENGINE_DENIED"
      BY ReasonFacts, OrderFacts
    <3> QED BY <1>2, <1>5, <3>3, <3>4, RefusalFits, <1>1, <1>3, <1>4, <2>1, Answered
            DEF D!Denial, D!Reason
  <2>4. CASE Kind[o] = "module" => loaded
    <3>1. ~Anchored(facts, o)
      BY <1>5, <1>7, <2>4, KindFacts DEF D!Bound, D!Bindable, Anchored
    <3>2. ~D!Fulfils(D!Order[10], facts, o) /\ ~D!Excused(D!Order[10], facts)
      BY <1>5, <2>2, <3>1, FulfilsFacts, MeetsFacts, OrderFacts
    <3>3. \E s \in history : D!Meets(D!Order[9], s, o)
      <4>1. Kind[o] # "module" => D!Meets("typeLoaded", facts, o)
        BY <1>5, FulfilsFacts, MeetsFacts
      <4> QED BY <1>2, <1>3, <1>5, <2>4, <4>1, LoadedFacts, OrderFacts
    <3>4. Refused(10, facts, o)
      <4>1. \A j \in 1 .. 11 : j < 10 => j < 9 \/ j = 9
        OBVIOUS
      <4> QED BY <1>2, <1>3, <1>5, <3>2, <3>3, <4>1, SharedMet DEF Refused
    <3>5. D!ReasonOf(D!Order[10], facts) = "ENGINE_DENIED"
      BY ReasonFacts, OrderFacts
    <3> QED BY <1>2, <1>5, <3>4, <3>5, RefusalFits, <1>1, <1>3, <1>4, <2>1, Answered
            DEF D!Denial, D!Reason
  <2> QED BY <2>3, <2>4
<1> QED BY <1>6, <1>7

LEMMA RelationSteps ==
  ASSUME DecisionInv, D!RelationCheck
  PROVE  DecisionInv'
<1>1. /\ step = "relation"
      /\ UNCHANGED <<asked, facts, changes, history, failed, loaded, lifecycle>>
  BY DEF D!RelationCheck, D!world
<1>2. DecisionType /\ StepsRead /\ facts \in history
  BY DEF DecisionInv, DecisionType
<1>3. Evaluates /\ PerItem
  BY <1>1, <1>2 DEF Evaluates, PerItem, DecisionType
<1>4. PICK o : o = asked.items[item]
  OBVIOUS
<1>5. /\ o \in Target /\ o \in Asking /\ o # NoObject
      /\ InCompany => (Kind[o] = "module" => loaded) /\ \E s \in history : Anchored(s, o)
  BY <1>1, <1>2, <1>4, KindFacts DEF StepsRead, BindingRead, Asking
<1>6. PastSubject /\ PastKeycloak /\ PastScope /\ PastMember
  BY <1>1 DEF PastSubject, PastKeycloak, PastScope, PastMember
<1>7. ASSUME InCompany
      PROVE  /\ \E s \in history : D!Meets("typeLoaded", s, o)
             /\ \E s \in history : D!Meets("anchored", s, o)
  <2>1. Kind[o] # "module" => D!Meets("typeLoaded", facts, o)
    BY <1>5, FulfilsFacts, MeetsFacts
  <2>2. \A s : Anchored(s, o) => D!Meets("anchored", s, o)
    BY <1>5, FulfilsFacts, MeetsFacts
  <2> QED BY <1>2, <1>3, <1>5, <1>7, <2>1, <2>2, LoadedFacts
<1>8. CASE D!Related(o)
  <2>1. D!Answer("ALLOWED")
    BY <1>4, <1>8 DEF D!RelationCheck, D!Current
  <2>2. InCompany => D!Meets("related", facts, o)
    BY <1>5, <1>8, FulfilsFacts, MeetsFacts DEF D!Related, InCompany
  <2>3. \A c \in D!Condition : \E s \in history : D!Meets(c, s, o)
    <3>1. CASE InCompany
      BY <1>2, <1>3, <1>5, <1>6, <1>7, <2>2, <3>1, MetSoFar DEF D!Condition
    <3>2. CASE ~InCompany
      BY <1>3, <1>5, <1>6, <3>2, MetSoFar DEF D!Condition
    <3> QED BY <3>1, <3>2
  <2> QED BY <1>1, <1>3, <1>4, <1>5, <2>1, <2>3, AllowFits, Answered DEF D!Reason
<1>9. CASE ~D!Related(o)
  <2>1. D!Answer("ENGINE_DENIED")
    BY <1>4, <1>9 DEF D!RelationCheck, D!Current
  <2>2. CASE InCompany
    <3>1. ~D!Fulfils(D!Order[11], facts, o) /\ ~D!Excused(D!Order[11], facts)
      BY <1>5, <1>9, <2>2, FulfilsFacts, MeetsFacts, OrderFacts DEF D!Related, InCompany
    <3>2. Refused(11, facts, o)
      <4>1. \A j \in 1 .. 11 : j < 11 => j < 9 \/ j = 9 \/ j = 10
        OBVIOUS
      <4> QED BY <1>2, <1>3, <1>5, <1>7, <2>2, <3>1, <4>1, SharedMet, OrderFacts DEF Refused
    <3>3. D!ReasonOf(D!Order[11], facts) = "ENGINE_DENIED"
      BY ReasonFacts, OrderFacts
    <3> QED BY <1>2, <1>5, <3>2, <3>3, RefusalFits, <1>1, <1>3, <1>4, <2>1, Answered
            DEF D!Denial, D!Reason
  <2>3. CASE ~InCompany
    <3>1. asked.batch
      BY <1>2, <1>6, <2>3 DEF StepsRead, ScopeRead
    <3>2. Fits("ENGINE_DENIED", o, failed')
      BY <2>3, <3>1 DEF Fits, Grounded, Ordered, D!Unavailable
    <3> QED BY <1>1, <1>3, <1>4, <2>1, <3>2, Answered DEF D!Reason, D!Denial
  <2> QED BY <2>2, <2>3
<1> QED BY <1>8, <1>9

-------------------------------------------------------------------------------
(* Sources that are down, and facts that change. *)

LEMMA DownSteps ==
  ASSUME DecisionInv, D!SourceDown
  PROVE  DecisionInv'
<1>1. /\ failed' = TRUE
      /\ UNCHANGED <<asked, facts, changes, history, loaded, lifecycle>>
  BY DEF D!SourceDown, D!world
<1>2. DecisionType
  BY DEF DecisionInv
<1>3. Evaluates
  BY <1>1, <1>2 DEF Evaluates, DecisionType
<1>4. \A o : Fits(D!Unavailable, o, failed') /\ Fits(D!Error, o, failed')
  BY <1>1, DownFits
<1>5. D!Unavailable \in D!Reason /\ D!Error \in D!Reason
  BY DEF D!Reason
<1>6. CASE D!Decide(D!Unavailable) /\ UNCHANGED item
  BY <1>3, <1>4, <1>5, <1>6, Decided
<1>7. CASE D!Decide(D!Error) /\ UNCHANGED item
  BY <1>3, <1>4, <1>5, <1>7, Decided
<1>8. CASE D!AsksPerItem /\ D!Answer(D!Unavailable)
  <2>1. PerItem
    BY <1>8 DEF PerItem, D!AsksPerItem
  <2> QED BY <1>1, <1>3, <1>4, <1>5, <1>8, <2>1, Answered
<1> QED BY <1>6, <1>7, <1>8 DEF D!SourceDown

LEMMA ChangeSteps ==
  ASSUME DecisionInv, NEW f \in D!Fact, D!Change(f)
  PROVE  DecisionInv'
<1>1. /\ step # "done" /\ changes > 0 /\ changes' = changes - 1
      /\ history' = history \cup {facts'}
      /\ UNCHANGED <<asked, failed, step, loaded, lifecycle, item, results>>
  BY DEF D!Change
<1>2. PICK a \in D!Answers(f) \ {facts[f]} : facts' = [facts EXCEPT ![f] = a]
  BY DEF D!Change
<1>3. DecisionType /\ StepsRead /\ AnswersFit
  BY DEF DecisionInv
<1>4. facts' \in D!Situation /\ facts' # facts
  <2>1. a \in {"yes", "no", "unknown", "blocked", "foreign"}
    BY <1>2 DEF D!Answers
  <2>2. facts' \in [D!Fact -> {"yes", "no", "unknown", "blocked", "foreign"}]
    BY <1>2, <1>3, <2>1 DEF DecisionType, D!Situation
  <2>3. \A g \in D!Fact : facts'[g] \in D!Answers(g)
    BY <1>2, <1>3 DEF DecisionType, D!Situation
  <2>4. facts'[f] # facts[f]
    BY <1>2, <1>3 DEF DecisionType, D!Situation
  <2> QED BY <2>2, <2>3, <2>4 DEF D!Situation
<1>5. DecisionType'
  <2>1. IsFiniteSet(history')
    BY <1>1, <1>3, FS_AddElement DEF DecisionType
  <2> QED BY <1>1, <1>3, <1>4, <2>1 DEF DecisionType
<1>6. history \subseteq history' /\ history' # {facts'}
  BY <1>1, <1>3, <1>4 DEF DecisionType
<1>7. StepsRead'
  <2>1. ModelRead' /\ SubjectRead' /\ KeycloakRead'
    BY <1>1, <1>3, <1>6 DEF StepsRead, ModelRead, SubjectRead, KeycloakRead, PastSubject,
       PastKeycloak, D!Holds
  <2>2. ScopeRead' /\ ModuleRead'
    BY <1>1, <1>3, <1>6 DEF StepsRead, ScopeRead, ModuleRead, PastSubject, PastKeycloak, PastScope,
       PerItem, InCompany, D!Holds
  <2>3. MemberRead'
    BY <1>1, <1>3, <1>6, SameRequestMeans DEF StepsRead, MemberRead, PastMember, D!Holds, D!Member
  <2>4. BindingRead'
    BY <1>1, <1>3, <1>6 DEF StepsRead, BindingRead, InCompany, Anchored
  <2> QED BY <2>1, <2>2, <2>3, <2>4 DEF StepsRead
<1>8. ASSUME NEW i \in DOMAIN asked.items
      PROVE  /\ Grounded(results[i], asked.items[i], failed)'
             /\ Ordered(results[i], asked.items[i])'
  <2>1. PICK o, q, down : o = asked.items[i] /\ q = results[i] /\ down = failed
    OBVIOUS
  <2>2. Grounded(q, o, down)
    BY <1>3, <1>8, <2>1 DEF AnswersFit
  <2>3. Grounded(q, o, down)'
    BY <1>1, <1>6, <2>2, GroundsStay
  <2>4. Ordered(q, o)'
    BY <1>6 DEF Ordered
  <2>5. results'[i] = q /\ asked'.items[i] = o /\ failed' = down
    BY <1>1, <2>1
  <2> QED BY <2>3, <2>4, <2>5
<1>9. AnswersFit'
  <2>1. DOMAIN asked'.items = DOMAIN asked.items
    BY <1>1
  <2> QED BY <1>8, <2>1 DEF AnswersFit
<1> QED BY <1>5, <1>7, <1>9 DEF DecisionInv

-------------------------------------------------------------------------------

LEMMA DecisionInit == D!Init => DecisionInv
<1> SUFFICES ASSUME D!Init PROVE DecisionInv
  OBVIOUS
<1>1. /\ asked \in Requests /\ history = {facts} /\ failed = FALSE /\ step = "load"
      /\ loaded = FALSE /\ lifecycle = FALSE /\ item = 1
      /\ results = [i \in DOMAIN asked.items |-> "none"]
  BY DEF D!Init
<1>2. PICK f, g \in D!Relevant : facts \in D!Amiss(f, g) /\ changes = IF f = g THEN MaxChanges ELSE 0
  BY DEF D!Init
<1>3. facts \in D!Situation
  <2>1. f \in D!Fact /\ g \in D!Fact
    BY <1>2 DEF D!Relevant
  <2>2. PICK x \in D!Answers(f), y \in D!Answers(g) :
          facts = [[h \in D!Fact |-> "yes"] EXCEPT ![f] = x, ![g] = y]
    BY <1>2 DEF D!Amiss
  <2>3. \A h \in D!Fact : /\ "yes" \in D!Answers(h)
                          /\ D!Answers(h) \subseteq {"yes", "no", "unknown", "blocked", "foreign"}
    BY DEF D!Answers
  <2>4. \A h \in D!Fact : facts[h] = IF h = g THEN y ELSE IF h = f THEN x ELSE "yes"
    BY <2>1, <2>2
  <2>5. \A h \in D!Fact : facts[h] \in D!Answers(h)
    BY <2>2, <2>3, <2>4
  <2>6. facts \in [D!Fact -> {"yes", "no", "unknown", "blocked", "foreign"}]
    BY <2>1, <2>2, <2>3
  <2> QED BY <2>5, <2>6 DEF D!Situation
<1>4. DecisionType
  <2>1. changes \in Nat
    BY <1>2, DecisionConstants DEF D!DecisionAssumption
  <2>2. IsFiniteSet(history)
    BY <1>1, FS_Singleton
  <2> QED BY <1>1, <1>3, <2>1, <2>2 DEF DecisionType, Steps
<1>5. StepsRead
  BY <1>1 DEF StepsRead, ModelRead, SubjectRead, KeycloakRead, ScopeRead, MemberRead, ModuleRead,
     BindingRead, PastSubject, PastKeycloak, PastScope, PastMember, PerItem
<1>6. AnswersFit
  <2>1. \A i \in DOMAIN asked.items : results[i] = "none" /\ ~(i < item)
    BY <1>1, AskedFacts
  <2> QED BY <1>1, <2>1 DEF AnswersFit, Grounded, D!Denial, D!Unavailable
<1> QED BY <1>4, <1>5, <1>6 DEF DecisionInv

LEMMA DecisionNext ==
  ASSUME DecisionInv, D!Next
  PROVE  DecisionInv'
  BY LoadSteps, SubjectSteps, KeycloakSteps, PlatformRoleSteps, CompanySteps, OperatorSteps,
     MembershipSteps, CompanyRoleSteps, ModuleSteps, NoLegSteps, BindSteps, RelationSteps,
     DownSteps, ChangeSteps DEF D!Next

\* What the invariant says of the answers.
LEMMA DecisionSafe == DecisionInv => D!AllowGrounded /\ D!DenialGrounded /\ D!OrderedReason
<1> SUFFICES ASSUME DecisionInv PROVE D!AllowGrounded /\ D!DenialGrounded /\ D!OrderedReason
  OBVIOUS
<1>1. DecisionType /\ AnswersFit /\ DOMAIN results = DOMAIN asked.items
  BY DEF DecisionInv, DecisionType
<1>2. asked.scope = "global" <=> ~InCompany
  BY <1>1, AskedFacts DEF DecisionType, InCompany
<1>3. D!AllowGrounded
  BY <1>1 DEF AnswersFit, Grounded, D!AllowGrounded
<1>4. D!DenialGrounded
  BY <1>1, <1>2 DEF AnswersFit, Grounded, D!DenialGrounded
<1>5. D!OrderedReason
  <2> SUFFICES ASSUME D!Quiet, NEW i \in DOMAIN results
               PROVE  \/ results[i] = D!Reference(facts, asked.items[i])
                      \/ asked.scope = "global" /\ asked.batch
    BY DEF D!OrderedReason
  <2>1. step = "done" /\ ~failed /\ Cardinality(history) = 1
    <3>1. D!Cardinality(history) = Cardinality(history)
      BY Zenon DEF D!Cardinality, Cardinality
    <3> QED BY <3>1 DEF D!Quiet
  <2>2. history = {facts}
    BY <1>1, <2>1, FS_Singleton DEF DecisionType
  <2>3. Ordered(results[i], asked.items[i])
    BY <1>1, <2>1 DEF AnswersFit
  <2> QED BY <1>2, <2>2, <2>3 DEF Ordered
<1> QED BY <1>3, <1>4, <1>5

-------------------------------------------------------------------------------
(* The two sides together. *)

AuthzInv == IInv /\ (which = "decision" => DecisionInv)

LEMMA AuthzStart == AuthzInit => AuthzInv
  BY InitInv, DecisionInit DEF AuthzInit, AuthzInv

LEMMA AuthzStep == AuthzInv /\ [AuthzNext]_<<which, vars, decision>> => AuthzInv'
<1> SUFFICES ASSUME AuthzInv, [AuthzNext]_<<which, vars, decision>> PROVE AuthzInv'
  OBVIOUS
<1>1. ASSUME DecisionInv, UNCHANGED decision PROVE DecisionInv'
  <2> USE <1>1 DEF decision
  <2>1. DecisionType'
    BY DEF DecisionInv, DecisionType
  <2>2. ModelRead' /\ SubjectRead' /\ KeycloakRead' /\ ScopeRead' /\ ModuleRead' /\ BindingRead'
    BY DEF DecisionInv, StepsRead, ModelRead, SubjectRead, KeycloakRead, ScopeRead, ModuleRead,
       BindingRead, PastSubject, PastKeycloak, PastScope, PerItem, InCompany, Anchored, D!Holds
  <2>3. MemberRead'
    BY SameRequestMeans DEF DecisionInv, StepsRead, MemberRead, PastMember, D!Member, D!Holds
  <2>4. ASSUME NEW i \in DOMAIN asked.items
        PROVE  /\ Grounded(results[i], asked.items[i], failed)'
               /\ (~failed /\ (step = "done" \/ i < item) => Ordered(results[i], asked.items[i]))'
    <3>1. PICK o, q, down : o = asked.items[i] /\ q = results[i] /\ down = failed
      OBVIOUS
    <3>2. /\ Grounded(q, o, down)
          /\ ~down /\ (step = "done" \/ i < item) => Ordered(q, o)
      BY <2>4, <3>1 DEF DecisionInv, AnswersFit
    <3>3. Grounded(q, o, down)'
      BY <3>2, GroundsStay
    <3>4. ~down /\ (step = "done" \/ i < item) => Ordered(q, o)'
      BY <3>2, OrderedStays
    <3>5. /\ results'[i] = q /\ asked'.items[i] = o /\ failed' = down
          /\ step' = step /\ item' = item
      BY <3>1
    <3> QED BY <3>3, <3>4, <3>5
  <2>5. AnswersFit'
    BY <2>4 DEF AnswersFit
  <2> QED BY <2>1, <2>2, <2>3, <2>5 DEF DecisionInv, StepsRead
<1>2. CASE which = "grants" /\ Next /\ UNCHANGED <<which, decision>>
  BY <1>2, NextInv DEF AuthzInv
<1>3. CASE which = "decision" /\ D!Next /\ UNCHANGED <<which, vars>>
  BY <1>3, DecisionNext, StutterInv DEF AuthzInv
<1>4. CASE UNCHANGED <<which, vars, decision>>
  BY <1>1, <1>4, StutterInv DEF AuthzInv
<1> QED BY <1>2, <1>3, <1>4 DEF AuthzNext

\* Tuples, ledger and transactions keep their invariant, and so does a decision,
\* whatever changes under it.
THEOREM AuthzInvariant == AuthzSpec => []AuthzInv
  BY AuthzStart, AuthzStep, PTL DEF AuthzSpec

\* Fail closed under change: what is allowed was allowed by every condition at
\* some moment of the request, a denial names a condition that failed at some
\* moment, and a source that is down is never reported as either, whatever
\* changes and fails between the steps of Evaluate and EvaluateBatch.
THEOREM AnswersHaveGrounds == AuthzSpec => []AnswersGrounded
<1>1. AuthzInv => AnswersGrounded
  BY DecisionSafe DEF AuthzInv, AnswersGrounded
<1> QED
  BY <1>1, AuthzInvariant, PTL

\* When nothing changes and nothing fails, the reason is the first of the
\* documented order, for a single check and for each item of a batch
\* (Evaluate, EvaluateBatch).
THEOREM ReasonsOrdered == AuthzSpec => []OrderedReason
<1>1. AuthzInv => OrderedReason
  BY DecisionSafe DEF AuthzInv, OrderedReason
<1> QED
  BY <1>1, AuthzInvariant, PTL

==============================================================================
