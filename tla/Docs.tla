--------------------------------- MODULE Docs ---------------------------------
(***************************************************************************)
(* The docs module (modules/docs/service): documents, shares, and the       *)
(* relationship tuples that decide who may read, write and share.  The      *)
(* tuples are kept by the authz service and the rows by docs, so a create,  *)
(* a share and a revoke are each several calls that can fail, lose their    *)
(* answer or interleave with another request:                               *)
(*                                                                          *)
(*   create:  look the key up; grant owner and anchor; insert the row       *)
(*   share:   look the key up; read the row; revoke another relation;       *)
(*            grant; upsert the row                                         *)
(*   revoke:  read the row; revoke the tuple; delete the row                *)
(*                                                                          *)
(* A share names a member of the org directory, the tuple names the user    *)
(* the member is linked to at that moment.  Titles and bodies are left out  *)
(* (a payload is what two creates share or do not), and so is the event     *)
(* sent to the recipient, whose failure is ignored.                         *)
(***************************************************************************)
EXTENDS Naturals, FiniteSets

CONSTANTS
    Doc,       \* ids that uuid.New may draw, each drawn once
    Member,    \* org members
    User,      \* identity users, named by kcSub
    Owner,     \* the user who creates documents
    Key,       \* idempotency keys
    Client,    \* requests in progress at once
    None,      \* SQL NULL, no row, not linked
    MaxCalls   \* bound: requests made

\* What is absent is neither a user nor a key nor a row.
DocsAssumption ==
    /\ Owner \in User
    /\ None \notin User \cup Key \cup {"owner", "editor", "viewer"}
    /\ None \notin [key : Key \cup {None}]
    /\ None \notin [rel : {"viewer", "editor"}, key : Key \cup {None}]
    /\ MaxCalls \in Nat

VARIABLES
    link,      \* external: the user a member is linked to
    doc,       \* docs.document: None, or [key]
    drawn,     \* document ids already drawn
    owned,     \* tuples: documents with #owner @ Owner and the company anchor
    share,     \* docs.share: None, or [rel, key], per document and member
    tuple,     \* tuples: <<document, relation, user>>
    edits,     \* writes of a document that committed
    call,      \* the request each client has in progress
    calls,     \* requests made (bounded by MaxCalls)
    disturbed  \* history: <<document, member>> whose requests overlapped,
               \* failed half way, or whose link changed while shared

vars == <<link, doc, drawn, owned, share, tuple, edits, call, calls, disturbed>>

Relation == {"viewer", "editor"}

Idle == [op |-> "idle"]

Init ==
    /\ link \in [Member -> User \cup {None}]
    /\ \A m, n \in Member : m # n /\ link[m] # None => link[m] # link[n]
    /\ doc = [d \in Doc |-> None]
    /\ drawn = {}
    /\ owned = {}
    /\ share = [p \in Doc \X Member |-> None]
    /\ tuple = {}
    /\ edits = {}
    /\ call = [c \in Client |-> Idle]
    /\ calls = 0
    /\ disturbed = {}

-------------------------------------------------------------------------------
(* Requests. *)

\* CanObject: the engine's answer.  owner is also editor, editor also viewer.
CanObject(u, rel, d) ==
    \/ u = Owner /\ d \in owned
    \/ rel # "owner" /\ <<d, "editor", u>> \in tuple
    \/ rel = "viewer" /\ <<d, "viewer", u>> \in tuple

Begin(c) ==
    /\ call[c] = Idle
    /\ calls < MaxCalls
    /\ calls' = calls + 1

Goto(c, step) == call' = [call EXCEPT ![c].at = step]

End(c) == call' = [call EXCEPT ![c] = Idle]

\* Shares and revokes in progress for a document and member.
Busy(d, m) == {c \in Client : call[c].op \in {"share", "revoke"} /\ call[c].d = d /\ call[c].m = m}

Overlap(d, m) ==
    disturbed' = IF Busy(d, m) = {} THEN disturbed ELSE disturbed \cup {<<d, m>>}

-------------------------------------------------------------------------------
(* Documents. *)

\* The documents stored under a key.
FindDocumentByIdempotencyKey(key) == {e \in Doc : doc[e] # None /\ key # None /\ doc[e].key = key}

\* handleCreateDocument: the lookup of the key.  One that is there is
\* answered, as a replay or as a conflict, before anything is granted.
CreateLookup(c, d, key) ==
    /\ Begin(c)
    /\ d \notin drawn
    /\ FindDocumentByIdempotencyKey(key) = {}
    /\ drawn' = drawn \cup {d}
    /\ call' = [call EXCEPT ![c] = [op |-> "create", d |-> d, key |-> key, at |-> "grant"]]
    /\ UNCHANGED <<link, doc, owned, share, tuple, edits, disturbed>>

\* Mutated form: the tuples are granted once the row is there.
CreateGrantLast(c) ==
    /\ call[c].op = "create"
    /\ call[c].at = "grant"
    /\ Goto(c, "insert")
    /\ UNCHANGED <<link, doc, drawn, owned, share, tuple, edits, calls, disturbed>>

\* GrantDocumentOwner: owner and anchor in one request.
CreateGrant(c) ==
    /\ call[c].op = "create"
    /\ call[c].at = "grant"
    /\ owned' = owned \cup {call[c].d}
    /\ Goto(c, "insert")
    /\ UNCHANGED <<link, doc, drawn, share, tuple, edits, calls, disturbed>>

\* CreateDocument: the INSERT; the unique index on the key refuses a second.
CreateInsert(c) ==
    /\ call[c].op = "create"
    /\ call[c].at = "insert"
    /\ FindDocumentByIdempotencyKey(call[c].key) = {}
    /\ doc' = [doc EXCEPT ![call[c].d] = [key |-> call[c].key]]
    /\ End(c)
    /\ UNCHANGED <<link, drawn, owned, share, tuple, edits, calls, disturbed>>

\* handleUpdateDocument: the gate, and the UPDATE some time later.
UpdateGate(c, u, d) ==
    /\ Begin(c)
    /\ CanObject(u, "editor", d)
    /\ call' = [call EXCEPT ![c] = [op |-> "update", d |-> d, u |-> u]]
    /\ UNCHANGED <<link, doc, drawn, owned, share, tuple, edits, disturbed>>

UpdateDocument(c) ==
    /\ call[c].op = "update"
    /\ doc[call[c].d] # None
    /\ edits' = edits \cup {<<call[c].d, call[c].u>>}
    /\ End(c)
    /\ UNCHANGED <<link, doc, drawn, owned, share, tuple, calls, disturbed>>

\* The row and, by cascade, its shares.  The tuples stay, on an id that is
\* never drawn again.
DeleteDocument(d) ==
    /\ doc[d] # None
    /\ doc' = [doc EXCEPT ![d] = None]
    /\ share' = [p \in Doc \X Member |-> IF p[1] = d THEN None ELSE share[p]]
    /\ UNCHANGED <<link, drawn, owned, tuple, edits, call, calls, disturbed>>

-------------------------------------------------------------------------------
(* Shares. *)

\* The shares of a document stored under a key.
FindShareByIdempotencyKey(d, key) ==
    {n \in Member : share[<<d, n>>] # None /\ key # None /\ share[<<d, n>>].key = key}

\* handleCreateShare up to its first call to authz: the member has a user,
\* the key is not there for this document, the row is read.
ShareLookup(c, d, m, rel, key) ==
    /\ Begin(c)
    /\ CanObject(Owner, "owner", d)
    /\ link[m] # None
    /\ FindShareByIdempotencyKey(d, key) = {}
    /\ LET row == share[<<d, m>>]
           old == IF row = None THEN rel ELSE row.rel
       IN call' = [call EXCEPT ![c] =
             [op |-> "share", d |-> d, m |-> m, u |-> link[m], rel |-> rel, key |-> key,
              old |-> old, at |-> IF old = rel THEN "grant" ELSE "revoke"]]
    /\ Overlap(d, m)
    /\ UNCHANGED <<link, doc, drawn, owned, share, tuple, edits>>

\* Mutated form: an upgrade leaves the former relation in place.
ShareKeepOld(c) ==
    /\ call[c].op = "share"
    /\ call[c].at = "revoke"
    /\ Goto(c, "grant")
    /\ UNCHANGED <<link, doc, drawn, owned, share, tuple, edits, calls, disturbed>>

\* RevokeShare of the relation that was read, ahead of an up- or downgrade.
ShareRevokeOld(c) ==
    /\ call[c].op = "share"
    /\ call[c].at = "revoke"
    /\ tuple' = tuple \ {<<call[c].d, call[c].old, call[c].u>>}
    /\ Goto(c, "grant")
    /\ UNCHANGED <<link, doc, drawn, owned, share, edits, calls, disturbed>>

\* GrantShare.
ShareGrant(c) ==
    /\ call[c].op = "share"
    /\ call[c].at = "grant"
    /\ tuple' = tuple \cup {<<call[c].d, call[c].rel, call[c].u>>}
    /\ Goto(c, "record")
    /\ UNCHANGED <<link, doc, drawn, owned, share, edits, calls, disturbed>>

\* RecordShare: the upsert, which also replaces the key.  Its foreign key
\* needs the document.
ShareRecord(c) ==
    /\ call[c].op = "share"
    /\ call[c].at = "record"
    /\ doc[call[c].d] # None
    /\ share' = [share EXCEPT ![<<call[c].d, call[c].m>>] = [rel |-> call[c].rel, key |-> call[c].key]]
    /\ End(c)
    /\ UNCHANGED <<link, doc, drawn, owned, tuple, edits, calls, disturbed>>

\* handleRevokeShare: the member's user as it is now, and the row.
RevokeRead(c, d, m) ==
    /\ Begin(c)
    /\ CanObject(Owner, "owner", d)
    /\ link[m] # Owner
    /\ share[<<d, m>>] # None
    /\ call' = [call EXCEPT ![c] = [op |-> "revoke", d |-> d, m |-> m, u |-> link[m],
                                    rel |-> share[<<d, m>>].rel, at |-> "revoke"]]
    /\ Overlap(d, m)
    /\ UNCHANGED <<link, doc, drawn, owned, share, tuple, edits>>

\* RevokeShare, left out for a member without a user.
RevokeTuple(c) ==
    /\ call[c].op = "revoke"
    /\ call[c].at = "revoke"
    /\ tuple' = tuple \ {<<call[c].d, call[c].rel, call[c].u>>}
    /\ Goto(c, "remove")
    /\ UNCHANGED <<link, doc, drawn, owned, share, edits, calls, disturbed>>

\* RemoveShare.
RevokeRemove(c) ==
    /\ call[c].op = "revoke"
    /\ call[c].at = "remove"
    /\ share' = [share EXCEPT ![<<call[c].d, call[c].m>>] = None]
    /\ End(c)
    /\ UNCHANGED <<link, doc, drawn, owned, tuple, edits, calls, disturbed>>

\* The request ends early: a call failed, its answer was lost (the step it
\* stood for was or was not done), or the process stopped.  Nothing is undone.
Fail(c) ==
    /\ call[c] # Idle
    /\ disturbed' = IF call[c].op \in {"share", "revoke"}
                    THEN disturbed \cup {<<call[c].d, call[c].m>>} ELSE disturbed
    /\ End(c)
    /\ UNCHANGED <<link, doc, drawn, owned, share, tuple, edits, calls>>

\* org links the member to another user of no other member, or to none.
Relink(m, u) ==
    /\ u # link[m] /\ (u # None => \A n \in Member : link[n] # u)
    /\ link' = [link EXCEPT ![m] = u]
    /\ disturbed' = disturbed \cup
         {p \in Doc \X {m} : share[p] # None \/ Busy(p[1], m) # {}}
    /\ UNCHANGED <<doc, drawn, owned, share, tuple, edits, call, calls>>

\* The handlers: the steps each of them takes, in this order.
handleCreateDocument(c) ==
    \/ \E d \in Doc, key \in Key \cup {None} : CreateLookup(c, d, key)
    \/ CreateGrant(c)
    \/ CreateInsert(c)

handleUpdateDocument(c) ==
    \/ \E u \in User, d \in Doc : UpdateGate(c, u, d)
    \/ UpdateDocument(c)

handleDeleteDocument(d) ==
    /\ CanObject(Owner, "owner", d)
    /\ DeleteDocument(d)

handleCreateShare(c) ==
    \/ \E d \in Doc, m \in Member, rel \in Relation, key \in Key \cup {None} :
          ShareLookup(c, d, m, rel, key)
    \/ ShareRevokeOld(c)
    \/ ShareGrant(c)
    \/ ShareRecord(c)

handleRevokeShare(c) ==
    \/ \E d \in Doc, m \in Member : RevokeRead(c, d, m)
    \/ RevokeTuple(c)
    \/ RevokeRemove(c)

Next ==
    \/ \E c \in Client :
        \/ handleCreateDocument(c)
        \/ handleUpdateDocument(c)
        \/ handleCreateShare(c)
        \/ handleRevokeShare(c)
        \/ Fail(c)
    \/ \E d \in Doc : handleDeleteDocument(d)
    \/ \E m \in Member, u \in User \cup {None} : Relink(m, u)

-------------------------------------------------------------------------------
(* Reads.  All of them are answered from the state of one moment here; that *)
(* the calls of one answer see different moments adds nothing that the next *)
(* answer does not correct.                                                 *)

\* GetDocument, by id and company.
GetDocument(d) == doc[d] # None

ListOwnedDocuments(u) == {d \in Doc : doc[d] # None /\ u = Owner}

\* The candidates for "shared with me": the rows, in any relation.
SharedDocumentIDsForMember(m) == {d \in Doc : doc[d] # None /\ share[<<d, m>>] # None}

\* Each candidate is verified; what the answer leaves out is denied.
BatchCanObject(u, rel, ids) == {d \in ids : CanObject(u, rel, d)}

GetDocumentsByIDs(ids) == {d \in ids : doc[d] # None}

\* The subject's member, if it has one, is found by its user.
handleListDocuments(u) ==
    [owned  |-> ListOwnedDocuments(u),
     shared |-> UNION {GetDocumentsByIDs(BatchCanObject(u, "viewer", SharedDocumentIDsForMember(m))) :
                         m \in {n \in Member : link[n] = u}}]

\* The best relation: the row's owner, then the engine's answer for editor.
myRelation(u, d) ==
    IF u = Owner THEN "owner" ELSE IF CanObject(u, "editor", d) THEN "editor" ELSE "viewer"

\* Behind the viewer gate; None is an answer without a document.
handleGetDocument(u, d) ==
    IF CanObject(u, "viewer", d) /\ GetDocument(d) THEN myRelation(u, d) ELSE None

-------------------------------------------------------------------------------
(* Properties. *)

(***************************************************************************)
(* A member's row and tuples agree: one tuple, of the relation in the row,  *)
(* after any sequence of shares, upgrades, downgrades and revokes, and none *)
(* once the row is gone.  Excepted are documents with a member whose        *)
(* requests overlapped or failed half way, or who was relinked while shared:*)
(* the tuple of a member's former user stays, and may be another's now.     *)
(***************************************************************************)
ShareExactUnlessDisturbed ==
    \A d \in Doc, m \in Member :
        /\ doc[d] # None
        /\ link[m] # None
        /\ <<d, m>> \notin disturbed
        /\ Busy(d, m) = {}
        /\ \A n \in Member \ {m} : <<d, n>> \notin disturbed
        => {rel \in Relation : <<d, rel, link[m]>> \in tuple}
             = IF share[<<d, m>>] = None THEN {} ELSE {share[<<d, m>>].rel}

(***************************************************************************)
(* What a user is shown is what the user can open.  A listed document opens *)
(* (the owned ones without being verified, on the promise that "a document  *)
(* row never exists without its owner tuple"), also after creates that      *)
(* stopped half way or overlapped with one key.  A document that opens for  *)
(* a member is listed, with the exceptions above.                           *)
(***************************************************************************)
ListedIsWhatOpens ==
    \A u \in User, d \in Doc :
        LET l == handleListDocuments(u) IN
        /\ d \in l.owned \cup l.shared => handleGetDocument(u, d) # None
        /\ /\ handleGetDocument(u, d) # None
           /\ \E m \in Member : link[m] = u
           /\ \A m \in Member : Busy(d, m) = {} /\ <<d, m>> \notin disturbed
           => d \in l.owned \cup l.shared

===============================================================================
