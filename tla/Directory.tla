------------------------------- MODULE Directory -------------------------------
(***************************************************************************)
(* The lists of the platform: members, positions and groups of the org      *)
(* service, channels and inbox of the notification module, projects,        *)
(* submissions and approvers of the timesheet module, the audit view of the *)
(* docs module.  They are one algorithm: a gate, page and page size bounded,*)
(* a count and a LIMIT and OFFSET fetch that are separate statements outside*)
(* a transaction, and totalPages computed from the count.  A client walks a *)
(* list by asking for the next page until it has seen totalPages of them,   *)
(* while rows come, go and are renamed.                                     *)
(*                                                                          *)
(* The lists differ in the rows they choose, in what orders them, in which  *)
(* of the two statements comes first, in the gate and in the limits; each   *)
(* is described by what its statement, its store function and its handler   *)
(* add.  A code is unique in its company; a display name or a time is not,  *)
(* and rows with equal keys come back in any order, another one for each    *)
(* fetch.                                                                   *)
(***************************************************************************)
EXTENDS Naturals, Sequences, FiniteSets, FiniteSetsExt

CONSTANTS
    Item,        \* rows of the table
    SortKey,     \* what the list is ordered by, a set of naturals
    None,        \* no row, or not of this company
    MaxPage,     \* highest page (maxPage)
    MaxPageSize, \* largest page (maxPageSize)
    Default,     \* page size when none is given (25)
    Asked,       \* page sizes that clients ask for
    MaxChanges   \* bound: changes while a client walks

\* The limits of the code: at most 100 rows a page, 25 when the client names no size.
DirectoryAssumption ==
    /\ IsFiniteSet(Item)
    /\ SortKey \subseteq Nat /\ None \notin SortKey
    /\ MaxPage \in Nat /\ MaxPageSize \in Nat /\ Default \in 1 .. MaxPageSize
    /\ Asked \subseteq Int
    /\ MaxChanges \in Nat

VARIABLES
    list,        \* the list that the client walks
    key,         \* what the list orders each row by, or None
    active,      \* the rows with is_active
    reader,      \* the caller: "stranger" (or a guest), "member", "allowed"
    walk,        \* the client's walk
    stayed,      \* history: rows that were listed with a key of their own
                 \* since the walk began
    removed,     \* history: a row went, or was renamed, during the walk
    added,       \* history: a row came, or was renamed, during the walk
    between,     \* history: a row came between the count and the fetch
    changes      \* changes made (bounded by MaxChanges)

vars == <<list, key, active, reader, walk, stayed, removed, added, between, changes>>

-------------------------------------------------------------------------------
(* The statements: only active rows or all, and whether the order is total. *)

AllByCode    == [activeOnly |-> FALSE, total |-> TRUE]
AllByOther   == [activeOnly |-> FALSE, total |-> FALSE]
ActiveByCode == [activeOnly |-> TRUE, total |-> TRUE]

listMembers               == AllByCode
listMemberDirectory       == [activeOnly |-> TRUE, total |-> FALSE]
listPositions             == AllByCode
listPositionsWithHolder   == AllByCode
listGroupsWithMemberCount == AllByCode
listGroupMembers          == AllByOther

(* The store functions: the statement, and when the rows are counted. *)

CountFirst(statement) == [sql |-> statement, count |-> "first"]
CountLast(statement)  == [sql |-> statement, count |-> "last"]
NoCount(statement)    == [sql |-> statement, count |-> "never"]

ListMembers               == CountFirst(listMembers)
MemberDirectory           == CountFirst(listMemberDirectory)
ListPositions             == CountFirst(listPositions)
ListPositionsWithHolder   == CountFirst(listPositionsWithHolder)
ListActiveGroups          == CountLast(ActiveByCode)
ListGroupsWithMemberCount == CountFirst(listGroupsWithMemberCount)
ListGroupMembers          == NoCount(listGroupMembers)
ListChannels              == CountFirst(AllByOther)
ListInbox                 == CountFirst(AllByOther)
ListProjects              == CountFirst(AllByCode)
ListSubmissions           == CountFirst(AllByOther)
ListApproverAssignments   == CountFirst(AllByOther)
ModuleAudit               == CountFirst(AllByOther)

(* The handlers: who may read, and whether a page over the limit is refused. *)

Org(name, store, gate) == [name |-> name, store |-> store, gate |-> gate, limited |-> TRUE]
Module(name, store)    == [name |-> name, store |-> store, gate |-> "decision", limited |-> FALSE]

handleListMembers             == Org("members", ListMembers, "memberOrAdmin")
handleMemberDirectory         == Org("member directory", MemberDirectory, "memberOrAdmin")
handlePositionDirectory       == Org("position directory", ListPositions, "memberOrAdmin")
handleGroupDirectory          == Org("group directory", ListActiveGroups, "memberOrAdmin")
handleListPositions           == Org("positions", ListPositions, "gateway")
handleAdminPositionList       == Org("position admin", ListPositionsWithHolder, "gateway")
handleAdminGroupList          == Org("group admin", ListGroupsWithMemberCount, "gateway")
handleListGroupMembers        == Org("group members", ListGroupMembers, "memberOrAdmin")
handleListChannels            == Module("channels", ListChannels)
handleListInbox               == Module("inbox", ListInbox)
handleListProjects            == Module("projects", ListProjects)
handleListSubmissions         == Module("submissions", ListSubmissions)
handleListApprovers           == Module("approvers", ListApproverAssignments)
handleGetModuleAudit          == Module("audit", ModuleAudit)

List == {handleListMembers, handleMemberDirectory, handlePositionDirectory,
         handleGroupDirectory, handleListPositions, handleAdminPositionList,
         handleAdminGroupList, handleListGroupMembers, handleListChannels,
         handleListInbox, handleListProjects, handleListSubmissions,
         handleListApprovers, handleGetModuleAudit}

-------------------------------------------------------------------------------

\* The rows that the list's statements choose.
Rows == {i \in Item : key[i] # None /\ (list.store.sql.activeOnly => i \in active)}

\* A unique index, where the list is ordered by a code.
Distinct(k) ==
    list.store.sql.total =>
      \A i, j \in Item : i # j /\ k[i] # None => k[i] # k[j]

Start == [at |-> "start", page |-> 0, size |-> 0, total |-> 0, view |-> <<>>, got |-> <<>>]

Init ==
    /\ list \in List
    /\ key \in {k \in [Item -> SortKey \cup {None}] : Distinct(k)}
    /\ active = {i \in Item : key[i] # None}
    /\ reader \in {"stranger", "member", "allowed"}
    /\ walk = Start
    /\ stayed = {}
    /\ removed = FALSE
    /\ added = FALSE
    /\ between = FALSE
    /\ changes = 0

-------------------------------------------------------------------------------
(* One page. *)

\* The gate: the org service asks for an active member that is no guest, or
\* for an allowed decision; a module asks for the decision; the rest is left
\* to the gateway.
requireMemberOrAdmin ==
    CASE list.gate = "memberOrAdmin" -> reader \in {"member", "allowed"}
      [] list.gate = "decision"      -> reader = "allowed"
      [] OTHER                       -> TRUE

\* pageParams of the org service refuses a page or a page size over the limit
\* before the store is asked; that of the modules takes any.
PageParams(page, size) == list.limited => page <= MaxPage /\ size <= MaxPageSize

\* clampPage: a page below 1 is the first, no page size is the default.  The
\* org service also clamps the page, which pageParams has refused by then.
ClampPage(page, size) ==
    [page |-> IF page < 1 THEN 1 ELSE page,
     size |-> IF size < 1 THEN Default ELSE Min({size, MaxPageSize})]

\* Mutated form: the offset counts pages from 0.
OffsetFromZero(page, size) == page * size

\* pageWindow: the OFFSET of a page.
Offset(page, size) == (page - 1) * size

\* Every order that ORDER BY allows.
Sorted(rows) ==
    {s \in [1 .. Cardinality(rows) -> rows] :
       \A i, j \in DOMAIN s : i < j => s[i] # s[j] /\ key[s[i]] <= key[s[j]]}

\* LIMIT and OFFSET.
Window(s, page, size) ==
    SubSeq(s, Offset(page, size) + 1, Min({Offset(page, size) + size, Len(s)}))

\* writeDirectoryPage: at least one page.
TotalPages(total, size) ==
    LET n == (total + size - 1) \div size IN IF n < 1 THEN 1 ELSE n

-------------------------------------------------------------------------------
(* The walk. *)

Counted == list.store.count

Goto(step) == walk' = [walk EXCEPT !.at = step]

Rest == <<list, key, active, reader, changes>>
history == <<stayed, removed, added, between>>

\* The first request, with any page size; the walk is recorded from here.
Ask(size) ==
    /\ walk.at = "start"
    /\ walk' = [Start EXCEPT !.at = "gate", !.size = size]
    /\ stayed' = {i \in Rows : \A j \in Rows \ {i} : key[j] # key[i]}
    /\ UNCHANGED <<Rest, removed, added, between>>

\* The gate, and the limits; a refused request ends the walk.
Gate ==
    /\ walk.at = "gate"
    /\ IF requireMemberOrAdmin /\ PageParams(walk.page, walk.size)
       THEN LET p == ClampPage(walk.page, walk.size)
            IN  walk' = [walk EXCEPT !.at = IF Counted = "first" THEN "count" ELSE "fetch",
                                     !.page = p.page, !.size = p.size]
       ELSE Goto("refused")
    /\ UNCHANGED <<Rest, history>>

Count ==
    /\ walk.at = "count"
    /\ walk' = [walk EXCEPT !.at = IF Counted = "first" THEN "fetch" ELSE "answer",
                            !.total = Cardinality(Rows)]
    /\ UNCHANGED <<Rest, history>>

Fetch ==
    /\ walk.at = "fetch"
    /\ Counted # "never"
    /\ \E s \in Sorted(Rows) :
         walk' = [walk EXCEPT !.at = IF Counted = "first" THEN "answer" ELSE "count",
                              !.view = Window(s, walk.page, walk.size)]
    /\ UNCHANGED <<Rest, history>>

\* A list without pages is one statement, and one answer.
FetchAll ==
    /\ walk.at = "fetch"
    /\ Counted = "never"
    /\ \E s \in Sorted(Rows) : walk' = [walk EXCEPT !.at = "done", !.got = s]
    /\ UNCHANGED <<Rest, history>>

\* The client keeps the rows and asks for the next page, while there is one.
NextPage ==
    /\ walk.at = "answer"
    /\ LET more == walk.page < TotalPages(walk.total, walk.size)
       IN  walk' = [walk EXCEPT !.at = IF more THEN "gate" ELSE "done",
                                !.page = IF more THEN @ + 1 ELSE @,
                                !.got = @ \o walk.view, !.view = <<>>]
    /\ UNCHANGED <<Rest, history>>

-------------------------------------------------------------------------------
(* The environment. *)

Walking == walk.at \in {"gate", "count", "fetch", "answer"}

\* What a change of key and active does to the history; i is the row.
Disturb(i) ==
    /\ UNCHANGED <<list, reader, walk>>
    /\ changes < MaxChanges
    /\ changes' = changes + 1
    /\ stayed' = {j \in stayed \ {i} : key[j] # key'[i]}
    /\ removed' = (removed \/ i \in Rows)
    /\ added' = (added \/ i \in Rows')
    /\ between' = (between \/ (Counted = "first" /\ walk.at = "fetch" /\ i \in Rows'))

\* A row is created, removed or renamed.
Change(i, k) ==
    /\ Walking
    /\ k # key[i]
    /\ key' = [key EXCEPT ![i] = k]
    /\ Distinct(key')
    /\ active' = IF k = None THEN active \ {i} ELSE active \cup {i}
    /\ Disturb(i)

\* A member or a group is deactivated, or activated again.
Toggle(i) ==
    /\ Walking
    /\ list.store.sql.activeOnly
    /\ key[i] # None
    /\ active' = IF i \in active THEN active \ {i} ELSE active \cup {i}
    /\ key' = key
    /\ Disturb(i)

\* The reader's membership or roles change.
ChangeReader(who) ==
    /\ Walking
    /\ changes < MaxChanges
    /\ who # reader
    /\ changes' = changes + 1
    /\ reader' = who
    /\ UNCHANGED <<list, key, active, walk, history>>

Next ==
    \/ \E size \in Asked : Ask(size)
    \/ Gate \/ Count \/ Fetch \/ FetchAll \/ NextPage
    \/ \E i \in Item, k \in SortKey \cup {None} : Change(i, k)
    \/ \E i \in Item : Toggle(i)
    \/ \E who \in {"stranger", "member", "allowed"} : ChangeReader(who)

-------------------------------------------------------------------------------
(* Properties. *)

Times(i) == Cardinality({n \in DOMAIN walk.got : walk.got[n] = i})

\* A walk that reaches its last page lists a row that kept its place, with a
\* key of its own: at least once, unless a row went during the walk or one
\* came between a count and its fetch (which leaves totalPages too small);
\* and at most once, unless a row came during the walk.  Renamed rows count
\* as both.
WalkComplete ==
    walk.at = "done" =>
      \A i \in stayed :
        /\ Times(i) = 0 => removed \/ between
        /\ Times(i) > 1 => added
===============================================================================
