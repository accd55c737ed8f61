---- MODULE Pagination ----
(***************************************************************************)
(* GET /v1/plans and GET /v1/subscribers, page by page: parsePagination    *)
(* clamps what the client asks for, the service hands the store the offset *)
(* minus one, and the store cuts a page out of the rows in order of id.    *)
(* A client walks the list from offset 0 while other clients create rows;  *)
(* ids are ordered as text, so a new row may sort anywhere ("sub_10" comes *)
(* before "sub_2").  The search filter, which never changes for a row, is  *)
(* left out: a row here is one that matches.                               *)
(***************************************************************************)
EXTENDS Integers, FiniteSets

CONSTANTS
    Id,             \* identifiers, by their rank in the text order
    Limits,         \* values of ?limit clients send (0: none)
    DefaultLimit,   \* defaultPageLimit
    MaxLimit,       \* maxPageLimit
    MaxOffset       \* bound: a client asks for no offset beyond it

ASSUME PageAssumption ==
    /\ Id \subseteq Nat /\ IsFiniteSet(Id)
    /\ Limits \subseteq Nat
    /\ DefaultLimit \in Nat \ {0} /\ MaxLimit \in Nat \ {0}
    /\ DefaultLimit <= MaxLimit
    /\ MaxOffset \in Nat

VARIABLES
    rows,           \* ids in the table
    walk,           \* "start", "page", "done"
    asked,          \* the ?limit the client sends with every request
    byAsked,        \* it advances ?offset by that limit, or by the rows it got
    offset,         \* its next ?offset
    page,           \* the last page it got
    seen,           \* the ids on the pages it got
    there,          \* history: ids in the table when the walk began
    repeated,       \* history: some id was on two pages
    moved           \* history: a row was created during the walk

client == <<walk, asked, byAsked, offset, page, seen, there, repeated>>
vars   == <<rows, client, moved>>

Init ==
    /\ rows \in SUBSET Id
    /\ walk = "start" /\ asked = 0 /\ byAsked = FALSE
    /\ offset = 0 /\ page = {} /\ seen = {}
    /\ there = {} /\ repeated = FALSE /\ moved = FALSE

----
\* Mutant: the limit is not clamped from above.
Unclamped(limit) == IF limit > 0 THEN limit ELSE DefaultLimit

\* parsePagination; an offset is passed through, being no less than 0.
ParsedLimit(limit) ==
    LET given == IF limit > 0 THEN limit ELSE DefaultLimit IN
    IF given > MaxLimit THEN MaxLimit ELSE given

\* Mutant: one up instead of one down.
OneUp(n) == n + 1

\* Service.ListPlans and Service.ListSubscribers.
StoreOffset(n) == n - 1

\* A row's place in the listing, ORDER BY id.
Rank(id, in) == Cardinality({i \in in : i < id})

\* paginatePlans and paginateSubscribers, LIMIT l OFFSET o: a page is the
\* rows ranked from the offset on; a negative offset counts as 0, and past
\* the end there is nothing.
Paginate(in, limit, n) ==
    LET from == IF n < 0 THEN 0 ELSE n
    IN  {id \in in : Rank(id, in) \in from .. from + limit - 1}

List(limit, n) == Paginate(rows, ParsedLimit(limit), StoreOffset(n))

----
Create ==
    /\ \E id \in Id \ rows : rows' = rows \cup {id}
    /\ moved' = (moved \/ walk = "page")
    /\ UNCHANGED client

Begin ==
    /\ walk = "start"
    /\ walk' = "page"
    /\ asked' \in Limits
    /\ byAsked' \in BOOLEAN
    /\ there' = rows
    /\ UNCHANGED <<rows, offset, page, seen, repeated, moved>>

\* One request; an empty page ends the walk.
NextPage ==
    /\ walk = "page"
    /\ offset <= MaxOffset
    /\ page' = List(asked, offset)
    /\ seen' = seen \cup page'
    /\ repeated' = (repeated \/ page' \cap seen # {})
    /\ offset' = offset + (IF byAsked /\ asked > 0 THEN asked ELSE Cardinality(page'))
    /\ walk' = IF page' = {} THEN "done" ELSE "page"
    /\ UNCHANGED <<rows, asked, byAsked, there, moved>>

\* The table is full, and nobody has to ask for it.
Quiet == rows = Id /\ UNCHANGED vars

Next == Create \/ Begin \/ NextPage \/ Quiet

Spec == Init /\ [][Next]_vars

----
\* Every variable keeps its type, and no page is longer than maxPageLimit.
TypeOK ==
    /\ rows \subseteq Id
    /\ walk \in {"start", "page", "done"}
    /\ asked \in Limits \cup {0}
    /\ byAsked \in BOOLEAN
    /\ offset \in Nat
    /\ page \subseteq Id /\ Cardinality(page) <= MaxLimit
    /\ seen \subseteq Id /\ there \subseteq Id
    /\ repeated \in BOOLEAN /\ moved \in BOOLEAN

\* A finished walk saw every row that was there when it began, whatever was
\* created meanwhile and wherever it sorts.  (A walk need not finish while rows
\* keep being created.  A client that advances by more than maxPageLimit skips
\* rows: its limit was clamped, its stride was not.)
NoneMissed ==
    walk = "done" /\ ~(byAsked /\ asked > MaxLimit) => there \subseteq seen

\* While nothing is created, the pages come in order: what a page shows has
\* no gap to what was seen before.
NoGap ==
    walk # "start" /\ ~moved /\ ~(byAsked /\ asked > MaxLimit) =>
        \A i \in there, j \in seen : i < j => i \in seen

\* service.go:137: ListSubscribers "returns a page of subscribers": with no
\* row created meanwhile, no row is on two pages.
PagesDisjoint == ~moved => ~repeated

====
