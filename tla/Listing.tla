------------------------------ MODULE Listing ------------------------------
(***************************************************************************)
(* ListUsers and FindPaginated of both adapters, read page by page by      *)
(* clients while accounts are being registered.  The PostgreSQL adapter    *)
(* reads the page and counts the accounts in two queries without a         *)
(* transaction; the in-memory adapter does both under its read lock.       *)
(*                                                                         *)
(* An account is its rank in the order (created_at, id).  created_at is    *)
(* set before the insert, by the clock of any replica, so a new account    *)
(* may come at any rank.  No use case deletes accounts.                    *)
(*                                                                         *)
(* The client is external: it asks for the pages 1, 2, ... with one page   *)
(* size until the page it got is the last of TotalPages, and asks again    *)
(* after an error.  That callerRole may list is AccessControl's subject.   *)
(***************************************************************************)
EXTENDS Integers, FiniteSets

CONSTANTS
    Clients,
    Ranks,              \* of the accounts that may ever be registered
    Sizes,              \* page sizes a client may ask for
    DefaultPageSize,    \* defaultPageSize and defaultFindUsersLimit
    MaxPageSize,        \* maxPageSize and maxFindUsersLimit
    Half                \* 2^31: an int32 is in -Half .. Half - 1

ASSUME RanksAssumption == Ranks \subseteq Nat /\ IsFiniteSet(Ranks)
ASSUME SizesAssumption ==
    /\ Sizes \subseteq Int
    /\ DefaultPageSize \in Nat \ {0} /\ MaxPageSize \in Nat /\ DefaultPageSize <= MaxPageSize
    /\ Half \in Nat \ {0, 1}

VARIABLES
    adapter,    \* cfg.Adapter
    rows,       \* accounts stored
    pc,         \* "off", or what the request of a client does next
    page,       \* page the client asks for, 0 for none
    size,       \* page_size of its requests
    items,      \* page FindPaginated has read
    total,      \* TotalItems of the last answer
    seen,       \* accounts the client has been sent
    before      \* history: accounts stored when it began

client == <<pc, page, size, items, total, seen, before>>
vars == <<adapter, rows, pc, page, size, items, total, seen, before>>

TypeOK ==
    /\ adapter \in {"memory", "postgres"}
    /\ rows \subseteq Ranks
    /\ pc \in [Clients -> {"off", "ask", "count", "done"}]
    /\ page \in [Clients -> 0 .. Half - 1]
    /\ size \in [Clients -> Int]
    /\ items \in [Clients -> SUBSET Ranks]
    /\ total \in [Clients -> Nat]
    /\ seen \in [Clients -> SUBSET Ranks]
    /\ before \in [Clients -> SUBSET Ranks]

-----------------------------------------------------------------------------
(* Operators *)

\* ListUsers: page < 1 is page 1.
Page(p) == IF p < 1 THEN 1 ELSE p

\* Faulty variant: the largest page size has no bound.
PageSizeUnbounded(n) == IF n < 1 THEN DefaultPageSize ELSE n

PageSize(n) ==
    IF n < 1 THEN DefaultPageSize
    ELSE IF n > MaxPageSize THEN MaxPageSize ELSE n

\* The adapter's own bound on LIMIT.
clampLimit(limit) ==
    IF limit <= 0 THEN DefaultPageSize
    ELSE IF limit > MaxPageSize THEN MaxPageSize ELSE limit

\* Faulty variant: the page number counts from zero.
OffsetFromZero(p, n) == Page(p) * PageSize(n)

Offset(p, n) == (Page(p) - 1) * PageSize(n)

Int32(n) == ((n + Half) % (2 * Half)) - Half

\* Faulty variant: the last page only counts when it is full.
TotalPagesFull(n, t) == Int32(t \div PageSize(n))

\* Faulty variant: the number of pages is not an int32.
TotalPagesWide(n, t) == IF t > 0 THEN (t - 1) \div PageSize(n) + 1 ELSE 0

TotalPages(n, t) == IF t > 0 THEN Int32((t - 1) \div PageSize(n) + 1) ELSE 0

\* Place of rank a in the order of the accounts R.
Place(R, a) == Cardinality({b \in R : b <= a})

\* ORDER BY created_at, id OFFSET offset LIMIT limit
Select(R, offset, limit) == {a \in R : offset < Place(R, a) /\ Place(R, a) <= offset + limit}

\* users[start:end] of the sorted slice
Slice(R, offset, limit) ==
    LET least(m, n) == IF m < n THEN m ELSE n
        start == least(offset, Cardinality(R))
        end == least(start + limit, Cardinality(R))
    IN  {a \in R : start < Place(R, a) /\ Place(R, a) <= end}

-----------------------------------------------------------------------------
(* Clients and requests *)

\* A client begins; no page parameter is page 0.
Begin(c, p, n) ==
    /\ pc[c] \in {"off", "done"}
    /\ pc' = [pc EXCEPT ![c] = "ask"]
    /\ page' = [page EXCEPT ![c] = p]
    /\ size' = [size EXCEPT ![c] = n]
    /\ items' = [items EXCEPT ![c] = {}]
    /\ total' = [total EXCEPT ![c] = 0]
    /\ seen' = [seen EXCEPT ![c] = {}]
    /\ before' = [before EXCEPT ![c] = rows]
    /\ UNCHANGED <<adapter, rows>>

\* The answer: the page I and t, the number of accounts.
Respond(c, I, t) ==
    /\ items' = [items EXCEPT ![c] = I]
    /\ total' = [total EXCEPT ![c] = t]
    /\ seen' = [seen EXCEPT ![c] = @ \cup I]
    /\ IF Page(page[c]) >= TotalPages(size[c], t)
       THEN /\ pc' = [pc EXCEPT ![c] = "done"]
            /\ page' = [page EXCEPT ![c] = Page(@)]
       ELSE /\ pc' = [pc EXCEPT ![c] = "ask"]
            /\ page' = [page EXCEPT ![c] = Page(@) + 1]
    /\ UNCHANGED <<adapter, rows, size, before>>

ListMemory(c) ==
    /\ pc[c] = "ask" /\ adapter = "memory"
    /\ Respond(c, Slice(rows, Offset(page[c], size[c]), PageSize(size[c])), Cardinality(rows))

\* The first query.
SelectPage(c) ==
    /\ pc[c] = "ask" /\ adapter = "postgres"
    /\ items' = [items EXCEPT ![c] =
                    Select(rows, Offset(page[c], size[c]), clampLimit(PageSize(size[c])))]
    /\ pc' = [pc EXCEPT ![c] = "count"]
    /\ UNCHANGED <<adapter, rows, page, size, total, seen, before>>

\* Faulty variant: the accounts are counted for the first page only.
CountRowsOnce(c) ==
    /\ pc[c] = "count"
    /\ Respond(c, items[c], IF total[c] > 0 THEN total[c] ELSE Cardinality(rows))

\* The second query, SELECT COUNT(*), and the answer.
CountRows(c) ==
    /\ pc[c] = "count"
    /\ Respond(c, items[c], Cardinality(rows))

\* A query fails, and the client asks for the same page again.
Fail(c) ==
    /\ pc[c] \in {"ask", "count"} /\ adapter = "postgres"
    /\ pc' = [pc EXCEPT ![c] = "ask"]
    /\ UNCHANGED <<adapter, rows, page, size, items, total, seen, before>>

\* An account is committed.
Insert(a) ==
    /\ rows' = rows \cup {a}
    /\ UNCHANGED <<adapter, client>>

-----------------------------------------------------------------------------
Init ==
    /\ adapter \in {"memory", "postgres"}
    /\ rows \in SUBSET Ranks
    /\ pc = [c \in Clients |-> "off"]
    /\ page = [c \in Clients |-> 0]
    /\ size = [c \in Clients |-> 0]
    /\ items = [c \in Clients |-> {}]
    /\ total = [c \in Clients |-> 0]
    /\ seen = [c \in Clients |-> {}]
    /\ before = [c \in Clients |-> {}]

Next ==
    \/ \E c \in Clients :
          \/ \E p \in {0, 1}, n \in Sizes : Begin(c, p, n)
          \/ ListMemory(c)
          \/ SelectPage(c)
          \/ CountRows(c)
          \/ Fail(c)
    \/ \E a \in Ranks : Insert(a)

Spec == Init /\ [][Next]_vars

-----------------------------------------------------------------------------
(* Properties *)

\* As long as the number of pages fits an int32, a client that reads to the last
\* page has been sent every account there was when it began, whatever was
\* registered between its requests and between the two queries of one.
WalkMissesNone ==
    \A c \in Clients :
        pc[c] = "done" /\ total[c] <= (Half - 1) * PageSize(size[c]) => before[c] \subseteq seen[c]

\* A page is never larger than MaxPageSize, and the total of the answer counts at
\* least the accounts up to the end of the page, though it is a second query.
PageFitsTotal ==
    \A c \in Clients : pc[c] = "done" /\ items[c] # {} =>
        /\ Cardinality(items[c]) <= MaxPageSize
        /\ Offset(page[c], size[c]) + Cardinality(items[c]) <= total[c]
-----------------------------------------------------------------------------
(* Inductive invariant *)

\* What a client has not been sent yet comes after the pages it has read.
Walks ==
    \A c \in Clients :
        /\ before[c] \subseteq rows
        /\ pc[c] \in {"ask", "count"} =>
              \A a \in before[c] \ seen[c] : Place(rows, a) > Offset(page[c], size[c])

\* The page read is full unless the accounts end, and does not pass their end.
PagesRead ==
    \A c \in Clients : pc[c] = "count" =>
        /\ \A a \in before[c] \ (seen[c] \cup items[c]) :
              Place(rows, a) > Offset(page[c], size[c]) + PageSize(size[c])
        /\ items[c] # {} =>
              /\ Cardinality(items[c]) <= PageSize(size[c])
              /\ Offset(page[c], size[c]) + Cardinality(items[c]) <= Cardinality(rows)

IInv == TypeOK /\ Walks /\ PagesRead /\ WalkMissesNone /\ PageFitsTotal
=============================================================================
