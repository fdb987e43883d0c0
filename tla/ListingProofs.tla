---------------------------- MODULE ListingProofs ----------------------------
(***************************************************************************)
(* Listing for any accounts, clients, page sizes and width of the number   *)
(* of pages.                                                               *)
(***************************************************************************)
EXTENDS Listing, FiniteSetTheorems, TLAPS

-----------------------------------------------------------------------------
(* Places and pages *)

LEMMA PlaceType ==
    ASSUME NEW R \in SUBSET Ranks, NEW a \in Ranks
    PROVE  /\ Place(R, a) \in Nat /\ Cardinality(R) \in Nat
           /\ Place(R, a) <= Cardinality(R)
<1>1. IsFiniteSet(R)
    BY FS_Subset, RanksAssumption
<1>2. {b \in R : b <= a} \subseteq R
    OBVIOUS
<1>3. IsFiniteSet({b \in R : b <= a}) /\ Cardinality({b \in R : b <= a}) <= Cardinality(R)
    BY <1>1, <1>2, FS_Subset
<1> QED
    BY <1>1, <1>3, FS_CardinalityType DEF Place

\* An account never comes to an earlier place when others are registered.
LEMMA PlaceGrows ==
    ASSUME NEW R \in SUBSET Ranks, NEW S \in SUBSET Ranks, R \subseteq S, NEW a \in Ranks
    PROVE  Place(R, a) <= Place(S, a) /\ Cardinality(R) <= Cardinality(S)
<1>1. IsFiniteSet(S) /\ IsFiniteSet({b \in S : b <= a})
    BY FS_Subset, RanksAssumption
<1>2. {b \in R : b <= a} \subseteq {b \in S : b <= a}
    OBVIOUS
<1> QED
    BY <1>1, <1>2, FS_Subset DEF Place

\* No two accounts have one place.
LEMMA PlaceIsUnique ==
    ASSUME NEW R \in SUBSET Ranks, NEW a \in R, NEW b \in R, a < b
    PROVE  Place(R, a) # Place(R, b)
<1> DEFINE A == {x \in R : x <= a}
           B == {x \in R : x <= b}
<1>0. a \in Nat /\ b \in Nat /\ R \subseteq Nat
    BY RanksAssumption
<1>1. A \subseteq B /\ b \in B /\ b \notin A
    <2>1. ASSUME NEW x \in A PROVE x \in B
        <3>1. x \in Nat /\ x \in R /\ x <= a
            BY <1>0
        <3> QED
            BY <1>0, <3>1
    <2>2. b <= b /\ ~(b <= a)
        BY <1>0
    <2> QED
        BY <2>1, <2>2
<1>2. IsFiniteSet(B)
    BY FS_Subset, RanksAssumption
<1>3. Cardinality(A) # Cardinality(B)
    BY <1>1, <1>2, FS_Subset
<1> QED
    BY <1>3 DEF Place

LEMMA SizeType ==
    ASSUME NEW n \in Int
    PROVE  /\ PageSize(n) \in Nat \ {0} /\ PageSize(n) <= MaxPageSize
           /\ clampLimit(PageSize(n)) = PageSize(n)
BY SizesAssumption DEF PageSize, clampLimit

LEMMA PageType ==
    ASSUME NEW p \in Nat, NEW n \in Int
    PROVE  /\ Page(p) \in Nat \ {0}
           /\ Offset(p, n) \in Nat
           /\ Offset(Page(p) + 1, n) = Offset(p, n) + PageSize(n)
           /\ Offset(Page(p), n) = Offset(p, n)
           /\ Offset(p, n) + PageSize(n) = Page(p) * PageSize(n)
<1>1. Page(p) \in Nat \ {0} /\ Page(Page(p) + 1) = Page(p) + 1 /\ Page(Page(p)) = Page(p)
    BY DEF Page
<1>2. PageSize(n) \in Nat \ {0}
    BY SizeType
<1>3. ASSUME NEW k \in Nat \ {0}, NEW m \in Nat
      PROVE  (k - 1) * m \in Nat /\ (k + 1 - 1) * m = (k - 1) * m + m /\ (k - 1) * m + m = k * m
    OBVIOUS
<1> QED
    BY <1>1, <1>2, <1>3 DEF Offset

LEMMA Int32Type ==
    ASSUME NEW n \in Int
    PROVE  Int32(n) \in -Half .. Half - 1 /\ (n \in 0 .. Half - 1 => Int32(n) = n)
BY SizesAssumption DEF Int32

LEMMA TotalPagesType ==
    ASSUME NEW n \in Int, NEW t \in Nat
    PROVE  TotalPages(n, t) \in -Half .. Half - 1
<1>1. PageSize(n) \in Nat \ {0}
    BY SizeType
<1>2. t > 0 => (t - 1) \div PageSize(n) + 1 \in Int
    BY <1>1
<1> QED
    BY <1>2, Int32Type, SizesAssumption DEF TotalPages

LEMMA Multiples ==
    ASSUME NEW k \in Nat, NEW m \in Nat, NEW s \in Nat \ {0}
    PROVE  /\ k <= m => k * s <= m * s
           /\ k * s < m * s => k < m
OBVIOUS

\* Unless the number of pages overflows, the last page reaches the last account.
LEMMA LastPage ==
    ASSUME NEW n \in Int, NEW t \in Nat, NEW p \in Nat \ {0},
           t <= (Half - 1) * PageSize(n), p >= TotalPages(n, t)
    PROVE  t <= p * PageSize(n)
<1> DEFINE s == PageSize(n)
           q == (t - 1) \div s
<1>1. s \in Nat \ {0}
    BY SizeType
<1> HIDE DEF s
<1>2. CASE t = 0
    BY <1>1, <1>2 DEF s
<1>3. CASE t > 0
    <2>1. q \in Nat /\ q * s <= t - 1 /\ t - 1 < (q + 1) * s
        BY <1>1, <1>3
    <2> HIDE DEF q
    <2>2. q * s < (Half - 1) * s
        BY <2>1, <1>1, SizesAssumption DEF s
    <2>3. q < Half - 1
        BY <2>1, <2>2, <1>1, Multiples, SizesAssumption
    <2>4. TotalPages(n, t) = q + 1
        BY <2>1, <2>3, <1>3, Int32Type, SizesAssumption DEF TotalPages, q, s
    <2>5. (q + 1) * s <= p * s
        BY <2>1, <2>4, <1>1, Multiples
    <2>6. (q + 1) * s \in Int /\ p * s \in Int
        BY <2>1, <1>1
    <2> QED
        BY <2>1, <2>5, <2>6 DEF s
<1> QED
    BY <1>2, <1>3

-----------------------------------------------------------------------------
(* What a query returns *)

\* A page holds no more than it should, and ends where the accounts end.
LEMMA SelectFits ==
    ASSUME NEW R \in SUBSET Ranks, NEW offset \in Nat, NEW limit \in Nat,
           Select(R, offset, limit) # {}
    PROVE  /\ Cardinality(Select(R, offset, limit)) <= limit
           /\ offset + Cardinality(Select(R, offset, limit)) <= Cardinality(R)
<1> DEFINE I == Select(R, offset, limit)
           last == IF offset + limit <= Cardinality(R) THEN offset + limit ELSE Cardinality(R)
           place == [a \in I |-> Place(R, a)]
<1>0. PICK a \in Ranks : a \in R /\ offset < Place(R, a) /\ Place(R, a) <= offset + limit
    BY DEF Select
<1>1. I \subseteq R /\ R \subseteq Nat /\ Cardinality(R) \in Nat /\ last \in Nat
    BY <1>0, PlaceType, RanksAssumption DEF Select
<1>2. offset < last
    BY <1>0, <1>1, PlaceType
<1>3. place \in Injection(I, offset + 1 .. last)
    <2>1. \A b \in I : Place(R, b) \in offset + 1 .. last
        BY <1>1, PlaceType, RanksAssumption DEF Select
    <2>2. \A b, c \in I : Place(R, b) = Place(R, c) => b = c
        <3> TAKE b, c \in I
        <3>1. b \in Nat /\ c \in Nat
            BY <1>1
        <3>2. b < c \/ c < b \/ b = c
            BY <3>1
        <3> QED
            BY <1>1, <3>2, PlaceIsUnique
    <2> QED
        BY <2>1, <2>2 DEF Injection, IsInjective
<1>4. IsFiniteSet(offset + 1 .. last) /\ Cardinality(offset + 1 .. last) = last - offset
    <2>1. offset + 1 \in Int /\ last \in Int
        BY <1>1
    <2> HIDE DEF last
    <2> QED
        BY <2>1, <1>2, FS_Interval
<1>5. IsFiniteSet(I) /\ Cardinality(I) <= last - offset
    BY <1>3, <1>4, FS_Injection
<1> QED
    BY <1>1, <1>5, FS_CardinalityType

\* Cutting the sorted slice and OFFSET with LIMIT return the same page.
LEMMA SliceIsSelect ==
    ASSUME NEW R \in SUBSET Ranks, NEW offset \in Nat, NEW limit \in Nat
    PROVE  Slice(R, offset, limit) = Select(R, offset, limit)
<1>1. ASSUME NEW a \in R
      PROVE  a \in Slice(R, offset, limit) <=> a \in Select(R, offset, limit)
    <2>1. Place(R, a) \in Nat /\ Cardinality(R) \in Nat /\ Place(R, a) <= Cardinality(R)
        BY PlaceType
    <2> QED
        BY <2>1 DEF Slice, Select
<1> QED
    BY <1>1 DEF Slice, Select

-----------------------------------------------------------------------------
(* The inductive invariant *)

\* What a client asks for, and where its page begins.
LEMMA RequestType ==
    ASSUME TypeOK, NEW c \in Clients
    PROVE  /\ page[c] \in Nat /\ size[c] \in Int
           /\ rows \in SUBSET Ranks /\ before[c] \in SUBSET Ranks
           /\ Offset(page[c], size[c]) \in Nat
           /\ PageSize(size[c]) \in Nat \ {0}
<1>1. page[c] \in Nat /\ size[c] \in Int
    BY SizesAssumption DEF TypeOK
<1> QED
    BY <1>1, PageType, SizeType DEF TypeOK

\* A page that leaves out nothing before its end.
LEMMA SelectLeaves ==
    ASSUME TypeOK, NEW c \in Clients, NEW a \in rows,
           Place(rows, a) > Offset(page[c], size[c]),
           a \notin Select(rows, Offset(page[c], size[c]), PageSize(size[c]))
    PROVE  Place(rows, a) > Offset(page[c], size[c]) + PageSize(size[c])
<1>1. Place(rows, a) \in Nat
    BY PlaceType DEF TypeOK
<1> QED
    BY <1>1, RequestType DEF Select

LEMMA RespondKeeps ==
    ASSUME IInv, NEW c \in Clients, NEW I \in SUBSET Ranks,
           \A a \in before[c] \ (seen[c] \cup I) :
              Place(rows, a) > Offset(page[c], size[c]) + PageSize(size[c]),
           I # {} => /\ Cardinality(I) <= PageSize(size[c])
                     /\ Offset(page[c], size[c]) + Cardinality(I) <= Cardinality(rows),
           Respond(c, I, Cardinality(rows))
    PROVE  IInv'
<1> DEFINE t == Cardinality(rows)
           p == Page(page[c])
           n == size[c]
<1>1. /\ t \in Nat /\ p \in Nat \ {0} /\ n \in Int /\ PageSize(n) \in Nat \ {0}
      /\ Offset(page[c], n) \in Nat /\ Offset(p + 1, n) = Offset(page[c], n) + PageSize(n)
      /\ Offset(p, n) = Offset(page[c], n) /\ Offset(p, n) + PageSize(n) = p * PageSize(n)
      /\ TotalPages(n, t) \in -Half .. Half - 1
    <2>1. t \in Nat
        BY FS_Subset, FS_CardinalityType, RanksAssumption DEF IInv, TypeOK
    <2> QED
        BY <2>1, RequestType, PageType, TotalPagesType DEF IInv
<1>2. /\ rows' = rows /\ size' = size /\ before' = before /\ adapter' = adapter
      /\ items' = [items EXCEPT ![c] = I] /\ total' = [total EXCEPT ![c] = t]
      /\ seen' = [seen EXCEPT ![c] = @ \cup I]
    BY DEF Respond
<1>3. /\ pc'[c] = (IF p >= TotalPages(n, t) THEN "done" ELSE "ask")
      /\ page'[c] = (IF p >= TotalPages(n, t) THEN p ELSE p + 1)
      /\ items'[c] = I /\ total'[c] = t /\ seen'[c] = seen[c] \cup I
      /\ pc' \in [Clients -> {"off", "ask", "count", "done"}]
      /\ \A d \in Clients \ {c} :
            /\ pc'[d] = pc[d] /\ page'[d] = page[d] /\ items'[d] = items[d]
            /\ total'[d] = total[d] /\ seen'[d] = seen[d]
    BY DEF IInv, TypeOK, Respond
<1>4. TypeOK'
    <2>1. p \in 0 .. Half - 1
        BY <1>1, SizesAssumption DEF IInv, TypeOK, Page
    <2>2. p < TotalPages(n, t) => p + 1 \in 0 .. Half - 1
        BY <1>1, SizesAssumption
    <2>3. page' \in [Clients -> 0 .. Half - 1]
        BY <2>1, <2>2, <1>1, SizesAssumption DEF IInv, TypeOK, Respond
    <2> QED
        BY <1>1, <1>2, <1>3, <2>3 DEF IInv, TypeOK
<1> HIDE DEF t, p, n
<1>5. Walks'
    <2> SUFFICES ASSUME NEW d \in Clients
                 PROVE  /\ before[d] \subseteq rows
                        /\ pc'[d] \in {"ask", "count"} =>
                              \A a \in before[d] \ seen'[d] : Place(rows, a) > Offset(page'[d], size[d])
        BY <1>2 DEF Walks, Place, Offset, Page, PageSize
    <2>1. CASE d = c
        BY <2>1, <1>1, <1>3 DEF IInv, Walks, n, p
    <2>2. CASE d # c
        BY <2>2, <1>3 DEF IInv, Walks
    <2> QED
        BY <2>1, <2>2
<1>6. PagesRead'
    BY <1>2, <1>3 DEF IInv, PagesRead, Place, Offset, Page, PageSize
<1>7. WalkMissesNone'
    <2> SUFFICES ASSUME NEW d \in Clients, pc'[d] = "done",
                        total'[d] <= (Half - 1) * PageSize(size[d]), NEW a \in before[d]
                 PROVE  a \in seen'[d]
        BY <1>2 DEF WalkMissesNone, PageSize
    <2>1. CASE d = c
        <3>1. t <= p * PageSize(n)
            BY <2>1, <1>1, <1>3, LastPage DEF n
        <3>2. Place(rows, a) \in Nat /\ Place(rows, a) <= t
            BY PlaceType DEF IInv, TypeOK, t
        <3>3. ~(Place(rows, a) > Offset(page[c], n) + PageSize(n))
            BY <3>1, <3>2, <1>1
        <3> QED
            BY <3>3, <2>1, <1>3 DEF n
    <2>2. CASE d # c
        BY <2>2, <1>3 DEF IInv, WalkMissesNone
    <2> QED
        BY <2>1, <2>2
<1>8. PageFitsTotal'
    <2> SUFFICES ASSUME NEW d \in Clients, pc'[d] = "done", items'[d] # {}
                 PROVE  /\ Cardinality(items'[d]) <= MaxPageSize
                        /\ Offset(page'[d], size[d]) + Cardinality(items'[d]) <= total'[d]
        BY <1>2 DEF PageFitsTotal, Offset, Page, PageSize
    <2>1. CASE d = c
        <3>1. Cardinality(I) \in Nat
            BY FS_Subset, FS_CardinalityType, RanksAssumption
        <3>2. PageSize(n) <= MaxPageSize
            BY <1>1, SizeType
        <3> QED
            BY <2>1, <3>1, <3>2, <1>1, <1>3, SizesAssumption DEF n, t
    <2>2. CASE d # c
        BY <2>2, <1>3 DEF IInv, PageFitsTotal
    <2> QED
        BY <2>1, <2>2
<1> QED
    BY <1>4, <1>5, <1>6, <1>7, <1>8 DEF IInv

LEMMA Start == Init => IInv
<1> SUFFICES ASSUME Init PROVE IInv
    OBVIOUS
<1>1. TypeOK
    BY SizesAssumption DEF Init, TypeOK
<1> QED
    BY <1>1 DEF Init, IInv, Walks, PagesRead, WalkMissesNone, PageFitsTotal

LEMMA BeginKeeps ==
    ASSUME IInv, NEW c \in Clients, NEW p \in {0, 1}, NEW n \in Sizes, Begin(c, p, n)
    PROVE  IInv'
<1>1. /\ rows' = rows /\ pc'[c] = "ask" /\ page'[c] = p /\ size'[c] = n
      /\ before'[c] = rows /\ seen'[c] = {}
      /\ \A d \in Clients \ {c} :
            /\ pc'[d] = pc[d] /\ page'[d] = page[d] /\ size'[d] = size[d] /\ items'[d] = items[d]
            /\ total'[d] = total[d] /\ seen'[d] = seen[d] /\ before'[d] = before[d]
    BY DEF IInv, TypeOK, Begin
<1>2. TypeOK'
    BY SizesAssumption DEF IInv, TypeOK, Begin
<1>3. \A a \in rows : Place(rows, a) > Offset(p, n)
    <2> TAKE a \in rows
    <2>1. Offset(p, n) = 0
        <3>1. PageSize(n) \in Nat
            BY SizeType, SizesAssumption
        <3>2. Page(p) = 1
            BY DEF Page
        <3> QED
            BY <3>1, <3>2 DEF Offset
    <2>2. Place(rows, a) # 0
        <3>1. a \in {b \in rows : b <= a}
            BY RanksAssumption DEF IInv, TypeOK
        <3>2. IsFiniteSet({b \in rows : b <= a})
            BY FS_Subset, RanksAssumption DEF IInv, TypeOK
        <3> QED
            BY <3>1, <3>2, FS_EmptySet DEF Place
    <2> QED
        BY <2>1, <2>2, PlaceType DEF IInv, TypeOK
<1>4. Walks'
    <2> SUFFICES ASSUME NEW d \in Clients
                 PROVE  /\ before'[d] \subseteq rows
                        /\ pc'[d] \in {"ask", "count"} =>
                              \A a \in before'[d] \ seen'[d] : Place(rows, a) > Offset(page'[d], size'[d])
        BY <1>1 DEF Walks, Place, Offset, Page, PageSize
    <2>1. CASE d = c
        BY <2>1, <1>1, <1>3
    <2>2. CASE d # c
        BY <2>2, <1>1 DEF IInv, Walks
    <2> QED
        BY <2>1, <2>2
<1>5. PagesRead'
    BY <1>1 DEF IInv, PagesRead, Place, Offset, Page, PageSize
<1>6. WalkMissesNone'
    BY <1>1 DEF IInv, WalkMissesNone, PageSize
<1>7. PageFitsTotal'
    BY <1>1 DEF IInv, PageFitsTotal, Offset, Page, PageSize
<1> QED
    BY <1>2, <1>4, <1>5, <1>6, <1>7 DEF IInv

\* What FindPaginated reads is all there is up to the end of the page.
LEMMA SelectKeeps ==
    ASSUME IInv, NEW c \in Clients, pc[c] = "ask"
    PROVE  LET I == Select(rows, Offset(page[c], size[c]), PageSize(size[c]))
           IN  /\ I \in SUBSET Ranks
               /\ \A a \in before[c] \ (seen[c] \cup I) :
                     Place(rows, a) > Offset(page[c], size[c]) + PageSize(size[c])
               /\ I # {} => /\ Cardinality(I) <= PageSize(size[c])
                            /\ Offset(page[c], size[c]) + Cardinality(I) <= Cardinality(rows)
<1> DEFINE I == Select(rows, Offset(page[c], size[c]), PageSize(size[c]))
<1>1. I \in SUBSET Ranks
    BY DEF IInv, TypeOK, Select
<1>2. ASSUME NEW a \in before[c] \ (seen[c] \cup I)
      PROVE  Place(rows, a) > Offset(page[c], size[c]) + PageSize(size[c])
    BY <1>2, SelectLeaves DEF IInv, Walks
<1>3. I # {} => /\ Cardinality(I) <= PageSize(size[c])
                /\ Offset(page[c], size[c]) + Cardinality(I) <= Cardinality(rows)
    BY RequestType, SelectFits DEF IInv
<1> QED
    BY <1>1, <1>2, <1>3

LEMMA SelectPageKeeps ==
    ASSUME IInv, NEW c \in Clients, SelectPage(c)
    PROVE  IInv'
<1> DEFINE I == Select(rows, Offset(page[c], size[c]), PageSize(size[c]))
<1>1. /\ items' = [items EXCEPT ![c] = I] /\ pc' = [pc EXCEPT ![c] = "count"]
      /\ UNCHANGED <<adapter, rows, page, size, total, seen, before>> /\ pc[c] = "ask"
    <2>1. clampLimit(PageSize(size[c])) = PageSize(size[c])
        BY RequestType, SizeType DEF IInv
    <2> QED
        BY <2>1 DEF SelectPage
<1>2. /\ I \in SUBSET Ranks
      /\ \A a \in before[c] \ (seen[c] \cup I) :
            Place(rows, a) > Offset(page[c], size[c]) + PageSize(size[c])
      /\ I # {} => /\ Cardinality(I) <= PageSize(size[c])
                   /\ Offset(page[c], size[c]) + Cardinality(I) <= Cardinality(rows)
    BY <1>1, SelectKeeps
<1> HIDE DEF I
<1>3. /\ pc'[c] = "count" /\ items'[c] = I
      /\ \A d \in Clients \ {c} : pc'[d] = pc[d] /\ items'[d] = items[d]
    BY <1>1 DEF IInv, TypeOK
<1>4. TypeOK'
    BY <1>1, <1>2 DEF IInv, TypeOK
<1>5. Walks'
    BY <1>1, <1>3 DEF IInv, Walks, Place, Offset, Page, PageSize
<1>6. PagesRead'
    <2> SUFFICES ASSUME NEW d \in Clients, pc'[d] = "count"
                 PROVE  /\ \A a \in before[d] \ (seen[d] \cup items'[d]) :
                              Place(rows, a) > Offset(page[d], size[d]) + PageSize(size[d])
                        /\ items'[d] # {} =>
                              /\ Cardinality(items'[d]) <= PageSize(size[d])
                              /\ Offset(page[d], size[d]) + Cardinality(items'[d]) <= Cardinality(rows)
        BY <1>1 DEF PagesRead, Place, Offset, Page, PageSize
    <2>1. CASE d = c
        BY <2>1, <1>2, <1>3
    <2>2. CASE d # c
        BY <2>2, <1>3 DEF IInv, PagesRead
    <2> QED
        BY <2>1, <2>2
<1>7. WalkMissesNone' /\ PageFitsTotal'
    BY <1>1, <1>3 DEF IInv, WalkMissesNone, PageFitsTotal, Offset, Page, PageSize
<1> QED
    BY <1>4, <1>5, <1>6, <1>7 DEF IInv

\* A registration only moves accounts to later places.
LEMMA InsertKeeps ==
    ASSUME IInv, NEW a \in Ranks, Insert(a)
    PROVE  IInv'
<1>1. UNCHANGED <<adapter, client>> /\ rows \subseteq rows' /\ rows' \in SUBSET Ranks
    BY DEF Insert, IInv, TypeOK
<1>2. \A b \in Ranks : Place(rows, b) \in Nat /\ Place(rows', b) \in Nat /\ Place(rows, b) <= Place(rows', b)
    BY <1>1, PlaceType, PlaceGrows DEF IInv, TypeOK
<1>3. /\ Cardinality(rows) \in Nat /\ Cardinality(rows') \in Nat
      /\ Cardinality(rows) <= Cardinality(rows')
    BY <1>1, <1>2, PlaceGrows, PlaceType DEF IInv, TypeOK
<1>4. TypeOK'
    BY <1>1 DEF IInv, TypeOK, client
<1>5. Walks'
    <2> SUFFICES ASSUME NEW d \in Clients
                 PROVE  /\ before[d] \subseteq rows'
                        /\ pc[d] \in {"ask", "count"} =>
                              \A b \in before[d] \ seen[d] : Place(rows', b) > Offset(page[d], size[d])
        BY <1>1 DEF Walks, client, Place, Offset, Page, PageSize
    <2>1. Offset(page[d], size[d]) \in Nat /\ before[d] \subseteq Ranks
        BY RequestType DEF IInv
    <2> QED
        BY <2>1, <1>1, <1>2 DEF IInv, Walks
<1>6. PagesRead'
    <2> SUFFICES ASSUME NEW d \in Clients, pc[d] = "count"
                 PROVE  /\ \A b \in before[d] \ (seen[d] \cup items[d]) :
                              Place(rows', b) > Offset(page[d], size[d]) + PageSize(size[d])
                        /\ items[d] # {} =>
                              /\ Cardinality(items[d]) <= PageSize(size[d])
                              /\ Offset(page[d], size[d]) + Cardinality(items[d]) <= Cardinality(rows')
        BY <1>1 DEF PagesRead, client, Place, Offset, Page, PageSize
    <2>1. /\ Offset(page[d], size[d]) \in Nat /\ PageSize(size[d]) \in Nat
          /\ before[d] \subseteq Ranks
        BY RequestType DEF IInv
    <2>2. Cardinality(items[d]) \in Nat
        BY FS_Subset, FS_CardinalityType, RanksAssumption DEF IInv, TypeOK
    <2> QED
        BY <2>1, <2>2, <1>2, <1>3 DEF IInv, PagesRead
<1>7. WalkMissesNone' /\ PageFitsTotal'
    BY <1>1 DEF IInv, client, WalkMissesNone, PageFitsTotal, Offset, Page, PageSize
<1> QED
    BY <1>4, <1>5, <1>6, <1>7 DEF IInv

LEMMA NextKeeps == IInv /\ [Next]_vars => IInv'
<1> SUFFICES ASSUME IInv, [Next]_vars PROVE IInv'
    OBVIOUS
<1>1. ASSUME NEW c \in Clients, NEW p \in {0, 1}, NEW n \in Sizes, Begin(c, p, n) PROVE IInv'
    BY <1>1, BeginKeeps
<1>2. ASSUME NEW c \in Clients, ListMemory(c) PROVE IInv'
    <2>1. Slice(rows, Offset(page[c], size[c]), PageSize(size[c]))
            = Select(rows, Offset(page[c], size[c]), PageSize(size[c]))
        BY SliceIsSelect, RequestType DEF IInv
    <2>2. pc[c] = "ask" /\ Respond(c, Select(rows, Offset(page[c], size[c]), PageSize(size[c])),
                                   Cardinality(rows))
        BY <1>2, <2>1 DEF ListMemory
    <2> HIDE DEF Respond
    <2> QED
        BY <2>2, SelectKeeps, RespondKeeps
<1>3. ASSUME NEW c \in Clients, SelectPage(c) PROVE IInv'
    BY <1>3, SelectPageKeeps
<1>4. ASSUME NEW c \in Clients, CountRows(c) PROVE IInv'
    <2>1. pc[c] = "count" /\ Respond(c, items[c], Cardinality(rows)) /\ items[c] \in SUBSET Ranks
        BY <1>4 DEF CountRows, IInv, TypeOK
    <2> QED
        BY <2>1, RespondKeeps DEF IInv, PagesRead
<1>5. ASSUME NEW c \in Clients, Fail(c) PROVE IInv'
    <2>1. /\ UNCHANGED <<adapter, rows, page, size, items, total, seen, before>>
          /\ pc[c] \in {"ask", "count"} /\ pc' = [pc EXCEPT ![c] = "ask"]
        BY <1>5 DEF Fail
    <2>2. pc'[c] = "ask" /\ \A d \in Clients \ {c} : pc'[d] = pc[d]
        BY <2>1 DEF IInv, TypeOK
    <2>3. TypeOK'
        BY <2>1 DEF IInv, TypeOK
    <2>4. Walks' /\ PagesRead'
        BY <2>1, <2>2 DEF IInv, Walks, PagesRead, Place, Offset, Page, PageSize
    <2>5. WalkMissesNone' /\ PageFitsTotal'
        BY <2>1, <2>2 DEF IInv, WalkMissesNone, PageFitsTotal, Offset, Page, PageSize
    <2> QED
        BY <2>3, <2>4, <2>5 DEF IInv
<1>6. ASSUME NEW a \in Ranks, Insert(a) PROVE IInv'
    BY <1>6, InsertKeeps
<1>7. CASE UNCHANGED vars
    BY <1>7 DEF vars, IInv, TypeOK, Walks, PagesRead, WalkMissesNone, PageFitsTotal,
                Place, Offset, Page, PageSize
<1> QED
    BY <1>1, <1>2, <1>3, <1>4, <1>5, <1>6, <1>7 DEF Next

LEMMA Invariance == Spec => []IInv
BY Start, NextKeeps, PTL DEF Spec

-----------------------------------------------------------------------------
\* Every variable keeps its type; the page numbers clients ask for fit an int32.
THEOREM TypeCorrect == Spec => []TypeOK
<1>1. IInv => TypeOK
    BY DEF IInv
<1> QED
    BY <1>1, Invariance, PTL

\* Who reads to the last page misses no account that was there when it began,
\* although FindPaginated shifts when accounts are registered in between.
THEOREM NoneIsMissed == Spec => []WalkMissesNone
<1>1. IInv => WalkMissesNone
    BY DEF IInv
<1> QED
    BY <1>1, Invariance, PTL

\* The page and the total of an answer agree, although they are two queries.
THEOREM PagesFitTotals == Spec => []PageFitsTotal
<1>1. IInv => PageFitsTotal
    BY DEF IInv
<1> QED
    BY <1>1, Invariance, PTL
=============================================================================
