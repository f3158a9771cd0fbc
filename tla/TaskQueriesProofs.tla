-------------------------- MODULE TaskQueriesProofs --------------------------
(***************************************************************************)
(* Proofs about what a reader gets to see, for any number of rows, changes *)
(* and questions.  Where a row may stand in a list is told by two numbers, *)
(* of the rows before it and of those not behind it: each SELECT may order *)
(* rows with equal keys in its own way, but none leaves these bounds.      *)
(* Creations never lower them, and so the place of a row, or one its equal *)
(* takes, is still ahead of a reader who has not met either.               *)
(***************************************************************************)
EXTENDS TaskQueries, FiniteSetTheorems, TLAPS

(***************************************************************************)
(* Finite sets in a total order.                                           *)
(***************************************************************************)
TotalOn(S, order) ==
  /\ \A x \in S : <<x, x>> \notin order
  /\ \A x, y \in S : x = y \/ <<x, y>> \in order \/ <<y, x>> \in order
  /\ \A x, y, z \in S : <<x, y>> \in order /\ <<y, z>> \in order => <<x, z>> \in order

Ahead(S, order, x) == {y \in S : <<y, x>> \in order}

Rank(S, order, x) == Cardinality(Ahead(S, order, x)) + 1

\* Ranks are positions, and grow along the order.
LEMMA RankGrows ==
  ASSUME NEW S, IsFiniteSet(S), NEW order, TotalOn(S, order), NEW x \in S
  PROVE  /\ Rank(S, order, x) \in 1..Cardinality(S)
         /\ \A y \in S : <<x, y>> \in order => Rank(S, order, x) < Rank(S, order, y)
<1>1. \A y \in S : /\ IsFiniteSet(Ahead(S, order, y))
                   /\ Cardinality(Ahead(S, order, y)) \in Nat
  <2> SUFFICES ASSUME NEW y \in S
               PROVE  /\ IsFiniteSet(Ahead(S, order, y))
                      /\ Cardinality(Ahead(S, order, y)) \in Nat
    OBVIOUS
  <2>1. Ahead(S, order, y) \in SUBSET S
    BY DEF Ahead
  <2> QED
    BY <2>1, FS_Subset, FS_CardinalityType
<1>2. Cardinality(S) \in Nat
  BY FS_CardinalityType
<1>3. Cardinality(Ahead(S, order, x)) < Cardinality(S)
  <2>1. Ahead(S, order, x) \in SUBSET S /\ x \notin Ahead(S, order, x)
    BY DEF Ahead, TotalOn
  <2>2. /\ Cardinality(Ahead(S, order, x)) <= Cardinality(S)
        /\ Cardinality(Ahead(S, order, x)) # Cardinality(S)
    BY <2>1, FS_Subset
  <2> QED
    BY <1>1, <1>2, <2>2
<1>4. ASSUME NEW y \in S, <<x, y>> \in order
      PROVE  Cardinality(Ahead(S, order, x)) < Cardinality(Ahead(S, order, y))
  <2>1. Ahead(S, order, x) \in SUBSET Ahead(S, order, y)
    BY <1>4 DEF Ahead, TotalOn
  <2>2. x \in Ahead(S, order, y) /\ x \notin Ahead(S, order, x)
    BY <1>4 DEF Ahead, TotalOn
  <2>3. /\ Cardinality(Ahead(S, order, x)) <= Cardinality(Ahead(S, order, y))
        /\ Cardinality(Ahead(S, order, x)) # Cardinality(Ahead(S, order, y))
    BY <1>1, <2>1, <2>2, FS_Subset
  <2> QED
    BY <1>1, <2>3
<1> QED
  BY <1>1, <1>2, <1>3, <1>4 DEF Rank

\* InOrder puts every element at its rank, and nothing else anywhere.
LEMMA InOrderByRank ==
  ASSUME NEW S, IsFiniteSet(S), NEW order, TotalOn(S, order)
  PROVE  /\ Cardinality(S) \in Nat
         /\ InOrder(S, order) \in [1..Cardinality(S) -> S]
         /\ \A x \in S : /\ Rank(S, order, x) \in 1..Cardinality(S)
                         /\ InOrder(S, order)[Rank(S, order, x)] = x
         /\ \A n \in 1..Cardinality(S) : Rank(S, order, InOrder(S, order)[n]) = n
<1> DEFINE size == Cardinality(S)
           f == [x \in S |-> Rank(S, order, x)]
<1>1. size \in Nat
  BY FS_CardinalityType
<1>2. f \in Injection(S, 1..size)
  <2>1. f \in [S -> 1..size]
    BY RankGrows
  <2>2. ASSUME NEW x \in S, NEW y \in S, f[x] = f[y] PROVE x = y
    <3>1. f[x] \in 1..size /\ ~(f[x] < f[y]) /\ ~(f[y] < f[x])
      BY <1>1, <2>1, <2>2
    <3> QED
      BY <3>1, RankGrows DEF TotalOn
  <2> QED
    BY <2>1, <2>2 DEF Injection, IsInjective
<1>3. f \in Surjection(S, 1..size)
  <2>1. IsFiniteSet(1..size) /\ Cardinality(1..size) = size
    BY <1>1, FS_Interval
  <2> QED
    BY <1>2, <2>1, FS_Injection
<1>4. \A n \in 1..size : \E x \in S : Rank(S, order, x) = n
  BY <1>3 DEF Surjection
<1>5. \A x \in S : Cardinality(Ahead(S, order, x)) \in Nat
  <2> TAKE x \in S
  <2>1. Ahead(S, order, x) \in SUBSET S
    BY DEF Ahead
  <2> QED
    BY <2>1, FS_Subset, FS_CardinalityType
<1>6. ASSUME NEW n \in 1..size
      PROVE  InOrder(S, order)[n] \in S /\ Rank(S, order, InOrder(S, order)[n]) = n
  <2> DEFINE P(x) == Cardinality({y \in S : <<y, x>> \in order}) = n - 1
  <2>1. \A x \in S : P(x) <=> Rank(S, order, x) = n
    BY <1>5 DEF Rank, Ahead
  <2>2. \E x \in S : P(x)
    BY <1>4, <2>1
  <2>3. InOrder(S, order)[n] = CHOOSE x \in S : P(x)
    BY DEF InOrder
  <2> HIDE DEF P
  <2> QED
    BY <2>1, <2>2, <2>3
<1>7. InOrder(S, order) \in [1..size -> S]
  <2> DEFINE pick(n) == CHOOSE x \in S : Cardinality({y \in S : <<y, x>> \in order}) = n - 1
  <2>1. InOrder(S, order) = [n \in 1..size |-> pick(n)]
    BY DEF InOrder
  <2> HIDE DEF pick
  <2> QED
    BY <1>6, <2>1
<1>8. ASSUME NEW x \in S
      PROVE  Rank(S, order, x) \in 1..size /\ InOrder(S, order)[Rank(S, order, x)] = x
  <2>1. Rank(S, order, x) \in 1..size
    BY RankGrows
  <2> DEFINE y == InOrder(S, order)[Rank(S, order, x)]
  <2>2. y \in S /\ f[y] = f[x]
    BY <1>6, <2>1
  <2>3. y = x
    BY <1>2, <2>2 DEF Injection, IsInjective
  <2> QED
    BY <2>1, <2>3
<1> QED
  BY <1>1, <1>6, <1>7, <1>8
-----------------------------------------------------------------------------
(***************************************************************************)
(* Lists and pages.                                                        *)
(***************************************************************************)
\* The rows before a row, and those that are not behind it.
Better(i) == {j \in Found : Before(j, i)}
NoWorse(i) == {j \in Found : ~Before(i, j)}

Size == Cardinality(Found)

LEMMA PlaceIsNumber == \A p \in Priority : Place(p) \in Nat
  BY DEF Place, Alphabetical, Priority

LEMMA StoredRows ==
  ASSUME TypeOK
  PROVE  /\ IsFiniteSet(Stored)
         /\ \A i \in Stored : rows[i] \in Row
<1>1. Stored \in SUBSET Id /\ \A i \in Stored : rows[i] \in Row
  BY QueriesAssumption DEF TypeOK, Stored
<1>2. IsFiniteSet(Id)
  <2>1. MaxRows \in Int /\ 1 \in Int
    BY QueriesAssumption
  <2> QED
    BY <2>1, FS_Interval DEF Id
<1> QED
  BY <1>1, <1>2, FS_Subset

\* Rows with equal keys apart, Before is a total order.
LEMMA BeforeIsWeakOrder ==
  ASSUME TypeOK
  PROVE  /\ \A i \in Found : ~Before(i, i)
         /\ \A i, j, k \in Found : Before(i, j) => Before(i, k) \/ Before(k, j)
         /\ \A i, j, k \in Found : Before(i, j) /\ Before(j, k) => Before(i, k)
<1>1. \A i \in Found : Place(rows[i].priority) \in Nat /\ rows[i].created \in Nat
  BY StoredRows, PlaceIsNumber, QueriesAssumption DEF Found, Row
<1> QED
  BY <1>1 DEF Before

LEMMA FoundSizes ==
  ASSUME TypeOK
  PROVE  /\ IsFiniteSet(Found) /\ Size \in Nat
         /\ \A i \in Found : /\ IsFiniteSet(Better(i)) /\ IsFiniteSet(NoWorse(i))
                            /\ Cardinality(Better(i)) \in Nat
                            /\ Cardinality(NoWorse(i)) \in Nat
<1>1. Found \in SUBSET Stored /\ \A i : Better(i) \in SUBSET Found /\ NoWorse(i) \in SUBSET Found
  BY DEF Found, Better, NoWorse
<1>2. IsFiniteSet(Found)
  BY <1>1, StoredRows, FS_Subset
<1>3. \A i \in Found : IsFiniteSet(Better(i)) /\ IsFiniteSet(NoWorse(i))
  BY <1>1, <1>2, FS_Subset
<1> QED
  BY <1>2, <1>3, FS_CardinalityType DEF Size

\* The same of the state after a step.
LEMMA FoundSizesNext ==
  TypeOK' => (/\ IsFiniteSet(Found)
              /\ \A i \in Found : /\ IsFiniteSet(Better(i))
                                 /\ Cardinality(Better(i)) \in Nat)'
<1>1. TypeOK => /\ IsFiniteSet(Found)
                /\ \A i \in Found : /\ IsFiniteSet(Better(i))
                                   /\ Cardinality(Better(i)) \in Nat
  BY FoundSizes
<1> QED
  BY <1>1, PTL

\* A row that is before another leaves it all the places up to its own.
LEMMA BetterCounts ==
  ASSUME TypeOK, NEW i \in Found, NEW j \in Found, Before(i, j)
  PROVE  /\ Cardinality(NoWorse(i)) <= Cardinality(Better(j))
         /\ Cardinality(Better(i)) < Cardinality(NoWorse(i))
<1>1. NoWorse(i) \in SUBSET Better(j)
  BY BeforeIsWeakOrder DEF NoWorse, Better
<1>2. Better(i) \in SUBSET NoWorse(i) /\ i \in NoWorse(i) /\ i \notin Better(i)
  BY BeforeIsWeakOrder DEF NoWorse, Better
<1>3. /\ Cardinality(NoWorse(i)) <= Cardinality(Better(j))
      /\ Cardinality(Better(i)) <= Cardinality(NoWorse(i))
      /\ Cardinality(Better(i)) # Cardinality(NoWorse(i))
  BY <1>1, <1>2, FoundSizes, FS_Subset
<1> QED
  BY <1>3, FoundSizes

\* In every order a SELECT may choose, each row is where its keys allow.
LEMMA ListingStands ==
  ASSUME TypeOK, NEW s \in Listings
  PROVE  /\ s \in Seq(Found) /\ Len(s) = Size
         /\ \A n \in 1..Size : s[n] \in Found /\ MayStand(s[n], n)
         /\ \A i \in Found : \E n \in 1..Size : s[n] = i
<1>1. /\ s \in [1..Size -> Found]
      /\ \A m, n \in 1..Size : s[m] = s[n] => m = n
      /\ \A i \in Found : \E n \in 1..Size : s[n] = i
      /\ \A m, n \in 1..Size : m < n => ~Before(s[n], s[m])
  BY DEF Listings, Sorted, Size, Bijection, Injection, Surjection, IsInjective
<1>2. Size \in Nat
  BY FoundSizes
<1>3. ASSUME NEW n \in 1..Size PROVE MayStand(s[n], n)
  <2> DEFINE B == Better(s[n])
             W == NoWorse(s[n])
             at == [j \in B |-> CHOOSE m \in 1..Size : s[m] = j]
  <2>1. s[n] \in Found /\ B \in SUBSET Found /\ n \in Nat
    BY <1>1, <1>2 DEF Better
  <2>2. \A j \in B : at[j] \in 1..(n-1) /\ s[at[j]] = j
    <3> SUFFICES ASSUME NEW j \in B PROVE at[j] \in 1..(n-1) /\ s[at[j]] = j
      OBVIOUS
    <3>1. at[j] \in 1..Size /\ s[at[j]] = j
      BY <1>1, <2>1
    <3>2. Before(j, s[n])
      BY DEF Better
    <3>3. at[j] # n /\ ~(n < at[j])
      BY <1>1, <2>1, <3>1, <3>2, BeforeIsWeakOrder
    <3> QED
      BY <1>2, <3>1, <3>3
  <2> HIDE DEF B
  <2>3. at \in Injection(B, 1..(n-1))
    BY <2>2 DEF Injection, IsInjective
  <2>4. IsFiniteSet(1..(n-1)) /\ Cardinality(1..(n-1)) = n - 1
    <3>1. 1 \in Int /\ n - 1 \in Int
      BY <2>1
    <3>2. /\ IsFiniteSet(1..(n-1))
          /\ Cardinality(1..(n-1)) = IF 1 > n - 1 THEN 0 ELSE (n - 1) - 1 + 1
      BY <3>1, FS_Interval, Zenon
    <3> QED
      BY <2>1, <3>2
  <2> HIDE DEF at
  <2>5. Cardinality(B) <= n - 1
    BY <2>3, <2>4, FS_Injection
  <2> DEFINE front == [m \in 1..n |-> s[m]]
  <2>6. \A m \in 1..n : front[m] \in W
    BY <1>1, <1>2, <2>1, BeforeIsWeakOrder DEF NoWorse
  <2> HIDE DEF W
  <2>7. front \in Injection(1..n, W)
    BY <1>1, <1>2, <2>6 DEF Injection, IsInjective
  <2>8. IsFiniteSet(W) /\ IsFiniteSet(1..n) /\ Cardinality(1..n) = n
    <3>1. 1 \in Int /\ n \in Int
      BY <2>1
    <3>2. IsFiniteSet(1..n) /\ Cardinality(1..n) = IF 1 > n THEN 0 ELSE n - 1 + 1
      BY <3>1, FS_Interval, Zenon
    <3> QED
      BY <2>1, <3>2, FoundSizes DEF W
  <2> HIDE DEF front
  <2>9. n <= Cardinality(W)
    BY <2>7, <2>8, FS_Injection
  <2>10. Cardinality(B) \in Nat
    BY <2>1, FoundSizes DEF B
  <2> QED
    BY <2>1, <2>5, <2>9, <2>10 DEF MayStand, B, W, Better, NoWorse
<1>4. s \in Seq(Found) /\ Len(s) = Size
  BY <1>1, <1>2
<1> QED
  BY <1>1, <1>3, <1>4

\* The row on the first place behind those before i shares its keys with i.
LEMMA FirstPlaceTies ==
  ASSUME TypeOK, NEW i \in Found, NEW j \in Found,
         MayStand(j, Cardinality(Better(i)) + 1)
  PROVE  SameKeys(i, j)
<1> DEFINE b == Cardinality(Better(i))
<1>1. /\ b \in Nat /\ Cardinality(Better(j)) \in Nat /\ Cardinality(NoWorse(j)) \in Nat
      /\ Cardinality(NoWorse(i)) \in Nat
  BY FoundSizes
<1>2. Cardinality(Better(j)) < b + 1 /\ b + 1 <= Cardinality(NoWorse(j))
  BY DEF MayStand, Better, NoWorse
<1> HIDE DEF b
<1>3. ~Before(j, i)
  <2>1. Before(j, i) => Cardinality(NoWorse(j)) <= b
    BY BetterCounts DEF b
  <2> QED
    BY <1>1, <1>2, <2>1
<1>4. ~Before(i, j)
  <2>1. Before(i, j) => /\ Cardinality(NoWorse(i)) <= Cardinality(Better(j))
                        /\ b < Cardinality(NoWorse(i))
    BY BetterCounts DEF b
  <2> QED
    BY <1>1, <1>2, <2>1
<1> QED
  BY <1>3, <1>4 DEF SameKeys

\* A page is a piece of some listing; a short one reaches its end.
LEMMA PageOfListing ==
  ASSUME TypeOK, NEW from \in Nat, query.limit \in Nat, NEW page \in Pages(from)
  PROVE  \E s \in Listings :
           /\ page \in Seq(Found)
           /\ Len(page) \in Nat
           /\ from <= Size => from + Len(page) <= Size
           /\ \A n \in 1..Len(page) : page[n] = s[from + n]
           /\ Len(page) < query.limit => Size <= from + Len(page)
           /\ Len(page) <= query.limit
           /\ from = 0 /\ Len(page) < query.limit => page = s
<1>1. PICK s \in Listings :
        page = SubSeq(s, from + 1, Min({from + query.limit, Len(s)}))
  BY DEF Pages
<1> DEFINE end == from + query.limit
           last == Min({end, Len(s)})
<1>2. s \in Seq(Found) /\ Len(s) = Size /\ Size \in Nat /\ end \in Nat
  BY ListingStands, FoundSizes
<1>3. /\ last = IF end <= Size THEN end ELSE Size
      /\ last \in Nat /\ last <= Len(s)
  <2> HIDE DEF end
  <2>1. last = Min({end, Size})
    BY <1>2
  <2>2. Min({end, Size}) = IF end <= Size THEN end ELSE Size
    BY <1>2 DEF Min
  <2> HIDE DEF last
  <2> QED
    BY <1>2, <2>1, <2>2
<1>4. page = SubSeq(s, from + 1, last)
  BY <1>1
<1> HIDE DEF last, end
<1>5. /\ page \in Seq(Found)
      /\ Len(page) = IF from + 1 <= last THEN last - from ELSE 0
      /\ \A n \in 1..Len(page) : page[n] = s[from + n]
  <2>1. /\ s \in Seq(Found) /\ Len(s) \in Nat /\ last \in Nat /\ last <= Len(s)
        /\ from + 1 \in 1..(Len(s) + 1) \/ last < from + 1
    BY <1>2, <1>3
  <2> HIDE DEF Found
  <2>2. CASE last < from + 1
    <3>1. page = <<>>
      BY <1>4, <2>1, <2>2
    <3> QED
      BY <2>1, <2>2, <3>1
  <2>3. CASE from + 1 <= last
    <3>1. \A n \in 1..(last - from) : s[from + n] \in Found
      BY <2>1
    <3>2. page = [n \in 1..(last - from) |-> s[from + n]]
      BY <1>4, <2>1, <2>3
    <3> QED
      BY <2>1, <2>3, <3>1, <3>2
  <2> QED
    BY <2>1, <2>2, <2>3
<1>6. /\ Len(page) \in Nat
      /\ from <= Size => from + Len(page) <= Size
      /\ Len(page) < query.limit => Size <= from + Len(page)
      /\ Len(page) <= query.limit
  <2> DEFINE len == Len(page)
  <2>1. len = IF from + 1 <= last THEN last - from ELSE 0
    BY <1>5
  <2> HIDE DEF len
  <2>2. last = IF from + query.limit <= Size THEN from + query.limit ELSE Size
    BY <1>3 DEF end
  <2>3. /\ len \in Nat
        /\ from <= Size => from + len <= Size
        /\ len < query.limit => Size <= from + len
        /\ len <= query.limit
    BY <1>2, <2>1, <2>2
  <2> QED
    BY <2>3 DEF len
<1>7. ASSUME from = 0, Len(page) < query.limit PROVE page = s
  <2>1. Len(page) = Len(s)
    BY <1>2, <1>6, <1>7
  <2>2. \A n \in 1..Len(s) : page[n] = s[n]
    BY <1>5, <1>7, <2>1
  <2> QED
    BY <1>2, <1>5, <2>1, <2>2
<1> QED
  BY <1>5, <1>6, <1>7

\* Rows that stand where their keys allow, on as many places as there are rows,
\* are a listing if no two of them share their keys.
LEMMA UntiedIsListing ==
  ASSUME TypeOK, NEW s \in Seq(Found), Len(s) = Size,
         \A n \in 1..Size : MayStand(s[n], n),
         \A i, j \in Found : SameKeys(i, j) => i = j
  PROVE  s \in Listings
<1>1. Size \in Nat /\ IsFiniteSet(Found) /\ s \in [1..Size -> Found]
  BY FoundSizes
<1>2. ASSUME NEW i \in Found
      PROVE  Cardinality(NoWorse(i)) = Cardinality(Better(i)) + 1
  <2>1. NoWorse(i) = Better(i) \cup {i} /\ i \notin Better(i)
    BY BeforeIsWeakOrder DEF NoWorse, Better, SameKeys
  <2> QED
    BY <2>1, FoundSizes, FS_AddElement
<1>3. \A n \in 1..Size : n = Cardinality(Better(s[n])) + 1
  <2> SUFFICES ASSUME NEW n \in 1..Size PROVE n = Cardinality(Better(s[n])) + 1
    OBVIOUS
  <2>1. s[n] \in Found /\ MayStand(s[n], n)
    BY <1>1
  <2>2. Cardinality(Better(s[n])) < n /\ n <= Cardinality(NoWorse(s[n]))
    BY <2>1 DEF MayStand, Better, NoWorse
  <2>3. /\ Cardinality(Better(s[n])) \in Nat
        /\ Cardinality(NoWorse(s[n])) = Cardinality(Better(s[n])) + 1
    BY <1>2, <2>1, FoundSizes
  <2> QED
    BY <1>1, <2>2, <2>3
<1>4. s \in Injection(1..Size, Found)
  BY <1>1, <1>3 DEF Injection, IsInjective
<1>5. s \in Surjection(1..Size, Found)
  <2>1. IsFiniteSet(1..Size) /\ Cardinality(1..Size) = Size
    <3>1. 1 \in Int /\ Size \in Int
      BY <1>1
    <3>2. IsFiniteSet(1..Size) /\ Cardinality(1..Size) = IF 1 > Size THEN 0 ELSE Size - 1 + 1
      BY <3>1, FS_Interval, Zenon
    <3> QED
      BY <1>1, <3>2
  <2> QED
    BY <1>1, <1>4, <2>1, FS_Injection DEF Size
<1>6. ASSUME NEW m \in 1..Size, NEW n \in 1..Size, m < n, Before(s[n], s[m])
      PROVE  FALSE
  <2>1. /\ Cardinality(NoWorse(s[n])) <= Cardinality(Better(s[m]))
        /\ Cardinality(Better(s[n])) < Cardinality(NoWorse(s[n]))
    BY <1>1, <1>6, BetterCounts
  <2>2. /\ Cardinality(Better(s[n])) \in Nat /\ Cardinality(Better(s[m])) \in Nat
        /\ Cardinality(NoWorse(s[n])) \in Nat
    BY <1>1, FoundSizes
  <2>3. n = Cardinality(Better(s[n])) + 1 /\ m = Cardinality(Better(s[m])) + 1
    BY <1>3
  <2> QED
    BY <1>1, <1>6, <2>1, <2>2, <2>3
<1>7. DOMAIN s = 1..Size
  BY <1>1
<1> QED
  BY <1>4, <1>5, <1>6, <1>7 DEF Listings, Sorted, Bijection, Size
-----------------------------------------------------------------------------
(***************************************************************************)
(* The invariant.  Questions stands for what is known of a reader by the   *)
(* phase it is in; Reading for how far a reader of a list has come.        *)
(***************************************************************************)
ListKind == {"tasks", "newest"}

Questions ==
  /\ phase # "idle" => query \in Queries
  /\ phase \in {"paging", "between"} => query.kind \in ListKind
  /\ phase = "between" => query.limit \in Nat
  /\ phase \in {"embedding", "embedded", "misembedded"} => query.kind = "search"
  /\ phase = "thinking" => query.kind = "suggest"
  /\ phase \notin {"between", "done"} => shown = <<>>

\* Of a row that matched when the reader began, it or one with the same keys
\* was shown, or the rows before it are not yet all shown.
AheadOrShown(i) ==
  \/ \E n \in 1..Len(shown) : SameKeys(i, shown[n])
  \/ phase = "between" /\ i \in Found /\ Len(shown) <= Cardinality(Better(i))

Reading ==
  phase = "between" \/ Listed =>
    /\ shown \in Seq(Stored)
    /\ phase = "between" => query.limit <= Len(shown)
    /\ since # "edits" => \A i \in first : AheadOrShown(i)
    /\ since = "nothing" =>
         /\ Len(shown) <= Size
         /\ Listed => Len(shown) = Size
         /\ \A n \in 1..Len(shown) : shown[n] \in Found /\ MayStand(shown[n], n)
         /\ Listed /\ Len(shown) < query.limit => shown \in Listings

Inv == TypeOK /\ Questions /\ Reading

LEMMA QueryShape ==
  ASSUME NEW q \in Queries
  PROVE  /\ q.kind \in ListKind \cup {"search", "suggest"}
         /\ q.kind \in ListKind => q.limit \in Int
         /\ q.kind = "tasks" => q.limit \in Nat
         /\ q.kind = "search" => q.limit \in Nat
<1>1. q \in Query
  BY QueriesAssumption
<1> QED
  BY <1>1 DEF Query, ListKind

LEMMA InitInv == Init => Inv
<1> SUFFICES ASSUME Init PROVE Inv
  OBVIOUS
<1>1. TypeOK
  BY QueriesAssumption DEF Init, TypeOK, Stored, Id
<1>2. Questions
  BY DEF Init, Questions
<1>3. Reading
  BY DEF Init, Reading, Listed
<1> QED
  BY <1>1, <1>2, <1>3 DEF Inv

\* The reader's own steps leave the rows and their order as they are.
LEMMA SameList ==
  ASSUME rows' = rows, query' = query
  PROVE  /\ Stored' = Stored /\ Found' = Found /\ Size' = Size
         /\ Listings' = Listings
         /\ \A i : Better(i)' = Better(i)
         /\ \A i, n : MayStand(i, n)' <=> MayStand(i, n)
         /\ \A i, j : SameKeys(i, j)' <=> SameKeys(i, j)
<1>1. Stored' = Stored
  BY DEF Stored
<1>2. \A i, j : Before(i, j)' <=> Before(i, j)
  BY DEF Before
<1>3. Found' = Found
  BY <1>1 DEF Found, Matches
<1>4. Listings' = Listings
  BY <1>2, <1>3 DEF Listings, Sorted
<1>5. \A i : Better(i)' = Better(i)
  BY <1>2, <1>3 DEF Better
<1>6. \A i, n : MayStand(i, n)' <=> MayStand(i, n)
  BY <1>2, <1>3 DEF MayStand
<1> QED
  BY <1>1, <1>2, <1>3, <1>4, <1>5, <1>6 DEF Size, SameKeys

\* A creation takes no row away and moves no row of the list forward.
LEMMA CreationMovesBack ==
  ASSUME TypeOK, TypeOK', NEW i \in Id, Create(i)
  PROVE  /\ Stored \subseteq Stored'
         /\ \A j, k \in Stored : SameKeys(j, k)' <=> SameKeys(j, k)
         /\ \A j \in Found : j \in Found' /\ Cardinality(Better(j)) <= Cardinality(Better(j))'
<1>1. /\ \A j \in Stored : j \in Stored' /\ rows'[j] = rows[j]
      /\ query' = query
  BY DEF Create, Stored, TypeOK
<1>2. \A j \in Found : j \in Stored /\ j \in Found'
  BY <1>1 DEF Found, Matches
<1>3. \A j, k \in Stored : Before(j, k)' <=> Before(j, k)
  BY <1>1 DEF Before
<1>4. ASSUME NEW j \in Found
      PROVE  Cardinality(Better(j)) <= Cardinality(Better(j))'
  <2>1. Better(j) \in SUBSET Better(j)'
    BY <1>2, <1>3 DEF Better
  <2>2. IsFiniteSet(Better(j)')
    BY <1>2, FoundSizesNext
  <2>3. Cardinality(Better(j)) <= Cardinality(Better(j)')
    BY <2>1, <2>2, FS_Subset
  <2> QED
    BY <2>3
<1> QED
  BY <1>1, <1>2, <1>3, <1>4 DEF SameKeys

LEMMA CreateInv == ASSUME Inv, NEW i \in Id, Create(i) PROVE Inv'
<1>1. PICK row \in Births : rows' = [rows EXCEPT ![i] = row]
  BY DEF Create
<1>2. row \in Row /\ row # None
  BY QueriesAssumption
<1>3. /\ rows' \in [Id -> Row \cup {None}]
      /\ Stored \subseteq Stored'
  BY <1>1, <1>2 DEF Inv, TypeOK, Create, Stored
<1>4. /\ UNCHANGED <<edits, phase, query, shown, first>>
      /\ since' \in {"creations", "edits"}
      /\ since' # "edits" => since # "edits"
  BY DEF Create, Inv, TypeOK
<1>5. TypeOK'
  BY <1>3, <1>4 DEF Inv, TypeOK
<1>6. Questions'
  BY <1>4 DEF Inv, Questions
<1>7. Reading'
  <2> SUFFICES ASSUME (phase = "between" \/ Listed)'
               PROVE  /\ shown \in Seq(Stored')
                      /\ phase = "between" => query.limit <= Len(shown)
                      /\ since' # "edits" => \A j \in first : AheadOrShown(j)'
    BY <1>4 DEF Reading
  <2>1. /\ shown \in Seq(Stored)
        /\ phase = "between" => query.limit <= Len(shown)
        /\ since' # "edits" => \A j \in first : AheadOrShown(j)
    BY <1>4 DEF Inv, Reading, Listed
  <2>2. ASSUME NEW j \in first, AheadOrShown(j) PROVE AheadOrShown(j)'
    <3>1. CASE \E n \in 1..Len(shown) : SameKeys(j, shown[n])
      <4>1. PICK n \in 1..Len(shown) : SameKeys(j, shown[n])
        BY <3>1
      <4>2. j \in Stored /\ shown[n] \in Stored
        BY <2>1 DEF Inv, TypeOK
      <4>3. SameKeys(j, shown[n])'
        BY <1>4, <1>5, <4>1, <4>2, CreationMovesBack DEF Inv
      <4> QED
        BY <1>4, <4>3 DEF AheadOrShown
    <3>2. CASE phase = "between" /\ j \in Found /\ Len(shown) <= Cardinality(Better(j))
      <4>1. j \in Found' /\ Cardinality(Better(j)) <= Cardinality(Better(j))'
        BY <1>5, <3>2, CreationMovesBack DEF Inv
      <4>2. /\ Cardinality(Better(j)) \in Nat /\ Cardinality(Better(j))' \in Nat
            /\ Len(shown) \in Nat
        <5>1. Cardinality(Better(j)) \in Nat
          BY <3>2, FoundSizes DEF Inv
        <5>2. Cardinality(Better(j))' \in Nat
          BY <1>5, <4>1, FoundSizesNext
        <5> QED
          BY <2>1, <5>1, <5>2
      <4> QED
        BY <1>4, <3>2, <4>1, <4>2 DEF AheadOrShown
    <3> QED
      BY <2>2, <3>1, <3>2 DEF AheadOrShown
  <2> QED
    BY <1>3, <2>1, <2>2
<1> QED
  BY <1>5, <1>6, <1>7 DEF Inv

LEMMA EditInv == ASSUME Inv, NEW i \in Id, Edit(i) PROVE Inv'
<1>1. PICK t \in Text, p \in Priority :
        rows' = [rows EXCEPT ![i].text = t, ![i].priority = p]
  BY DEF Edit
<1>2. i \in Stored /\ rows[i] \in Row /\ edits < MaxEdits /\ edits \in Nat
  BY QueriesAssumption DEF Inv, TypeOK, Edit, Stored
<1>3. rows' \in [Id -> Row \cup {None}] /\ rows'[i] # None
  <2> DEFINE changed == [[rows[i] EXCEPT !.text = t] EXCEPT !.priority = p]
  <2>1. changed \in Row
    BY <1>2 DEF Row
  <2>2. rows' = [rows EXCEPT ![i] = changed]
    BY <1>1, <1>2 DEF Inv, TypeOK, Row
  <2> QED
    BY <2>1, <2>2, QueriesAssumption DEF Inv, TypeOK
<1>4. Stored' = Stored
  BY <1>1, <1>2, <1>3 DEF Inv, TypeOK, Stored
<1>5. /\ UNCHANGED <<phase, query, shown, first>>
      /\ since' = "edits" /\ edits' = edits + 1
  BY DEF Edit
<1>6. TypeOK'
  BY <1>2, <1>3, <1>4, <1>5, QueriesAssumption DEF Inv, TypeOK
<1>7. Questions'
  BY <1>5 DEF Inv, Questions
<1>8. Reading'
  BY <1>4, <1>5 DEF Inv, Reading, Listed
<1> QED
  BY <1>6, <1>7, <1>8 DEF Inv

LEMMA AskInv == ASSUME Inv, Ask PROVE Inv'
<1>1. /\ phase = "idle" /\ query' \in Queries
      /\ UNCHANGED <<rows, edits, shown, first, since>>
      /\ phase' = CASE query'.kind = "search" -> "embedding"
                    [] query'.kind = "suggest" /\ query'.id \notin Stored -> "missing"
                    [] query'.kind = "suggest" /\ query'.id \in Stored -> "thinking"
                    [] OTHER -> "paging"
  BY DEF Ask, table, history
<1>2. query'.kind \in ListKind \cup {"search", "suggest"}
  BY <1>1, QueryShape
<1>3. /\ phase' \in {"embedding", "missing", "thinking", "paging"}
      /\ phase' = "embedding" => query'.kind = "search"
      /\ phase' = "thinking" => query'.kind = "suggest"
      /\ phase' = "paging" => query'.kind \in ListKind
  BY <1>1, <1>2 DEF ListKind
<1>4. shown = <<>>
  BY <1>1 DEF Inv, Questions
<1>5. TypeOK'
  BY <1>1, <1>3, <1>4 DEF Inv, TypeOK, EndPhase, Stored
<1>6. Questions'
  BY <1>1, <1>3, <1>4 DEF Questions
<1>7. Reading'
  BY <1>3 DEF Reading, Listed
<1> QED
  BY <1>5, <1>6, <1>7 DEF Inv

\* What one page adds.
LEMMA PageAdds ==
  ASSUME Inv, phase \in {"paging", "between"}, query.limit \in Nat,
         shown \in Seq(Stored), ShowPage,
         UNCHANGED <<rows, edits, query>>,
         shown = <<>> \/ query.limit <= Len(shown),
         first' \subseteq Stored, since' \in {"nothing", "creations", "edits"},
         since' # "edits" =>
           \A i \in first' : \/ \E n \in 1..Len(shown) : SameKeys(i, shown[n])
                             \/ i \in Found /\ Len(shown) <= Cardinality(Better(i)),
         since' = "nothing" =>
           /\ Len(shown) <= Size
           /\ \A n \in 1..Len(shown) : shown[n] \in Found /\ MayStand(shown[n], n)
  PROVE  Inv'
<1> DEFINE from == Len(shown)
<1>1. from \in Nat /\ TypeOK /\ Size \in Nat
  BY FoundSizes DEF Inv
<1>2. PICK page \in Pages(from) :
        /\ shown' = shown \o page
        /\ phase' = IF Len(page) < query.limit THEN "done" ELSE "between"
  BY DEF ShowPage
<1>3. PICK s \in Listings :
        /\ page \in Seq(Found)
        /\ Len(page) \in Nat
        /\ from <= Size => from + Len(page) <= Size
        /\ \A n \in 1..Len(page) : page[n] = s[from + n]
        /\ Len(page) < query.limit => Size <= from + Len(page)
        /\ Len(page) <= query.limit
        /\ from = 0 /\ Len(page) < query.limit => page = s
  BY <1>1, PageOfListing
<1>4. /\ \A n \in 1..Size : s[n] \in Found /\ MayStand(s[n], n)
      /\ \A i \in Found : \E n \in 1..Size : s[n] = i
  BY <1>1, ListingStands
<1>5. page \in Seq(Stored)
  BY <1>3 DEF Found
<1>6. /\ shown' \in Seq(Stored) /\ Len(shown') = from + Len(page)
      /\ \A n \in 1..from : shown'[n] = shown[n]
      /\ \A n \in 1..Len(page) : shown'[from + n] = page[n]
  BY <1>1, <1>2, <1>3, <1>5
<1>7. /\ Stored' = Stored /\ Found' = Found /\ Size' = Size /\ Listings' = Listings
      /\ \A i : Better(i)' = Better(i)
      /\ \A i, n : MayStand(i, n)' <=> MayStand(i, n)
      /\ \A i, j : SameKeys(i, j)' <=> SameKeys(i, j)
  BY SameList
<1>8. /\ phase' \in {"done", "between"}
      /\ phase' = "done" <=> Len(page) < query.limit
      /\ query \in Queries /\ query.kind \in ListKind
  BY <1>2 DEF Inv, Questions
<1>9. TypeOK'
  <2>1. Range(shown') \subseteq Stored
    BY <1>6 DEF Range
  <2>2. query.kind # "suggest"
    BY <1>8 DEF ListKind
  <2> QED
    BY <1>7, <1>8, <2>1, <2>2 DEF Inv, TypeOK, EndPhase
<1>10. Questions'
  BY <1>8 DEF Questions, ListKind
<1>11. phase' = "between" => query.limit <= Len(shown')
  BY <1>1, <1>3, <1>6, <1>8
<1>12. ASSUME NEW i \in first', since' # "edits" PROVE AheadOrShown(i)'
  <2> DEFINE b == Cardinality(Better(i))
  <2>1. CASE \E n \in 1..from : SameKeys(i, shown[n])
    <3>1. PICK n \in 1..from : SameKeys(i, shown[n])
      BY <2>1
    <3>2. n \in 1..Len(shown') /\ SameKeys(i, shown[n])'
      BY <1>1, <1>3, <1>6, <1>7, <3>1
    <3> QED
      BY <3>2 DEF AheadOrShown
  <2>2. CASE i \in Found /\ from <= b
    <3>1. b \in Nat
      BY <1>1, <2>2, FoundSizes
    <3> HIDE DEF b
    <3>2. b < Size
      <4>1. PICK m \in 1..Size : s[m] = i
        BY <1>4, <2>2
      <4>2. b < m
        BY <1>4, <4>1 DEF MayStand, b, Better
      <4> QED
        BY <1>1, <3>1, <4>1, <4>2
    <3>3. CASE b < from + Len(page)
      <4> DEFINE n == b + 1
      <4>1. n \in 1..Size /\ n - from \in 1..Len(page) /\ from + (n - from) = n
        BY <1>1, <1>3, <2>2, <3>1, <3>2, <3>3
      <4>2. shown'[n] = s[n]
        BY <1>3, <1>6, <4>1
      <4>3. s[n] \in Found /\ MayStand(s[n], b + 1)
        BY <1>4, <4>1
      <4>4. SameKeys(i, s[n])
        BY <1>1, <2>2, <4>3, FirstPlaceTies DEF b
      <4>5. n \in 1..Len(shown')
        BY <1>1, <1>3, <1>6, <4>1
      <4> QED
        BY <1>7, <4>2, <4>4, <4>5 DEF AheadOrShown
    <3>4. CASE from + Len(page) <= b
      <4>1. phase' = "between"
        BY <1>1, <1>3, <1>8, <3>1, <3>2, <3>4
      <4> QED
        BY <1>6, <1>7, <2>2, <3>4, <4>1 DEF AheadOrShown, b
    <3> QED
      BY <1>1, <1>3, <3>1, <3>3, <3>4
  <2> QED
    BY <1>12, <2>1, <2>2
<1>13. ASSUME since' = "nothing"
       PROVE  /\ Len(shown') <= Size
              /\ phase' = "done" => Len(shown') = Size
              /\ \A n \in 1..Len(shown') : shown'[n] \in Found /\ MayStand(shown'[n], n)
              /\ phase' = "done" /\ Len(shown') < query.limit => shown' \in Listings
  <2>1. from <= Size
    BY <1>13
  <2>2. Len(shown') <= Size
    BY <1>3, <1>6, <2>1
  <2>3. phase' = "done" => Len(shown') = Size
    BY <1>1, <1>3, <1>6, <1>8, <2>1
  <2>4. ASSUME NEW n \in 1..Len(shown')
        PROVE  shown'[n] \in Found /\ MayStand(shown'[n], n)
    <3>1. CASE n <= from
      BY <1>1, <1>6, <1>13, <3>1
    <3>2. CASE from < n
      <4>1. n - from \in 1..Len(page) /\ from + (n - from) = n /\ n \in 1..Size
        BY <1>1, <1>3, <1>6, <2>2, <2>4, <3>2
      <4>2. shown'[n] = s[n]
        BY <1>3, <1>6, <4>1
      <4> QED
        BY <1>4, <4>1, <4>2
    <3> QED
      BY <1>1, <1>3, <1>6, <3>1, <3>2
  <2>5. ASSUME phase' = "done", Len(shown') < query.limit PROVE shown' \in Listings
    <3>1. shown = <<>> /\ from = 0
      BY <1>1, <1>3, <1>6, <2>5
    <3>2. page = s /\ shown' = page
      BY <1>2, <1>3, <1>8, <2>5, <3>1
    <3> QED
      BY <3>2
  <2> QED
    BY <2>2, <2>3, <2>4, <2>5
<1>14. Reading'
  <2>1. phase' = "done" <=> Listed'
    BY <1>8 DEF Listed, ListKind
  <2> QED
    BY <1>6, <1>7, <1>11, <1>12, <1>13, <2>1 DEF Reading
<1> QED
  BY <1>9, <1>10, <1>14 DEF Inv

LEMMA ReadPageInv == ASSUME Inv, ReadPage PROVE Inv'
<1>1. /\ phase = "paging" /\ query.limit >= 0 /\ ShowPage
      /\ first' = Found /\ since' = "nothing"
      /\ UNCHANGED <<rows, edits, query>>
  BY DEF ReadPage, table
<1>2. query \in Queries /\ query.kind \in ListKind /\ shown = <<>> /\ Len(shown) = 0
  BY <1>1 DEF Inv, Questions
<1>3. query.limit \in Nat
  BY <1>1, <1>2, QueryShape
<1>4. Size \in Nat /\ \A i \in Found : Cardinality(Better(i)) \in Nat
  BY FoundSizes DEF Inv
<1>5. /\ shown \in Seq(Stored) /\ first' \subseteq Stored
      /\ since' \in {"nothing", "creations", "edits"}
  BY <1>1, <1>2 DEF Found
<1>6. /\ \A i \in first' : i \in Found /\ Len(shown) <= Cardinality(Better(i))
      /\ Len(shown) <= Size
      /\ \A n \in 1..Len(shown) : shown[n] \in Found /\ MayStand(shown[n], n)
  BY <1>1, <1>2, <1>4
<1> QED
  BY <1>1, <1>2, <1>3, <1>5, <1>6, PageAdds

LEMMA ReadOnInv == ASSUME Inv, ReadOn PROVE Inv'
<1>1. /\ phase = "between" /\ ShowPage
      /\ UNCHANGED <<rows, edits, query, first, since>>
  BY DEF ReadOn, table, history
<1>2. query.limit \in Nat
  BY <1>1 DEF Inv, Questions
<1>3. /\ shown \in Seq(Stored) /\ query.limit <= Len(shown)
      /\ since # "edits" => \A i \in first : AheadOrShown(i)
      /\ since = "nothing" =>
           /\ Len(shown) <= Size
           /\ \A n \in 1..Len(shown) : shown[n] \in Found /\ MayStand(shown[n], n)
  BY <1>1 DEF Inv, Reading
<1>4. first \subseteq Stored /\ since \in {"nothing", "creations", "edits"}
  BY DEF Inv, TypeOK
<1>5. since # "edits" =>
        \A i \in first : \/ \E n \in 1..Len(shown) : SameKeys(i, shown[n])
                         \/ i \in Found /\ Len(shown) <= Cardinality(Better(i))
  BY <1>3 DEF AheadOrShown
<1> QED
  BY <1>1, <1>2, <1>3, <1>4, <1>5, PageAdds

\* The steps that only move the reader on.
LEMMA MoveOnInv ==
  ASSUME Inv, LimitRefused \/ EmbedQuery \/ SearchFails
  PROVE  Inv'
<1>1. /\ UNCHANGED <<rows, edits, query, shown, first, since>>
      /\ phase \in {"paging", "embedding", "misembedded"}
      /\ phase' \in {"error", "embedded", "misembedded", "refused"}
      /\ phase' \in {"embedded", "misembedded"} => phase = "embedding"
  BY DEF LimitRefused, EmbedQuery, SearchFails, table, history
<1>2. TypeOK'
  BY <1>1 DEF Inv, TypeOK, EndPhase, Stored
<1>3. Questions'
  BY <1>1 DEF Inv, Questions
<1>4. Reading'
  BY <1>1 DEF Reading, Listed
<1> QED
  BY <1>2, <1>3, <1>4 DEF Inv

LEMMA SearchInv == ASSUME Inv, Search PROVE Inv'
<1>1. /\ phase = "embedded" /\ phase' = "done"
      /\ UNCHANGED <<rows, edits, query, first, since>>
      /\ \E s \in Injection(1..Min({query.limit, Cardinality(Embedded)}), Embedded) :
           shown' = s
  BY DEF Search, table, history
<1>2. Range(shown') \subseteq Stored
  BY <1>1 DEF Injection, Range, Embedded
<1>3. query \in Queries /\ query.kind = "search"
  BY <1>1 DEF Inv, Questions
<1>4. TypeOK'
  BY <1>1, <1>2, <1>3 DEF Inv, TypeOK, EndPhase, Stored
<1>5. Questions'
  BY <1>1, <1>3 DEF Questions
<1>6. Reading'
  BY <1>1, <1>3 DEF Reading, Listed
<1> QED
  BY <1>4, <1>5, <1>6 DEF Inv

\* Whatever the model says, at most three suggestions are left, none blank.
LEMMA SanitizedShort ==
  ASSUME NEW answer \in Answers
  PROVE  Sanitized(answer) \in BoundedSeq(Item, 3)
<1>1. CASE answer = None
  <2>1. Sanitized(answer) = <<>>
    BY <1>1 DEF Sanitized
  <2>2. <<>> \in [1..0 -> Item]
    OBVIOUS
  <2> QED
    BY <2>1, <2>2 DEF BoundedSeq, SeqOf
<1>2. CASE answer # None
  <2> DEFINE at == NotBlank(answer) \cap 1..3
             order == {pair \in at \X at : pair[1] < pair[2]}
  <2>1. answer \in Seq(Item \cup {Blank})
    BY <1>2, QueriesAssumption
  <2>2. \A n \in at : answer[n] \in Item
    BY <2>1 DEF NotBlank
  <2>3. IsFiniteSet(1..3) /\ Cardinality(1..3) = 3
    <3>1. 1 \in Int /\ 3 \in Int
      OBVIOUS
    <3>2. /\ IsFiniteSet(1..3)
          /\ Cardinality(1..3) = IF 1 > 3 THEN 0 ELSE 3 - 1 + 1
      BY <3>1, FS_Interval, Zenon
    <3> QED
      BY <3>2
  <2>4. /\ IsFiniteSet(at) /\ Cardinality(at) <= 3 /\ Cardinality(at) \in Nat
    <3>1. at \in SUBSET (1..3)
      OBVIOUS
    <3> QED
      BY <2>3, <3>1, FS_Subset, FS_CardinalityType
  <2>5. TotalOn(at, order)
    BY DEF TotalOn
  <2> HIDE DEF order
  <2>6. InOrder(at, order) \in [1..Cardinality(at) -> at]
    BY <2>4, <2>5, InOrderByRank
  <2>7. Sanitized(answer) = [n \in DOMAIN InOrder(at, order) |-> answer[InOrder(at, order)[n]]]
    BY <1>2 DEF Sanitized, EntriesAt, order
  <2> HIDE DEF at
  <2>8. Sanitized(answer) \in [1..Cardinality(at) -> Item]
    BY <2>2, <2>6, <2>7
  <2>9. Cardinality(at) \in 0..3
    BY <2>4
  <2> QED
    BY <2>8, <2>9 DEF BoundedSeq, SeqOf
<1> QED
  BY <1>1, <1>2

LEMMA SuggestInv == ASSUME Inv, Suggest PROVE Inv'
<1>1. /\ phase = "thinking" /\ phase' = "done"
      /\ UNCHANGED <<rows, edits, query, first, since>>
      /\ \E answer \in Answers : shown' = Sanitized(answer)
  BY DEF Suggest, table, history
<1>2. query \in Queries /\ query.kind = "suggest"
  BY <1>1 DEF Inv, Questions
<1>3. shown' \in BoundedSeq(Item, 3)
  BY <1>1, SanitizedShort
<1>4. TypeOK'
  BY <1>1, <1>2, <1>3 DEF Inv, TypeOK, EndPhase, Stored
<1>5. Questions'
  BY <1>1, <1>2 DEF Questions
<1>6. Reading'
  BY <1>1, <1>2 DEF Reading, Listed
<1> QED
  BY <1>4, <1>5, <1>6 DEF Inv

LEMMA NextInv == Inv /\ [Next]_vars => Inv'
<1> SUFFICES ASSUME Inv, [Next]_vars PROVE Inv'
  OBVIOUS
<1>1. CASE UNCHANGED vars
  <2>1. /\ UNCHANGED <<rows, edits, phase, query, shown, first, since>>
        /\ Stored' = Stored /\ Found' = Found /\ Size' = Size /\ Listings' = Listings
        /\ \A i : Better(i)' = Better(i)
        /\ \A i, n : MayStand(i, n)' <=> MayStand(i, n)
        /\ \A i, j : SameKeys(i, j)' <=> SameKeys(i, j)
    BY <1>1, SameList DEF vars
  <2>2. TypeOK'
    BY <2>1 DEF Inv, TypeOK
  <2>3. Questions'
    BY <2>1 DEF Inv, Questions
  <2>4. \A i : AheadOrShown(i)' <=> AheadOrShown(i)
    BY <2>1 DEF AheadOrShown
  <2>5. Reading'
    BY <2>1, <2>4 DEF Inv, Reading, Listed
  <2> QED
    BY <2>2, <2>3, <2>5 DEF Inv
<1>2. ASSUME NEW i \in Id, Create(i) PROVE Inv'
  BY <1>2, CreateInv
<1>3. ASSUME NEW i \in Id, Edit(i) PROVE Inv'
  BY <1>3, EditInv
<1>4. CASE Ask
  BY <1>4, AskInv
<1>5. CASE ReadPage
  BY <1>5, ReadPageInv
<1>6. CASE ReadOn
  BY <1>6, ReadOnInv
<1>7. CASE LimitRefused \/ EmbedQuery \/ SearchFails
  BY <1>7, MoveOnInv
<1>8. CASE Search
  BY <1>8, SearchInv
<1>9. CASE Suggest
  BY <1>9, SuggestInv
<1> QED
  BY <1>1, <1>2, <1>3, <1>4, <1>5, <1>6, <1>7, <1>8, <1>9 DEF Next

LEMMA Invariance == Spec => []Inv
  BY InitInv, NextInv, PTL DEF Spec
-----------------------------------------------------------------------------
\* Types; a list only shows rows there are, and at most three suggestions are
\* shown, none of them blank (ai_service.py:162-167).
THEOREM TypeCorrect == Spec => []TypeOK
<1>1. Inv => TypeOK
  BY DEF Inv
<1> QED
  BY <1>1, Invariance, PTL

\* However long the list and whatever the size of its pages, what a reader of
\* an undisturbed table is shown has the length of the list and the order of
\* its keys; it is the list, each row once, if it came in one page or if no two
\* rows share their keys (task_repository.py:76-82).
THEOREM UndisturbedListsAreExact == Spec => []UndisturbedListIsExact
<1>1. Inv => UndisturbedListIsExact
  <2> SUFFICES ASSUME Inv, Listed, since = "nothing"
               PROVE  /\ Len(shown) = Cardinality(Found)
                      /\ \A n \in DOMAIN shown : shown[n] \in Found /\ MayStand(shown[n], n)
                      /\ \/ Len(shown) < query.limit
                         \/ \A i, j \in Found : SameKeys(i, j) => i = j
                         => shown \in Listings
    BY DEF UndisturbedListIsExact
  <2>1. /\ shown \in Seq(Stored) /\ Len(shown) = Size
        /\ \A n \in 1..Len(shown) : shown[n] \in Found /\ MayStand(shown[n], n)
        /\ Len(shown) < query.limit => shown \in Listings
    BY DEF Inv, Reading
  <2>2. shown \in Seq(Found) /\ DOMAIN shown = 1..Len(shown)
    BY <2>1
  <2>3. ASSUME \A i, j \in Found : SameKeys(i, j) => i = j
        PROVE  shown \in Listings
    BY <2>1, <2>2, <2>3, UntiedIsListing DEF Inv
  <2> QED
    BY <2>1, <2>2, <2>3 DEF Size
<1> QED
  BY <1>1, Invariance, PTL

\* Creations, however many and wherever in the list they turn up, hide a row
\* that was there when the reader began only if one with the same keys is shown
\* (task_repository.py:79-81).
THEOREM CreationsHideNoOther == Spec => []CreationsHideOnlyTies
<1>1. Inv => CreationsHideOnlyTies
  <2> SUFFICES ASSUME Inv, Listed, since # "edits", NEW i \in first
               PROVE  \E j \in Range(shown) : SameKeys(i, j)
    BY DEF CreationsHideOnlyTies
  <2>1. shown \in Seq(Stored) /\ AheadOrShown(i) /\ phase # "between"
    BY DEF Inv, Reading, Listed
  <2>2. PICK n \in 1..Len(shown) : SameKeys(i, shown[n])
    BY <2>1 DEF AheadOrShown
  <2>3. shown[n] \in Range(shown)
    BY <2>1 DEF Range
  <2> QED
    BY <2>2, <2>3
<1> QED
  BY <1>1, Invariance, PTL
=============================================================================
