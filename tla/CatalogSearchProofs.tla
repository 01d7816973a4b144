------------------------ MODULE CatalogSearchProofs ------------------------
(***************************************************************************)
(* The pages of both searches, for any products, filters and page size:    *)
(* PostgreSQL's are the listed candidates cut into pages, and the index,   *)
(* when it is current, has the same candidates in the same order, but for  *)
(* those it cannot tell apart: both orders refine the one by key and       *)
(* millisecond, so that two products in the same place are as many from    *)
(* the beginning of either, and neither can be before the other.           *)
(***************************************************************************)
EXTENDS CatalogSearch, ArithmeticProofs

-----------------------------------------------------------------------------
(* Pages *)

\* What a page has of a sequence.
IsPage(cut, s, low) ==
    LET top == IF low + Limit < Len(s) THEN low + Limit ELSE Len(s) IN
    /\ low \in Nat /\ Len(cut) \in Nat
    /\ Len(cut) = IF low < top THEN top - low ELSE 0
    /\ \A j \in 1..Len(cut) : cut[j] = s[low + j]

\* The least of two numbers.
LEMMA MinOfTwo ==
  ASSUME NEW a \in Nat, NEW b \in Nat
  PROVE  Min({a, b}) = IF a < b THEN a ELSE b
<1> DEFINE m == IF a < b THEN a ELSE b
<1>1. m \in {a, b} /\ \A y \in {a, b} : m <= y
  OBVIOUS
<1>2. \A x \in {a, b} : (\A y \in {a, b} : x <= y) => x = m
  OBVIOUS
<1> HIDE DEF m
<1>3. (CHOOSE x \in {a, b} : \A y \in {a, b} : x <= y) = m
  BY <1>1, <1>2
<1> QED
  BY <1>3 DEF Min, m

\* Where a page begins and ends.
LEMMA PageBounds ==
  ASSUME NEW page \in Nat \ {0}
  PROVE  (page - 1) * Limit \in Nat /\ page * Limit = (page - 1) * Limit + Limit
<1>1. Limit \in Nat
  BY CatalogSearchAssumption
<1>2. PICK p \in Nat : page = p + 1
  <2>1. page - 1 \in Nat /\ page = (page - 1) + 1
    OBVIOUS
  <2> QED
    BY <2>1
<1>3. (p + 1) * Limit = p * Limit + Limit /\ p * Limit \in Nat
  BY <1>1
<1>4. page - 1 = p
  BY <1>2
<1> QED
  BY <1>2, <1>3, <1>4

\* PageOf is such a page.
LEMMA PageOfIsPage ==
  ASSUME NEW S, NEW s \in Seq(S), NEW page \in Nat \ {0}
  PROVE  PageOf(s, page) \in Seq(S) /\ IsPage(PageOf(s, page), s, (page - 1) * Limit)
<1> DEFINE low == (page - 1) * Limit
           n == Len(s)
           top == IF low + Limit < n THEN low + Limit ELSE n
           cut == SubSeq(s, low + 1, top)
<1>1. low \in Nat /\ page * Limit = low + Limit
  BY PageBounds
<1>2. n \in Nat /\ Limit \in Nat
  BY CatalogSearchAssumption
<1> HIDE DEF low, n
<1>3. Min({low + Limit, n}) = top
  BY <1>1, <1>2, MinOfTwo
<1>4. PageOf(s, page) = cut
  BY <1>1, <1>3 DEF PageOf, low, n
<1>5. top \in Nat /\ top <= n
  BY <1>1, <1>2
<1> HIDE DEF top
<1>6. cut \in Seq(S) /\ Len(cut) = (IF low < top THEN top - low ELSE 0)
  BY <1>1, <1>5 DEF n
<1>7. \A j \in 1..Len(cut) : cut[j] = s[low + j]
  BY <1>1, <1>5, <1>6 DEF n
<1>8. Len(cut) \in Nat
  BY <1>6
<1> HIDE DEF cut
<1>9. IsPage(cut, s, low)
  BY <1>1, <1>6, <1>7, <1>8 DEF IsPage, top, n
<1> QED
  BY <1>4, <1>6, <1>9 DEF low

\* A sequence is known from its length and its items.
LEMMA SamePage ==
  ASSUME NEW S, NEW T, NEW a \in Seq(S), NEW b \in Seq(T), NEW s, NEW low,
         IsPage(a, s, low), IsPage(b, s, low)
  PROVE  a = b
<1>1. Len(a) = Len(b) /\ \A i \in 1..Len(a) : a[i] = b[i]
  BY DEF IsPage
<1>2. a = [i \in 1..Len(a) |-> a[i]] /\ b = [i \in 1..Len(b) |-> b[i]]
  OBVIOUS
<1> QED
  BY <1>1, <1>2

-----------------------------------------------------------------------------
(* Scanning the candidates *)

\* How many of the places are no later than k.
UpTo(places, k) == Cardinality({q \in places : q <= k})

\* Counting on, the next place is the next in ascending order.
LEMMA CountOn ==
  ASSUME NEW places, IsFiniteSet(places), places \subseteq Nat, NEW k \in Nat
  PROVE  /\ UpTo(places, k) \in Nat
         /\ k + 1 \notin places => UpTo(places, k + 1) = UpTo(places, k)
         /\ k + 1 \in places =>
               /\ UpTo(places, k + 1) = UpTo(places, k) + 1
               /\ UpTo(places, k) < Cardinality(places)
               /\ Ascending(places)[UpTo(places, k) + 1] = k + 1
<1> DEFINE now == {q \in places : q <= k}
           next == {q \in places : q <= k + 1}
           before == {q \in places : <<q, k + 1>> \in LessThan(places)}
<1>1. IsFiniteSet(now)
  BY FS_Subset
<1>2. Cardinality(now) \in Nat
  BY <1>1, FS_CardinalityType
<1>0. \A q \in places : /\ q <= k + 1 <=> q <= k \/ q = k + 1
                        /\ q < k + 1 <=> q <= k
  OBVIOUS
<1>3. ASSUME k + 1 \notin places PROVE next = now
  BY <1>0, <1>3
<1>4. ASSUME k + 1 \in places
      PROVE  /\ Cardinality(next) = Cardinality(now) + 1
             /\ Cardinality(now) < Cardinality(places)
             /\ Ascending(places)[Cardinality(now) + 1] = k + 1
  <2>0. ~(k + 1 <= k) /\ k + 1 <= k + 1
    OBVIOUS
  <2>1. next = now \cup {k + 1} /\ k + 1 \notin now
    BY <1>0, <1>4, <2>0
  <2>2. Cardinality(next) = Cardinality(now) + 1
    <3> HIDE DEF now, next
    <3> QED
      BY <1>1, <2>1, FS_AddElement
  <2>3. before = now
    <3>1. \A q \in places : <<q, k + 1>> \in LessThan(places) <=> q < k + 1
      BY <1>4, NumbersAreOrdered
    <3> QED
      BY <1>0, <3>1
  <2>4. NumberBefore(places, LessThan(places), k + 1) = Cardinality(now)
    BY <2>3 DEF NumberBefore
  <2>5. IsOrder(LessThan(places), places)
    BY NumbersAreOrdered
  <2>6. NumberBefore(places, LessThan(places), k + 1) \in 0..(Cardinality(places) - 1)
    BY <1>4, <2>5, OrderInto
  <2>7. InOrder(places, LessThan(places))[NumberBefore(places, LessThan(places), k + 1) + 1] = k + 1
    BY <1>4, <2>5, InOrderIsSorted
  <2>8. Cardinality(places) \in Nat
    BY FS_CardinalityType
  <2> HIDE DEF now, next
  <2> QED
    BY <1>2, <2>2, <2>4, <2>6, <2>7, <2>8 DEF Ascending
<1>5. UpTo(places, k) = Cardinality(now) /\ UpTo(places, k + 1) = Cardinality(next)
  BY DEF UpTo
<1> HIDE DEF now, next
<1> QED
  BY <1>2, <1>3, <1>4, <1>5

\* The rows of approved shops.
ApprovedRows == {i \in DOMAIN rows : rows[i].shop \in approved}

\* What is found after each candidate.
Counting(A, candidates, page) ==
    A = [k \in 0..Len(candidates) |->
            IF k = 0 THEN [seen |-> 0, page |-> <<>>] ELSE Counted(A[k - 1], candidates[k], page)]

\* There are such findings, and Scan returns the last.
LEMMA CountingExists ==
  ASSUME NEW candidates, Len(candidates) \in Nat, NEW page
  PROVE  \E A : Counting(A, candidates, page) /\ Scan(candidates, page) = A[Len(candidates)].page
<1> DEFINE n == Len(candidates)
           none == [seen |-> 0, page |-> <<>>]
           So(A, k) == A = [i \in 0..k |-> IF i = 0 THEN none ELSE Counted(A[i - 1], candidates[i], page)]
           Lengths == {k \in Nat : \E A : So(A, k)}
<1>1. 0 \in Lengths
  <2>1. So([i \in 0..0 |-> none], 0)
    OBVIOUS
  <2> QED
    BY <2>1
<1>2. ASSUME NEW k \in Nat, k \in Lengths PROVE k + 1 \in Lengths
  <2>1. PICK A : So(A, k)
    BY <1>2
  <2> DEFINE B == [i \in 0..k + 1 |-> IF i = 0 THEN none ELSE Counted(A[i - 1], candidates[i], page)]
  <2>2. \A i \in 0..k : B[i] = A[i]
    BY <2>1
  <2>3. \A i \in 0..k + 1 : i # 0 => i - 1 \in 0..k
    OBVIOUS
  <2>4. So(B, k + 1)
    BY <2>2, <2>3
  <2>5. k + 1 \in Nat
    OBVIOUS
  <2> HIDE DEF B, So
  <2> QED
    BY <2>4, <2>5
<1>3. Nat \subseteq Lengths
  <2> HIDE DEF Lengths
  <2> QED
    BY <1>1, <1>2, AllNumbers
<1>4. \E A : Counting(A, candidates, page)
  BY <1>3 DEF Counting
<1> DEFINE after == CHOOSE A : Counting(A, candidates, page)
<1>5. Counting(after, candidates, page)
  BY <1>4
<1>6. Scan(candidates, page) = after[Len(candidates)].page
  BY DEF Scan, Counting
<1> HIDE DEF after
<1> QED
  BY <1>5, <1>6

\* What is found after count candidates of approved shops: those of the page so far.
FoundInv(found, count, only, low) ==
    /\ found = [seen |-> found.seen, page |-> found.page]
    /\ found.page \in Seq(Nat) /\ Len(found.page) \in Nat /\ low \in Nat
    /\ found.seen = IF count < low + Limit THEN count ELSE low + Limit
    /\ Len(found.page) = IF found.seen <= low THEN 0 ELSE found.seen - low
    /\ \A j \in 1..Len(found.page) : found.page[j] = only[low + j]

\* One candidate more that counts.
LEMMA FoundOneMore ==
  ASSUME NEW found, NEW next, NEW count \in Nat, NEW only, NEW low \in Nat, NEW i \in Nat,
         FoundInv(found, count, only, low), only[count + 1] = i,
         next = IF Len(found.page) = Limit THEN found
                ELSE [seen |-> found.seen + 1,
                      page |-> IF found.seen + 1 > low THEN Append(found.page, i) ELSE found.page]
  PROVE  FoundInv(next, count + 1, only, low)
<1>1. low \in Nat /\ Limit \in Nat \ {0}
  BY CatalogSearchAssumption
<1>3. FoundInv(found, count, only, low)
  OBVIOUS
<1>4. next = IF Len(found.page) = Limit THEN found
             ELSE [seen |-> found.seen + 1,
                   page |-> IF found.seen + 1 > low THEN Append(found.page, i) ELSE found.page]
  OBVIOUS
<1>5. CASE Len(found.page) = Limit
  <2>1. next = found
    BY <1>4, <1>5
  <2>2. found.seen = low + Limit /\ ~(count < low + Limit)
    BY <1>1, <1>3, <1>5 DEF FoundInv
  <2>3. ~(count + 1 < low + Limit)
    BY <1>1, <2>2
  <2>4. FoundInv(found, count + 1, only, low)
    BY <1>3, <2>2, <2>3 DEF FoundInv
  <2> QED
    BY <2>1, <2>4
<1>6. CASE Len(found.page) # Limit
  <2>1. found.seen = count /\ count < low + Limit
    BY <1>1, <1>3, <1>6 DEF FoundInv
  <2>2. next.seen = count + 1
        /\ next.page = (IF count + 1 > low THEN Append(found.page, i) ELSE found.page)
        /\ next = [seen |-> next.seen, page |-> next.page]
    BY <1>4, <1>6, <2>1
  <2>3. found.page \in Seq(Nat) /\ Len(found.page) \in Nat
        /\ Len(found.page) = (IF count <= low THEN 0 ELSE count - low)
        /\ \A j \in 1..Len(found.page) : found.page[j] = only[low + j]
    BY <1>3, <2>1 DEF FoundInv
  <2>4. next.seen = IF count + 1 < low + Limit THEN count + 1 ELSE low + Limit
    BY <1>1, <2>1, <2>2
  <2>5. CASE count + 1 > low
    <3>1. next.page = Append(found.page, i)
      BY <2>2, <2>5
    <3>2. next.page \in Seq(Nat) /\ Len(next.page) = Len(found.page) + 1
      BY <2>3, <3>1
    <3>3. Len(found.page) = count - low
      BY <1>1, <2>3, <2>5
    <3>4. Len(next.page) = (IF next.seen <= low THEN 0 ELSE next.seen - low)
      <4>1. next.seen = count + 1 /\ Len(next.page) = count - low + 1
        BY <2>2, <3>2, <3>3
      <4>2. ~(count + 1 <= low) /\ count - low + 1 = (count + 1) - low
        BY <1>1, <2>5
      <4> QED
        BY <4>1, <4>2
    <3>5. ASSUME NEW j \in 1..Len(next.page) PROVE next.page[j] = only[low + j]
      <4>1. CASE j \in 1..Len(found.page)
        <5>1. next.page[j] = found.page[j]
          BY <2>3, <3>1, <4>1
        <5> QED
          BY <2>3, <4>1, <5>1
      <4>2. CASE j \notin 1..Len(found.page)
        <5>1. j = Len(found.page) + 1
          BY <2>3, <3>2, <4>2
        <5>2. next.page[j] = i
          BY <2>3, <3>1, <5>1
        <5>3. low + j = count + 1
          BY <1>1, <3>3, <5>1
        <5> QED
          BY <5>2, <5>3
      <4> QED
        BY <4>1, <4>2
    <3>6. Len(next.page) \in Nat
      BY <2>3, <3>2
    <3>7. FoundInv(next, count + 1, only, low)
      BY <1>1, <2>2, <2>4, <3>2, <3>4, <3>5, <3>6 DEF FoundInv
    <3> QED
      BY <3>7
  <2>6. CASE ~(count + 1 > low)
    <3>1. next.page = found.page
      BY <2>2, <2>6
    <3>2. Len(found.page) = 0
      BY <1>1, <2>3, <2>6
    <3>3. Len(next.page) = (IF next.seen <= low THEN 0 ELSE next.seen - low)
      BY <1>1, <2>2, <2>6, <3>1, <3>2
    <3>4. FoundInv(next, count + 1, only, low)
      BY <1>1, <2>2, <2>3, <2>4, <3>1, <3>3 DEF FoundInv
    <3> QED
      BY <3>4
  <2> QED
    BY <2>5, <2>6
<1> QED
  BY <1>5, <1>6

\* A scan finds the page of the candidates of approved shops.
LEMMA ScanIsPage ==
  ASSUME NEW candidates \in Seq(DOMAIN rows), DOMAIN rows \subseteq Nat, NEW page \in Nat \ {0}
  PROVE  Scan(candidates, page) = PageOf(Only(candidates, ApprovedRows), page)
<1> DEFINE n == Len(candidates)
           low == (page - 1) * Limit
           places == PlacesOf(candidates, ApprovedRows)
           kept == Ascending(places)
           only == Only(candidates, ApprovedRows)
           some == DOMAIN rows \cap ApprovedRows
<1>1. n \in Nat /\ Limit \in Nat \ {0} /\ low \in Nat
  BY CatalogSearchAssumption, PageBounds
<1>2. /\ IsFiniteSet(places) /\ places \subseteq 1..n
      /\ only \in Seq(some) /\ Len(only) = Cardinality(places) /\ Len(kept) = Cardinality(places)
      /\ \A i \in 1..Len(only) : only[i] = candidates[kept[i]]
  <2>1. IsPart(only, some, candidates, places, kept)
    BY OnlyIsRight
  <2> QED
    BY <2>1 DEF IsPart
<1>3. PICK A : Counting(A, candidates, page) /\ Scan(candidates, page) = A[n].page
  BY <1>1, CountingExists
<1>4. A[0] = [seen |-> 0, page |-> <<>>] /\ \A k \in 1..n : A[k] = Counted(A[k - 1], candidates[k], page)
  <2> DEFINE none == [seen |-> 0, page |-> <<>>]
  <2>1. A = [k \in 0..n |-> IF k = 0 THEN none ELSE Counted(A[k - 1], candidates[k], page)]
    BY <1>3 DEF Counting
  <2>2. 0 \in 0..n /\ \A k \in 1..n : k \in 0..n /\ k # 0
    BY <1>1
  <2> HIDE DEF none, n
  <2> QED
    BY <2>1, <2>2 DEF none
<1>5. places \subseteq Nat /\ \A k \in Nat : k \in places <=> k \in 1..n /\ candidates[k] \in ApprovedRows
  <2>1. DOMAIN candidates = 1..n
    OBVIOUS
  <2> QED
    BY <1>2, <2>1 DEF PlacesOf
<1>6. \A k \in 1..n : candidates[k] \in DOMAIN rows
  OBVIOUS
<1>7. Cardinality(places) \in Nat
  BY <1>2, FS_CardinalityType
<1> DEFINE Right(k) == FoundInv(A[k], UpTo(places, k), only, low)
           Good == {k \in Nat : k <= n => Right(k)}
<1>8. 0 \in Good
  <2>1. {q \in places : q <= 0} = {}
    BY <1>2
  <2>2. UpTo(places, 0) = 0
    BY <2>1, FS_EmptySet DEF UpTo
  <2>3. A[0].seen = 0 /\ A[0].page = <<>> /\ A[0] = [seen |-> A[0].seen, page |-> A[0].page]
    BY <1>4
  <2>4. Len(<<>>) = 0 /\ <<>> \in Seq(Nat)
    OBVIOUS
  <2>5. Right(0)
    <3> HIDE DEF low, only
    <3>1. 0 < low + Limit /\ 0 <= low
      BY <1>1
    <3> QED
      BY <1>1, <2>2, <2>3, <2>4, <3>1 DEF FoundInv
  <2> QED
    BY <2>5
<1>9. ASSUME NEW k \in Nat, k \in Good PROVE k + 1 \in Good
  <2> SUFFICES ASSUME k + 1 <= n PROVE Right(k + 1)
    OBVIOUS
  <2>1. k < n /\ k + 1 \in 1..n /\ Right(k) /\ (k + 1) - 1 = k
    BY <1>1, <1>9
  <2> DEFINE i == candidates[k + 1]
             count == UpTo(places, k)
  <2>2. A[k + 1] = Counted(A[k], i, page)
    BY <1>4, <2>1
  <2>3. i \in DOMAIN rows /\ i \in Nat
    BY <1>6, <2>1
  <2>4. /\ count \in Nat
        /\ k + 1 \notin places => UpTo(places, k + 1) = count
        /\ k + 1 \in places =>
              /\ UpTo(places, k + 1) = count + 1
              /\ count < Cardinality(places)
              /\ kept[count + 1] = k + 1
    <3> HIDE DEF places
    <3> QED
      BY <1>2, <1>5, CountOn
  <2>5. CASE k + 1 \notin places
    <3>1. i \notin ApprovedRows
      BY <1>5, <2>1, <2>5
    <3>2. rows[i].shop \notin approved
      BY <2>3, <3>1 DEF ApprovedRows
    <3>3. A[k + 1] = A[k]
      BY <2>2, <3>2 DEF Counted
    <3> HIDE DEF places, only
    <3> QED
      BY <2>1, <2>4, <2>5, <3>3
  <2>6. CASE k + 1 \in places
    <3>1. i \in ApprovedRows
      BY <1>5, <2>6
    <3>2. count + 1 \in 1..Len(only)
      <4> HIDE DEF places, only, count
      <4> QED
        BY <1>2, <1>7, <2>4, <2>6
    <3>3. only[count + 1] = i
      <4> HIDE DEF places, only, count
      <4> QED
        BY <1>2, <2>4, <2>6, <3>2
    <3>4. FoundInv(A[k], count, only, low)
      BY <2>1
    <3>5. count \in Nat
      BY <2>4
    <3> DEFINE next == Counted(A[k], i, page)
    <3>a. rows[i].shop \in approved
      BY <3>1 DEF ApprovedRows
    <3>b. next = IF Len(A[k].page) = Limit THEN A[k]
                 ELSE [seen |-> A[k].seen + 1,
                       page |-> IF A[k].seen + 1 > low THEN Append(A[k].page, i) ELSE A[k].page]
      BY <3>a DEF Counted
    <3>6. FoundInv(next, count + 1, only, low)
      <4> HIDE DEF only, count, i, next, low
      <4> QED
        BY <1>1, <2>3, <3>3, <3>4, <3>5, <3>b, FoundOneMore
    <3>7. UpTo(places, k + 1) = count + 1
      BY <2>4, <2>6
    <3> QED
      BY <2>2, <3>6, <3>7
  <2> QED
    BY <2>5, <2>6
<1>10. Right(n)
  <2>1. n \in Good
    <3> HIDE DEF Good, n
    <3> QED
      BY <1>1, <1>8, <1>9, AllNumbers
  <2> QED
    BY <1>1, <2>1
<1>11. UpTo(places, n) = Len(only)
  <2>1. {q \in places : q <= n} = places
    BY <1>1, <1>2
  <2> QED
    BY <1>2, <2>1 DEF UpTo
<1>12. FoundInv(A[n], Len(only), only, low)
  BY <1>10, <1>11
<1> DEFINE cut == A[n].page
<1>13. cut \in Seq(Nat) /\ IsPage(cut, only, low)
  <2>1. Len(only) \in Nat
    BY <1>2, <1>7
  <2> HIDE DEF only, low, n
  <2> QED
    <3> DEFINE len == Len(only)
               seen == A[n].seen
               size == Len(cut)
    <3>1. /\ cut \in Seq(Nat) /\ size \in Nat
          /\ seen = IF len < low + Limit THEN len ELSE low + Limit
          /\ size = IF seen <= low THEN 0 ELSE seen - low
          /\ \A j \in 1..size : cut[j] = only[low + j]
      BY <1>12 DEF FoundInv
    <3>0. len \in Nat
      BY <2>1
    <3> HIDE DEF len, seen, size, cut
    <3>2. size = LET top == IF low + Limit < len THEN low + Limit ELSE len
                 IN  IF low < top THEN top - low ELSE 0
      BY <1>1, <3>0, <3>1
    <3> QED
      BY <1>1, <3>1, <3>2 DEF IsPage, len, size
<1>14. PageOf(only, page) \in Seq(some) /\ IsPage(PageOf(only, page), only, low)
  <2> HIDE DEF only, some
  <2> QED
    BY <1>2, PageOfIsPage DEF low
<1>15. cut = PageOf(only, page)
  <2> HIDE DEF cut, only, low, some
  <2> QED
    BY <1>13, <1>14, SamePage
<1> QED
  BY <1>3, <1>15

-----------------------------------------------------------------------------
(* The order of the products *)

\* A set of numbers has a least one.
LEMMA LeastOf ==
  ASSUME NEW numbers, numbers \subseteq Nat, numbers # {}
  PROVE  Min(numbers) \in numbers
<1>1. \E x \in numbers : \A y \in numbers : x <= y
  BY LeastNumber
<1> QED
  BY <1>1 DEF Min

\* There is a greatest price.
LEMMA GreatestPrice == Max(Prices) \in Nat
<1>1. IsFiniteSet(Prices) /\ Prices \subseteq Nat /\ Prices # {}
  BY CatalogSearchAssumption
<1> DEFINE s == Ascending(Prices)
           n == Len(s)
<1>2. IsOrder(LessThan(Prices), Prices)
  BY <1>1, NumbersAreOrdered
<1>3. IsInOrder(s, Prices, LessThan(Prices))
  BY <1>1, <1>2, InOrderIsSorted DEF Ascending
<1>4. /\ s \in Seq(Prices) /\ n \in Nat
      /\ \A i, j \in 1..n : i < j => <<s[i], s[j]>> \in LessThan(Prices)
      /\ \A v \in Prices : \E i \in 1..n : s[i] = v
  BY <1>3 DEF IsInOrder
<1>5. n \in 1..n
  <2>1. PICK v \in Prices : TRUE
    BY <1>1
  <2>2. PICK i \in 1..n : s[i] = v
    BY <1>4, <2>1
  <2> HIDE DEF n
  <2> QED
    BY <1>4, <2>2
<1>6. s[n] \in Prices
  BY <1>4, <1>5
<1>7. ASSUME NEW v \in Prices PROVE s[n] >= v
  <2>1. PICK i \in 1..n : s[i] = v
    BY <1>4
  <2>2. CASE i = n
    BY <1>1, <2>1, <2>2
  <2>3. CASE i # n
    <3>1. i < n
      <4> HIDE DEF n
      <4> QED
        BY <1>4, <2>3
    <3>2. <<s[i], s[n]>> \in LessThan(Prices)
      BY <1>4, <1>5, <3>1
    <3>3. s[i] < s[n]
      BY <1>1, <1>6, <2>1, <3>2, NumbersAreOrdered
    <3> QED
      <4>1. s[n] \in Nat /\ v \in Nat
        BY <1>1, <1>6
      <4>2. v < s[n]
        BY <2>1, <3>3
      <4> HIDE DEF n, s
      <4> QED
        BY <4>1, <4>2
  <2> QED
    BY <2>2, <2>3
<1>8. Max(Prices) \in Prices
  BY <1>6, <1>7 DEF Max
<1> QED
  BY <1>1, <1>8

\* What products are ordered by is a number.
LEMMA KeyIsNumber ==
  ASSUME NEW row \in Products, NEW sort
  PROVE  Key(row, sort) \in Int /\ row.created \in Nat
<1>1. row.sales \in Nat /\ row.rating \in Nat /\ row.created \in Nat /\ row.variants \subseteq Variants
  BY DEF Products
<1> DEFINE prices == Live(row)
<1>2. prices \subseteq Nat
  <2>1. \A v \in Variants : v.price \in Nat
    BY CatalogSearchAssumption DEF Variants
  <2> QED
    BY <1>1, <2>1 DEF Live
<1>3. prices # {} => Min(prices) \in Nat
  <2> HIDE DEF prices
  <2> QED
    BY <1>2, LeastOf
<1>4. Max(Prices) \in Nat
  BY GreatestPrice
<1> DEFINE least == Min(prices)
           greatest == Max(Prices)
<1>5. Key(row, sort) =
          CASE sort = "price_asc"  -> IF prices = {} THEN greatest + 1 ELSE least
            [] sort = "price_desc" -> IF prices = {} THEN 1 ELSE -least
            [] sort = "best_selling" -> -row.sales
            [] sort = "rating"     -> -row.rating
            [] OTHER               -> 0
  BY DEF Key
<1>6. least \in Nat \/ prices = {}
  BY <1>3
<1>7. greatest \in Nat
  BY <1>4
<1> HIDE DEF prices, least, greatest
<1>8. CASE sort = "price_asc"
  BY <1>1, <1>5, <1>6, <1>7, <1>8
<1>9. CASE sort = "price_desc"
  BY <1>1, <1>5, <1>6, <1>9
<1>10. CASE sort = "best_selling"
  BY <1>1, <1>5, <1>10
<1>11. CASE sort = "rating"
  BY <1>1, <1>5, <1>11
<1>12. CASE sort \notin {"price_asc", "price_desc", "best_selling", "rating"}
  BY <1>1, <1>5, <1>12
<1> QED
  BY <1>8, <1>9, <1>10, <1>11, <1>12

\* The pairs of a table's products in their order.
OrderOf(table, ids, sort) == {pair \in ids \X ids : Precedes(table, sort, pair[1], pair[2])}

\* Any products can be ordered, as no two tie in key, age and id.
LEMMA ProductsAreOrdered ==
  ASSUME NEW table, NEW ids, ids \subseteq Nat, \A i \in ids : table[i] \in Products, NEW sort
  PROVE  /\ IsOrder(OrderOf(table, ids, sort), ids)
         /\ \A v, w \in ids : <<v, w>> \in OrderOf(table, ids, sort) <=> Precedes(table, sort, v, w)
<1> DEFINE K(i) == Key(table[i], sort)
           C(i) == table[i].created
           order == OrderOf(table, ids, sort)
           Before(v, w) == \/ K(v) < K(w)
                           \/ K(v) = K(w) /\ C(v) > C(w)
                           \/ K(v) = K(w) /\ C(v) = C(w) /\ v < w
<1>1. \A i \in ids : K(i) \in Int /\ C(i) \in Nat /\ i \in Nat
  BY KeyIsNumber
<1>2. \A v, w \in ids : <<v, w>> \in order <=> Precedes(table, sort, v, w)
  BY DEF OrderOf
<1>3. \A v, w \in ids : Precedes(table, sort, v, w) <=> Before(v, w)
  BY DEF Precedes
<1> HIDE DEF K, C
<1>4. \A v \in ids : ~ Before(v, v)
  BY <1>1
<1>5. \A u, v, w \in ids : Before(u, v) /\ Before(v, w) => Before(u, w)
  BY <1>1
<1>6. \A v, w \in ids : v = w \/ Before(v, w) \/ Before(w, v)
  BY <1>1
<1> HIDE DEF Before, order
<1>7. IsOrder(order, ids)
  <2>1. \A v, w \in ids : <<v, w>> \in order <=> Before(v, w)
    BY <1>2, <1>3, Zenon
  <2> QED
    BY <1>4, <1>5, <1>6, <2>1 DEF IsOrder
<1> QED
  BY <1>2, <1>7 DEF order

-----------------------------------------------------------------------------
(* The state *)

\* The type invariant.
TypeInv ==
    /\ rows \in Seq(Products) /\ Len(rows) \in 0..MaxRows
    /\ approved \subseteq Shops
    /\ documents \in Seq(Products \cup {Unset})

\* A time in milliseconds is a number, and a later millisecond a later time.
LEMMA Milliseconds ==
  ASSUME NEW c \in Nat, NEW d \in Nat
  PROVE  /\ c \div Millisecond \in Nat
         /\ c \div Millisecond > d \div Millisecond => c > d
<1> DEFINE p == c \div Millisecond
           q == d \div Millisecond
           e == c % Millisecond
           g == d % Millisecond
<1>1. Millisecond \in Nat /\ Millisecond > 0
  BY CatalogSearchAssumption
<1>2. p \in Nat /\ e \in 0..(Millisecond - 1) /\ c = Millisecond * p + e
  BY <1>1
<1>3. q \in Nat /\ g \in 0..(Millisecond - 1) /\ d = Millisecond * q + g
  BY <1>1
<1> HIDE DEF p, q, e, g
<1>4. ASSUME p > q
      PROVE  c > d
  <2>1. PICK more \in Nat : p = q + 1 + more
    <3>1. p - q - 1 \in Nat /\ p = q + 1 + (p - q - 1)
      BY <1>2, <1>3, <1>4
    <3> QED
      BY <3>1
  <2>2. Millisecond * (q + 1 + more) = Millisecond * q + Millisecond + Millisecond * more
    BY <1>1, <1>3, <2>1
  <2> DEFINE a == Millisecond * q
             b == Millisecond * more
  <2>3. a \in Nat /\ b \in Nat
    BY <1>1, <1>3, <2>1
  <2>4. c = a + Millisecond + b + e /\ d = a + g
    BY <1>2, <1>3, <2>1, <2>2
  <2> HIDE DEF a, b
  <2> QED
    BY <1>1, <1>2, <1>3, <2>3, <2>4
<1> QED
  BY <1>2, <1>4 DEF p, q

\* What is indexed of a product is one, with its price, its age in milliseconds and the rest.
LEMMA DocumentIsProduct ==
  ASSUME NEW row \in Products
  PROVE  /\ DocumentOf(row) \in Products /\ Live(DocumentOf(row)) = Live(row)
         /\ DocumentOf(row).shop = row.shop /\ DocumentOf(row).status = row.status
         /\ DocumentOf(row).created = row.created \div Millisecond /\ DocumentOf(row).category = row.category
         /\ DocumentOf(row).sales = row.sales /\ DocumentOf(row).rating = row.rating
         /\ DocumentOf(row).variants = {v \in row.variants : ~v.deleted}
<1> DEFINE document == DocumentOf(row)
<1>0. row.created \div Millisecond \in Nat
  <2>1. row.created \in Nat
    BY DEF Products
  <2> QED
    BY <2>1, Milliseconds
<1> DEFINE time == row.created \div Millisecond
<1>1. document = [row EXCEPT !.variants = {v \in row.variants : ~v.deleted}, !.created = time]
  BY DEF DocumentOf
<1> HIDE DEF time
<1>2. /\ document \in Products /\ document.variants = {v \in row.variants : ~v.deleted}
      /\ document.shop = row.shop /\ document.status = row.status
      /\ document.created = time /\ document.category = row.category
      /\ document.sales = row.sales /\ document.rating = row.rating
  BY <1>0, <1>1 DEF Products, time
<1> HIDE DEF document
<1>3. {u \in document.variants : ~u.deleted} = {u \in row.variants : ~u.deleted}
  BY <1>2
<1>4. Live(document) = Live(row)
  BY <1>3 DEF Live
<1> QED
  BY <1>2, <1>4 DEF document, time

\* A rebuilt index has a document or nothing for each product.
LEMMA ReindexedIsTyped ==
  ASSUME NEW table \in Seq(Products)
  PROVE  Reindexed(table) \in Seq(Products \cup {Unset})
<1>1. DOMAIN table = 1..Len(table) /\ Len(table) \in Nat /\ \A i \in DOMAIN table : table[i] \in Products
  OBVIOUS
<1>2. \A i \in DOMAIN table : (IF Listed(table[i]) THEN DocumentOf(table[i]) ELSE Unset) \in Products \cup {Unset}
  BY <1>1, DocumentIsProduct
<1> QED
  BY <1>1, <1>2 DEF Reindexed

\* The type invariant holds.
LEMMA Typing == Spec => []TypeInv
<1>1. Init => TypeInv
  <2>1. 0 \in 0..MaxRows
    BY CatalogSearchAssumption
  <2> QED
    BY <2>1 DEF Init, TypeInv
<1>2. TypeInv /\ [Next]_vars => TypeInv'
  <2> SUFFICES ASSUME TypeInv, [Next]_vars PROVE TypeInv'
    OBVIOUS
  <2>0. rows \in Seq(Products) /\ Len(rows) \in Nat /\ MaxRows \in Nat
    BY CatalogSearchAssumption DEF TypeInv
  <2>1. ASSUME NEW row \in Rows, AddProduct(row) PROVE TypeInv'
    <3>1. row \in Products
      BY CatalogSearchAssumption
    <3>2. rows' = Append(rows, row) /\ Len(rows) < MaxRows /\ approved' = approved
          /\ documents' = Reindexed(rows')
      BY <2>1 DEF AddProduct
    <3>3. rows' \in Seq(Products) /\ Len(rows') = Len(rows) + 1
      BY <2>0, <3>1, <3>2
    <3>4. Len(rows') \in 0..MaxRows
      BY <2>0, <3>2, <3>3
    <3>5. \A table : Reindexed(table) = [i \in DOMAIN table |-> IF Listed(table[i]) THEN DocumentOf(table[i]) ELSE Unset]
      BY DEF Reindexed
    <3>6. documents' \in Seq(Products \cup {Unset})
      BY <3>2, <3>3, ReindexedIsTyped
    <3> QED
      BY <3>2, <3>3, <3>4, <3>6 DEF TypeInv
  <2>2. ASSUME NEW i \in DOMAIN rows, Archive(i) PROVE TypeInv'
    <3>1. rows' = [rows EXCEPT ![i].status = "archived"] /\ approved' = approved /\ documents' = documents
      BY <2>2 DEF Archive
    <3>2. rows[i] \in Products
      BY <2>0
    <3>3. [rows[i] EXCEPT !.status = "archived"] \in Products
      BY <3>2 DEF Products
    <3>4. rows' = [rows EXCEPT ![i] = [rows[i] EXCEPT !.status = "archived"]]
      BY <3>1
    <3>5. rows' \in Seq(Products) /\ Len(rows') = Len(rows)
      BY <2>0, <3>3, <3>4
    <3> QED
      BY <3>1, <3>5 DEF TypeInv
  <2>3. ASSUME NEW shop \in Shops, Suspend(shop) PROVE TypeInv'
    BY <2>3 DEF Suspend, TypeInv
  <2>4. CASE UNCHANGED vars
    BY <2>4 DEF vars, TypeInv
  <2> QED
    BY <2>1, <2>2, <2>3, <2>4 DEF Next
<1> QED
  BY <1>1, <1>2, PTL DEF Spec

-----------------------------------------------------------------------------
(* What is listed of the candidates *)

\* The products a search of PostgreSQL is about.
CandidateIds(f) ==
    {i \in DOMAIN rows :
        /\ rows[i].status = "published"
        /\ f.seller \in {Unset, rows[i].shop}
        /\ f.category \in {Unset, rows[i].category}
        /\ f.min # Unset \/ f.max # Unset => \E p \in Live(rows[i]) : Within(p, f)}

\* The listed candidates, in their order: what a search has to show.
Listing(f, sort) == Only(Candidates(f, sort), AllListed)

\* The candidates are these products in their order.
LEMMA CandidatesAre ==
  ASSUME TypeInv, NEW f, NEW sort
  PROVE  /\ Candidates(f, sort) = InOrder(CandidateIds(f), OrderOf(rows, CandidateIds(f), sort))
         /\ CandidateIds(f) \subseteq DOMAIN rows /\ IsFiniteSet(CandidateIds(f))
         /\ IsOrder(OrderOf(rows, CandidateIds(f), sort), CandidateIds(f))
         /\ Candidates(f, sort) \in Seq(CandidateIds(f))
<1> DEFINE ids == CandidateIds(f)
           order == OrderOf(rows, ids, sort)
<1>1. Candidates(f, sort) = InOrder(ids, order)
  BY DEF Candidates, CandidateIds, Ordered, OrderOf
<1>2. DOMAIN rows = 1..Len(rows) /\ Len(rows) \in Nat /\ \A i \in DOMAIN rows : rows[i] \in Products
  BY DEF TypeInv
<1>3. ids \subseteq DOMAIN rows
  BY DEF CandidateIds
<1>4. IsFiniteSet(ids)
  <2> DEFINE last == Len(rows)
  <2>1. last \in Nat /\ 1 \in Int /\ ids \subseteq 1..last
    BY <1>2, <1>3
  <2> HIDE DEF last, ids
  <2>2. IsFiniteSet(1..last)
    BY <2>1, FS_Interval
  <2> QED
    BY <2>1, <2>2, FS_Subset
<1>5. ids \subseteq Nat /\ \A i \in ids : rows[i] \in Products
  BY <1>2, <1>3
<1>6. IsOrder(order, ids)
  <2> HIDE DEF ids
  <2> QED
    BY <1>5, ProductsAreOrdered
<1>7. IsInOrder(InOrder(ids, order), ids, order)
  <2> HIDE DEF ids, order
  <2> QED
    BY <1>4, <1>6, InOrderIsSorted
<1>8. InOrder(ids, order) \in Seq(ids)
  BY <1>7 DEF IsInOrder
<1> QED
  BY <1>1, <1>3, <1>4, <1>6, <1>8

\* Two sets with the same of a sequence leave the same of it.
LEMMA OnlySame ==
  ASSUME NEW s, NEW one, NEW other, \A k \in DOMAIN s : s[k] \in one <=> s[k] \in other
  PROVE  Only(s, one) = Only(s, other)
<1>1. {k \in DOMAIN s : s[k] \in one} = {k \in DOMAIN s : s[k] \in other}
  OBVIOUS
<1> QED
  BY <1>1 DEF Only

\* A page of nothing is empty.
LEMMA PageOfNothing ==
  ASSUME NEW page \in Nat \ {0}
  PROVE  PageOf(<<>>, page) = <<>>
<1> DEFINE none == <<>>
           cut == PageOf(none, page)
           low == (page - 1) * Limit
<1>1. none \in Seq(Nat) /\ Len(none) = 0
  OBVIOUS
<1>2. low \in Nat /\ Limit \in Nat \ {0}
  BY PageBounds, CatalogSearchAssumption
<1>3. cut \in Seq(Nat) /\ IsPage(cut, none, low)
  <2> HIDE DEF none
  <2> QED
    BY <1>1, PageOfIsPage
<1>4. Len(cut) = 0
  <2> HIDE DEF none, cut, low
  <2>1. ~ (low < IF low + Limit < 0 THEN low + Limit ELSE 0)
    BY <1>2
  <2> QED
    BY <1>1, <1>3, <2>1 DEF IsPage
<1>5. cut = none
  <2> HIDE DEF cut
  <2> QED
    BY <1>3, <1>4
<1> QED
  BY <1>5

\* Each page of PostgreSQL is that page of the listing.
LEMMA PostgresPageIs ==
  ASSUME TypeInv, NEW f \in Filters, NEW sort, NEW page \in Nat \ {0}
  PROVE  PostgresPage(f, sort, page) = PageOf(Listing(f, sort), page)
<1> DEFINE ids == CandidateIds(f)
           s == Candidates(f, sort)
<1>1. s \in Seq(ids) /\ ids \subseteq DOMAIN rows
  BY CandidatesAre
<1>2. DOMAIN rows \subseteq Nat
  BY DEF TypeInv
<1>3. \A i \in ids : i \in DOMAIN rows /\ rows[i].status = "published" /\ f.seller \in {Unset, rows[i].shop}
  BY DEF CandidateIds
<1> HIDE DEF ids, s
<1>4. DOMAIN s = 1..Len(s) /\ \A k \in DOMAIN s : s[k] \in ids
  BY <1>1
<1>5. \A i \in ids : i \in AllListed <=> rows[i].shop \in approved
  BY <1>3 DEF AllListed, Listed
<1>6. CASE f.seller = Unset
  <2>1. s \in Seq(DOMAIN rows)
    BY <1>1
  <2>2. Scan(s, page) = PageOf(Only(s, ApprovedRows), page)
    BY <1>2, <2>1, ScanIsPage
  <2>3. \A k \in DOMAIN s : s[k] \in ApprovedRows <=> s[k] \in AllListed
    BY <1>3, <1>4, <1>5 DEF ApprovedRows
  <2>4. Only(s, ApprovedRows) = Only(s, AllListed)
    BY <2>3, OnlySame
  <2> QED
    BY <1>6, <2>2, <2>4 DEF PostgresPage, Listing, s
<1>7. CASE f.seller # Unset /\ f.seller \in approved
  <2>1. \A i \in ids : i \in AllListed
    BY <1>3, <1>5, <1>7
  <2>2. \A k \in 1..Len(s) : s[k] \in AllListed
    BY <1>4, <2>1
  <2>3. Only(s, AllListed) = s
    BY <1>1, <2>2, OnlyOfAll
  <2> QED
    BY <1>7, <2>3 DEF PostgresPage, Listing, s
<1>8. CASE f.seller # Unset /\ f.seller \notin approved
  <2>1. \A i \in ids : i \notin AllListed
    BY <1>3, <1>5, <1>8
  <2>2. \A k \in 1..Len(s) : s[k] \notin AllListed
    BY <1>4, <2>1
  <2>3. Only(s, AllListed) = <<>>
    BY <1>1, <2>2, OnlyOfNone
  <2>4. PostgresPage(f, sort, page) = <<>>
    BY <1>8 DEF PostgresPage
  <2>5. Listing(f, sort) = <<>>
    BY <2>3 DEF Listing, s
  <2> QED
    BY <2>4, <2>5, PageOfNothing
<1> QED
  BY <1>6, <1>7, <1>8

\* The listing has listed products only, no more of them than there are products.
LEMMA ListingIs ==
  ASSUME TypeInv, NEW f \in Filters, NEW sort
  PROVE  Listing(f, sort) \in Seq(AllListed) /\ Len(Listing(f, sort)) \in 0..MaxRows
<1> DEFINE ids == CandidateIds(f)
           s == Candidates(f, sort)
           some == ids \cap AllListed
           listing == Listing(f, sort)
           order == OrderOf(rows, ids, sort)
<1>1. /\ s \in Seq(ids) /\ IsFiniteSet(ids) /\ IsOrder(order, ids) /\ s = InOrder(ids, order)
      /\ ids \subseteq DOMAIN rows
  BY CandidatesAre
<1>2. listing = InOrder(some, order)
  <2>1. listing = Only(InOrder(ids, order), AllListed)
    BY <1>1 DEF Listing
  <2> HIDE DEF listing, order, ids
  <2> QED
    BY <1>1, <2>1, OnlyOfSorted
<1>3. Len(rows) \in Nat /\ DOMAIN rows = 1..Len(rows) /\ Len(rows) <= MaxRows /\ MaxRows \in Nat
  BY CatalogSearchAssumption DEF TypeInv
<1>4. IsFiniteSet(DOMAIN rows) /\ Cardinality(DOMAIN rows) = Len(rows)
  <2> DEFINE one == 1
             last == Len(rows)
  <2>1. one \in Int /\ last \in Int /\ DOMAIN rows = one..last
        /\ last - one + 1 = last /\ ~(one > last + 1) /\ (one > last => last = 0)
    BY <1>3
  <2> HIDE DEF one, last
  <2>2. IsFiniteSet(one..last) /\ Cardinality(one..last) = (IF one > last THEN 0 ELSE last - one + 1)
    BY <2>1, FS_Interval
  <2>3. Cardinality(one..last) = last
    BY <2>1, <2>2
  <2> QED
    BY <2>1, <2>2, <2>3 DEF last
<1>5. some \subseteq DOMAIN rows /\ some \subseteq AllListed
  BY <1>1
<1>6. IsFiniteSet(some) /\ Cardinality(some) <= Len(rows) /\ Cardinality(some) \in Nat
  <2> HIDE DEF some
  <2> QED
    BY <1>4, <1>5, FS_Subset, FS_CardinalityType
<1>7. listing \in Seq(some) /\ Len(listing) = Cardinality(some)
  <2>1. listing \in Seq(some)
    <3>1. listing = Only(s, AllListed)
      BY DEF Listing
    <3> HIDE DEF s, ids, listing
    <3>2. IsPart(Only(s, AllListed), some, s, PlacesOf(s, AllListed), Ascending(PlacesOf(s, AllListed)))
      BY <1>1, OnlyIsRight
    <3>3. Only(s, AllListed) \in Seq(some)
      BY <3>2 DEF IsPart
    <3> QED
      BY <3>1, <3>3
  <2>2. Len(InOrder(some, order)) = Cardinality(some)
    <3>1. DOMAIN InOrder(some, order) = 1..Cardinality(some)
      BY DEF InOrder
    <3> HIDE DEF some, order, listing
    <3> QED
      BY <1>2, <1>6, <2>1, <3>1
  <2> QED
    BY <1>2, <2>1, <2>2
<1> HIDE DEF listing, some
<1>8. listing \in Seq(AllListed)
  BY <1>5, <1>7
<1>9. Len(listing) \in 0..MaxRows
  BY <1>3, <1>6, <1>7
<1> QED
  BY <1>8, <1>9 DEF listing

-----------------------------------------------------------------------------
(* The index *)

\* The products a search of the index is about.
IndexedIds(f) ==
    {i \in DOMAIN documents :
        /\ documents[i] # Unset
        /\ documents[i].status = "published"
        /\ f.seller # Unset => documents[i].shop = f.seller
        /\ f.category # Unset => documents[i].category = f.category
        /\ f.min # Unset \/ f.max # Unset => \E v \in documents[i].variants : Within(v.price, f)}

\* What the index finds are ids of documents.
LEMMA IndexedAre ==
  ASSUME TypeInv, NEW f, NEW sort
  PROVE  /\ Indexed(f, sort) = InOrder(IndexedIds(f), OrderOf(documents, IndexedIds(f), sort))
         /\ Indexed(f, sort) \in Seq(IndexedIds(f))
<1> DEFINE ids == IndexedIds(f)
           order == OrderOf(documents, ids, sort)
<1>1. Indexed(f, sort) = InOrder(ids, order)
  BY DEF Indexed, IndexedIds, Ordered, OrderOf
<1>2. /\ DOMAIN documents = 1..Len(documents) /\ Len(documents) \in Nat
      /\ \A i \in DOMAIN documents : documents[i] \in Products \cup {Unset}
  BY DEF TypeInv
<1>3. ids \subseteq DOMAIN documents /\ \A i \in ids : documents[i] # Unset
  BY DEF IndexedIds
<1>4. IsFiniteSet(ids)
  <2> DEFINE last == Len(documents)
  <2>1. last \in Nat /\ 1 \in Int /\ ids \subseteq 1..last
    BY <1>2, <1>3
  <2> HIDE DEF last, ids
  <2>2. IsFiniteSet(1..last)
    BY <2>1, FS_Interval
  <2> QED
    BY <2>1, <2>2, FS_Subset
<1>5. ids \subseteq Nat /\ \A i \in ids : documents[i] \in Products
  <2> HIDE DEF ids
  <2> QED
    BY <1>2, <1>3
<1>6. IsOrder(order, ids)
  <2> HIDE DEF ids
  <2> QED
    BY <1>5, ProductsAreOrdered
<1>7. IsInOrder(InOrder(ids, order), ids, order)
  <2> HIDE DEF ids, order
  <2> QED
    BY <1>4, <1>6, InOrderIsSorted
<1>8. InOrder(ids, order) \in Seq(ids)
  BY <1>7 DEF IsInOrder
<1> QED
  BY <1>1, <1>8

\* A current index is about the listed of the same products.
LEMMA SameProducts ==
  ASSUME TypeInv, documents = Reindexed(rows), NEW f \in Filters
  PROVE  IndexedIds(f) = CandidateIds(f) \cap AllListed
<1>1. DOMAIN documents = DOMAIN rows
  BY DEF Reindexed
<1>2. ASSUME NEW i \in DOMAIN rows
      PROVE  i \in IndexedIds(f) <=> i \in CandidateIds(f) /\ i \in AllListed
  <2>1. rows[i] \in Products /\ Unset \notin Products
    BY CatalogSearchAssumption DEF TypeInv
  <2>2. documents[i] = IF Listed(rows[i]) THEN DocumentOf(rows[i]) ELSE Unset
    BY DEF Reindexed
  <2>3. i \in AllListed <=> Listed(rows[i])
    BY DEF AllListed
  <2>4. CASE ~ Listed(rows[i])
    BY <2>2, <2>3, <2>4 DEF IndexedIds
  <2>5. CASE Listed(rows[i])
    <3> DEFINE row == rows[i]
               document == DocumentOf(row)
               priced == f.min # Unset \/ f.max # Unset
    <3>1. /\ document \in Products /\ document # Unset
          /\ document.shop = row.shop /\ document.status = row.status /\ document.category = row.category
          /\ document.variants = {v \in row.variants : ~v.deleted}
      BY <2>1, DocumentIsProduct
    <3>2. documents[i] = document
      BY <2>2, <2>5
    <3> HIDE DEF row, document
    <3>3. (\E v \in document.variants : Within(v.price, f)) <=> \E p \in Live(row) : Within(p, f)
      BY <3>1 DEF Live
    <3>4. i \in IndexedIds(f) <=>
              /\ document.status = "published"
              /\ f.seller # Unset => document.shop = f.seller
              /\ f.category # Unset => document.category = f.category
              /\ priced => \E v \in document.variants : Within(v.price, f)
      BY <1>1, <3>1, <3>2 DEF IndexedIds
    <3>5. i \in CandidateIds(f) <=>
              /\ row.status = "published"
              /\ f.seller \in {Unset, row.shop}
              /\ f.category \in {Unset, row.category}
              /\ priced => \E p \in Live(row) : Within(p, f)
      BY DEF CandidateIds, row
    <3>6. f.seller \in {Unset, row.shop} <=> (f.seller # Unset => row.shop = f.seller)
      OBVIOUS
    <3>7. f.category \in {Unset, row.category} <=> (f.category # Unset => row.category = f.category)
      OBVIOUS
    <3>8. i \in AllListed
      BY <2>3, <2>5
    <3> HIDE DEF priced
    <3> QED
      BY <3>1, <3>3, <3>4, <3>5, <3>6, <3>7, <3>8
  <2> QED
    BY <2>4, <2>5
<1>3. IndexedIds(f) \subseteq DOMAIN rows /\ AllListed \subseteq DOMAIN rows
  BY <1>1 DEF IndexedIds, AllListed
<1> QED
  BY <1>2, <1>3

\* Nothing before x in the one order is not before y in the other, and x is too.
LEMMA FewerBefore ==
  ASSUME NEW items, IsFiniteSet(items), NEW one, NEW other, NEW x \in items, NEW y \in items,
         \A v \in items : <<v, x>> \in one => <<v, y>> \in other,
         <<x, x>> \notin one, <<x, y>> \in other
  PROVE  NumberBefore(items, one, x) < NumberBefore(items, other, y)
<1> DEFINE few  == {w \in items : <<w, x>> \in one}
           many == {w \in items : <<w, y>> \in other}
<1>1. few \in SUBSET items /\ many \in SUBSET items /\ few \cup {x} \in SUBSET many /\ x \notin few
  OBVIOUS
<1>2. NumberBefore(items, one, x) = Cardinality(few) /\ NumberBefore(items, other, y) = Cardinality(many)
  BY DEF NumberBefore
<1> HIDE DEF few, many
<1>3. IsFiniteSet(few) /\ IsFiniteSet(many)
  BY <1>1, FS_Subset
<1>4. Cardinality(few \cup {x}) = Cardinality(few) + 1 /\ Cardinality(few \cup {x}) <= Cardinality(many)
  BY <1>1, <1>3, FS_AddElement, FS_Subset
<1>5. Cardinality(few) \in Nat /\ Cardinality(many) \in Nat
  BY <1>3, FS_CardinalityType
<1> QED
  BY <1>2, <1>4, <1>5

\* The product i is shown before j by both.
Earlier(i, j, sort) ==
    \/ Key(rows[i], sort) < Key(rows[j], sort)
    \/ /\ Key(rows[i], sort) = Key(rows[j], sort)
       /\ rows[i].created \div Millisecond > rows[j].created \div Millisecond

\* An order that refines it.
Refines(order, items, sort) ==
    /\ IsOrder(order, items)
    /\ \A v, w \in items : Earlier(v, w, sort) => <<v, w>> \in order

\* Two orders refine it, and x has as many before it in one as y in the other:
\* then x is not earlier than y.
LEMMA NotEarlier ==
  ASSUME NEW items, IsFiniteSet(items), NEW sort,
         \A i \in items : Key(rows[i], sort) \in Int /\ rows[i].created \div Millisecond \in Nat,
         NEW one, NEW other, Refines(one, items, sort), Refines(other, items, sort),
         NEW x \in items, NEW y \in items,
         NumberBefore(items, one, x) = NumberBefore(items, other, y)
  PROVE  ~Earlier(x, y, sort)
<1> SUFFICES ASSUME Earlier(x, y, sort)
             PROVE  FALSE
  OBVIOUS
<1>1. ASSUME NEW v \in items, <<v, x>> \in one
      PROVE  <<v, y>> \in other
  <2>1. ~Earlier(x, v, sort)
    <3>1. Earlier(x, v, sort) => <<x, v>> \in one
      BY DEF Refines
    <3>2. <<x, v>> \in one => <<v, v>> \in one
      BY <1>1 DEF Refines, IsOrder
    <3>3. <<v, v>> \notin one
      BY DEF Refines, IsOrder
    <3> QED
      BY <3>1, <3>2, <3>3
  <2>2. Earlier(v, y, sort)
    BY <2>1 DEF Earlier
  <2> QED
    BY <2>2 DEF Refines
<1>2. <<x, x>> \notin one /\ <<x, y>> \in other
  BY DEF Refines, IsOrder
<1>3. NumberBefore(items, one, x) < NumberBefore(items, other, y)
  BY <1>1, <1>2, FewerBefore
<1>4. IsOrder(other, items)
  BY DEF Refines
<1>5. NumberBefore(items, other, y) \in 0..(Cardinality(items) - 1)
  BY <1>4, OrderInto
<1> QED
  BY <1>3, <1>5, FS_CardinalityType

\* Two orders that refine it have products that tie in each place.
LEMMA TiedInPlace ==
  ASSUME NEW items, IsFiniteSet(items), NEW sort,
         \A i \in items : Key(rows[i], sort) \in Int /\ rows[i].created \div Millisecond \in Nat,
         NEW one, NEW other, Refines(one, items, sort), Refines(other, items, sort),
         NEW k \in 1..Cardinality(items)
  PROVE  Tied(InOrder(items, one)[k], InOrder(items, other)[k], sort)
<1>1. IsOrder(one, items) /\ IsOrder(other, items)
  BY DEF Refines
<1>2. PICK x \in items : NumberBefore(items, one, x) = k - 1
  BY <1>1, OrderOnto
<1>3. PICK y \in items : NumberBefore(items, other, y) = k - 1
  BY <1>1, OrderOnto
<1>4. /\ InOrder(items, one)[NumberBefore(items, one, x) + 1] = x
      /\ InOrder(items, other)[NumberBefore(items, other, y) + 1] = y
  BY <1>1, InOrderIsSorted
<1>5. k - 1 + 1 = k
  BY FS_CardinalityType
<1>6. NumberBefore(items, one, x) = NumberBefore(items, other, y)
  BY <1>2, <1>3
<1>7. ~Earlier(x, y, sort)
  BY <1>6, NotEarlier
<1>8. ~Earlier(y, x, sort)
  BY <1>6, NotEarlier
<1>9. Tied(x, y, sort)
  BY <1>7, <1>8 DEF Tied, Earlier
<1> QED
  BY <1>2, <1>3, <1>4, <1>5, <1>9

\* No two products that tie were created at different times.
SameTimes(sort) == \A i, j \in AllListed : Tied(i, j, sort) => rows[i].created = rows[j].created

\* A current index orders by the same key, and by the millisecond.
LEMMA DocumentsAreOrdered ==
  ASSUME TypeInv, documents = Reindexed(rows), NEW sort, NEW i \in AllListed
  PROVE  /\ documents[i] \in Products /\ rows[i] \in Products /\ i \in Nat
         /\ Key(documents[i], sort) = Key(rows[i], sort) /\ Key(rows[i], sort) \in Int
         /\ documents[i].created = rows[i].created \div Millisecond
         /\ rows[i].created \in Nat /\ rows[i].created \div Millisecond \in Nat
<1>1. i \in DOMAIN rows /\ Listed(rows[i])
  BY DEF AllListed
<1>2. documents[i] = DocumentOf(rows[i])
  BY <1>1 DEF Reindexed
<1>3. rows[i] \in Products /\ i \in Nat
  BY <1>1 DEF TypeInv
<1> DEFINE row == rows[i]
           document == DocumentOf(row)
<1>4. /\ document \in Products
      /\ Live(document) = Live(row) /\ document.created = row.created \div Millisecond
      /\ document.sales = row.sales /\ document.rating = row.rating
  BY <1>3, DocumentIsProduct
<1>5. Key(row, sort) \in Int /\ row.created \in Nat
  BY <1>3, KeyIsNumber
<1>6. row.created \div Millisecond \in Nat
  BY <1>5, Milliseconds
<1> HIDE DEF row, document
<1>7. Key(document, sort) = Key(row, sort)
  BY <1>4 DEF Key
<1> QED
  BY <1>2, <1>3, <1>4, <1>5, <1>6, <1>7 DEF row, document

\* Both orders of some listed products, the one PostgreSQL has and the one of the
\* index, refine Earlier, and are the same where ties were created at once.
LEMMA BothRefine ==
  ASSUME TypeInv, documents = Reindexed(rows), NEW sort, NEW some, some \subseteq AllListed
  PROVE  /\ Refines(OrderOf(rows, some, sort), some, sort)
         /\ Refines(OrderOf(documents, some, sort), some, sort)
         /\ SameTimes(sort) =>
               \A v, w \in some :
                  <<v, w>> \in OrderOf(documents, some, sort) <=> <<v, w>> \in OrderOf(rows, some, sort)
<1> DEFINE all == OrderOf(rows, some, sort)
           found == OrderOf(documents, some, sort)
           K(i) == Key(rows[i], sort)
           C(i) == rows[i].created
           M(i) == rows[i].created \div Millisecond
<1>1. \A i \in some :
         /\ documents[i] \in Products /\ rows[i] \in Products /\ i \in Nat
         /\ Key(documents[i], sort) = K(i) /\ K(i) \in Int
         /\ documents[i].created = M(i) /\ C(i) \in Nat /\ M(i) \in Nat
  BY DocumentsAreOrdered
<1>2. IsOrder(all, some) /\ IsOrder(found, some)
  BY <1>1, ProductsAreOrdered
<1>3. \A v, w \in some : M(v) > M(w) => C(v) > C(w)
  BY <1>1, Milliseconds
<1>4. \A v, w \in some :
         <<v, w>> \in all <=> \/ K(v) < K(w)
                              \/ K(v) = K(w) /\ C(v) > C(w)
                              \/ K(v) = K(w) /\ C(v) = C(w) /\ v < w
  BY DEF OrderOf, Precedes
<1>5. \A v, w \in some :
         <<v, w>> \in found <=> \/ K(v) < K(w)
                                \/ K(v) = K(w) /\ M(v) > M(w)
                                \/ K(v) = K(w) /\ M(v) = M(w) /\ v < w
  BY <1>1 DEF OrderOf, Precedes
<1>6. \A v, w \in some : Earlier(v, w, sort) <=> K(v) < K(w) \/ (K(v) = K(w) /\ M(v) > M(w))
  BY DEF Earlier
<1>7. SameTimes(sort) => \A v, w \in some : K(v) = K(w) /\ M(v) = M(w) => C(v) = C(w)
  BY DEF SameTimes, Tied
<1> HIDE DEF all, found, K, C, M
<1>8. Refines(all, some, sort) /\ Refines(found, some, sort)
  BY <1>2, <1>3, <1>4, <1>5, <1>6 DEF Refines
<1>9. ASSUME SameTimes(sort), NEW v \in some, NEW w \in some
      PROVE  <<v, w>> \in found <=> <<v, w>> \in all
  <2>1. /\ M(v) > M(w) => C(v) > C(w)
        /\ M(w) > M(v) => C(w) > C(v)
        /\ K(v) = K(w) /\ M(v) = M(w) => C(v) = C(w)
    BY <1>3, <1>7, <1>9
  <2>2. M(v) \in Nat /\ M(w) \in Nat /\ C(v) \in Nat /\ C(w) \in Nat
    BY <1>1
  <2> QED
    BY <1>4, <1>5, <2>1, <2>2
<1> QED
  BY <1>8, <1>9 DEF all, found

\* A current index finds the listing, in its order but for ties.
LEMMA IndexedIsListing ==
  ASSUME TypeInv, documents = Reindexed(rows), NEW f \in Filters, NEW sort
  PROVE  /\ Indexed(f, sort) \in Seq(AllListed)
         /\ Len(Indexed(f, sort)) = Len(Listing(f, sort))
         /\ \A k \in 1..Len(Listing(f, sort)) : Tied(Indexed(f, sort)[k], Listing(f, sort)[k], sort)
         /\ SameTimes(sort) => Indexed(f, sort) = Listing(f, sort)
<1> DEFINE ids == CandidateIds(f)
           some == ids \cap AllListed
           wide == OrderOf(rows, ids, sort)
           all == OrderOf(rows, some, sort)
           found == OrderOf(documents, some, sort)
<1>1. Indexed(f, sort) = InOrder(some, found) /\ Indexed(f, sort) \in Seq(some)
  <2>1. IndexedIds(f) = some
    BY SameProducts
  <2> QED
    BY <2>1, IndexedAre
<1>2. /\ Candidates(f, sort) = InOrder(ids, wide) /\ IsFiniteSet(ids) /\ IsOrder(wide, ids)
      /\ ids \subseteq DOMAIN rows
  BY CandidatesAre
<1>3. Listing(f, sort) = InOrder(some, all)
  <2>1. Listing(f, sort) = Only(InOrder(ids, wide), AllListed)
    BY <1>2 DEF Listing
  <2>2. \A v, w \in some : <<v, w>> \in wide <=> <<v, w>> \in all
    BY DEF OrderOf
  <2> HIDE DEF wide, all, ids
  <2>3. Listing(f, sort) = InOrder(some, wide)
    BY <1>2, <2>1, OnlyOfSorted
  <2> HIDE DEF some
  <2>4. InOrder(some, wide) = InOrder(some, all)
    BY <2>2, SameOrder
  <2> QED
    BY <2>3, <2>4
<1>4. some \subseteq AllListed /\ some \subseteq ids
  OBVIOUS
<1>5. IsFiniteSet(some)
  <2> HIDE DEF some, ids
  <2> QED
    BY <1>2, <1>4, FS_Subset
<1> HIDE DEF some, ids, wide
<1>6. /\ Refines(all, some, sort) /\ Refines(found, some, sort)
      /\ SameTimes(sort) => \A v, w \in some : <<v, w>> \in found <=> <<v, w>> \in all
  BY <1>4, BothRefine
<1>7. \A i \in some : Key(rows[i], sort) \in Int /\ rows[i].created \div Millisecond \in Nat
  BY <1>4, DocumentsAreOrdered
<1> HIDE DEF all, found
<1>8. IsOrder(all, some) /\ IsOrder(found, some)
  BY <1>6 DEF Refines
<1>9. Len(InOrder(some, all)) = Cardinality(some) /\ Len(InOrder(some, found)) = Cardinality(some)
  BY <1>5, <1>8, InOrderIsSorted
<1>10. \A k \in 1..Cardinality(some) : Tied(InOrder(some, found)[k], InOrder(some, all)[k], sort)
  BY <1>5, <1>6, <1>7, TiedInPlace
<1>11. SameTimes(sort) => InOrder(some, found) = InOrder(some, all)
  BY <1>6, SameOrder
<1>12. Indexed(f, sort) \in Seq(AllListed)
  BY <1>1, <1>4
<1> QED
  BY <1>1, <1>3, <1>9, <1>10, <1>11, <1>12

\* A page of what is listed stays as it is.
LEMMA PageStays ==
  ASSUME NEW s \in Seq(AllListed), NEW page \in Nat \ {0}
  PROVE  PageOf(s, page) \in Seq(AllListed) /\ Hydrated(PageOf(s, page)) = PageOf(s, page)
<1> DEFINE cut == PageOf(s, page)
<1>1. cut \in Seq(AllListed)
  BY PageOfIsPage
<1> HIDE DEF cut
<1>2. \A i \in 1..Len(cut) : cut[i] \in AllListed
  BY <1>1
<1>3. Only(cut, AllListed) = cut
  BY <1>1, <1>2, OnlyOfAll
<1> QED
  BY <1>1, <1>3 DEF Hydrated, cut

\* The listing's pages are such.
LEMMA PageIsListed ==
  ASSUME TypeInv, NEW f \in Filters, NEW sort, NEW page \in Nat \ {0}
  PROVE  PageOf(Listing(f, sort), page) \in Seq(AllListed)
BY ListingIs, PageStays

\* Pages of sequences that tie place by place tie place by place.
LEMMA TiedPages ==
  ASSUME NEW S, NEW s \in Seq(S), NEW r \in Seq(S), Len(s) = Len(r), NEW sort,
         \A k \in 1..Len(r) : Tied(s[k], r[k], sort), NEW page \in Nat \ {0}
  PROVE  /\ Len(PageOf(s, page)) = Len(PageOf(r, page))
         /\ \A k \in 1..Len(PageOf(r, page)) : Tied(PageOf(s, page)[k], PageOf(r, page)[k], sort)
<1> DEFINE low == (page - 1) * Limit
           a == PageOf(s, page)
           b == PageOf(r, page)
           n == Len(r)
           top == IF low + Limit < n THEN low + Limit ELSE n
<1>1. IsPage(a, s, low) /\ IsPage(b, r, low)
  BY PageOfIsPage
<1>2. n \in Nat /\ Limit \in Nat
  BY CatalogSearchAssumption
<1> HIDE DEF a, b, low, n
<1>3. /\ low \in Nat /\ Len(a) = Len(b) /\ Len(b) = (IF low < top THEN top - low ELSE 0)
      /\ \A j \in 1..Len(b) : a[j] = s[low + j] /\ b[j] = r[low + j]
  BY <1>1 DEF IsPage, n
<1>4. ASSUME NEW j \in 1..Len(b)
      PROVE  Tied(a[j], b[j], sort)
  <2>1. low + j \in 1..n
    BY <1>2, <1>3
  <2> QED
    BY <1>3, <2>1 DEF n
<1> QED
  BY <1>3, <1>4 DEF a, b

\* A product ties with itself.
LEMMA TiesWithItself == \A i, sort : Tied(i, i, sort)
BY DEF Tied

\* A current index shows the pages PostgreSQL does, but for ties.
LEMMA AnswersAgree == TypeInv => SameAnswer
<1> SUFFICES ASSUME TypeInv, documents = Reindexed(rows),
                    NEW f \in Filters, NEW sort \in Sorts, NEW page \in Pages
             PROVE  LET found == IndexPage(f, sort, page)
                        right == PostgresPage(f, sort, page)
                    IN  /\ Len(found) = Len(right)
                        /\ \A k \in 1..Len(right) : Tied(found[k], right[k], sort)
                        /\ SameTimes(sort) => found = right
  BY DEF SameAnswer, SameTimes
<1>1. page \in Nat \ {0}
  BY DEF Pages
<1> DEFINE found == IndexPage(f, sort, page)
           right == PostgresPage(f, sort, page)
           cut == PageOf(Indexed(f, sort), page)
<1>2. right = PageOf(Listing(f, sort), page)
  BY <1>1, PostgresPageIs
<1>3. Hydrated(cut) = cut
  BY <1>1, IndexedIsListing, PageStays
<1>4. found \in {cut, right}
  <2>1. IndexPage(f, sort, page) =
          IF page * Limit > MaxWindow THEN PostgresPage(f, sort, page)
          ELSE IF Len(Hydrated(cut)) = Len(cut) THEN Hydrated(cut) ELSE PostgresPage(f, sort, page)
    BY DEF IndexPage
  <2> HIDE DEF cut
  <2> QED
    BY <1>3, <2>1
<1>5. /\ Len(cut) = Len(right)
      /\ \A k \in 1..Len(right) : Tied(cut[k], right[k], sort)
      /\ SameTimes(sort) => cut = right
  <2> DEFINE s == Indexed(f, sort)
             r == Listing(f, sort)
  <2>1. s \in Seq(AllListed) /\ r \in Seq(AllListed) /\ Len(s) = Len(r)
    BY IndexedIsListing, ListingIs
  <2>2. \A k \in 1..Len(r) : Tied(s[k], r[k], sort)
    BY IndexedIsListing
  <2>3. SameTimes(sort) => s = r
    BY IndexedIsListing
  <2> HIDE DEF s, r
  <2>4. /\ Len(PageOf(s, page)) = Len(PageOf(r, page))
        /\ \A k \in 1..Len(PageOf(r, page)) : Tied(PageOf(s, page)[k], PageOf(r, page)[k], sort)
    BY <1>1, <2>1, <2>2, TiedPages
  <2>5. SameTimes(sort) => PageOf(s, page) = PageOf(r, page)
    BY <2>3
  <2> QED
    BY <1>2, <2>4, <2>5 DEF s, r
<1> HIDE DEF found, right, cut
<1>6. Len(found) = Len(right) /\ \A k \in 1..Len(right) : Tied(found[k], right[k], sort)
  BY <1>4, <1>5, TiesWithItself
<1>7. SameTimes(sort) => found = right
  BY <1>4, <1>5
<1> QED
  BY <1>6, <1>7 DEF found, right

\* For every filter, order and page a current index (search.go) and PostgreSQL
\* (browse.go) show as many products, place by place the same or two that tie in
\* the key and the millisecond they were created in; and the same page where no two
\* that tie were created at different times.
THEOREM SearchesAgree == Spec => []SameAnswer
  BY Typing, AnswersAgree, PTL

-----------------------------------------------------------------------------
(* The pages one after the other *)

\* What the pages up to each have.
Joining(A, f, sort) ==
    A = [page \in 0..LastPage |-> IF page = 0 THEN <<>> ELSE A[page - 1] \o PostgresPage(f, sort, page)]

\* There are such pages, and AllPages is the last of them.
LEMMA JoiningExists ==
  ASSUME NEW f, NEW sort, LastPage \in Nat
  PROVE  \E A : Joining(A, f, sort) /\ AllPages(f, sort) = A[LastPage]
<1> DEFINE Longer(joined, i) == joined \o PostgresPage(f, sort, i)
           So(A, k) == A = [i \in 0..k |-> IF i = 0 THEN <<>> ELSE Longer(A[i - 1], i)]
           Lengths == {k \in Nat : \E A : So(A, k)}
<1> HIDE DEF Longer
<1>1. 0 \in Lengths
  <2> DEFINE A == [i \in 0..0 |-> <<>>]
  <2>1. So(A, 0)
    OBVIOUS
  <2> HIDE DEF So, A
  <2> QED
    BY <2>1
<1>2. ASSUME NEW k \in Nat, k \in Lengths PROVE k + 1 \in Lengths
  <2>1. PICK A : So(A, k)
    BY <1>2
  <2> DEFINE B == [i \in 0..k + 1 |-> IF i = 0 THEN <<>> ELSE Longer(A[i - 1], i)]
  <2>2. \A i \in 0..k : B[i] = A[i]
    BY <2>1
  <2>3. \A i \in 0..k + 1 : i # 0 => i - 1 \in 0..k
    OBVIOUS
  <2>4. So(B, k + 1)
    BY <2>2, <2>3
  <2>5. k + 1 \in Nat
    OBVIOUS
  <2> HIDE DEF B, So
  <2> QED
    BY <2>4, <2>5
<1>3. Nat \subseteq Lengths
  <2> HIDE DEF Lengths
  <2> QED
    BY <1>1, <1>2, AllNumbers
<1>4. \E A : Joining(A, f, sort)
  BY <1>3 DEF Joining, Longer
<1> DEFINE after == CHOOSE A : Joining(A, f, sort)
<1>5. Joining(after, f, sort)
  BY <1>4
<1>6. AllPages(f, sort) = after[LastPage]
  BY DEF AllPages, Joining
<1> HIDE DEF after
<1> QED
  BY <1>5, <1>6

\* The first items of a sequence, as many as it has of them.
IsBeginning(joined, s, many) ==
    /\ Len(joined) \in Nat /\ many \in Nat
    /\ Len(joined) = IF many < Len(s) THEN many ELSE Len(s)
    /\ \A j \in 1..Len(joined) : joined[j] = s[j]

\* With the next page, as many more.
LEMMA OnePageMore ==
  ASSUME NEW S, NEW s \in Seq(S), NEW joined \in Seq(S), NEW cut \in Seq(S), NEW low \in Nat,
         IsBeginning(joined, s, low), IsPage(cut, s, low)
  PROVE  joined \o cut \in Seq(S) /\ IsBeginning(joined \o cut, s, low + Limit)
<1> DEFINE next == joined \o cut
           n == Len(s)
           a == Len(joined)
           b == Len(cut)
           top == IF low + Limit < n THEN low + Limit ELSE n
<1>1. /\ next \in Seq(S) /\ Len(next) = a + b
      /\ \A j \in 1..(a + b) : next[j] = IF j <= a THEN joined[j] ELSE cut[j - a]
  OBVIOUS
<1>2. n \in Nat /\ Limit \in Nat
  BY CatalogSearchAssumption
<1>3. /\ a \in Nat /\ a = (IF low < n THEN low ELSE n)
      /\ \A j \in 1..a : joined[j] = s[j]
  BY DEF IsBeginning
<1>4. /\ b \in Nat /\ b = (IF low < top THEN top - low ELSE 0)
      /\ \A j \in 1..b : cut[j] = s[low + j]
  BY DEF IsPage
<1> HIDE DEF next, n, a, b
<1>5. a + b = (IF low + Limit < n THEN low + Limit ELSE n)
  BY <1>2, <1>3, <1>4
<1>6. b > 0 => a = low
  BY <1>2, <1>3, <1>4
<1> HIDE DEF top
<1>7. ASSUME NEW j \in 1..Len(next) PROVE next[j] = s[j]
  <2>1. j \in 1..(a + b)
    BY <1>1
  <2>2. CASE j <= a
    <3>1. j \in 1..a
      BY <1>3, <2>1, <2>2
    <3> QED
      BY <1>1, <1>3, <2>1, <2>2, <3>1
  <2>3. CASE ~ (j <= a)
    <3>1. j - a \in 1..b /\ b > 0
      BY <1>3, <1>4, <2>1, <2>3
    <3>2. next[j] = cut[j - a]
      BY <1>1, <2>1, <2>3
    <3>3. cut[j - a] = s[low + (j - a)]
      BY <1>4, <3>1
    <3>4. low + (j - a) = j
      BY <1>6, <2>1, <1>3, <1>4, <3>1
    <3> QED
      BY <3>2, <3>3, <3>4
  <2> QED
    BY <2>2, <2>3
<1>8. Len(next) \in Nat /\ low + Limit \in Nat
  BY <1>1, <1>2, <1>3, <1>4
<1>9. IsBeginning(next, s, low + Limit)
  BY <1>1, <1>5, <1>7, <1>8 DEF IsBeginning, n
<1> QED
  BY <1>1, <1>9 DEF next

\* There are enough pages for every product.
LEMMA EnoughPages == LastPage \in Nat /\ LastPage * Limit \in Nat /\ MaxRows <= LastPage * Limit
<1>1. MaxRows \in Nat /\ Limit \in Nat /\ Limit > 0
  BY CatalogSearchAssumption
<1> DEFINE q == MaxRows \div Limit
           r == MaxRows % Limit
<1>2. q \in Nat /\ r \in 0..(Limit - 1) /\ MaxRows = Limit * q + r
  BY <1>1
<1>3. LastPage = q + 1
  BY DEF LastPage
<1> HIDE DEF q, r
<1>4. (q + 1) * Limit = Limit * q + Limit /\ Limit * q \in Nat
  BY <1>1, <1>2
<1> DEFINE full == Limit * q
<1> HIDE DEF full
<1>5. full \in Nat /\ MaxRows = full + r /\ LastPage * Limit = full + Limit
  BY <1>2, <1>3, <1>4 DEF full
<1>6. LastPage \in Nat
  BY <1>2, <1>3
<1> QED
  BY <1>1, <1>2, <1>5, <1>6

\* All the pages together are the listing.
LEMMA AllPagesIs ==
  ASSUME TypeInv, NEW f \in Filters, NEW sort
  PROVE  AllPages(f, sort) = Listing(f, sort)
<1> DEFINE s == Listing(f, sort)
<1>1. s \in Seq(AllListed) /\ Len(s) \in 0..MaxRows
  BY ListingIs
<1>2. LastPage \in Nat /\ LastPage * Limit \in Nat /\ MaxRows <= LastPage * Limit /\ Limit \in Nat
      /\ MaxRows \in Nat
  BY EnoughPages, CatalogSearchAssumption
<1>3. PICK A : Joining(A, f, sort) /\ AllPages(f, sort) = A[LastPage]
  BY <1>2, JoiningExists
<1>4. A[0] = <<>> /\ \A page \in 1..LastPage : A[page] = A[page - 1] \o PostgresPage(f, sort, page)
  <2>1. A = [page \in 0..LastPage |-> IF page = 0 THEN <<>> ELSE A[page - 1] \o PostgresPage(f, sort, page)]
    BY <1>3 DEF Joining
  <2>2. 0 \in 0..LastPage /\ \A page \in 1..LastPage : page \in 0..LastPage /\ page # 0
    BY <1>2
  <2> QED
    BY <2>1, <2>2
<1> HIDE DEF s
<1> DEFINE Right(k) == A[k] \in Seq(AllListed) /\ IsBeginning(A[k], s, k * Limit)
           Good == {k \in Nat : k <= LastPage => Right(k)}
<1>5. 0 \in Good
  <2>1. <<>> \in Seq(AllListed) /\ Len(<<>>) = 0 /\ 0 * Limit = 0
    BY <1>2
  <2>2. Len(s) \in Nat
    BY <1>1
  <2>3. (IF 0 < Len(s) THEN 0 ELSE Len(s)) = 0
    BY <2>2
  <2>4. Len(A[0]) = 0 /\ A[0] \in Seq(AllListed)
    BY <1>4, <2>1
  <2>5. IsBeginning(A[0], s, 0)
    BY <2>3, <2>4 DEF IsBeginning
  <2> QED
    BY <2>1, <2>4, <2>5
<1>6. ASSUME NEW k \in Nat, k \in Good PROVE k + 1 \in Good
  <2> SUFFICES ASSUME k + 1 <= LastPage PROVE Right(k + 1)
    OBVIOUS
  <2>1. k + 1 \in 1..LastPage /\ (k + 1) - 1 = k /\ k <= LastPage /\ k + 1 \in Nat \ {0}
    BY <1>2
  <2> DEFINE page == k + 1
             cut == PostgresPage(f, sort, page)
             low == k * Limit
  <2>2. Right(k) /\ A[page] = A[k] \o cut
    BY <1>4, <1>6, <2>1
  <2>3. low \in Nat /\ page * Limit = low + Limit
    <3>1. (page - 1) * Limit \in Nat /\ page * Limit = (page - 1) * Limit + Limit
      <4> HIDE DEF page
      <4> QED
        BY <2>1, PageBounds DEF page
    <3> QED
      BY <2>1, <3>1
  <2>4. cut \in Seq(AllListed) /\ IsPage(cut, s, low)
    <3>1. cut = PageOf(s, page)
      BY <2>1, PostgresPageIs DEF s
    <3>2. PageOf(s, page) \in Seq(AllListed) /\ IsPage(PageOf(s, page), s, (page - 1) * Limit)
      BY <1>1, <2>1, PageOfIsPage
    <3> QED
      BY <2>1, <3>1, <3>2
  <2>5. A[k] \in Seq(AllListed) /\ IsBeginning(A[k], s, low)
    BY <2>2
  <2> HIDE DEF cut, low, page
  <2>6. A[k] \o cut \in Seq(AllListed) /\ IsBeginning(A[k] \o cut, s, low + Limit)
    BY <1>1, <2>3, <2>4, <2>5, OnePageMore
  <2> QED
    BY <2>2, <2>3, <2>6 DEF page
<1>7. Right(LastPage)
  <2>1. LastPage \in Good
    <3> HIDE DEF Good
    <3> QED
      BY <1>2, <1>5, <1>6, AllNumbers
  <2> QED
    BY <1>2, <2>1
<1> DEFINE all == A[LastPage]
           many == LastPage * Limit
<1>8. all \in Seq(AllListed) /\ IsBeginning(all, s, many) /\ many \in Nat /\ MaxRows <= many
  BY <1>2, <1>7
<1> HIDE DEF all, many
<1>9. Len(all) = Len(s) /\ \A j \in 1..Len(all) : all[j] = s[j]
  <2>1. Len(s) \in Nat /\ ~ (many < Len(s))
    BY <1>1, <1>2, <1>8
  <2> QED
    BY <1>8, <2>1 DEF IsBeginning
<1>10. all = [j \in 1..Len(all) |-> all[j]] /\ s = [j \in 1..Len(s) |-> s[j]]
  BY <1>1, <1>8
<1>11. all = s
  BY <1>9, <1>10
<1> QED
  BY <1>3, <1>11 DEF all, s

\* What the index shows is listed, however stale the index.
LEMMA ShownIsListed ==
  ASSUME TypeInv, NEW f \in Filters, NEW sort, NEW page \in Nat \ {0}
  PROVE  Range(IndexPage(f, sort, page)) \subseteq AllListed
<1> DEFINE cut == PageOf(Indexed(f, sort), page)
           right == PostgresPage(f, sort, page)
<1>1. right \in Seq(AllListed)
  BY PageIsListed, PostgresPageIs
<1>2. Hydrated(cut) \in Seq(AllListed)
  <2>1. Indexed(f, sort) \in Seq(IndexedIds(f))
    BY IndexedAre
  <2>2. cut \in Seq(IndexedIds(f))
    BY <2>1, PageOfIsPage
  <2> DEFINE some == IndexedIds(f) \cap AllListed
             only == Only(cut, AllListed)
  <2> HIDE DEF cut
  <2>3. IsPart(only, some, cut, PlacesOf(cut, AllListed), Ascending(PlacesOf(cut, AllListed)))
    BY <2>2, OnlyIsRight
  <2>4. only \in Seq(some)
    <3> HIDE DEF only
    <3> QED
      BY <2>3 DEF IsPart
  <2>5. some \subseteq AllListed
    OBVIOUS
  <2>6. only \in Seq(AllListed)
    <3> HIDE DEF only, some
    <3> QED
      BY <2>4, <2>5
  <2> QED
    BY <2>6 DEF Hydrated
<1>3. IndexPage(f, sort, page) \in {Hydrated(cut), right}
  BY DEF IndexPage
<1> HIDE DEF cut, right
<1>4. IndexPage(f, sort, page) \in Seq(AllListed)
  BY <1>1, <1>2, <1>3
<1> QED
  BY <1>4 DEF Range

\* The pages are exact.
LEMMA PagesHaveAll == TypeInv => PagesExact
<1> SUFFICES ASSUME TypeInv, NEW f \in Filters, NEW sort \in Sorts
             PROVE  /\ \A page \in Pages : Range(IndexPage(f, sort, page)) \subseteq AllListed
                    /\ AllPages(f, sort) = Only(Candidates(f, sort), AllListed)
  BY DEF PagesExact
<1>1. ASSUME NEW page \in Pages PROVE Range(IndexPage(f, sort, page)) \subseteq AllListed
  <2>1. page \in Nat \ {0}
    BY DEF Pages
  <2> QED
    BY <2>1, ShownIsListed
<1>2. AllPages(f, sort) = Only(Candidates(f, sort), AllListed)
  BY AllPagesIs DEF Listing
<1> QED
  BY <1>1, <1>2

\* However stale the index, only listed products are shown, and PostgreSQL's pages
\* together show every listed candidate, once and in order.
THEOREM PagesAreExact == Spec => []PagesExact
  BY Typing, PagesHaveAll, PTL

=============================================================================
