--------------------------- MODULE RowLocksProofs ---------------------------
(***************************************************************************)
(* The handlers' transactions on the rows of the core's database, in any   *)
(* number. That decisions hold rests on a discipline every handler keeps:  *)
(* what it reads and decides by is read under the lock of the row, or of   *)
(* the row that governs it; since no two sessions hold conflicting locks,  *)
(* nobody changes it meanwhile. That sessions do not block each other      *)
(* rests on an order: every handler but one locks rows by ascending        *)
(* height, so of the sessions that wait in a circle none could wait at the *)
(* highest level.                                                          *)
(***************************************************************************)
EXTENDS RowLocks, ArithmeticProofs

-----------------------------------------------------------------------------
(* Locks and what they govern *)

Names == Users \cup Products \cup Variants \cup Coupons \cup Orders \cup Transfers
         \cup Drivers \cup Sellers

Tables == {"user", "address", "cart", "orders of", "product", "variant", "coupon", "order",
           "seller orders", "payment", "shipments", "receipt", "driver", "seller"}

Modes == {"update", "none", "no key update", "key share"}

Statements == [row : Tables \X Names, mode : Modes, reads : BOOLEAN, writes : BOOLEAN]

\* The row whose lock stands for this one.
Governor(row) ==
    IF row[1] \in {"seller orders", "payment", "shipments"} THEN <<"order", row[2]>>
    ELSE IF row[1] = "orders of" THEN <<"user", row[2]>>
    ELSE row

\* What a handler of this kind may read without a lock, like Tolerated.
Bearable(kind) ==
    {Seller(s) : s \in Sellers} \cup {Product(p) : p \in Products} \cup {Address(u) : u \in Users}
    \cup (IF kind = "put" THEN {Variant(v) : v \in Variants} ELSE {})

\* A statement that is right once the row g is locked. Only a checkout locks a user.
Under(kind, g) ==
    {s \in Statements :
        /\ s.reads => s.mode = "update" \/ s.row \in Bearable(kind) \/ Governor(s.row) = g
        /\ s.writes => s.mode = "no key update"
        /\ s.mode # "none" => Governor(s.row) \in {s.row, g}
        /\ s.mode = "update" /\ s.row \in {User(n) : n \in Names} => kind = "checkout"}

\* A statement that is right without.
Alone(kind) ==
    {s \in Statements :
        /\ s.reads => s.mode = "update" \/ s.row \in Bearable(kind)
        /\ s.writes => s.mode = "no key update"
        /\ s.mode # "none" => Governor(s.row) = s.row
        /\ s.mode = "update" /\ s.row \in {User(n) : n \in Names} => kind = "checkout"}

\* What is read and written under a lock, is so after it was taken.
Disciplined(o) ==
    /\ o.does \in Seq(Statements)
    /\ \E g : \A i \in DOMAIN o.does :
          \/ o.does[i] \in Alone(o.kind)
          \/ o.does[i] \in Under(o.kind, g) /\ \E k \in 1..i : o.does[k] = Lock(g)

\* The parts of the four statements.
LEMMA Fields ==
  \A row : /\ Lock(row).row = row /\ Lock(row).mode = "update" /\ Lock(row).reads /\ ~Lock(row).writes
           /\ Read(row).row = row /\ Read(row).mode = "none" /\ Read(row).reads /\ ~Read(row).writes
           /\ Write(row).row = row /\ Write(row).mode = "no key update" /\ ~Write(row).reads /\ Write(row).writes
           /\ Key(row).row = row /\ Key(row).mode = "key share" /\ ~Key(row).reads /\ ~Key(row).writes
BY DEF Lock, Read, Write, Key

\* They are statements on any row.
LEMMA AreStatements ==
  ASSUME NEW row \in Tables \X Names
  PROVE  Lock(row) \in Statements /\ Read(row) \in Statements /\ Write(row) \in Statements /\ Key(row) \in Statements
BY DEF Lock, Read, Write, Key, Statements, Modes

\* Any lock, and any write or key on a row that g governs, is right under g.
LEMMA FineUnder ==
  ASSUME NEW row \in Tables \X Names, NEW kind, NEW g
  PROVE  /\ Governor(row) \in {row, g} /\ (row[1] # "user" \/ kind = "checkout") => Lock(row) \in Under(kind, g)
         /\ Governor(row) \in {row, g} => Key(row) \in Under(kind, g) /\ Write(row) \in Under(kind, g)
         /\ row \in Bearable(kind) \/ Governor(row) = g => Read(row) \in Under(kind, g)
<1>1. row \in {User(n) : n \in Names} => row[1] = "user"
  BY DEF User
<1>2. \A r : Lock(r).row = r /\ Read(r).row = r /\ Write(r).row = r /\ Key(r).row = r
  BY Fields
<1>3. /\ Lock(row).mode = "update" /\ ~Lock(row).writes
      /\ Read(row).mode = "none" /\ ~Read(row).writes
      /\ Write(row).mode = "no key update" /\ ~Write(row).reads
      /\ Key(row).mode = "key share" /\ ~Key(row).reads /\ ~Key(row).writes
  BY Fields
<1>4. Lock(row) \in Statements /\ Read(row) \in Statements /\ Write(row) \in Statements /\ Key(row) \in Statements
  BY AreStatements
<1> QED
  BY <1>1, <1>2, <1>3, <1>4 DEF Under

\* A sequence over a set is one over a larger set.
LEMMA Larger ==
  ASSUME NEW X, NEW Y, X \subseteq Y, NEW s \in Seq(X)
  PROVE  s \in Seq(Y)
<1>1. s = [i \in 1..Len(s) |-> s[i]] /\ Len(s) \in Nat /\ \A i \in 1..Len(s) : s[i] \in X
  OBVIOUS
<1> QED
  BY <1>1

\* Under a lock that is the first statement.
Begun(s, kind, g) == s \in Seq(Under(kind, g)) /\ Len(s) > 0 /\ s[1] = Lock(g)

\* An operation that begins with the lock its statements need is disciplined.
LEMMA LockedFirst ==
  ASSUME NEW kind, NEW g, NEW does, Begun(does, kind, g)
  PROVE  Disciplined(Operation(kind, does))
<1>1. Operation(kind, does).kind = kind /\ Operation(kind, does).does = does
  BY DEF Operation
<1>2. Under(kind, g) \subseteq Statements
  BY DEF Under
<1>3. does \in Seq(Under(kind, g)) /\ Len(does) > 0 /\ does[1] = Lock(g)
  BY DEF Begun
<1>4. does \in Seq(Statements)
  BY <1>2, <1>3, Larger
<1>5. \A i \in DOMAIN does : does[i] \in Under(kind, g) /\ 1 \in 1..i
  BY <1>3
<1> QED
  BY <1>1, <1>3, <1>4, <1>5 DEF Disciplined

\* So is one whose statements need none.
LEMMA NeedsNoLock ==
  ASSUME NEW kind, NEW does \in Seq(Alone(kind))
  PROVE  Disciplined(Operation(kind, does))
<1>1. Operation(kind, does).kind = kind /\ Operation(kind, does).does = does
  BY DEF Operation
<1>2. Alone(kind) \subseteq Statements
  BY DEF Alone
<1>3. does \in Seq(Statements)
  BY <1>2, Larger
<1> QED
  BY <1>1, <1>3 DEF Disciplined

\* What begins with the lock goes on under it.
LEMMA Continued ==
  ASSUME NEW kind, NEW g, NEW s, Begun(s, kind, g), NEW r \in Seq(Under(kind, g))
  PROVE  Begun(s \o r, kind, g)
BY DEF Begun

\* A row that governs itself may be locked and written at any time.
LEMMA FineAlone ==
  ASSUME NEW row \in Tables \X Names, NEW kind
  PROVE  /\ Governor(row) = row /\ row[1] # "user" => Lock(row) \in Alone(kind)
         /\ Governor(row) = row => Key(row) \in Alone(kind) /\ Write(row) \in Alone(kind)
         /\ row \in Bearable(kind) => Read(row) \in Alone(kind)
<1>1. row \in {User(n) : n \in Names} => row[1] = "user"
  BY DEF User
<1>2. \A r : Lock(r).row = r /\ Read(r).row = r /\ Write(r).row = r /\ Key(r).row = r
  BY Fields
<1>3. /\ Lock(row).mode = "update" /\ ~Lock(row).writes
      /\ Read(row).mode = "none" /\ ~Read(row).writes
      /\ Write(row).mode = "no key update" /\ ~Write(row).reads
      /\ Key(row).mode = "key share" /\ ~Key(row).reads /\ ~Key(row).writes
  BY Fields
<1>4. Lock(row) \in Statements /\ Read(row) \in Statements /\ Write(row) \in Statements /\ Key(row) \in Statements
  BY AreStatements
<1>5. Governor(row) = row /\ row[1] # "user" => Lock(row) \in Alone(kind)
  BY <1>1, <1>2, <1>3, <1>4 DEF Alone
<1>6. Governor(row) = row => Key(row) \in Alone(kind)
  BY <1>2, <1>3, <1>4 DEF Alone
<1>7. Governor(row) = row => Write(row) \in Alone(kind)
  BY <1>2, <1>3, <1>4 DEF Alone
<1>8. row \in Bearable(kind) => Read(row) \in Alone(kind)
  BY <1>2, <1>3, <1>4 DEF Alone
<1> QED
  BY <1>5, <1>6, <1>7, <1>8

\* The rows are rows, and which of them stand for themselves.
LEMMA Rows ==
  ASSUME NEW n \in Names
  PROVE  /\ User(n) \in Tables \X Names /\ Cart(n) \in Tables \X Names
         /\ Address(n) \in Tables \X Names /\ Product(n) \in Tables \X Names
         /\ OrdersOf(n) \in Tables \X Names /\ Variant(n) \in Tables \X Names
         /\ Coupon(n) \in Tables \X Names /\ Order(n) \in Tables \X Names
         /\ Children(n) \in Tables \X Names /\ Payment(n) \in Tables \X Names
         /\ Shipments(n) \in Tables \X Names /\ Receipt(n) \in Tables \X Names
         /\ Driver(n) \in Tables \X Names /\ Seller(n) \in Tables \X Names
BY DEF Tables, User, Address, Cart, OrdersOf, Product, Variant, Coupon, Order, Children, Payment, Shipments,
       Receipt, Driver, Seller

\* The governor of each row.
LEMMA Governors ==
  \A n : /\ Governor(User(n)) = User(n) /\ Governor(Cart(n)) = Cart(n)
         /\ Governor(OrdersOf(n)) = User(n) /\ Governor(Variant(n)) = Variant(n)
         /\ Governor(Coupon(n)) = Coupon(n) /\ Governor(Order(n)) = Order(n)
         /\ Governor(Children(n)) = Order(n) /\ Governor(Payment(n)) = Order(n)
         /\ Governor(Shipments(n)) = Order(n) /\ Governor(Receipt(n)) = Receipt(n)
         /\ Governor(Driver(n)) = Driver(n) /\ Governor(Seller(n)) = Seller(n)
         /\ Governor(Address(n)) = Address(n) /\ Governor(Product(n)) = Product(n)
         /\ \A row \in {Address(n), Cart(n), Product(n), Variant(n), Coupon(n), Order(n), Children(n), Payment(n),
                        Shipments(n), Receipt(n), Driver(n), Seller(n)} : row[1] # "user"
BY DEF Governor, User, Address, Cart, OrdersOf, Product, Variant, Coupon, Order, Children, Payment, Shipments,
       Receipt, Driver, Seller

\* Everyone may read a shop, a product and an address without a lock, and the
\* cart a variant.
LEMMA Bearables ==
  ASSUME NEW kind
  PROVE  /\ \A s \in Sellers : Seller(s) \in Bearable(kind)
         /\ \A p \in Products : Product(p) \in Bearable(kind)
         /\ \A u \in Users : Address(u) \in Bearable(kind)
         /\ \A v \in Variants : Variant(v) \in Bearable("put")
BY DEF Bearable

---------------------------------------------------------------------------
(* Every operation is disciplined *)

\* The names of each kind.
LEMMA KnownNames ==
  /\ Users \subseteq Names /\ Products \subseteq Names
  /\ Variants \subseteq Names /\ Coupons \subseteq Names
  /\ Orders \subseteq Names /\ Transfers \subseteq Names /\ Drivers \subseteq Names
  /\ Sellers \subseteq Names /\ Staff \subseteq Names
BY RowAssumption DEF Names

\* The rows of the two statements for each item.
LEMMA Halves ==
  ASSUME NEW X, NEW s \in Seq(X), NEW i \in 1..(2 * Len(s))
  PROVE  s[(i + 1) \div 2] \in X
<1>1. Len(s) \in Nat
  OBVIOUS
<1>2. (i + 1) \div 2 \in 1..Len(s)
  BY <1>1
<1> QED
  BY <1>2

\* And of the three.
LEMMA Thirds ==
  ASSUME NEW X, NEW s \in Seq(X), NEW i \in 1..(3 * Len(s))
  PROVE  (i + 2) \div 3 \in 1..Len(s) /\ s[(i + 2) \div 3] \in X
<1>1. Len(s) \in Nat
  OBVIOUS
<1>2. (i + 2) \div 3 \in 1..Len(s)
  BY <1>1
<1> QED
  BY <1>2

\* A function on the first n numbers is a sequence.
LEMMA Built ==
  ASSUME NEW n \in Nat, NEW X, NEW f, f \in [1..n -> X]
  PROVE  f \in Seq(X)
OBVIOUS

\* Checkout locks the variants and reads their products and shops.
LEMMA CheckoutLocksVariants ==
  ASSUME NEW s \in Seq(Variants), NEW g
  PROVE  ForEachThree(s, LAMBDA v : Lock(Variant(v)), LAMBDA v : Read(Product(ProductOf[v])),
                      LAMBDA v : Read(Seller(SellerOf[v])))
            \in Seq(Under("checkout", g))
<1> DEFINE f == ForEachThree(s, LAMBDA v : Lock(Variant(v)), LAMBDA v : Read(Product(ProductOf[v])),
                             LAMBDA v : Read(Seller(SellerOf[v])))
           At(i) == LET v == s[(i + 2) \div 3]
                    IN  IF i % 3 = 1 THEN Lock(Variant(v))
                        ELSE IF i % 3 = 2 THEN Read(Product(ProductOf[v]))
                        ELSE Read(Seller(SellerOf[v]))
<1>1. f = [i \in 1..(3 * Len(s)) |-> At(i)]
  BY DEF ForEachThree
<1>2. ASSUME NEW i \in 1..(3 * Len(s))
      PROVE  At(i) \in Under("checkout", g)
  <2>1. PICK v \in Variants : v = s[(i + 2) \div 3]
    BY Thirds
  <2>2. /\ v \in Names /\ SellerOf[v] \in Names /\ SellerOf[v] \in Sellers
        /\ ProductOf[v] \in Names /\ ProductOf[v] \in Products
    BY KnownNames, RowAssumption
  <2>3. Lock(Variant(v)) \in Under("checkout", g)
    BY <2>2, Rows, FineUnder, Governors
  <2>4. Read(Seller(SellerOf[v])) \in Under("checkout", g)
    BY <2>2, Rows, FineUnder, Bearables
  <2>5. Read(Product(ProductOf[v])) \in Under("checkout", g)
    BY <2>2, Rows, FineUnder, Bearables
  <2> QED
    BY <2>1, <2>3, <2>4, <2>5
<1>3. 3 * Len(s) \in Nat
  OBVIOUS
<1> HIDE DEF At
<1> QED
  BY <1>1, <1>2, <1>3, Built

\* It takes the coupon.
LEMMA CheckoutTakesCoupons ==
  ASSUME NEW s \in Seq(Coupons), NEW g
  PROVE  ForEachTwo(s, LAMBDA c : Lock(Coupon(c)), LAMBDA c : Write(Coupon(c)))
            \in Seq(Under("checkout", g))
<1> DEFINE f == ForEachTwo(s, LAMBDA c : Lock(Coupon(c)), LAMBDA c : Write(Coupon(c)))
           At(i) == LET c == s[(i + 1) \div 2]
                    IN  IF i % 2 = 1 THEN Lock(Coupon(c)) ELSE Write(Coupon(c))
<1>1. f = [i \in 1..(2 * Len(s)) |-> At(i)]
  BY DEF ForEachTwo
<1>2. ASSUME NEW i \in 1..(2 * Len(s))
      PROVE  At(i) \in Under("checkout", g)
  <2>1. PICK c \in Coupons : c = s[(i + 1) \div 2]
    BY Halves
  <2>2. c \in Names
    BY KnownNames, RowAssumption
  <2>3. Lock(Coupon(c)) \in Under("checkout", g)
    BY <2>2, Rows, FineUnder, Governors
  <2>4. Write(Coupon(c)) \in Under("checkout", g)
    BY <2>2, Rows, FineUnder, Governors
  <2> QED
    BY <2>1, <2>3, <2>4
<1>3. 2 * Len(s) \in Nat
  OBVIOUS
<1> HIDE DEF At
<1> QED
  BY <1>1, <1>2, <1>3, Built

\* It takes the stock.
LEMMA CheckoutTakesVariants ==
  ASSUME NEW s \in Seq(Variants), NEW g
  PROVE  ForEachTwo(s, LAMBDA v : Key(Seller(SellerOf[v])), LAMBDA v : Write(Variant(v)))
            \in Seq(Under("checkout", g))
<1> DEFINE f == ForEachTwo(s, LAMBDA v : Key(Seller(SellerOf[v])), LAMBDA v : Write(Variant(v)))
           At(i) == LET v == s[(i + 1) \div 2]
                    IN  IF i % 2 = 1 THEN Key(Seller(SellerOf[v])) ELSE Write(Variant(v))
<1>1. f = [i \in 1..(2 * Len(s)) |-> At(i)]
  BY DEF ForEachTwo
<1>2. ASSUME NEW i \in 1..(2 * Len(s))
      PROVE  At(i) \in Under("checkout", g)
  <2>1. PICK v \in Variants : v = s[(i + 1) \div 2]
    BY Halves
  <2>2. v \in Names /\ SellerOf[v] \in Names
    BY KnownNames, RowAssumption
  <2>3. Key(Seller(SellerOf[v])) \in Under("checkout", g)
    BY <2>2, Rows, FineUnder, Governors
  <2>4. Write(Variant(v)) \in Under("checkout", g)
    BY <2>2, Rows, FineUnder, Governors
  <2> QED
    BY <2>1, <2>3, <2>4
<1>3. 2 * Len(s) \in Nat
  OBVIOUS
<1> HIDE DEF At
<1> QED
  BY <1>1, <1>2, <1>3, Built

\* Cancellation returns the stock.
LEMMA CancelRestores ==
  ASSUME NEW s \in Seq(Variants), NEW g
  PROVE  ForEach(s, LAMBDA v : Write(Variant(v))) \in Seq(Under("cancel", g))
<1>1. ForEach(s, LAMBDA v : Write(Variant(v))) = [i \in 1..Len(s) |-> Write(Variant(s[i]))]
  BY DEF ForEach
<1>2. ASSUME NEW i \in 1..Len(s)
      PROVE  Write(Variant(s[i])) \in Under("cancel", g)
  <2>1. PICK v \in Variants : v = s[i]
    OBVIOUS
  <2>2. v \in Names
    BY KnownNames
  <2> QED
    BY <2>1, <2>2, Rows, FineUnder, Governors
<1>3. Len(s) \in Nat
  OBVIOUS
<1> QED
  BY <1>1, <1>2, <1>3, Built

\* The variants of a checkout, and the only or no coupon, in some order.
LEMMA ItemsInOrder ==
  ASSUME NEW items \in SUBSET Variants
  PROVE  Ascending(items) \in Seq(Variants)
<1>1. IsFiniteSet(items) /\ items \subseteq Nat
  BY RowAssumption, FS_Subset
<1> QED
  BY <1>1, AscendingIsRight, Larger

\* The coupon is a sequence of coupons.
LEMMA CouponsInOrder ==
  ASSUME NEW coupons \in SUBSET Coupons, IsFiniteSet(coupons)
  PROVE  SetToSeq(coupons) \in Seq(Coupons)
<1>1. Cardinality(coupons) \in Nat /\ Bijection(1..Cardinality(coupons), coupons) # {}
  BY FS_CardinalityType DEF ExistsBijection
<1>2. \E f \in [1..Cardinality(coupons) -> coupons] : IsInjective(f)
  BY <1>1 DEF Bijection, Injection
<1>3. SetToSeq(coupons) \in [1..Cardinality(coupons) -> coupons]
  BY <1>2 DEF SetToSeq
<1>4. SetToSeq(coupons) \in Seq(coupons)
  BY <1>1, <1>3, Built
<1> QED
  BY <1>4, Larger

---------------------------------------------------------------------------

\* Checkout is disciplined: it locks the user first.
LEMMA CheckoutIsDisciplined ==
  ASSUME NEW u \in Users, NEW items \in SUBSET Variants, NEW coupons \in SUBSET Coupons,
         IsFiniteSet(coupons)
  PROVE  Disciplined(Checkout(u, items, coupons))
<1> DEFINE g == User(u)
           a == <<Lock(User(u)), Read(OrdersOf(u)), Read(Address(u)), Lock(Cart(u))>>
           b == ForEachThree(Ascending(items), LAMBDA v : Lock(Variant(v)),
                             LAMBDA v : Read(Product(ProductOf[v])), LAMBDA v : Read(Seller(SellerOf[v])))
           c == ForEachTwo(SetToSeq(coupons), LAMBDA k : Lock(Coupon(k)), LAMBDA k : Write(Coupon(k)))
           d == ForEachTwo(Ascending(items), LAMBDA v : Key(Seller(SellerOf[v])), LAMBDA v : Write(Variant(v)))
           e == <<Write(Cart(u)), Write(OrdersOf(u))>>
<1>1. u \in Names
  BY KnownNames
<1>2. Begun(a, "checkout", g)
  <2>1. Lock(User(u)) \in Under("checkout", g) /\ Lock(Cart(u)) \in Under("checkout", g)
    BY <1>1, Rows, FineUnder, Governors
  <2>2. Read(OrdersOf(u)) \in Under("checkout", g)
    BY <1>1, Rows, FineUnder, Governors
  <2>3. Read(Address(u)) \in Under("checkout", g)
    BY <1>1, Rows, FineUnder, Bearables
  <2> QED
    BY <2>1, <2>2, <2>3 DEF Begun
<1>3. b \in Seq(Under("checkout", g)) /\ d \in Seq(Under("checkout", g))
  BY ItemsInOrder, CheckoutLocksVariants, CheckoutTakesVariants
<1>4. c \in Seq(Under("checkout", g))
  BY CouponsInOrder, CheckoutTakesCoupons
<1>5. e \in Seq(Under("checkout", g))
  <2>1. Write(Cart(u)) \in Under("checkout", g) /\ Write(OrdersOf(u)) \in Under("checkout", g)
    BY <1>1, Rows, FineUnder, Governors
  <2> QED
    BY <2>1
<1>6. Checkout(u, items, coupons) = Operation("checkout", a \o b \o c \o d \o e)
  BY DEF Checkout
<1> HIDE DEF a, b, c, d, e, g
<1>7. Begun(a \o b, "checkout", g)
  BY <1>2, <1>3, Continued
<1>8. Begun(a \o b \o c, "checkout", g)
  BY <1>4, <1>7, Continued
<1>9. Begun(a \o b \o c \o d, "checkout", g)
  BY <1>3, <1>8, Continued
<1>10. Begun(a \o b \o c \o d \o e, "checkout", g)
  BY <1>5, <1>9, Continued
<1> QED
  BY <1>6, <1>10, LockedFirst

\* What is right under the lock of an order.
LEMMA UnderOrder ==
  ASSUME NEW o \in Orders, NEW kind
  PROVE  /\ Lock(Order(o)) \in Under(kind, Order(o)) /\ Write(Order(o)) \in Under(kind, Order(o))
         /\ Lock(Payment(o)) \in Under(kind, Order(o)) /\ Read(Payment(o)) \in Under(kind, Order(o))
         /\ Write(Payment(o)) \in Under(kind, Order(o))
         /\ Read(Children(o)) \in Under(kind, Order(o)) /\ Write(Children(o)) \in Under(kind, Order(o))
         /\ Lock(Shipments(o)) \in Under(kind, Order(o)) /\ Read(Shipments(o)) \in Under(kind, Order(o))
         /\ Write(Shipments(o)) \in Under(kind, Order(o))
         /\ \A u \in Users : Key(User(u)) \in Under(kind, Order(o)) /\ Lock(Driver(u)) \in Under(kind, Order(o))
         /\ \A s \in Sellers : Read(Seller(s)) \in Under(kind, Order(o))
<1>1. o \in Names /\ Users \subseteq Names /\ Sellers \subseteq Names
  BY KnownNames
<1>2. /\ Order(o) \in Tables \X Names /\ Payment(o) \in Tables \X Names
      /\ Children(o) \in Tables \X Names /\ Shipments(o) \in Tables \X Names
      /\ \A u \in Users : User(u) \in Tables \X Names /\ Driver(u) \in Tables \X Names
      /\ \A s \in Sellers : Seller(s) \in Tables \X Names
  BY <1>1, Rows
<1>3. /\ Lock(Order(o)) \in Under(kind, Order(o)) /\ Write(Order(o)) \in Under(kind, Order(o))
      /\ Lock(Payment(o)) \in Under(kind, Order(o)) /\ Read(Payment(o)) \in Under(kind, Order(o))
      /\ Write(Payment(o)) \in Under(kind, Order(o))
  BY <1>2, FineUnder, Governors
<1>4. /\ Read(Children(o)) \in Under(kind, Order(o)) /\ Write(Children(o)) \in Under(kind, Order(o))
      /\ Lock(Shipments(o)) \in Under(kind, Order(o)) /\ Read(Shipments(o)) \in Under(kind, Order(o))
      /\ Write(Shipments(o)) \in Under(kind, Order(o))
  BY <1>2, FineUnder, Governors
<1>5. \A u \in Users : Key(User(u)) \in Under(kind, Order(o)) /\ Lock(Driver(u)) \in Under(kind, Order(o))
  BY <1>2, FineUnder, Governors
<1>6. \A s \in Sellers : Read(Seller(s)) \in Under(kind, Order(o))
  BY <1>2, FineUnder, Bearables
<1> QED
  BY <1>3, <1>4, <1>5, <1>6

\* Cancellation is disciplined: it locks the order first.
LEMMA CancelIsDisciplined ==
  ASSUME NEW o \in Orders
  PROVE  Disciplined(Cancel(o))
<1> DEFINE a == <<Lock(Order(o)), Lock(Payment(o)), Read(Children(o))>>
           b == ForEach(Ascending(ItemsOf[o]), LAMBDA v : Write(Variant(v)))
           c == <<Write(Order(o)), Write(Children(o)), Write(Payment(o))>>
<1>1. Begun(a, "cancel", Order(o))
  BY UnderOrder DEF Begun
<1>2. b \in Seq(Under("cancel", Order(o)))
  <2>1. ItemsOf[o] \in SUBSET Variants
    BY RowAssumption
  <2> QED
    BY <2>1, ItemsInOrder, CancelRestores
<1>3. c \in Seq(Under("cancel", Order(o)))
  BY UnderOrder
<1>4. Cancel(o) = Operation("cancel", a \o b \o c)
  BY DEF Cancel
<1> HIDE DEF a, b, c
<1>5. Begun(a \o b, "cancel", Order(o))
  BY <1>1, <1>2, Continued
<1>6. Begun(a \o b \o c, "cancel", Order(o))
  BY <1>3, <1>5, Continued
<1> QED
  BY <1>4, <1>6, LockedFirst

\* Fulfilment is disciplined: it locks the order first.
LEMMA FulfillIsDisciplined ==
  ASSUME NEW o \in Orders, NEW to
  PROVE  Disciplined(Fulfill(o, to))
<1> DEFINE U == Under("fulfill", Order(o))
           a == <<Lock(Order(o)), Read(Children(o)), Read(Shipments(o)), Read(Payment(o))>>
           b == <<Write(Children(o))>>
           c == IF to = "confirmed" THEN <<>> ELSE <<Write(Shipments(o))>>
           d == <<Read(Children(o))>>
           e == IF to = "delivered" THEN <<Write(Payment(o))>> ELSE <<>>
           f == <<Write(Order(o))>>
<1>1. Begun(a, "fulfill", Order(o))
  BY UnderOrder DEF Begun
<1>2. b \in Seq(U) /\ d \in Seq(U) /\ f \in Seq(U)
  BY UnderOrder
<1>3. c \in Seq(U) /\ e \in Seq(U)
  BY UnderOrder
<1>4. Fulfill(o, to) = Operation("fulfill", a \o (b \o c \o d \o e \o f))
  BY DEF Fulfill, FulfillWrites
<1> HIDE DEF a, b, c, d, e, f, U
<1>5. b \o c \o d \o e \o f \in Seq(U)
  BY <1>2, <1>3
<1>6. Begun(a \o (b \o c \o d \o e \o f), "fulfill", Order(o))
  BY <1>1, <1>5, Continued DEF U
<1> QED
  BY <1>4, <1>6, LockedFirst

\* So is everything that begins as Mutate does.
LEMMA MutationsAreDisciplined ==
  ASSUME NEW o \in Orders, NEW kind, NEW r \in Seq(Under(kind, Order(o)))
  PROVE  Disciplined(Operation(kind, Mutate(o) \o r))
<1>1. Begun(Mutate(o), kind, Order(o))
  BY UnderOrder DEF Begun, Mutate
<1> QED
  BY <1>1, Continued, LockedFirst

\* The steps of delivery are disciplined.
LEMMA DeliveryIsDisciplined ==
  ASSUME NEW o \in Orders
  PROVE  /\ \A s \in Sellers, u \in Staff : Disciplined(CreateShipment(o, s, u))
         /\ \A d \in Drivers, u \in Staff : Disciplined(Assign(o, d, u))
         /\ \A d \in Drivers : Disciplined(UpdateShipment(o, d))
         /\ \A u \in Staff : Disciplined(Settle(o, u))
<1>1. Drivers \subseteq Users /\ Staff \subseteq Users
  BY RowAssumption
<1>2. ASSUME NEW s \in Sellers, NEW u \in Staff
      PROVE  Disciplined(CreateShipment(o, s, u))
  <2>1. u \in Users
    BY <1>1
  <2>2. Begun(<<Lock(Order(o)), Read(Children(o)), Read(Shipments(o)), Read(Payment(o)),
                Read(Seller(s)), Write(Shipments(o)), Key(User(u))>>, "create", Order(o))
    BY <2>1, UnderOrder DEF Begun
  <2> QED
    BY <2>2, LockedFirst DEF CreateShipment
<1>3. ASSUME NEW d \in Drivers, NEW u \in Staff
      PROVE  Disciplined(Assign(o, d, u))
  <2>1. u \in Users /\ d \in Users
    BY <1>1
  <2>2. <<Lock(Driver(d)), Write(Shipments(o)), Key(User(u))>> \in Seq(Under("assign", Order(o)))
    BY <2>1, UnderOrder
  <2> QED
    BY <2>2, MutationsAreDisciplined DEF Assign
<1>4. ASSUME NEW d \in Drivers
      PROVE  Disciplined(UpdateShipment(o, d))
  <2>1. d \in Users
    BY <1>1
  <2>2. <<Lock(Driver(d)), Read(Payment(o)), Write(Shipments(o)), Write(Children(o)),
          Read(Children(o)), Write(Order(o)), Key(User(d))>> \in Seq(Under("report", Order(o)))
    BY <2>1, UnderOrder
  <2> QED
    BY <2>2, MutationsAreDisciplined DEF UpdateShipment
<1>5. ASSUME NEW u \in Staff
      PROVE  Disciplined(Settle(o, u))
  <2>1. u \in Users
    BY <1>1
  <2>2. <<Read(Payment(o)), Write(Shipments(o)), Key(User(u)), Read(Children(o)), Write(Payment(o))>>
           \in Seq(Under("settle", Order(o)))
    BY <2>1, UnderOrder
  <2> QED
    BY <2>2, MutationsAreDisciplined DEF Settle
<1> QED
  BY <1>2, <1>3, <1>4, <1>5

\* The handlers of a customer's cart and address are disciplined.
LEMMA CartIsDisciplined ==
  ASSUME NEW u \in Users
  PROVE  /\ \A v \in Variants : Disciplined(PutCart(u, v))
         /\ Disciplined(RemoveFromCart(u)) /\ Disciplined(ChangeAddress(u))
<1>1. u \in Names
  BY KnownNames
<1>2. /\ \A kind : Lock(Cart(u)) \in Under(kind, Cart(u)) /\ Write(Cart(u)) \in Under(kind, Cart(u))
  BY <1>1, Rows, Governors, FineUnder
<1>3. ASSUME NEW v \in Variants
      PROVE  Disciplined(PutCart(u, v))
  <2>1. /\ v \in Names /\ SellerOf[v] \in Sellers /\ SellerOf[v] \in Names
        /\ ProductOf[v] \in Products /\ ProductOf[v] \in Names
    BY KnownNames, RowAssumption
  <2>2. Read(Variant(v)) \in Under("put", Cart(u)) /\ Key(Variant(v)) \in Under("put", Cart(u))
    BY <2>1, Rows, FineUnder, Governors, Bearables
  <2>3. Read(Seller(SellerOf[v])) \in Under("put", Cart(u))
    BY <2>1, Rows, FineUnder, Governors, Bearables
  <2>4. Read(Product(ProductOf[v])) \in Under("put", Cart(u))
    BY <2>1, Rows, FineUnder, Governors, Bearables
  <2>5. Begun(<<Lock(Cart(u)), Read(Variant(v)), Read(Product(ProductOf[v])),
                Read(Seller(SellerOf[v])), Write(Cart(u)), Key(Variant(v))>>, "put", Cart(u))
    BY <1>2, <2>2, <2>3, <2>4 DEF Begun
  <2> QED
    BY <2>5, LockedFirst DEF PutCart
<1>4. Disciplined(RemoveFromCart(u))
  <2>1. Begun(<<Lock(Cart(u)), Write(Cart(u))>>, "remove", Cart(u))
    BY <1>2 DEF Begun
  <2> QED
    BY <2>1, LockedFirst DEF RemoveFromCart
<1>5. Disciplined(ChangeAddress(u))
  <2>1. Write(Address(u)) \in Alone("address")
    BY <1>1, Rows, Governors, FineAlone
  <2>2. <<Write(Address(u))>> \in Seq(Alone("address"))
    BY <2>1
  <2> QED
    BY <2>2, NeedsNoLock DEF ChangeAddress
<1> QED
  BY <1>3, <1>4, <1>5

\* The one operation that writes before it locks the order: the receipt is its own row.
LEMMA ReceiveIsDisciplined ==
  ASSUME NEW x \in Transfers, NEW o \in Orders
  PROVE  Disciplined(Receive(x, o))
<1> DEFINE does == <<Write(Receipt(x)), Lock(Order(o)), Lock(Payment(o)), Write(Payment(o)),
                     Write(Receipt(x))>>
<1>1. x \in Names /\ o \in Names
  BY KnownNames
<1>2. /\ Write(Receipt(x)) \in Alone("receive") /\ Lock(Order(o)) \in Alone("receive")
  BY <1>1, Rows, Governors, FineAlone
<1>3. Lock(Payment(o)) \in Under("receive", Order(o)) /\ Write(Payment(o)) \in Under("receive", Order(o))
  BY UnderOrder
<1>4. /\ Write(Receipt(x)) \in Statements /\ Lock(Order(o)) \in Statements
      /\ Lock(Payment(o)) \in Statements /\ Write(Payment(o)) \in Statements
  BY <1>1, Rows, AreStatements
<1>5. does \in Seq(Statements) /\ DOMAIN does = 1..5 /\ does[2] = Lock(Order(o))
  BY <1>4
<1>6. \A i \in 1..5 : \/ does[i] \in Alone("receive")
                      \/ does[i] \in Under("receive", Order(o)) /\ 2 \in 1..i
  BY <1>2, <1>3
<1>7. Receive(x, o).kind = "receive" /\ Receive(x, o).does = does
  BY DEF Receive, Operation
<1> QED
  BY <1>5, <1>6, <1>7 DEF Disciplined

\* The handlers of shops and drivers are disciplined.
LEMMA ShopIsDisciplined ==
  /\ \A p \in Products : Disciplined(Save(p))
  /\ \A d \in Drivers : \A status : Disciplined(ApproveDriver(d, status))
  /\ \A v \in Variants : Disciplined(Adjust(v)) /\ Disciplined(UpdateVariant(v))
  /\ \A c \in Coupons : Disciplined(SetActive(c))
  /\ \A s \in Sellers : Disciplined(SetShopStatus(s)) /\ Disciplined(UpdateShop(s))
  /\ \A s \in Sellers, u \in Users : Disciplined(SetMember(s, u))
<1>1. \A n \in Names : \A kind :
         /\ Lock(Driver(n)) \in Alone(kind) /\ Write(Driver(n)) \in Alone(kind)
         /\ Lock(Variant(n)) \in Alone(kind) /\ Write(Variant(n)) \in Alone(kind)
         /\ Write(Coupon(n)) \in Alone(kind) /\ Key(User(n)) \in Alone(kind)
         /\ Lock(Seller(n)) \in Alone(kind) /\ Write(Seller(n)) \in Alone(kind)
  BY Rows, Governors, FineAlone
<1>2. ASSUME NEW d \in Drivers, NEW status
      PROVE  Disciplined(ApproveDriver(d, status))
  <2>1. d \in Names
    BY KnownNames
  <2>2. <<Lock(Driver(d)), Write(Driver(d))>> \in Seq(Alone("approve"))
    BY <1>1, <2>1
  <2>3. (IF status = "approved" THEN <<Key(User(d))>> ELSE <<>>) \in Seq(Alone("approve"))
    BY <1>1, <2>1
  <2>4. <<Lock(Driver(d)), Write(Driver(d))>> \o (IF status = "approved" THEN <<Key(User(d))>> ELSE <<>>)
           \in Seq(Alone("approve"))
    BY <2>2, <2>3
  <2> QED
    BY <2>4, NeedsNoLock DEF ApproveDriver
<1>3. ASSUME NEW v \in Variants
      PROVE  Disciplined(Adjust(v)) /\ Disciplined(UpdateVariant(v))
  <2>1. v \in Names
    BY KnownNames
  <2>2. /\ <<Lock(Variant(v)), Write(Variant(v))>> \in Seq(Alone("adjust"))
        /\ <<Write(Variant(v))>> \in Seq(Alone("reprice"))
    BY <1>1, <2>1
  <2> QED
    BY <2>2, NeedsNoLock DEF Adjust, UpdateVariant
<1>4. ASSUME NEW c \in Coupons
      PROVE  Disciplined(SetActive(c))
  <2>1. c \in Names
    BY KnownNames
  <2>2. <<Write(Coupon(c))>> \in Seq(Alone("switch"))
    BY <1>1, <2>1
  <2> QED
    BY <2>2, NeedsNoLock DEF SetActive
<1>5. ASSUME NEW s \in Sellers
      PROVE  Disciplined(SetShopStatus(s)) /\ Disciplined(UpdateShop(s))
  <2>1. s \in Names
    BY KnownNames
  <2>2. /\ <<Write(Seller(s))>> \in Seq(Alone("status"))
        /\ <<Lock(Seller(s)), Write(Seller(s))>> \in Seq(Alone("profile"))
    BY <1>1, <2>1
  <2> QED
    BY <2>2, NeedsNoLock DEF SetShopStatus, UpdateShop
<1>6. ASSUME NEW s \in Sellers, NEW u \in Users
      PROVE  Disciplined(SetMember(s, u))
  <2>1. s \in Names /\ u \in Names
    BY KnownNames
  <2>2. <<Lock(Seller(s)), Key(User(u))>> \in Seq(Alone("member"))
    BY <1>1, <2>1
  <2> QED
    BY <2>2, NeedsNoLock DEF SetMember
<1>7. ASSUME NEW p \in Products
      PROVE  Disciplined(Save(p))
  <2>1. p \in Names
    BY KnownNames
  <2>2. Read(Product(p)) \in Alone("save") /\ Write(Product(p)) \in Alone("save")
    BY <2>1, Rows, Governors, Bearables, FineAlone
  <2>3. <<Read(Product(p)), Write(Product(p))>> \in Seq(Alone("save"))
    BY <2>2
  <2> QED
    BY <2>3, NeedsNoLock DEF Save
<1> QED
  BY <1>2, <1>3, <1>4, <1>5, <1>6, <1>7

\* Every handler is disciplined.
LEMMA EveryOperationIsDisciplined ==
  \A operation \in Operations : Disciplined(operation)
<1>1. ASSUME NEW u \in Users, NEW items \in SUBSET Variants \ {{}},
             NEW coupons \in {{}} \cup {{c} : c \in Coupons}
      PROVE  Disciplined(Checkout(u, items, coupons))
  <2>1. CASE coupons = {}
    <3>1. coupons \in SUBSET Coupons /\ IsFiniteSet(coupons)
      BY <2>1, FS_EmptySet
    <3> QED
      BY <3>1, CheckoutIsDisciplined
  <2>2. CASE \E c \in Coupons : coupons = {c}
    <3>1. coupons \in SUBSET Coupons
      BY <2>2
    <3>2. IsFiniteSet(coupons)
      <4>1. PICK c \in Coupons : coupons = {c}
        BY <2>2
      <4> QED
        BY <4>1, FS_Singleton
    <3> QED
      BY <3>1, <3>2, CheckoutIsDisciplined
  <2> QED
    BY <2>1, <2>2
<1> DEFINE Bought    == {Checkout(u, items, coupons) :
                            u \in Users, items \in SUBSET Variants \ {{}},
                            coupons \in {{}} \cup {{c} : c \in Coupons}}
           Canceled  == {Cancel(o) : o \in Orders}
           Fulfilled == {Fulfill(o, to) : o \in Orders, to \in {"confirmed", "shipping", "delivered"}}
           Put       == {PutCart(u, v) : u \in Users, v \in Variants}
           Removed   == {RemoveFromCart(u) : u \in Users}
           Moved     == {ChangeAddress(u) : u \in Users}
           Received  == {Receive(x, o) : x \in Transfers, o \in Orders}
           Created   == {CreateShipment(o, s, u) : o \in Orders, s \in Sellers, u \in Staff}
           Assigned  == {Assign(o, d, u) : o \in Orders, d \in Drivers, u \in Staff}
           Reported  == {UpdateShipment(o, d) : o \in Orders, d \in Drivers}
           Settled   == {Settle(o, u) : o \in Orders, u \in Staff}
           Approved  == {ApproveDriver(d, status) : d \in Drivers, status \in {"approved", "suspended"}}
           Saved     == {Save(p) : p \in Products}
           Adjusted  == {Adjust(v) : v \in Variants}
           Repriced  == {UpdateVariant(v) : v \in Variants}
           Switched  == {SetActive(c) : c \in Coupons}
           Status    == {SetShopStatus(s) : s \in Sellers}
           Profiles  == {UpdateShop(s) : s \in Sellers}
           Members   == {SetMember(s, u) : s \in Sellers, u \in Users}
<1>2. \A operation \in Bought : Disciplined(operation)
  BY <1>1
<1>3. \A operation \in Canceled \cup Fulfilled : Disciplined(operation)
  BY CancelIsDisciplined, FulfillIsDisciplined
<1>4. \A operation \in Put \cup Removed \cup Moved \cup Received : Disciplined(operation)
  BY CartIsDisciplined, ReceiveIsDisciplined
<1>5. \A operation \in Created \cup Assigned \cup Reported \cup Settled : Disciplined(operation)
  BY DeliveryIsDisciplined
<1>6. \A operation \in Approved \cup Saved \cup Adjusted \cup Repriced \cup Switched
                            \cup Status \cup Profiles \cup Members : Disciplined(operation)
  BY ShopIsDisciplined
<1>7. Operations = Bought \cup Canceled \cup Fulfilled \cup Put \cup Removed \cup Moved
                   \cup Received \cup Created \cup Assigned \cup Reported \cup Settled
                   \cup Approved \cup Saved \cup Adjusted \cup Repriced \cup Switched \cup Status \cup Profiles \cup Members
  BY DEF Operations
<1> HIDE DEF Bought, Canceled, Fulfilled, Put, Removed, Moved, Received, Created, Assigned,
             Reported, Settled, Approved, Saved, Adjusted, Repriced, Switched, Status, Profiles, Members
<1> QED
  BY <1>2, <1>3, <1>4, <1>5, <1>6, <1>7

---------------------------------------------------------------------------
(* The order in which rows are locked *)

N == Cardinality(Variants)

\* The order of the tables, and among the variants the one of their ids.
Height(row) ==
    CASE row[1] \in {"receipt", "address", "product"} -> 0
      [] row[1] = "order"   -> 1
      [] row[1] \in {"seller orders", "payment", "shipments"} -> 2
      [] row[1] = "driver"  -> 3
      [] row[1] \in {"user", "orders of"} -> 4
      [] row[1] = "cart"    -> 5
      [] row[1] = "variant" -> 6 + NumberBelow(Variants, row[2])
      [] row[1] = "coupon"  -> 6 + N
      [] row[1] = "seller"  -> 7 + N

\* A statement waits at its level; those who wait for it wait at most at its ceiling.
Level(s)   == 2 * Height(s.row) + (IF s.mode = "key share" THEN 1 ELSE 0)
Ceiling(s) == 2 * Height(s.row) + (IF s.mode = "key share" THEN 0 ELSE 1)

Below(e, s) == e.mode = "none" \/ s.mode = "none" \/ Ceiling(e) < Level(s)

\* After e nobody else holds a lock that s would have to wait for.
Frees(e, s) ==
    \/ e.row = s.row /\ e.mode \in {"update", "no key update"} /\ e.mode \in {"update", s.mode}
    \/ e = Lock(Governor(s.row))

\* Each statement follows lower ones only, or does not wait.
Orderly(does) ==
    \A j \in DOMAIN does :
       \/ does[j].mode = "none"
       \/ \E k \in 1..(j - 1) : Frees(does[k], does[j])
       \/ \A i \in 1..(j - 1) : Below(does[i], does[j])

\* The one exception is the maker of a member: he locks the shop, then the user.
Ordered(o) ==
    IF o.kind = "member"
    THEN o.does \in {<<Lock(Seller(s)), Key(User(u))>> : s \in Sellers, u \in Users}
    ELSE Orderly(o.does)

\* The variants have their order.
LEMMA VariantRanks ==
  /\ N \in Nat
  /\ \A v \in Variants : NumberBelow(Variants, v) \in 0..(N - 1)
  /\ \A v, w \in Variants : v < w => NumberBelow(Variants, v) < NumberBelow(Variants, w)
<1>1. IsFiniteSet(Variants) /\ Variants \subseteq Nat
  BY RowAssumption
<1>2. N \in Nat
  BY <1>1, FS_CardinalityType DEF N
<1>3. \A v \in Variants : NumberBelow(Variants, v) \in 0..(N - 1)
  BY <1>1, RankInto DEF N
<1>4. \A v, w \in Variants : v < w => NumberBelow(Variants, v) < NumberBelow(Variants, w)
  BY <1>1, RankInto
<1> QED
  BY <1>2, <1>3, <1>4

\* The height of each row.
LEMMA Heights ==
  \A n : /\ Height(User(n)) = 4 /\ Height(Cart(n)) = 5 /\ Height(OrdersOf(n)) = 4
         /\ Height(Variant(n)) = 6 + NumberBelow(Variants, n) /\ Height(Coupon(n)) = 6 + N
         /\ Height(Order(n)) = 1 /\ Height(Children(n)) = 2 /\ Height(Payment(n)) = 2
         /\ Height(Shipments(n)) = 2 /\ Height(Receipt(n)) = 0 /\ Height(Driver(n)) = 3
         /\ Height(Seller(n)) = 7 + N
BY DEF Height, User, Cart, OrdersOf, Variant, Coupon, Order, Children, Payment, Shipments,
       Receipt, Driver, Seller

\* The level and the ceiling of the four statements.
LEMMA Levels ==
  \A row : /\ Level(Lock(row)) = 2 * Height(row) + 0 /\ Ceiling(Lock(row)) = 2 * Height(row) + 1
           /\ Level(Write(row)) = 2 * Height(row) + 0 /\ Ceiling(Write(row)) = 2 * Height(row) + 1
           /\ Level(Key(row)) = 2 * Height(row) + 1 /\ Ceiling(Key(row)) = 2 * Height(row) + 0
BY Fields DEF Level, Ceiling

\* What a lock of a row, or of its governor, frees.
LEMMA Freeing ==
  \A row : /\ Frees(Lock(row), Lock(row)) /\ Frees(Lock(row), Write(row)) /\ Frees(Write(row), Write(row))
           /\ Frees(Lock(Governor(row)), Lock(row)) /\ Frees(Lock(Governor(row)), Write(row))
BY Fields DEF Frees

\* Two parts of an operation, one after the other: the statements of the second are
\* freed, or in order, by one of the first or by one of their own.
LEMMA Appended ==
  ASSUME NEW x \in Seq(Statements), Orderly(x), NEW y \in Seq(Statements),
         \A j \in DOMAIN y :
            \/ y[j].mode = "none"
            \/ \E k \in DOMAIN x : Frees(x[k], y[j])
            \/ \E k \in 1..(j - 1) : Frees(y[k], y[j])
            \/ /\ \A i \in DOMAIN x : Below(x[i], y[j])
               /\ \A i \in 1..(j - 1) : Below(y[i], y[j])
  PROVE  Orderly(x \o y) /\ x \o y \in Seq(Statements)
<1>1. /\ Len(x) \in Nat /\ Len(y) \in Nat /\ DOMAIN x = 1..Len(x) /\ DOMAIN y = 1..Len(y)
      /\ DOMAIN (x \o y) = 1..(Len(x) + Len(y))
      /\ \A i \in 1..Len(x) : (x \o y)[i] = x[i]
      /\ \A i \in 1..Len(y) : (x \o y)[Len(x) + i] = y[i]
  OBVIOUS
<1> DEFINE z == x \o y
<1>2. z \in Seq(Statements)
  OBVIOUS
<1> HIDE DEF z
<1>3. ASSUME NEW j \in DOMAIN z
      PROVE  \/ z[j].mode = "none"
             \/ \E k \in 1..(j - 1) : Frees(z[k], z[j])
             \/ \A i \in 1..(j - 1) : Below(z[i], z[j])
  <2>1. CASE j <= Len(x)
    <3>1. j \in DOMAIN x /\ z[j] = x[j] /\ \A i \in 1..(j - 1) : z[i] = x[i]
      BY <1>1, <2>1 DEF z
    <3> QED
      BY <3>1 DEF Orderly
  <2>2. CASE j > Len(x)
    <3> DEFINE h == j - Len(x)
    <3>1. h \in 1..Len(y) /\ j = Len(x) + h
      BY <1>1, <2>2 DEF z
    <3> HIDE DEF h
    <3>2. z[j] = y[h]
      BY <1>1, <3>1 DEF z
    <3>3. \A i \in 1..Len(x) : i \in 1..(j - 1) /\ z[i] = x[i]
      BY <1>1, <3>1 DEF z
    <3>4. \A i \in 1..(h - 1) : Len(x) + i \in 1..(j - 1) /\ z[Len(x) + i] = y[i]
      BY <1>1, <3>1 DEF z
    <3>5. CASE y[h].mode = "none"
      BY <3>2, <3>5
    <3>6. CASE \E k \in DOMAIN x : Frees(x[k], y[h])
      BY <1>1, <3>2, <3>3, <3>6
    <3>7. CASE \E k \in 1..(h - 1) : Frees(y[k], y[h])
      BY <3>2, <3>4, <3>7
    <3>8. CASE /\ \A i \in DOMAIN x : Below(x[i], y[h])
               /\ \A i \in 1..(h - 1) : Below(y[i], y[h])
      <4>1. ASSUME NEW i \in 1..(j - 1)
            PROVE  Below(z[i], z[j])
        <5>1. CASE i <= Len(x)
          BY <1>1, <3>2, <3>3, <3>8, <5>1
        <5>2. CASE i > Len(x)
          <6>1. i - Len(x) \in 1..(h - 1) /\ i = Len(x) + (i - Len(x))
            BY <1>1, <3>1, <5>2
          <6> QED
            BY <3>2, <3>4, <3>8, <6>1
        <5> QED
          BY <1>1, <5>1, <5>2
      <4> QED
        BY <4>1
    <3> QED
      BY <1>1, <3>1, <3>5, <3>6, <3>7, <3>8
  <2> QED
    BY <1>1, <2>1, <2>2 DEF z
<1> QED
  BY <1>2, <1>3 DEF Orderly, z

\* Both lie at the height of the row.
LEMMA LevelBounds ==
  ASSUME NEW s, Height(s.row) \in Nat
  PROVE  /\ Level(s) \in Nat /\ 2 * Height(s.row) <= Level(s)
         /\ Ceiling(s) \in Nat /\ Ceiling(s) <= 2 * Height(s.row) + 1
<1> DEFINE h == Height(s.row)
<1>1. h \in Nat
  OBVIOUS
<1>2. Level(s) = 2 * h + (IF s.mode = "key share" THEN 1 ELSE 0)
  BY DEF Level
<1>3. Ceiling(s) = 2 * h + (IF s.mode = "key share" THEN 0 ELSE 1)
  BY DEF Ceiling
<1> HIDE DEF h
<1>4. Level(s) \in {2 * h + 0, 2 * h + 1} /\ Ceiling(s) \in {2 * h + 0, 2 * h + 1}
  BY <1>2, <1>3
<1>5. Level(s) \in Nat /\ 2 * h <= Level(s) /\ Ceiling(s) \in Nat /\ Ceiling(s) <= 2 * h + 1
  BY <1>1, <1>4
<1> QED
  BY <1>5 DEF h

\* What the lock of the row g frees.
Governed(g) == {s \in Statements : s.mode = "none" \/ Governor(s.row) = g}

\* Under one lock alone everything is freed by it.
LEMMA FreedByFirst ==
  ASSUME NEW g, NEW does \in Seq(Governed(g)), does[1] = Lock(g)
  PROVE  Orderly(does)
<1> SUFFICES ASSUME NEW j \in DOMAIN does
             PROVE  \/ does[j].mode = "none"
                    \/ \E k \in 1..(j - 1) : Frees(does[k], does[j])
                    \/ \A i \in 1..(j - 1) : Below(does[i], does[j])
  BY DEF Orderly
<1>1. Len(does) \in Nat /\ DOMAIN does = 1..Len(does) /\ does[j] \in Governed(g)
  OBVIOUS
<1>2. CASE j = 1
  BY <1>2
<1>3. CASE j > 1
  <2>1. 1 \in 1..(j - 1)
    BY <1>1, <1>3
  <2>2. does[j].mode = "none" \/ Governor(does[j].row) = g
    BY <1>1 DEF Governed
  <2> QED
    BY <2>1, <2>2 DEF Frees
<1> QED
  BY <1>1, <1>2, <1>3

\* A single statement is in order.
LEMMA OneStatement ==
  ASSUME NEW does, DOMAIN does = 1..1
  PROVE  Orderly(does)
BY DEF Orderly

\* What the lock of an order frees.
LEMMA GovernedByOrder ==
  ASSUME NEW o \in Orders
  PROVE  /\ Lock(Order(o)) \in Governed(Order(o)) /\ Write(Order(o)) \in Governed(Order(o))
         /\ Lock(Payment(o)) \in Governed(Order(o)) /\ Read(Payment(o)) \in Governed(Order(o))
         /\ Write(Payment(o)) \in Governed(Order(o))
         /\ Read(Children(o)) \in Governed(Order(o)) /\ Write(Children(o)) \in Governed(Order(o))
         /\ Lock(Shipments(o)) \in Governed(Order(o)) /\ Read(Shipments(o)) \in Governed(Order(o))
         /\ Write(Shipments(o)) \in Governed(Order(o))
         /\ \A s \in Sellers : Read(Seller(s)) \in Governed(Order(o))
<1>1. o \in Names /\ Sellers \subseteq Names
  BY KnownNames
<1>2. \A row \in {Order(o), Payment(o), Children(o), Shipments(o)} :
         row \in Tables \X Names /\ Governor(row) = Order(o)
  BY <1>1, Rows, Governors
<1>3. \A row \in {Order(o), Payment(o), Children(o), Shipments(o)} :
         /\ Lock(row) \in Governed(Order(o)) /\ Write(row) \in Governed(Order(o))
         /\ Read(row) \in Governed(Order(o))
  <2> TAKE row \in {Order(o), Payment(o), Children(o), Shipments(o)}
  <2>1. row \in Tables \X Names /\ Governor(row) = Order(o)
    BY <1>2
  <2>2. Lock(row) \in Statements /\ Write(row) \in Statements /\ Read(row) \in Statements
    BY <2>1, AreStatements
  <2>3. Lock(row).row = row /\ Write(row).row = row /\ Read(row).row = row
    BY Fields
  <2> QED
    BY <2>1, <2>2, <2>3 DEF Governed
<1>4. \A s \in Sellers : Read(Seller(s)) \in Governed(Order(o))
  BY <1>1, Rows, AreStatements, Fields DEF Governed
<1> QED
  BY <1>3, <1>4

\* It lies at the heights 1 and 2.
LEMMA LowUnderOrder ==
  ASSUME NEW o \in Orders, NEW s \in Governed(Order(o))
  PROVE  s.mode = "none" \/ Height(s.row) \in 1..2
<1>1. CASE s.mode = "none"
  BY <1>1
<1>2. CASE Governor(s.row) = Order(o)
  <2>1. CASE s.row[1] \in {"seller orders", "payment", "shipments"}
    <3>1. Height(s.row) = 2
      BY <2>1 DEF Height
    <3> QED
      BY <3>1
  <2>2. CASE s.row[1] = "orders of"
    <3>1. Governor(s.row) = <<"user", s.row[2]>>
      BY <2>2 DEF Governor
    <3>2. Governor(s.row) = <<"order", o>>
      BY <1>2 DEF Order
    <3> QED
      BY <3>1, <3>2
  <2>3. CASE s.row[1] \notin {"seller orders", "payment", "shipments", "orders of"}
    <3>1. Governor(s.row) = s.row
      BY <2>3 DEF Governor
    <3>2. Height(s.row) = 1
      BY <1>2, <3>1, Heights
    <3> QED
      BY <3>2
  <2> QED
    BY <2>1, <2>2, <2>3
<1> QED
  BY <1>1, <1>2 DEF Governed

DriverLocks == {Lock(Driver(d)) : d \in Drivers}
UserKeys    == {Key(User(u)) : u \in Users}

\* Around an order: the order, then the driver, then the user.
LEMMA OrderDriverUser ==
  ASSUME NEW o \in Orders, NEW does \in Seq(Statements), does[1] = Lock(Order(o)),
         \A j \in DOMAIN does :
            \/ does[j] \in Governed(Order(o))
            \/ does[j] \in DriverLocks /\ \A i \in 1..(j - 1) : does[i] \in Governed(Order(o))
            \/ does[j] \in UserKeys /\ \A i \in 1..(j - 1) : does[i] \in Governed(Order(o)) \cup DriverLocks
  PROVE  Orderly(does)
<1> SUFFICES ASSUME NEW j \in DOMAIN does
             PROVE  \/ does[j].mode = "none"
                    \/ \E k \in 1..(j - 1) : Frees(does[k], does[j])
                    \/ \A i \in 1..(j - 1) : Below(does[i], does[j])
  BY DEF Orderly
<1>1. Len(does) \in Nat /\ DOMAIN does = 1..Len(does) /\ j \in 1..Len(does)
  OBVIOUS
<1>2. \A s \in Governed(Order(o)) : s.mode = "none" \/ Ceiling(s) \in 0..5
  <2> SUFFICES ASSUME NEW s \in Governed(Order(o)), s.mode # "none"
               PROVE  Ceiling(s) \in 0..5
    OBVIOUS
  <2>1. Height(s.row) \in 1..2
    BY LowUnderOrder
  <2> QED
    BY <2>1, LevelBounds
<1>3. \A s \in DriverLocks : Ceiling(s) = 7 /\ Level(s) = 6
  BY Levels, Heights DEF DriverLocks
<1>4. \A s \in UserKeys : Level(s) = 9
  BY Levels, Heights DEF UserKeys
<1>5. CASE does[j] \in Governed(Order(o))
  <2>1. CASE j = 1
    BY <2>1
  <2>2. CASE j > 1
    <3>1. 1 \in 1..(j - 1)
      BY <1>1, <2>2
    <3>2. does[j].mode = "none" \/ Governor(does[j].row) = Order(o)
      BY <1>5 DEF Governed
    <3> QED
      BY <3>1, <3>2 DEF Frees
  <2> QED
    BY <1>1, <2>1, <2>2
<1>6. CASE does[j] \in DriverLocks /\ \A i \in 1..(j - 1) : does[i] \in Governed(Order(o))
  <2>1. \A i \in 1..(j - 1) : does[i].mode = "none" \/ Ceiling(does[i]) \in 0..5
    BY <1>2, <1>6
  <2>2. Level(does[j]) = 6
    BY <1>3, <1>6
  <2> QED
    BY <2>1, <2>2 DEF Below
<1>7. CASE does[j] \in UserKeys /\ \A i \in 1..(j - 1) : does[i] \in Governed(Order(o)) \cup DriverLocks
  <2> SUFFICES ASSUME NEW i \in 1..(j - 1)
               PROVE  Below(does[i], does[j])
    OBVIOUS
  <2>1. Level(does[j]) = 9
    BY <1>4, <1>7
  <2>2. CASE does[i] \in Governed(Order(o))
    BY <1>2, <2>1, <2>2 DEF Below
  <2>3. CASE does[i] \in DriverLocks
    BY <1>3, <2>1, <2>3 DEF Below
  <2> QED
    BY <1>7, <2>2, <2>3
<1> QED
  BY <1>5, <1>6, <1>7


---------------------------------------------------------------------------
(* Every operation is ordered *)

\* A part that lies under h altogether.
Beneath(h, s) == \A i \in DOMAIN s : s[i].mode = "none" \/ Ceiling(s[i]) \in 0..(h - 1)

\* Two parts that lie under h lie under h together.
LEMMA BeneathAppended ==
  ASSUME NEW h \in Nat, NEW x \in Seq(Statements), NEW y \in Seq(Statements),
         Beneath(h, x), Beneath(h, y)
  PROVE  Beneath(h, x \o y)
<1>1. /\ Len(x) \in Nat /\ Len(y) \in Nat /\ DOMAIN x = 1..Len(x) /\ DOMAIN y = 1..Len(y)
      /\ DOMAIN (x \o y) = 1..(Len(x) + Len(y))
      /\ \A i \in 1..Len(x) : (x \o y)[i] = x[i]
      /\ \A i \in 1..Len(y) : (x \o y)[Len(x) + i] = y[i]
  OBVIOUS
<1> SUFFICES ASSUME NEW i \in DOMAIN (x \o y)
             PROVE  (x \o y)[i].mode = "none" \/ Ceiling((x \o y)[i]) \in 0..(h - 1)
  BY DEF Beneath
<1>2. CASE i <= Len(x)
  BY <1>1, <1>2 DEF Beneath
<1>3. CASE i > Len(x)
  <2>1. i - Len(x) \in 1..Len(y) /\ i = Len(x) + (i - Len(x))
    BY <1>1, <1>3
  <2>2. (x \o y)[i] = y[i - Len(x)]
    BY <1>1, <2>1
  <2> QED
    BY <1>1, <2>1, <2>2 DEF Beneath
<1> QED
  BY <1>1, <1>2, <1>3

\* Any two of the locks of the variants, and of what is done to them.
LEMMA VariantsClimb ==
  ASSUME NEW v \in Variants, NEW w \in Variants
  PROVE  /\ \A e \in {Lock(Variant(v)), Write(Variant(v))} :
               /\ Level(e) \in Nat /\ Ceiling(e) \in Nat
               /\ 12 <= Level(e) /\ Ceiling(e) < 2 * (6 + N)
         /\ v < w => \A e \in {Lock(Variant(v)), Write(Variant(v))},
                        s \in {Lock(Variant(w)), Write(Variant(w))} : Below(e, s)
<1> DEFINE p == NumberBelow(Variants, v)
           q == NumberBelow(Variants, w)
<1>1. p \in 0..(N - 1) /\ q \in 0..(N - 1) /\ N \in Nat /\ (v < w => p < q)
  BY VariantRanks
<1>2. Height(Variant(v)) = 6 + p /\ Height(Variant(w)) = 6 + q
  BY Heights
<1> HIDE DEF p, q
<1>3. \A e \in {Lock(Variant(v)), Write(Variant(v))} :
         Level(e) = 2 * (6 + p) + 0 /\ Ceiling(e) = 2 * (6 + p) + 1
  BY <1>2, Levels
<1>4. \A e \in {Lock(Variant(w)), Write(Variant(w))} :
         Level(e) = 2 * (6 + q) + 0
  BY <1>2, Levels
<1>5. 2 * (6 + p) + 1 < 2 * (6 + N) /\ 12 <= 2 * (6 + p) + 0
      /\ 2 * (6 + p) + 1 \in Nat /\ 2 * (6 + p) + 0 \in Nat
  BY <1>1
<1>6. v < w => 2 * (6 + p) + 1 < 2 * (6 + q) + 0
  BY <1>1
<1>7. v < w => \A e \in {Lock(Variant(v)), Write(Variant(v))},
                  s \in {Lock(Variant(w)), Write(Variant(w))} : Below(e, s)
  BY <1>3, <1>4, <1>6 DEF Below
<1> QED
  BY <1>3, <1>5, <1>7

\* Sequences of the same elements are the same.
LEMMA SameSequence ==
  ASSUME NEW X, NEW s \in Seq(X), NEW t \in Seq(X), Len(s) = Len(t),
         \A i \in 1..Len(s) : s[i] = t[i]
  PROVE  s = t
OBVIOUS

\* A sequence that continues x by y is the two joined.
LEMMA Joined ==
  ASSUME NEW X, NEW x \in Seq(X), NEW y \in Seq(X), NEW z \in Seq(X), Len(z) = Len(x) + Len(y),
         \A i \in 1..Len(x) : z[i] = x[i],
         \A i \in 1..Len(y) : z[Len(x) + i] = y[i]
  PROVE  x \o y = z
<1>1. /\ Len(x) \in Nat /\ Len(y) \in Nat /\ DOMAIN x = 1..Len(x) /\ DOMAIN y = 1..Len(y)
      /\ x \o y \in Seq(X)
      /\ Len(x \o y) = Len(x) + Len(y)
      /\ \A i \in 1..Len(x) : (x \o y)[i] = x[i]
      /\ \A i \in 1..Len(y) : (x \o y)[Len(x) + i] = y[i]
  OBVIOUS
<1>2. ASSUME NEW i \in 1..Len(z)
      PROVE  (x \o y)[i] = z[i]
  <2>1. CASE i <= Len(x)
    BY <1>1, <2>1
  <2>2. CASE i > Len(x)
    <3>1. i - Len(x) \in 1..Len(y) /\ i = Len(x) + (i - Len(x))
      BY <1>1, <2>2
    <3> QED
      BY <1>1, <3>1
  <2> QED
    BY <1>1, <2>1, <2>2
<1> QED
  BY <1>1, <1>2, SameSequence

\* The first part keeps its places.
LEMMA Kept ==
  ASSUME NEW X, NEW x \in Seq(X), NEW y \in Seq(X)
  PROVE  \A k \in DOMAIN x : k \in DOMAIN (x \o y) /\ (x \o y)[k] = x[k]
OBVIOUS

\* The second has later ones.
LEMMA KeptLater ==
  ASSUME NEW X, NEW x \in Seq(X), NEW y \in Seq(X)
  PROVE  \A k \in DOMAIN y : Len(x) + k \in DOMAIN (x \o y) /\ (x \o y)[Len(x) + k] = y[k]
OBVIOUS

\* The handlers of an order lock in order.
LEMMA OrderOpsAreOrdered ==
  ASSUME NEW o \in Orders
  PROVE  /\ \A to : Orderly(Fulfill(o, to).does)
         /\ \A s \in Sellers, u \in Staff : Orderly(CreateShipment(o, s, u).does)
         /\ \A d \in Drivers, u \in Staff : Orderly(Assign(o, d, u).does)
         /\ \A d \in Drivers : Orderly(UpdateShipment(o, d).does)
         /\ \A u \in Staff : Orderly(Settle(o, u).does)
<1> DEFINE G == Governed(Order(o))
<1>1. ASSUME NEW to
      PROVE  Orderly(Fulfill(o, to).does)
  <2> DEFINE a == <<Lock(Order(o)), Read(Children(o)), Read(Shipments(o)), Read(Payment(o))>>
             b == <<Write(Children(o))>>
             c == IF to = "confirmed" THEN <<>> ELSE <<Write(Shipments(o))>>
             d == <<Read(Children(o))>>
             e == IF to = "delivered" THEN <<Write(Payment(o))>> ELSE <<>>
             f == <<Write(Order(o))>>
  <2>1. a \in Seq(G) /\ Len(a) > 0 /\ a[1] = Lock(Order(o))
    BY GovernedByOrder
  <2>2. b \in Seq(G) /\ d \in Seq(G) /\ f \in Seq(G)
    BY GovernedByOrder
  <2>3. c \in Seq(G) /\ e \in Seq(G)
    BY GovernedByOrder
  <2>4. Fulfill(o, to).does = a \o (b \o c \o d \o e \o f)
    BY DEF Fulfill, FulfillWrites, Operation
  <2> HIDE DEF a, b, c, d, e, f, G
  <2>5. b \o c \o d \o e \o f \in Seq(G)
    BY <2>2, <2>3
  <2>6. a \o (b \o c \o d \o e \o f) \in Seq(G) /\ (a \o (b \o c \o d \o e \o f))[1] = Lock(Order(o))
    BY <2>1, <2>5
  <2> QED
    BY <2>4, <2>6, FreedByFirst DEF G
<1>2. \A u \in Users : Key(User(u)) \in Statements /\ Key(User(u)) \in UserKeys
  BY KnownNames, Rows, AreStatements DEF UserKeys
<1>3. \A d \in Drivers : Lock(Driver(d)) \in Statements /\ Lock(Driver(d)) \in DriverLocks
  BY KnownNames, Rows, AreStatements DEF DriverLocks
<1>4. G \subseteq Statements
  BY DEF Governed
<1>5. Staff \subseteq Users /\ Drivers \subseteq Users
  BY RowAssumption
<1> HIDE DEF G
<1>6. /\ Lock(Order(o)) \in G /\ Write(Order(o)) \in G /\ Lock(Payment(o)) \in G
      /\ Read(Payment(o)) \in G /\ Write(Payment(o)) \in G /\ Read(Children(o)) \in G
      /\ Write(Children(o)) \in G /\ Lock(Shipments(o)) \in G /\ Read(Shipments(o)) \in G
      /\ Write(Shipments(o)) \in G /\ \A s \in Sellers : Read(Seller(s)) \in G
  BY GovernedByOrder DEF G
<1>7. ASSUME NEW s \in Sellers, NEW u \in Staff
      PROVE  Orderly(CreateShipment(o, s, u).does)
  <2> DEFINE z == <<Lock(Order(o)), Read(Children(o)), Read(Shipments(o)), Read(Payment(o)),
                    Read(Seller(s)), Write(Shipments(o)), Key(User(u))>>
  <2>1. \A i \in 1..6 : z[i] \in G
    BY <1>6
  <2>2. z[7] \in UserKeys /\ z[7] \in Statements
    BY <1>2, <1>5
  <2>3. DOMAIN z = 1..7 /\ z[1] = Lock(Order(o)) /\ CreateShipment(o, s, u).does = z
    BY DEF CreateShipment, Operation
  <2>4. z \in Seq(Statements)
    BY <1>4, <1>6, <1>2, <1>5
  <2> HIDE DEF z
  <2>5. \A j \in DOMAIN z :
            \/ z[j] \in G
            \/ z[j] \in DriverLocks /\ \A i \in 1..(j - 1) : z[i] \in G
            \/ z[j] \in UserKeys /\ \A i \in 1..(j - 1) : z[i] \in G \cup DriverLocks
    BY <2>1, <2>2, <2>3
  <2> QED
    BY <2>3, <2>4, <2>5, OrderDriverUser DEF G
<1>8. ASSUME NEW d \in Drivers, NEW u \in Staff
      PROVE  Orderly(Assign(o, d, u).does)
  <2> DEFINE z == <<Lock(Order(o)), Lock(Shipments(o)), Read(Children(o)),
                    Lock(Driver(d)), Write(Shipments(o)), Key(User(u))>>
  <2>1. z[1] \in G /\ z[2] \in G /\ z[3] \in G /\ z[5] \in G
    BY <1>6
  <2>2. z[6] \in UserKeys /\ z[6] \in Statements /\ z[4] \in DriverLocks /\ z[4] \in Statements
    BY <1>2, <1>3, <1>5
  <2>4. z \in Seq(Statements)
    BY <1>4, <1>6, <1>2, <1>3, <1>5
  <2>3. DOMAIN z = 1..6 /\ z[1] = Lock(Order(o)) /\ Assign(o, d, u).does = z
    <3> DEFINE x == Mutate(o)
               y == <<Lock(Driver(d)), Write(Shipments(o)), Key(User(u))>>
    <3>1. x \in Seq(Statements) /\ y \in Seq(Statements) /\ Len(z) = Len(x) + Len(y)
      BY <1>4, <1>6, <1>2, <1>3, <1>5 DEF Mutate
    <3>2. \A i \in 1..Len(x) : z[i] = x[i]
      BY DEF Mutate
    <3>3. \A i \in 1..Len(y) : z[Len(x) + i] = y[i]
      BY DEF Mutate
    <3>4. DOMAIN z = 1..6 /\ z[1] = Lock(Order(o)) /\ Assign(o, d, u).does = x \o y
      BY DEF Assign, Operation
    <3> HIDE DEF x, y, z
    <3>5. x \o y = z
      BY <2>4, <3>1, <3>2, <3>3, Joined
    <3> QED
      BY <3>4, <3>5
  <2> HIDE DEF z
  <2>5. \A j \in DOMAIN z :
            \/ z[j] \in G
            \/ z[j] \in DriverLocks /\ \A i \in 1..(j - 1) : z[i] \in G
            \/ z[j] \in UserKeys /\ \A i \in 1..(j - 1) : z[i] \in G \cup DriverLocks
    BY <2>1, <2>2, <2>3
  <2> QED
    BY <2>3, <2>4, <2>5, OrderDriverUser DEF G
<1>9. ASSUME NEW d \in Drivers
      PROVE  Orderly(UpdateShipment(o, d).does)
  <2> DEFINE z == <<Lock(Order(o)), Lock(Shipments(o)), Read(Children(o)),
                    Lock(Driver(d)), Read(Payment(o)), Write(Shipments(o)), Write(Children(o)),
                    Read(Children(o)), Write(Order(o)), Key(User(d))>>
  <2>1. z[1] \in G /\ z[2] \in G /\ z[3] \in G /\ \A i \in 5..9 : z[i] \in G
    BY <1>6
  <2>2. z[10] \in UserKeys /\ z[10] \in Statements /\ z[4] \in DriverLocks /\ z[4] \in Statements
    BY <1>2, <1>3, <1>5
  <2>4. z \in Seq(Statements)
    BY <1>4, <1>6, <1>2, <1>3, <1>5
  <2>3. DOMAIN z = 1..10 /\ z[1] = Lock(Order(o)) /\ UpdateShipment(o, d).does = z
    <3> DEFINE x == Mutate(o)
               y == <<Lock(Driver(d)), Read(Payment(o)), Write(Shipments(o)), Write(Children(o)),
                    Read(Children(o)), Write(Order(o)), Key(User(d))>>
    <3>1. x \in Seq(Statements) /\ y \in Seq(Statements) /\ Len(z) = Len(x) + Len(y)
      BY <1>4, <1>6, <1>2, <1>3, <1>5 DEF Mutate
    <3>2. \A i \in 1..Len(x) : z[i] = x[i]
      BY DEF Mutate
    <3>3. \A i \in 1..Len(y) : z[Len(x) + i] = y[i]
      BY DEF Mutate
    <3>4. DOMAIN z = 1..10 /\ z[1] = Lock(Order(o)) /\ UpdateShipment(o, d).does = x \o y
      BY DEF UpdateShipment, Operation
    <3> HIDE DEF x, y, z
    <3>5. x \o y = z
      BY <2>4, <3>1, <3>2, <3>3, Joined
    <3> QED
      BY <3>4, <3>5
  <2> HIDE DEF z
  <2>5. \A j \in DOMAIN z :
            \/ z[j] \in G
            \/ z[j] \in DriverLocks /\ \A i \in 1..(j - 1) : z[i] \in G
            \/ z[j] \in UserKeys /\ \A i \in 1..(j - 1) : z[i] \in G \cup DriverLocks
    BY <2>1, <2>2, <2>3
  <2> QED
    BY <2>3, <2>4, <2>5, OrderDriverUser DEF G
<1>10. ASSUME NEW u \in Staff
      PROVE  Orderly(Settle(o, u).does)
  <2> DEFINE z == <<Lock(Order(o)), Lock(Shipments(o)), Read(Children(o)), Read(Payment(o)),
                    Write(Shipments(o)), Key(User(u)), Read(Children(o)), Write(Payment(o))>>
  <2>1. \A i \in {1, 2, 3, 4, 5, 7, 8} : z[i] \in G
    BY <1>6
  <2>2. z[6] \in UserKeys /\ z[6] \in Statements
    BY <1>2, <1>5
  <2>4. z \in Seq(Statements)
    BY <1>4, <1>6, <1>2, <1>3, <1>5
  <2>3. DOMAIN z = 1..8 /\ z[1] = Lock(Order(o)) /\ Settle(o, u).does = z
    <3> DEFINE x == Mutate(o)
               y == <<Read(Payment(o)), Write(Shipments(o)), Key(User(u)), Read(Children(o)), Write(Payment(o))>>
    <3>1. x \in Seq(Statements) /\ y \in Seq(Statements) /\ Len(z) = Len(x) + Len(y)
      BY <1>4, <1>6, <1>2, <1>3, <1>5 DEF Mutate
    <3>2. \A i \in 1..Len(x) : z[i] = x[i]
      BY DEF Mutate
    <3>3. \A i \in 1..Len(y) : z[Len(x) + i] = y[i]
      BY DEF Mutate
    <3>4. DOMAIN z = 1..8 /\ z[1] = Lock(Order(o)) /\ Settle(o, u).does = x \o y
      BY DEF Settle, Operation
    <3> HIDE DEF x, y, z
    <3>5. x \o y = z
      BY <2>4, <3>1, <3>2, <3>3, Joined
    <3> QED
      BY <3>4, <3>5
  <2> HIDE DEF z
  <2>5. \A j \in DOMAIN z :
            \/ z[j] \in G
            \/ z[j] \in DriverLocks /\ \A i \in 1..(j - 1) : z[i] \in G
            \/ z[j] \in UserKeys /\ \A i \in 1..(j - 1) : z[i] \in G \cup DriverLocks
    BY <2>1, <2>2, <2>3
  <2> QED
    BY <2>3, <2>4, <2>5, OrderDriverUser DEF G
<1> QED
  BY <1>1, <1>7, <1>8, <1>9, <1>10

\* The handlers of a customer's cart and address lock in order.
LEMMA CartOpsAreOrdered ==
  ASSUME NEW u \in Users
  PROVE  /\ \A v \in Variants : Orderly(PutCart(u, v).does)
         /\ Orderly(RemoveFromCart(u).does) /\ Orderly(ChangeAddress(u).does)
<1>1. Frees(Lock(Cart(u)), Write(Cart(u)))
  BY Freeing
<1>2. ASSUME NEW v \in Variants
      PROVE  Orderly(PutCart(u, v).does)
  <2> DEFINE z == <<Lock(Cart(u)), Read(Variant(v)), Read(Product(ProductOf[v])),
                    Read(Seller(SellerOf[v])), Write(Cart(u)), Key(Variant(v))>>
  <2>1. PutCart(u, v).does = z /\ DOMAIN z = 1..6
    BY DEF PutCart, Operation
  <2>2. z[2].mode = "none" /\ z[3].mode = "none" /\ z[4].mode = "none"
    BY Fields
  <2>3. Frees(z[1], z[5])
    BY <1>1
  <2>4. \A i \in 1..5 : Below(z[i], z[6])
    <3>1. Ceiling(Lock(Cart(u))) = 11 /\ Ceiling(Write(Cart(u))) = 11
      BY Levels, Heights
    <3>2. Level(Key(Variant(v))) > 11
      <4> DEFINE p == NumberBelow(Variants, v)
      <4>1. p \in Nat
        BY VariantRanks
      <4>2. Level(Key(Variant(v))) = 2 * (6 + p) + 1
        BY Levels, Heights
      <4> HIDE DEF p
      <4> QED
        BY <4>1, <4>2
    <3> QED
      BY <2>2, <3>1, <3>2 DEF Below
  <2> HIDE DEF z
  <2>5. Orderly(z)
    BY <2>1, <2>2, <2>3, <2>4 DEF Orderly
  <2> QED
    BY <2>1, <2>5
<1>3. Orderly(RemoveFromCart(u).does)
  <2> DEFINE z == <<Lock(Cart(u)), Write(Cart(u))>>
  <2>1. RemoveFromCart(u).does = z /\ DOMAIN z = 1..2 /\ Frees(z[1], z[2])
    BY <1>1 DEF RemoveFromCart, Operation
  <2> HIDE DEF z
  <2> QED
    BY <2>1 DEF Orderly
<1>4. Orderly(ChangeAddress(u).does)
  <2>1. ChangeAddress(u).does = <<Write(Address(u))>>
    BY DEF ChangeAddress, Operation
  <2> QED
    BY <2>1, OneStatement
<1> QED
  BY <1>2, <1>3, <1>4

\* A bank webhook locks its receipt, then the order.
LEMMA ReceiveIsOrdered ==
  ASSUME NEW x \in Transfers, NEW o \in Orders
  PROVE  Orderly(Receive(x, o).does)
<1> DEFINE z == <<Write(Receipt(x)), Lock(Order(o)), Lock(Payment(o)), Write(Payment(o)),
                  Write(Receipt(x))>>
<1>1. Receive(x, o).does = z /\ DOMAIN z = 1..5
  BY DEF Receive, Operation
<1>2. Below(z[1], z[2])
  <2>1. Ceiling(Write(Receipt(x))) = 1 /\ Level(Lock(Order(o))) = 2
    BY Levels, Heights
  <2> QED
    BY <2>1 DEF Below
<1>3. Frees(z[2], z[3]) /\ Frees(z[2], z[4]) /\ Frees(z[1], z[5])
  <2>1. Governor(Payment(o)) = Order(o)
    BY Governors
  <2>2. /\ Frees(Lock(Governor(Payment(o))), Lock(Payment(o)))
        /\ Frees(Lock(Governor(Payment(o))), Write(Payment(o)))
        /\ Frees(Write(Receipt(x)), Write(Receipt(x)))
    BY Freeing
  <2> QED
    BY <2>1, <2>2
<1> HIDE DEF z
<1>4. Orderly(z)
  <2> SUFFICES ASSUME NEW j \in 1..5
               PROVE  \/ \E k \in 1..(j - 1) : Frees(z[k], z[j])
                      \/ \A i \in 1..(j - 1) : Below(z[i], z[j])
    BY <1>1 DEF Orderly
  <2>1. CASE j = 1
    BY <2>1
  <2>2. CASE j = 2
    BY <1>2, <2>2
  <2>3. CASE j \in {3, 4}
    <3>1. 2 \in 1..(j - 1) /\ Frees(z[2], z[j])
      BY <1>3, <2>3
    <3> QED
      BY <3>1
  <2>4. CASE j = 5
    <3>1. 1 \in 1..(j - 1) /\ Frees(z[1], z[j])
      BY <1>3, <2>4
    <3> QED
      BY <3>1
  <2> QED
    BY <2>1, <2>2, <2>3, <2>4
<1> QED
  BY <1>1, <1>4

\* The handlers of shops and drivers lock in order, but for the one that makes
\* a member.
LEMMA ShopOpsAreOrdered ==
  /\ \A p \in Products : Orderly(Save(p).does)
  /\ \A d \in Drivers : \A status : Orderly(ApproveDriver(d, status).does)
  /\ \A v \in Variants : Orderly(Adjust(v).does) /\ Orderly(UpdateVariant(v).does)
  /\ \A c \in Coupons : Orderly(SetActive(c).does)
  /\ \A s \in Sellers : Orderly(SetShopStatus(s).does) /\ Orderly(UpdateShop(s).does)
<1>1. ASSUME NEW row
      PROVE  Orderly(<<Lock(row), Write(row)>>) /\ Orderly(<<Write(row)>>)
  <2> DEFINE z == <<Lock(row), Write(row)>>
  <2>1. DOMAIN z = 1..2 /\ Frees(z[1], z[2])
    BY Freeing
  <2> HIDE DEF z
  <2>2. Orderly(z)
    BY <2>1 DEF Orderly
  <2> QED
    BY <2>2, OneStatement DEF z
<1>2. ASSUME NEW d \in Drivers, NEW status
      PROVE  Orderly(ApproveDriver(d, status).does)
  <2>1. CASE status = "approved"
    <3> DEFINE z == <<Lock(Driver(d)), Write(Driver(d)), Key(User(d))>>
               x == <<Lock(Driver(d)), Write(Driver(d))>>
               y == <<Key(User(d))>>
    <3>1. d \in Names
      BY KnownNames
    <3>2. x \in Seq(Statements) /\ y \in Seq(Statements) /\ DOMAIN y = 1..1 /\ DOMAIN x = 1..2
      BY <3>1, Rows, AreStatements
    <3>3. Orderly(x)
      BY <1>1
    <3>4. \A i \in DOMAIN x : Below(x[i], y[1])
      <4>1. /\ Ceiling(Lock(Driver(d))) = 7 /\ Ceiling(Write(Driver(d))) = 7
            /\ Level(Key(User(d))) = 9
        BY Levels, Heights
      <4> QED
        BY <4>1 DEF Below
    <3>5. ApproveDriver(d, status).does = x \o y
      BY <2>1 DEF ApproveDriver, Operation
    <3> HIDE DEF x, y
    <3> QED
      BY <3>2, <3>3, <3>4, <3>5, Appended
  <2>2. CASE status # "approved"
    <3> DEFINE x == <<Lock(Driver(d)), Write(Driver(d))>>
               y == <<>>
    <3>1. d \in Names
      BY KnownNames
    <3>2. x \in Seq(Statements) /\ y \in Seq(Statements) /\ DOMAIN y = {}
      BY <3>1, Rows, AreStatements
    <3>3. Orderly(x)
      BY <1>1
    <3>4. ApproveDriver(d, status).does = x \o y
      BY <2>2 DEF ApproveDriver, Operation
    <3> HIDE DEF x, y
    <3> QED
      BY <3>2, <3>3, <3>4, Appended
  <2> QED
    BY <2>1, <2>2
<1>3. \A v \in Variants : Orderly(Adjust(v).does) /\ Orderly(UpdateVariant(v).does)
  BY <1>1 DEF Adjust, UpdateVariant, Operation
<1>4. \A c \in Coupons : Orderly(SetActive(c).does)
  BY <1>1 DEF SetActive, Operation
<1>5. \A s \in Sellers : Orderly(SetShopStatus(s).does) /\ Orderly(UpdateShop(s).does)
  BY <1>1 DEF SetShopStatus, UpdateShop, Operation
<1>6. ASSUME NEW p \in Products
      PROVE  Orderly(Save(p).does)
  <2> DEFINE z == <<Read(Product(p)), Write(Product(p))>>
  <2>1. Save(p).does = z /\ DOMAIN z = 1..2
    BY DEF Save, Operation
  <2>2. z[1].mode = "none"
    BY Fields
  <2> HIDE DEF z
  <2>3. Orderly(z)
    BY <2>1, <2>2 DEF Orderly, Below
  <2> QED
    BY <2>1, <2>3
<1> QED
  BY <1>2, <1>3, <1>4, <1>5, <1>6

\* Cancellation locks in order: it restores the stock by ascending ids.
LEMMA CancelIsOrdered ==
  ASSUME NEW o \in Orders
  PROVE  Orderly(Cancel(o).does)
<1> DEFINE a == <<Lock(Order(o)), Lock(Payment(o)), Read(Children(o))>>
           items == Ascending(ItemsOf[o])
           b == ForEach(items, LAMBDA v : Write(Variant(v)))
           c == <<Write(Order(o)), Write(Children(o)), Write(Payment(o))>>
<1>1. a \in Seq(Governed(Order(o))) /\ a[1] = Lock(Order(o)) /\ DOMAIN a = 1..3
  BY GovernedByOrder
<1>2. c \in Seq(Governed(Order(o)))
  BY GovernedByOrder
<1>3. Governed(Order(o)) \subseteq Statements
  BY DEF Governed
<1>4. Cancel(o).does = a \o b \o c
  BY DEF Cancel, Operation
<1>5. /\ items \in Seq(Variants) /\ Len(items) \in Nat
      /\ \A i, j \in 1..Len(items) : i < j => items[i] < items[j]
  <2>1. ItemsOf[o] \in SUBSET Variants /\ IsFiniteSet(ItemsOf[o]) /\ ItemsOf[o] \subseteq Nat
    BY RowAssumption, FS_Subset
  <2> QED
    BY <2>1, ItemsInOrder, AscendingIsRight
<1>6. b \in Seq(Statements)
  <2>1. b \in Seq(Under("cancel", Order(o)))
    BY <1>5, CancelRestores
  <2>2. Under("cancel", Order(o)) \subseteq Statements
    BY DEF Under
  <2> HIDE DEF b
  <2> QED
    BY <2>1, <2>2, Larger
<1>7. DOMAIN b = 1..Len(items) /\ \A i \in 1..Len(items) : b[i] = Write(Variant(items[i]))
  BY <1>5 DEF ForEach
<1> HIDE DEF a, b, c, items
<1>8. Orderly(a) /\ a \in Seq(Statements) /\ c \in Seq(Statements)
  BY <1>1, <1>2, <1>3, FreedByFirst, Larger
<1>9. Orderly(a \o b) /\ a \o b \in Seq(Statements)
  <2>1. ASSUME NEW j \in DOMAIN b, NEW i \in DOMAIN a
        PROVE  Below(a[i], b[j])
    <3>1. a[i] \in Governed(Order(o))
      BY <1>1
    <3>2. a[i].mode = "none" \/ Ceiling(a[i]) \in 0..5
      BY <3>1, LowUnderOrder, LevelBounds
    <3>3. items[j] \in Variants
      BY <1>5, <1>7
    <3>4. 12 <= Level(b[j]) /\ Level(b[j]) \in Nat
      BY <1>7, <3>3, VariantsClimb
    <3> QED
      BY <3>2, <3>4 DEF Below
  <2>2. ASSUME NEW j \in DOMAIN b, NEW i \in 1..(j - 1)
        PROVE  Below(b[i], b[j])
    <3>1. i \in 1..Len(items) /\ j \in 1..Len(items) /\ i < j
      BY <1>5, <1>7
    <3>2. items[i] \in Variants /\ items[j] \in Variants /\ items[i] < items[j]
      BY <1>5, <3>1
    <3> QED
      BY <1>7, <3>1, <3>2, VariantsClimb
  <2> QED
    BY <1>6, <1>8, <2>1, <2>2, Appended
<1>10. \E k \in DOMAIN (a \o b) : (a \o b)[k] = Lock(Order(o))
  <2>1. 1 \in DOMAIN (a \o b) /\ (a \o b)[1] = a[1]
    BY <1>1, <1>6, <1>8, Kept
  <2> QED
    BY <1>1, <2>1
<1>11. \A j \in DOMAIN c : c[j].mode = "none" \/ Frees(Lock(Order(o)), c[j])
  <2> SUFFICES ASSUME NEW j \in DOMAIN c
               PROVE  c[j].mode = "none" \/ Frees(Lock(Order(o)), c[j])
    OBVIOUS
  <2>1. c[j] \in Governed(Order(o))
    BY <1>2
  <2> QED
    BY <2>1 DEF Governed, Frees
<1> QED
  BY <1>4, <1>8, <1>9, <1>10, <1>11, Appended

\* Checkout locks in order: the user, the variants by ascending ids, the
\* coupon, the shops.
LEMMA CheckoutIsOrdered ==
  ASSUME NEW u \in Users, NEW chosen \in SUBSET Variants, NEW coupons \in SUBSET Coupons,
         IsFiniteSet(coupons), Cardinality(coupons) <= 1
  PROVE  Orderly(Checkout(u, chosen, coupons).does)
<1> DEFINE g == User(u)
           items == Ascending(chosen)
           used == SetToSeq(coupons)
           a == <<Lock(User(u)), Read(OrdersOf(u)), Read(Address(u)), Lock(Cart(u))>>
           b == ForEachThree(items, LAMBDA v : Lock(Variant(v)),
                             LAMBDA v : Read(Product(ProductOf[v])), LAMBDA v : Read(Seller(SellerOf[v])))
           c == ForEachTwo(used, LAMBDA k : Lock(Coupon(k)), LAMBDA k : Write(Coupon(k)))
           d == ForEachTwo(items, LAMBDA v : Key(Seller(SellerOf[v])), LAMBDA v : Write(Variant(v)))
           e == <<Write(Cart(u)), Write(OrdersOf(u))>>
<1>1. u \in Names /\ N \in Nat
  BY KnownNames, VariantRanks
<1>2. Checkout(u, chosen, coupons).does = a \o b \o c \o d \o e
  BY DEF Checkout, Operation
<1>3. /\ items \in Seq(Variants) /\ Len(items) \in Nat
      /\ \A i, j \in 1..Len(items) : i < j => items[i] < items[j]
  <2>1. IsFiniteSet(chosen) /\ chosen \subseteq Nat
    BY RowAssumption, FS_Subset
  <2>2. items \in Seq(Variants) /\ Len(items) = Cardinality(chosen)
    BY <2>1, ItemsInOrder, AscendingIsRight
  <2>3. \A i, j \in 1..Cardinality(chosen) : i < j => items[i] < items[j]
    BY <2>1, AscendingIsRight
  <2> HIDE DEF items
  <2>4. Len(items) \in Nat
    BY <2>2
  <2> QED
    BY <2>2, <2>3, <2>4
<1>4. used \in Seq(Coupons) /\ Len(used) \in 0..1
  <2>1. Cardinality(coupons) \in Nat /\ Bijection(1..Cardinality(coupons), coupons) # {}
    BY FS_CardinalityType DEF ExistsBijection
  <2>2. \E f \in [1..Cardinality(coupons) -> coupons] : IsInjective(f)
    BY <2>1 DEF Bijection, Injection
  <2>3. used \in [1..Cardinality(coupons) -> coupons]
    BY <2>2 DEF SetToSeq
  <2>4. used \in Seq(Coupons)
    BY CouponsInOrder
  <2> HIDE DEF used
  <2>5. Len(used) = Cardinality(coupons)
    BY <2>1, <2>3
  <2> QED
    BY <2>1, <2>4, <2>5
<1>5. Under("checkout", g) \subseteq Statements
  BY DEF Under
<1>6. /\ a \in Seq(Statements) /\ DOMAIN a = 1..4
      /\ a[1] = Lock(User(u)) /\ a[2].mode = "none" /\ a[3].mode = "none" /\ a[4] = Lock(Cart(u))
  <2>1. /\ User(u) \in Tables \X Names /\ OrdersOf(u) \in Tables \X Names
        /\ Address(u) \in Tables \X Names /\ Cart(u) \in Tables \X Names
    BY <1>1, Rows
  <2>2. /\ Lock(User(u)) \in Statements /\ Read(OrdersOf(u)) \in Statements
        /\ Read(Address(u)) \in Statements /\ Lock(Cart(u)) \in Statements
    BY <2>1, AreStatements
  <2>3. Read(OrdersOf(u)).mode = "none" /\ Read(Address(u)).mode = "none"
    BY Fields
  <2> QED
    BY <2>2, <2>3
<1>7. e \in Seq(Statements) /\ DOMAIN e = 1..2 /\ e[1] = Write(Cart(u)) /\ e[2] = Write(OrdersOf(u))
  <2>1. OrdersOf(u) \in Tables \X Names /\ Cart(u) \in Tables \X Names
    BY <1>1, Rows
  <2> QED
    BY <2>1, AreStatements
<1>8. /\ b \in Seq(Statements) /\ DOMAIN b = 1..(3 * Len(items))
      /\ \A j \in 1..(3 * Len(items)) :
            IF j % 3 = 1 THEN b[j] = Lock(Variant(items[(j + 2) \div 3])) ELSE b[j].mode = "none"
  <2>1. b \in Seq(Statements)
    <3>1. b \in Seq(Under("checkout", g))
      BY <1>3, CheckoutLocksVariants
    <3> HIDE DEF b
    <3> QED
      BY <1>5, <3>1, Larger
  <2>2. DOMAIN b = 1..(3 * Len(items))
    BY <1>3 DEF ForEachThree
  <2>3. ASSUME NEW j \in 1..(3 * Len(items))
        PROVE  b[j] = IF j % 3 = 1 THEN Lock(Variant(items[(j + 2) \div 3]))
                                   ELSE IF j % 3 = 2 THEN Read(Product(ProductOf[items[(j + 2) \div 3]]))
                                   ELSE Read(Seller(SellerOf[items[(j + 2) \div 3]]))
    BY DEF ForEachThree
  <2>4. \A row : Read(row).mode = "none"
    BY Fields
  <2> HIDE DEF b
  <2>5. ASSUME NEW j \in 1..(3 * Len(items))
        PROVE  IF j % 3 = 1 THEN b[j] = Lock(Variant(items[(j + 2) \div 3])) ELSE b[j].mode = "none"
    <3>1. CASE j % 3 = 1
      BY <2>3, <3>1
    <3>2. CASE j % 3 # 1
      BY <2>3, <2>4, <3>2
    <3> QED
      BY <3>1, <3>2
  <2> QED
    BY <2>1, <2>2, <2>5
<1>9. /\ c \in Seq(Statements) /\ DOMAIN c = 1..(2 * Len(used))
      /\ \A j \in 1..(2 * Len(used)) :
            c[j] = IF j % 2 = 1 THEN Lock(Coupon(used[(j + 1) \div 2]))
                                ELSE Write(Coupon(used[(j + 1) \div 2]))
  <2>1. c \in Seq(Statements)
    <3>1. c \in Seq(Under("checkout", g))
      BY <1>4, CheckoutTakesCoupons
    <3> HIDE DEF c
    <3> QED
      BY <1>5, <3>1, Larger
  <2> QED
    BY <2>1 DEF ForEachTwo
<1>10. /\ d \in Seq(Statements) /\ DOMAIN d = 1..(2 * Len(items))
       /\ \A j \in 1..(2 * Len(items)) :
             d[j] = IF j % 2 = 1 THEN Key(Seller(SellerOf[items[(j + 1) \div 2]]))
                                 ELSE Write(Variant(items[(j + 1) \div 2]))
  <2>1. d \in Seq(Statements)
    <3>1. d \in Seq(Under("checkout", g))
      BY <1>3, CheckoutTakesVariants
    <3> HIDE DEF d
    <3> QED
      BY <1>5, <3>1, Larger
  <2> QED
    BY <2>1 DEF ForEachTwo
<1> HIDE DEF g, items, used, a, b, c, d, e
<1>11. ASSUME NEW j \in 1..(2 * Len(items))
       PROVE  /\ (j + 1) \div 2 \in 1..Len(items) /\ items[(j + 1) \div 2] \in Variants
  BY <1>3, Halves
<1>22. ASSUME NEW j \in 1..(3 * Len(items))
       PROVE  /\ (j + 2) \div 3 \in 1..Len(items) /\ items[(j + 2) \div 3] \in Variants
  BY <1>3, Thirds
<1>12. Orderly(a) /\ Beneath(12, a)
  <2>1. /\ Ceiling(Lock(User(u))) = 9 /\ Ceiling(Lock(Cart(u))) = 11 /\ Level(Lock(Cart(u))) = 10
    BY Levels, Heights
  <2>2. \A i \in 1..3 : Below(a[i], a[4])
    BY <1>6, <2>1 DEF Below
  <2>3. Orderly(a)
    BY <1>6, <2>2 DEF Orderly
  <2> QED
    BY <1>6, <2>1, <2>3 DEF Beneath
<1>13. Beneath(2 * (6 + N), b)
  <2> SUFFICES ASSUME NEW j \in 1..(3 * Len(items)), j % 3 = 1
               PROVE  Ceiling(b[j]) \in 0..(2 * (6 + N) - 1)
    BY <1>8 DEF Beneath
  <2>1. Ceiling(b[j]) \in Nat /\ Ceiling(b[j]) < 2 * (6 + N)
    BY <1>8, <1>22, VariantsClimb
  <2> QED
    BY <1>1, <2>1
<1>14. Orderly(a \o b) /\ a \o b \in Seq(Statements) /\ Beneath(2 * (6 + N), a \o b)
  <2>1. ASSUME NEW j \in 1..(3 * Len(items)), j % 3 = 1
        PROVE  /\ \A i \in DOMAIN a : Below(a[i], b[j])
               /\ \A i \in 1..(j - 1) : Below(b[i], b[j])
    <3> DEFINE w == items[(j + 2) \div 3]
    <3>1. w \in Variants /\ b[j] = Lock(Variant(w))
      BY <1>8, <1>22, <2>1
    <3> HIDE DEF w
    <3>2. Level(b[j]) \in Nat /\ 12 <= Level(b[j])
      BY <3>1, VariantsClimb
    <3>3. ASSUME NEW i \in DOMAIN a
          PROVE  Below(a[i], b[j])
      <4>1. /\ Ceiling(Lock(User(u))) = 9 /\ Ceiling(Lock(Cart(u))) = 11
        BY Levels, Heights
      <4> QED
        BY <1>6, <3>2, <4>1 DEF Below
    <3>4. ASSUME NEW i \in 1..(j - 1)
          PROVE  Below(b[i], b[j])
      <4>1. i \in 1..(3 * Len(items)) /\ i < j
        BY <1>3
      <4>2. CASE i % 3 = 1
        <5> DEFINE v == items[(i + 2) \div 3]
        <5>1. v \in Variants /\ b[i] = Lock(Variant(v))
          BY <1>8, <1>22, <4>1, <4>2
        <5>2. (i + 2) \div 3 < (j + 2) \div 3
          BY <2>1, <4>1, <4>2
        <5>3. v < w
          BY <1>3, <1>22, <4>1, <5>2 DEF w
        <5> HIDE DEF v
        <5> QED
          BY <3>1, <5>1, <5>3, VariantsClimb
      <4>3. CASE i % 3 # 1
        BY <1>8, <4>1, <4>3 DEF Below
      <4> QED
        BY <4>2, <4>3
    <3> QED
      BY <3>3, <3>4
  <2>2. Orderly(a \o b) /\ a \o b \in Seq(Statements)
    <3>1. \A j \in DOMAIN b : b[j].mode = "none" \/ (/\ \A i \in DOMAIN a : Below(a[i], b[j])
                                                     /\ \A i \in 1..(j - 1) : Below(b[i], b[j]))
      BY <1>8, <2>1
    <3> QED
      BY <1>6, <1>8, <1>12, <3>1, Appended
  <2>3. Beneath(2 * (6 + N), a)
    <3>1. /\ Ceiling(Lock(User(u))) = 9 /\ Ceiling(Lock(Cart(u))) = 11
      BY Levels, Heights
    <3>2. 11 \in 0..(2 * (6 + N) - 1) /\ 9 \in 0..(2 * (6 + N) - 1)
      BY <1>1
    <3> QED
      BY <1>6, <3>1, <3>2 DEF Beneath
  <2>4. 2 * (6 + N) \in Nat
    BY <1>1
  <2> QED
    BY <1>6, <1>8, <1>13, <2>2, <2>3, <2>4, BeneathAppended
<1>15. \A k : /\ Level(Lock(Coupon(k))) = 2 * (6 + N) + 0 /\ Ceiling(Lock(Coupon(k))) = 2 * (6 + N) + 1
              /\ Ceiling(Write(Coupon(k))) = 2 * (6 + N) + 1
              /\ Level(Key(Seller(k))) = 2 * (7 + N) + 1 /\ Ceiling(Key(Seller(k))) = 2 * (7 + N) + 0
  BY Levels, Heights
<1>16. Orderly(a \o b \o c) /\ a \o b \o c \in Seq(Statements) /\ Beneath(2 * (7 + N), a \o b \o c)
  <2>1. ASSUME NEW j \in DOMAIN c
        PROVE  /\ j \in 1..2
               /\ j = 1 => c[j] = Lock(Coupon(used[1]))
               /\ j = 2 => c[j] = Write(Coupon(used[1])) /\ c[1] = Lock(Coupon(used[1]))
    <3>1. j \in 1..2 /\ Len(used) = 1
      BY <1>4, <1>9
    <3> QED
      BY <1>9, <3>1
  <2>2. ASSUME NEW j \in DOMAIN c, j = 1, NEW i \in DOMAIN (a \o b)
        PROVE  Below((a \o b)[i], c[j])
    <3> DEFINE s == (a \o b)[i]
               h == 2 * (6 + N)
    <3>1. s.mode = "none" \/ Ceiling(s) \in 0..(h - 1)
      BY <1>14 DEF Beneath
    <3>2. Level(c[j]) = h + 0
      BY <1>15, <2>1, <2>2
    <3>3. h \in Nat
      BY <1>1
    <3> HIDE DEF s, h
    <3>4. Below(s, c[j])
      BY <3>1, <3>2, <3>3 DEF Below
    <3> QED
      BY <3>4 DEF s
  <2>3. ASSUME NEW j \in DOMAIN c, j = 2
        PROVE  1 \in 1..(j - 1) /\ Frees(c[1], c[j])
    BY <2>1, <2>3, Freeing
  <2>4. Orderly(a \o b \o c) /\ a \o b \o c \in Seq(Statements)
    <3>1. \A j \in DOMAIN c :
             \/ \E k \in 1..(j - 1) : Frees(c[k], c[j])
             \/ /\ \A i \in DOMAIN (a \o b) : Below((a \o b)[i], c[j])
                /\ \A i \in 1..(j - 1) : Below(c[i], c[j])
      BY <2>1, <2>2, <2>3
    <3> QED
      BY <1>9, <1>14, <3>1, Appended
  <2>5. /\ 2 * (7 + N) \in Nat /\ 2 * (6 + N) + 1 \in 0..(2 * (7 + N) - 1)
        /\ 0..(2 * (6 + N) - 1) \subseteq 0..(2 * (7 + N) - 1)
    BY <1>1
  <2>6. Beneath(2 * (7 + N), c)
    BY <1>15, <2>1, <2>5 DEF Beneath
  <2>7. Beneath(2 * (7 + N), a \o b)
    BY <1>14, <2>5 DEF Beneath
  <2> QED
    BY <1>9, <1>14, <2>4, <2>5, <2>6, <2>7, BeneathAppended
<1>17. ASSUME NEW k \in DOMAIN (a \o b)
       PROVE  k \in DOMAIN (a \o b \o c) /\ (a \o b \o c)[k] = (a \o b)[k]
  BY <1>9, <1>14, Kept
<1>18. Orderly(a \o b \o c \o d) /\ a \o b \o c \o d \in Seq(Statements)
  <2> DEFINE x == a \o b \o c
             h == 2 * (7 + N)
  <2>1. ASSUME NEW j \in DOMAIN d, j % 2 # 1
        PROVE  \E k \in DOMAIN x : Frees(x[k], d[j])
    <3> DEFINE v == items[(j + 1) \div 2]
    <3>1. d[j] = Write(Variant(v))
      BY <1>10, <2>1
    <3> DEFINE i == 3 * ((j + 1) \div 2) - 2
    <3>2. i \in 1..(3 * Len(items)) /\ i % 3 = 1 /\ (i + 2) \div 3 = (j + 1) \div 2
      <4> DEFINE m == (j + 1) \div 2
      <4>1. m \in 1..Len(items)
        BY <1>10, <1>11
      <4> HIDE DEF m
      <4>2. 3 * m - 2 \in 1..(3 * Len(items)) /\ (3 * m - 2) % 3 = 1 /\ (3 * m - 2 + 2) \div 3 = m
        BY <1>3, <4>1
      <4> QED
        BY <4>2 DEF m
    <3> HIDE DEF i
    <3>3. b[i] = Lock(Variant(v))
      BY <1>8, <3>2
    <3>4. Len(a) + i \in DOMAIN (a \o b) /\ (a \o b)[Len(a) + i] = b[i]
      <4>1. \A k \in DOMAIN b : Len(a) + k \in DOMAIN (a \o b) /\ (a \o b)[Len(a) + k] = b[k]
        BY <1>6, <1>8, KeptLater
      <4> QED
        BY <1>8, <3>2, <4>1
    <3>5. Len(a) + i \in DOMAIN x /\ x[Len(a) + i] = Lock(Variant(v))
      BY <1>17, <3>3, <3>4
    <3> HIDE DEF x, v
    <3> QED
      BY <3>1, <3>5, Freeing
  <2>2. ASSUME NEW j \in DOMAIN d, j % 2 = 1
        PROVE  /\ \A i \in DOMAIN x : Below(x[i], d[j])
               /\ \A i \in 1..(j - 1) : Below(d[i], d[j])
    <3>1. Level(d[j]) = h + 1 /\ h \in Nat
      BY <1>1, <1>10, <1>15, <2>2
    <3>2. ASSUME NEW i \in DOMAIN x
          PROVE  Below(x[i], d[j])
      <4>1. x[i].mode = "none" \/ Ceiling(x[i]) \in 0..(h - 1)
        BY <1>16 DEF Beneath
      <4> HIDE DEF x, h
      <4> QED
        BY <3>1, <4>1 DEF Below
    <3>3. ASSUME NEW i \in 1..(j - 1)
          PROVE  Below(d[i], d[j])
      <4>1. i \in 1..(2 * Len(items))
        BY <1>3, <1>10
      <4>2. CASE i % 2 = 1
        <5>1. Ceiling(d[i]) = h + 0
          BY <1>10, <1>15, <4>1, <4>2
        <5> HIDE DEF h
        <5> QED
          BY <3>1, <5>1 DEF Below
      <4>3. CASE i % 2 # 1
        <5> DEFINE v == items[(i + 1) \div 2]
        <5>1. v \in Variants /\ d[i] = Write(Variant(v))
          BY <1>10, <1>11, <4>1, <4>3
        <5> HIDE DEF v
        <5>2. Ceiling(d[i]) \in Nat /\ Ceiling(d[i]) < 2 * (6 + N)
          BY <5>1, VariantsClimb
        <5>3. 2 * (6 + N) < h + 1 /\ 2 * (6 + N) \in Nat
          BY <1>1
        <5> HIDE DEF h
        <5>4. Ceiling(d[i]) < h + 1
          BY <3>1, <5>2, <5>3
        <5> QED
          BY <3>1, <5>4 DEF Below
      <4> QED
        BY <4>2, <4>3
    <3> QED
      BY <3>2, <3>3
  <2>3. \A j \in DOMAIN d :
           \/ \E k \in DOMAIN x : Frees(x[k], d[j])
           \/ /\ \A i \in DOMAIN x : Below(x[i], d[j])
              /\ \A i \in 1..(j - 1) : Below(d[i], d[j])
    BY <2>1, <2>2
  <2>4. Orderly(x) /\ x \in Seq(Statements)
    BY <1>16
  <2> HIDE DEF x
  <2>5. Orderly(x \o d) /\ x \o d \in Seq(Statements)
    BY <1>10, <2>3, <2>4, Appended
  <2> QED
    BY <2>5 DEF x
<1>19. ASSUME NEW k \in DOMAIN a
       PROVE  k \in DOMAIN (a \o b \o c \o d) /\ (a \o b \o c \o d)[k] = a[k]
  <2>1. k \in DOMAIN (a \o b) /\ (a \o b)[k] = a[k]
    BY <1>6, <1>8, Kept
  <2>2. k \in DOMAIN (a \o b \o c) /\ (a \o b \o c)[k] = a[k]
    BY <1>17, <2>1
  <2> QED
    BY <1>10, <1>16, <2>2, Kept
<1>20. ASSUME NEW j \in DOMAIN e
       PROVE  \E k \in DOMAIN (a \o b \o c \o d) : Frees((a \o b \o c \o d)[k], e[j])
  <2>1. Frees(a[4], e[1])
    BY <1>6, <1>7, Freeing
  <2>2. Frees(a[1], e[2])
    <3>1. Governor(OrdersOf(u)) = User(u)
      BY Governors
    <3>2. Frees(Lock(Governor(OrdersOf(u))), Write(OrdersOf(u)))
      BY Freeing
    <3> QED
      BY <1>6, <1>7, <3>1, <3>2
  <2>3. j \in {1, 2}
    BY <1>7
  <2> QED
    BY <1>6, <1>19, <2>1, <2>2, <2>3
<1>21. Orderly(a \o b \o c \o d \o e)
  BY <1>7, <1>18, <1>20, Appended
<1> QED
  BY <1>2, <1>21

\* None of these makes a member.
LEMMA Kinds ==
  /\ \A u, items, coupons : Checkout(u, items, coupons).kind # "member"
  /\ \A o : Cancel(o).kind # "member" /\ \A to : Fulfill(o, to).kind # "member"
  /\ \A u, v : PutCart(u, v).kind # "member" /\ RemoveFromCart(u).kind # "member"
  /\ \A u : ChangeAddress(u).kind # "member"
  /\ \A x, o : Receive(x, o).kind # "member"
  /\ \A o, s, u : CreateShipment(o, s, u).kind # "member"
  /\ \A o, d, u : Assign(o, d, u).kind # "member" /\ UpdateShipment(o, d).kind # "member"
                  /\ Settle(o, u).kind # "member"
  /\ \A d, status : ApproveDriver(d, status).kind # "member"
  /\ \A p : Save(p).kind # "member"
  /\ \A v : Adjust(v).kind # "member" /\ UpdateVariant(v).kind # "member"
  /\ \A c : SetActive(c).kind # "member"
  /\ \A s : SetShopStatus(s).kind # "member" /\ UpdateShop(s).kind # "member"
BY DEF Operation, Checkout, Cancel, Fulfill, PutCart, RemoveFromCart, ChangeAddress, Receive,
       CreateShipment, Assign, UpdateShipment, Settle, ApproveDriver, Save, Adjust, UpdateVariant, SetActive,
       SetShopStatus, UpdateShop

\* Every handler locks in order, but for the one that makes a member.
LEMMA EveryOperationIsOrdered ==
  \A operation \in Operations : Ordered(operation)
<1> DEFINE Bought    == {Checkout(u, items, coupons) :
                            u \in Users, items \in SUBSET Variants \ {{}},
                            coupons \in {{}} \cup {{c} : c \in Coupons}}
           Canceled  == {Cancel(o) : o \in Orders}
           Fulfilled == {Fulfill(o, to) : o \in Orders, to \in {"confirmed", "shipping", "delivered"}}
           Put       == {PutCart(u, v) : u \in Users, v \in Variants}
           Removed   == {RemoveFromCart(u) : u \in Users}
           Moved     == {ChangeAddress(u) : u \in Users}
           Received  == {Receive(x, o) : x \in Transfers, o \in Orders}
           Created   == {CreateShipment(o, s, u) : o \in Orders, s \in Sellers, u \in Staff}
           Assigned  == {Assign(o, d, u) : o \in Orders, d \in Drivers, u \in Staff}
           Reported  == {UpdateShipment(o, d) : o \in Orders, d \in Drivers}
           Settled   == {Settle(o, u) : o \in Orders, u \in Staff}
           Approved  == {ApproveDriver(d, status) : d \in Drivers, status \in {"approved", "suspended"}}
           Saved     == {Save(p) : p \in Products}
           Adjusted  == {Adjust(v) : v \in Variants}
           Repriced  == {UpdateVariant(v) : v \in Variants}
           Switched  == {SetActive(c) : c \in Coupons}
           Status    == {SetShopStatus(s) : s \in Sellers}
           Profiles  == {UpdateShop(s) : s \in Sellers}
           Members   == {SetMember(s, u) : s \in Sellers, u \in Users}
<1>1. ASSUME NEW u \in Users, NEW items \in SUBSET Variants \ {{}},
             NEW coupons \in {{}} \cup {{c} : c \in Coupons}
      PROVE  Orderly(Checkout(u, items, coupons).does)
  <2>1. CASE coupons = {}
    <3>1. coupons \in SUBSET Coupons /\ IsFiniteSet(coupons) /\ Cardinality(coupons) = 0
      BY <2>1, FS_EmptySet
    <3>2. Cardinality(coupons) <= 1
      BY <3>1
    <3> QED
      BY <3>1, <3>2, CheckoutIsOrdered
  <2>2. CASE \E c \in Coupons : coupons = {c}
    <3>1. PICK c \in Coupons : coupons = {c}
      BY <2>2
    <3>2. IsFiniteSet(coupons) /\ Cardinality(coupons) = 1
      BY <3>1, FS_Singleton
    <3>3. Cardinality(coupons) <= 1 /\ coupons \in SUBSET Coupons
      BY <3>1, <3>2
    <3> QED
      BY <3>2, <3>3, CheckoutIsOrdered
  <2> QED
    BY <2>1, <2>2
<1> DEFINE Good(operation) == Ordered(operation)
<1>10. ASSUME NEW o, o.kind # "member", Orderly(o.does)
       PROVE  Good(o)
  BY <1>10 DEF Ordered
<1>11. ASSUME NEW u \in Users, NEW items \in SUBSET Variants \ {{}},
              NEW coupons \in {{}} \cup {{c} : c \in Coupons}
       PROVE  Good(Checkout(u, items, coupons))
  BY <1>1, <1>10, Kinds
<1>12. \A o \in Orders :
          /\ Good(Cancel(o)) /\ \A to : Good(Fulfill(o, to))
          /\ \A s \in Sellers, u \in Staff : Good(CreateShipment(o, s, u))
  BY <1>10, CancelIsOrdered, OrderOpsAreOrdered, Kinds
<1>13. \A o \in Orders :
          /\ \A d \in Drivers, u \in Staff : Good(Assign(o, d, u))
          /\ \A d \in Drivers : Good(UpdateShipment(o, d))
          /\ \A u \in Staff : Good(Settle(o, u))
  BY <1>10, OrderOpsAreOrdered, Kinds
<1>14. /\ \A u \in Users : Good(RemoveFromCart(u)) /\ Good(ChangeAddress(u)) /\ \A v \in Variants : Good(PutCart(u, v))
       /\ \A x \in Transfers, o \in Orders : Good(Receive(x, o))
  BY <1>10, CartOpsAreOrdered, ReceiveIsOrdered, Kinds
<1>15. /\ \A p \in Products : Good(Save(p))
       /\ \A d \in Drivers : \A status : Good(ApproveDriver(d, status))
       /\ \A v \in Variants : Good(Adjust(v)) /\ Good(UpdateVariant(v))
       /\ \A c \in Coupons : Good(SetActive(c))
       /\ \A s \in Sellers : Good(SetShopStatus(s)) /\ Good(UpdateShop(s))
  BY <1>10, ShopOpsAreOrdered, Kinds
<1>16. \A s \in Sellers, u \in Users : Good(SetMember(s, u))
  BY DEF Ordered, SetMember, Operation
<1> HIDE DEF Good
<1>2. \A operation \in Bought : Good(operation)
  BY <1>11
<1>3. \A operation \in Canceled \cup Fulfilled \cup Created : Good(operation)
  BY <1>12
<1>4. \A operation \in Assigned \cup Reported \cup Settled : Good(operation)
  BY <1>13
<1>6. \A operation \in Put \cup Removed \cup Moved \cup Received : Good(operation)
  BY <1>14
<1>7. \A operation \in Approved \cup Saved \cup Adjusted \cup Repriced \cup Switched \cup Status
                            \cup Profiles : Good(operation)
  BY <1>15
<1>8. \A operation \in Members : Good(operation)
  BY <1>16
<1>9. Operations = Bought \cup Canceled \cup Fulfilled \cup Put \cup Removed \cup Moved
                   \cup Received \cup Created \cup Assigned \cup Reported \cup Settled
                   \cup Approved \cup Saved \cup Adjusted \cup Repriced \cup Switched \cup Status \cup Profiles \cup Members
  BY DEF Operations
<1> HIDE DEF Bought, Canceled, Fulfilled, Put, Removed, Moved, Received, Created, Assigned,
             Reported, Settled, Approved, Saved, Adjusted, Repriced, Switched, Status, Profiles, Members
<1> QED
  BY <1>2, <1>3, <1>4, <1>6, <1>7, <1>8, <1>9 DEF Good

---------------------------------------------------------------------------
(* The locks *)

RowType ==
    /\ done \in [Txns -> Nat]
    /\ \A t \in Txns :
          /\ op = [u \in Txns |-> op[u]] /\ stale = [u \in Txns |-> stale[u]]
          /\ Disciplined(op[t])
          /\ done[t] <= Len(op[t].does)

\* Who does not execute anything has executed nothing.
Idle == \A t \in Txns : ~Running(t) => done[t] = 0 /\ stale[t] = {}

\* No two sessions hold conflicting locks of a row.
Exclusion ==
    \A t, u \in Txns : t # u =>
       \A e \in Executed(t), f \in Executed(u) : e.row = f.row => ~Conflict(e.mode, f.mode)

RowInv == RowType /\ Idle /\ Exclusion /\ DecisionsHold

\* Doing nothing is disciplined.
LEMMA NothingIsDisciplined == Disciplined(NoOperation)
<1>1. NoOperation.does = <<>>
  BY DEF NoOperation, Operation
<1> QED
  BY <1>1 DEF Disciplined

\* Initially no session does anything.
LEMMA RowInit == Init => RowInv
<1> SUFFICES ASSUME Init
             PROVE  RowInv
  OBVIOUS
<1>1. NoOperation.does = <<>>
  BY DEF NoOperation, Operation
<1>2. \A t \in Txns : op[t] = NoOperation /\ done[t] = 0 /\ stale[t] = {}
  BY DEF Init
<1>3. RowType
  BY <1>1, <1>2, NothingIsDisciplined DEF RowType, Init
<1>4. \A t \in Txns : Executed(t) = {}
  BY <1>2 DEF Executed
<1>5. Idle /\ Exclusion /\ DecisionsHold
  BY <1>2, <1>4 DEF Idle, Exclusion, DecisionsHold
<1> QED
  BY <1>3, <1>5 DEF RowInv

\* Stuttering keeps the invariant.
LEMMA SameRows ==
  ASSUME UNCHANGED vars, RowInv
  PROVE  RowInv'
BY DEF vars, RowInv, RowType, Idle, Exclusion, DecisionsHold, Executed, Running, Tolerated

\* The step Begin keeps the invariant.
LEMMA BeginStep ==
  ASSUME RowInv, NEW t \in Txns, NEW operation \in Operations, Begin(t, operation)
  PROVE  RowInv'
<1>1. done[t] = 0 /\ stale[t] = {} /\ UNCHANGED <<done, stale>>
  BY DEF RowInv, Idle, Begin
<1>2. op'[t] = operation /\ \A u \in Txns : u # t => op'[u] = op[u]
  BY DEF RowInv, RowType, Begin
<1>3. Executed(t)' = {} /\ \A u \in Txns : u # t => Executed(u)' = Executed(u)
  BY <1>1, <1>2 DEF Executed
<1>4. RowType'
  <2>1. Disciplined(operation) /\ Len(operation.does) \in Nat
    BY EveryOperationIsDisciplined DEF Disciplined
  <2>2. done' \in [Txns -> Nat] /\ op' = [u \in Txns |-> op'[u]] /\ stale' = [u \in Txns |-> stale'[u]]
    BY <1>1 DEF RowInv, RowType, Begin
  <2>3. \A u \in Txns : Disciplined(op'[u]) /\ done'[u] <= Len(op'[u].does)
    BY <1>1, <1>2, <2>1 DEF RowInv, RowType
  <2> QED
    BY <2>2, <2>3 DEF RowType
<1>5. Idle'
  BY <1>1, <1>2 DEF RowInv, Idle, Running
<1>6. Exclusion'
  BY <1>3 DEF RowInv, Exclusion
<1>7. DecisionsHold'
  BY <1>1, <1>2 DEF RowInv, DecisionsHold, Tolerated
<1> QED
  BY <1>4, <1>5, <1>6, <1>7 DEF RowInv

\* A session that ends holds no lock; the others are as they were.
LEMMA EndedSession ==
  ASSUME RowInv, NEW t \in Txns, End(t)
  PROVE  /\ op'[t] = NoOperation /\ done'[t] = 0 /\ Executed(t)' = {} /\ ~Running(t)'
         /\ \A u \in Txns : u # t => op'[u] = op[u] /\ done'[u] = done[u] /\ Executed(u)' = Executed(u)
         /\ done' \in [Txns -> Nat] /\ op' = [u \in Txns |-> op'[u]]
         /\ \A u \in Txns : Disciplined(op'[u]) /\ done'[u] <= Len(op'[u].does)
         /\ Exclusion'
<1>1. op'[t] = NoOperation /\ done'[t] = 0
  BY DEF RowInv, RowType, End
<1>2. \A u \in Txns : u # t => op'[u] = op[u] /\ done'[u] = done[u]
  BY DEF RowInv, RowType, End
<1>3. Executed(t)' = {} /\ ~Running(t)'
  BY <1>1 DEF Executed, Running
<1>4. \A u \in Txns : u # t => Executed(u)' = Executed(u)
  BY <1>2 DEF Executed
<1>5. done' \in [Txns -> Nat] /\ op' = [u \in Txns |-> op'[u]]
  BY DEF RowInv, RowType, End
<1>6. NoOperation.does = <<>>
  BY DEF NoOperation, Operation
<1>7. \A u \in Txns : Disciplined(op'[u]) /\ done'[u] <= Len(op'[u].does)
  BY <1>1, <1>2, <1>6, NothingIsDisciplined DEF RowInv, RowType
<1>8. Exclusion'
  BY <1>3, <1>4 DEF RowInv, Exclusion
<1> QED
  BY <1>1, <1>2, <1>3, <1>4, <1>5, <1>7, <1>8

\* The step Abort keeps the invariant.
LEMMA AbortStep ==
  ASSUME RowInv, NEW t \in Txns, Abort(t)
  PROVE  RowInv'
<1>1. End(t) /\ stale' = [stale EXCEPT ![t] = {}]
  BY DEF Abort
<1>2. stale'[t] = {} /\ stale' = [u \in Txns |-> stale'[u]] /\ \A u \in Txns : u # t => stale'[u] = stale[u]
  BY <1>1 DEF RowInv, RowType
<1>3. RowType' /\ Exclusion'
  BY <1>1, <1>2, EndedSession DEF RowType
<1>4. Idle'
  BY <1>1, <1>2, EndedSession DEF RowInv, Idle, Running
<1>5. DecisionsHold'
  BY <1>1, <1>2, EndedSession DEF RowInv, DecisionsHold, Tolerated
<1> QED
  BY <1>3, <1>4, <1>5 DEF RowInv

\* The heart of it: what one knows, the other can have changed only where it does
\* not matter.
LEMMA KnownIsStillSo ==
  ASSUME RowInv, NEW t \in Txns, NEW u \in Txns, t # u
  PROVE  Known(u) \cap Changed(t) \subseteq Tolerated(u)
<1> SUFFICES ASSUME NEW row, row \in Known(u), row \in Changed(t), row \notin Tolerated(u)
             PROVE  FALSE
  OBVIOUS
<1>1. /\ Disciplined(op[t]) /\ done[t] \in Nat /\ done[t] <= Len(op[t].does)
      /\ Disciplined(op[u]) /\ done[u] \in Nat /\ done[u] <= Len(op[u].does)
  BY DEF RowInv, RowType
<1>2. PICK e \in Executed(u) : e.row = row /\ e.reads
  BY DEF Known
<1>3. PICK f \in Executed(t) : f.row = row /\ f.writes
  BY DEF Changed
<1>4. PICK g : \A i \in DOMAIN op[u].does :
          \/ op[u].does[i] \in Alone(op[u].kind)
          \/ op[u].does[i] \in Under(op[u].kind, g) /\ \E k \in 1..i : op[u].does[k] = Lock(g)
  BY <1>1 DEF Disciplined
<1>5. PICK h : \A i \in DOMAIN op[t].does :
          \/ op[t].does[i] \in Alone(op[t].kind)
          \/ op[t].does[i] \in Under(op[t].kind, h) /\ \E k \in 1..i : op[t].does[k] = Lock(h)
  BY <1>1 DEF Disciplined
<1>6. \/ e \in Alone(op[u].kind)
      \/ e \in Under(op[u].kind, g) /\ Lock(g) \in Executed(u)
  <2>1. PICK i \in 1..done[u] : e = op[u].does[i]
    BY <1>2 DEF Executed
  <2>2. Len(op[u].does) \in Nat /\ DOMAIN op[u].does = 1..Len(op[u].does)
    BY <1>1 DEF Disciplined
  <2>3. i \in DOMAIN op[u].does /\ 1..i \subseteq 1..done[u]
    BY <1>1, <2>1, <2>2
  <2> QED
    BY <1>4, <2>1, <2>3 DEF Executed
<1>7. \/ f \in Alone(op[t].kind)
      \/ f \in Under(op[t].kind, h) /\ Lock(h) \in Executed(t)
  <2>1. PICK i \in 1..done[t] : f = op[t].does[i]
    BY <1>3 DEF Executed
  <2>2. Len(op[t].does) \in Nat /\ DOMAIN op[t].does = 1..Len(op[t].does)
    BY <1>1 DEF Disciplined
  <2>3. i \in DOMAIN op[t].does /\ 1..i \subseteq 1..done[t]
    BY <1>1, <2>1, <2>2
  <2> QED
    BY <1>5, <2>1, <2>3 DEF Executed
<1>8. \A x \in Executed(u), y \in Executed(t) : x.row = y.row => ~Conflict(x.mode, y.mode)
  BY DEF RowInv, Exclusion
<1>9. f.mode = "no key update"
  BY <1>3, <1>7 DEF Alone, Under
<1>10. Conflict("update", "no key update") /\ Conflict("update", "update")
  BY DEF Conflict
<1>11. e.mode # "update"
  BY <1>2, <1>3, <1>8, <1>9, <1>10
<1>12. Bearable(op[u].kind) = Tolerated(u)
  BY DEF Bearable, Tolerated
<1>13. Governor(row) = g /\ Lock(g) \in Executed(u)
  BY <1>2, <1>6, <1>11, <1>12 DEF Alone, Under
<1>14. Governor(row) = row \/ (Governor(row) = h /\ Lock(h) \in Executed(t))
  <2>1. CASE f \in Alone(op[t].kind)
    BY <1>3, <2>1 DEF Alone
  <2>2. CASE f \in Under(op[t].kind, h) /\ Lock(h) \in Executed(t)
    <3>1. Governor(f.row) \in {f.row, h}
      BY <1>3, <2>2 DEF Under
    <3> QED
      BY <1>3, <2>2, <3>1
  <2> QED
    BY <1>7, <2>1, <2>2
<1>15. CASE Governor(row) = row
  <2>1. Lock(g).row = f.row /\ Lock(g).mode = "update"
    BY <1>3, <1>13, <1>15, Fields
  <2> QED
    BY <1>8, <1>9, <1>10, <1>13, <2>1
<1>16. CASE Governor(row) = h /\ Lock(h) \in Executed(t)
  <2>1. Lock(g).row = Lock(h).row /\ Lock(g).mode = "update" /\ Lock(h).mode = "update"
    BY <1>13, <1>16, Fields
  <2> QED
    BY <1>8, <1>10, <1>13, <1>16, <2>1
<1> QED
  BY <1>14, <1>15, <1>16

\* The step Commit keeps the invariant: what it changed the others had not
\* read, or may have.
LEMMA CommitStep ==
  ASSUME RowInv, NEW t \in Txns, Commit(t)
  PROVE  RowInv'
<1>1. End(t) /\ Running(t)
      /\ stale' = [u \in Txns |-> IF u = t THEN {} ELSE stale[u] \cup (Known(u) \cap Changed(t))]
  BY DEF Commit
<1>2. stale'[t] = {} /\ stale' = [u \in Txns |-> stale'[u]]
      /\ \A u \in Txns : u # t => stale'[u] = stale[u] \cup (Known(u) \cap Changed(t))
  BY <1>1
<1>3. RowType' /\ Exclusion'
  BY <1>1, <1>2, EndedSession DEF RowType
<1>4. Idle'
  <2> SUFFICES ASSUME NEW u \in Txns, u # t, ~Running(u)'
               PROVE  done'[u] = 0 /\ stale'[u] = {}
    BY <1>1, <1>2, EndedSession DEF Idle
  <2>1. op'[u] = op[u] /\ done'[u] = done[u]
    BY <1>1, EndedSession
  <2>2. done[u] = 0 /\ stale[u] = {}
    BY <2>1 DEF RowInv, Idle, Running
  <2>3. Known(u) = {}
    BY <2>2 DEF Known, Executed
  <2> QED
    BY <1>2, <2>1, <2>2, <2>3
<1>5. DecisionsHold'
  <2> SUFFICES ASSUME NEW u \in Txns, u # t
               PROVE  stale'[u] \subseteq Tolerated(u)'
    BY <1>2 DEF DecisionsHold
  <2>1. Tolerated(u)' = Tolerated(u)
    BY <1>1, EndedSession DEF Tolerated
  <2>2. Known(u) \cap Changed(t) \subseteq Tolerated(u)
    BY KnownIsStillSo
  <2> QED
    BY <1>2, <2>1, <2>2 DEF RowInv, DecisionsHold
<1> QED
  BY <1>3, <1>4, <1>5 DEF RowInv

\* The step Execute keeps the invariant: nobody holds a conflicting lock.
LEMMA ExecuteStep ==
  ASSUME RowInv, NEW t \in Txns, Execute(t)
  PROVE  RowInv'
<1> DEFINE p == Pending(t)
<1>1. /\ Running(t) /\ ~Finished(t) /\ WaitsFor(t) = {}
      /\ done' = [done EXCEPT ![t] = @ + 1]
      /\ stale' = IF p.reads THEN [stale EXCEPT ![t] = @ \ {p.row}] ELSE stale
      /\ UNCHANGED op
  BY DEF Execute
<1>2. done[t] \in Nat /\ done'[t] = done[t] + 1 /\ \A u \in Txns : u # t => done'[u] = done[u]
  BY <1>1 DEF RowInv, RowType
<1>3. Executed(t)' = Executed(t) \cup {p} /\ \A u \in Txns : u # t => Executed(u)' = Executed(u)
  <2>1. 1..(done[t] + 1) = 1..done[t] \cup {done[t] + 1}
    BY <1>2
  <2> QED
    BY <1>1, <1>2, <2>1 DEF Executed, Pending
<1>4. /\ stale' = [u \in Txns |-> stale'[u]] /\ stale'[t] \subseteq stale[t]
      /\ \A u \in Txns : u # t => stale'[u] = stale[u]
  BY <1>1 DEF RowInv, RowType
<1> HIDE DEF p
<1>5. RowType'
  <2>1. done[t] < Len(op[t].does)
    <3>1. Len(op[t].does) \in Nat /\ done[t] <= Len(op[t].does) /\ done[t] # Len(op[t].does)
      BY <1>1 DEF RowInv, RowType, Disciplined, Finished
    <3> QED
      BY <1>2, <3>1
  <2>2. done' \in [Txns -> Nat]
    BY <1>1, <1>2 DEF RowInv, RowType
  <2>3. done'[t] <= Len(op[t].does)
    <3>1. Len(op[t].does) \in Nat
      BY DEF RowInv, RowType, Disciplined
    <3> QED
      BY <1>2, <2>1, <3>1
  <2> QED
    BY <1>1, <1>2, <1>4, <2>2, <2>3 DEF RowInv, RowType
<1>6. Idle'
  BY <1>1, <1>2, <1>4 DEF RowInv, Idle, Running
<1>7. Exclusion'
  <2>1. \A u \in Txns \ {t} : \A e \in Executed(u) : e.row = p.row => ~Conflict(e.mode, p.mode)
    BY <1>1 DEF WaitsFor, p
  <2>2. \A m, n : Conflict(m, n) <=> Conflict(n, m)
    BY DEF Conflict
  <2> QED
    BY <1>3, <2>1, <2>2 DEF RowInv, Exclusion
<1>8. DecisionsHold'
  BY <1>1, <1>4 DEF RowInv, DecisionsHold, Tolerated
<1> QED
  BY <1>5, <1>6, <1>7, <1>8 DEF RowInv

\* Whatever the handlers decide from an order, its payment and parcels, a driver,
\* a coupon, a cart or, outside the cart, a variant is still so when they write,
\* whichever sessions run: they read it under the lock of the row, or of the row
\* it belongs to (repository.go of order, payment.go, fulfillment.go, delivery.go).
\* A shop, a product, an address, and the variant of a cart item may have changed:
\* these are what Tolerated lists, and nothing else.
THEOREM DecisionsStand == Spec => []DecisionsHold
<1>1. RowInv /\ [Next]_vars => RowInv'
  BY SameRows, BeginStep, ExecuteStep, CommitStep, AbortStep DEF Next
<1>2. RowInv => DecisionsHold
  BY DEF RowInv
<1> QED
  BY RowInit, <1>1, <1>2, PTL DEF Spec

---------------------------------------------------------------------------
(* Deadlocks *)

LocksInOrder == \A t \in Txns : op = [u \in Txns |-> op[u]] /\ Ordered(op[t])

\* Initially no session does anything.
LEMMA InOrderInit == Init => LocksInOrder
<1>1. NoOperation.does = <<>> /\ NoOperation.kind = "none"
  BY DEF NoOperation, Operation
<1>2. Ordered(NoOperation)
  BY <1>1 DEF Ordered, Orderly
<1> QED
  BY <1>2 DEF Init, LocksInOrder

\* Whatever begins is ordered.
LEMMA InOrderStep == LocksInOrder /\ [Next]_vars => LocksInOrder'
<1>1. NoOperation.does = <<>> /\ NoOperation.kind = "none"
  BY DEF NoOperation, Operation
<1>2. Ordered(NoOperation)
  BY <1>1 DEF Ordered, Orderly
<1>3. ASSUME LocksInOrder, NEW t \in Txns, NEW operation \in Operations, Begin(t, operation)
      PROVE  LocksInOrder'
  BY <1>3, EveryOperationIsOrdered DEF LocksInOrder, Begin
<1>4. ASSUME LocksInOrder, NEW t \in Txns, Execute(t)
      PROVE  LocksInOrder'
  BY <1>4 DEF LocksInOrder, Execute
<1>5. ASSUME LocksInOrder, NEW t \in Txns, End(t)
      PROVE  LocksInOrder'
  BY <1>2, <1>5 DEF LocksInOrder, End
<1>6. ASSUME LocksInOrder, UNCHANGED vars
      PROVE  LocksInOrder'
  BY <1>6 DEF LocksInOrder, vars
<1> QED
  BY <1>3, <1>4, <1>5, <1>6 DEF Next, Commit, Abort

\* The heights lie between the receipts' and the shops'.
LEMMA HeightBounds ==
  ASSUME NEW row \in Tables \X Names
  PROVE  Height(row) \in 0..(7 + N)
<1>1. N \in Nat /\ IsFiniteSet(Variants)
  BY VariantRanks, RowAssumption
<1>2. NumberBelow(Variants, row[2]) \in 0..N
  <2> DEFINE under == {w \in Variants : w < row[2]}
  <2>1. under \in SUBSET Variants
    OBVIOUS
  <2> HIDE DEF under
  <2>2. IsFiniteSet(under) /\ Cardinality(under) <= N
    BY <1>1, <2>1, FS_Subset DEF N
  <2>3. Cardinality(under) \in 0..N
    BY <1>1, <2>2, FS_CardinalityType
  <2> QED
    BY <2>3 DEF NumberBelow, under
<1>3. row[1] \in Tables
  OBVIOUS
<1>4. CASE row[1] = "variant"
  <2>1. Height(row) = 6 + NumberBelow(Variants, row[2])
    BY <1>4 DEF Height
  <2> QED
    BY <1>1, <1>2, <2>1
<1>5. CASE row[1] \in {"coupon", "seller"}
  <2>1. Height(row) \in {6 + N, 7 + N}
    BY <1>5 DEF Height
  <2> QED
    BY <1>1, <2>1
<1>6. CASE row[1] \in {"receipt", "address", "product", "order", "driver"}
  <2>1. Height(row) \in {0, 1, 3}
    BY <1>6 DEF Height
  <2> QED
    BY <1>1, <2>1
<1>7. CASE row[1] \in {"seller orders", "payment", "shipments", "user", "orders of", "cart"}
  <2>1. Height(row) \in {2, 4, 5}
    BY <1>7 DEF Height
  <2> QED
    BY <1>1, <2>1
<1> QED
  BY <1>3, <1>4, <1>5, <1>6, <1>7 DEF Tables

\* What a session has executed, and what it executes next.
LEMMA TheirStatements ==
  ASSUME RowInv, NEW t \in Txns
  PROVE  /\ Executed(t) \subseteq Statements
         /\ ~Finished(t) => Pending(t) \in Statements /\ done[t] + 1 \in DOMAIN op[t].does
         /\ \A e \in Executed(t) :
               e.mode # "none" =>
                  Governor(e.row) = e.row \/ Lock(Governor(e.row)) \in Executed(t)
         /\ \A e \in Executed(t) :
               e.mode = "update" /\ e.row \in {User(n) : n \in Names} => op[t].kind = "checkout"
<1>1. Disciplined(op[t]) /\ done[t] \in Nat /\ done[t] <= Len(op[t].does)
  BY DEF RowInv, RowType
<1>2. op[t].does \in Seq(Statements) /\ Len(op[t].does) \in Nat
      /\ DOMAIN op[t].does = 1..Len(op[t].does)
  BY <1>1 DEF Disciplined
<1>3. Executed(t) \subseteq Statements
  BY <1>1, <1>2 DEF Executed
<1>4. ~Finished(t) => Pending(t) \in Statements /\ done[t] + 1 \in DOMAIN op[t].does
  <2> SUFFICES ASSUME ~Finished(t)
               PROVE  Pending(t) \in Statements /\ done[t] + 1 \in DOMAIN op[t].does
    OBVIOUS
  <2>1. done[t] + 1 \in 1..Len(op[t].does)
    BY <1>1, <1>2 DEF Finished
  <2> QED
    BY <1>2, <2>1 DEF Pending
<1>5. PICK g : \A i \in DOMAIN op[t].does :
          \/ op[t].does[i] \in Alone(op[t].kind)
          \/ op[t].does[i] \in Under(op[t].kind, g) /\ \E k \in 1..i : op[t].does[k] = Lock(g)
  BY <1>1 DEF Disciplined
<1>6. ASSUME NEW e \in Executed(t)
      PROVE  \/ e \in Alone(op[t].kind)
             \/ e \in Under(op[t].kind, g) /\ Lock(g) \in Executed(t)
  <2>1. PICK i \in 1..done[t] : e = op[t].does[i]
    BY DEF Executed
  <2>2. i \in DOMAIN op[t].does /\ 1..i \subseteq 1..done[t]
    BY <1>1, <1>2, <2>1
  <2> QED
    BY <1>5, <2>1, <2>2 DEF Executed
<1>7. ASSUME NEW e \in Executed(t), e.mode # "none"
      PROVE  Governor(e.row) = e.row \/ Lock(Governor(e.row)) \in Executed(t)
  <2>1. CASE e \in Alone(op[t].kind)
    BY <1>7, <2>1 DEF Alone
  <2>2. CASE e \in Under(op[t].kind, g) /\ Lock(g) \in Executed(t)
    <3>1. Governor(e.row) \in {e.row, g}
      BY <1>7, <2>2 DEF Under
    <3> QED
      BY <2>2, <3>1
  <2> QED
    BY <1>6, <2>1, <2>2
<1>8. ASSUME NEW e \in Executed(t), e.mode = "update", e.row \in {User(n) : n \in Names}
      PROVE  op[t].kind = "checkout"
  BY <1>6, <1>8 DEF Alone, Under
<1> QED
  BY <1>3, <1>4, <1>7, <1>8

\* Which modes conflict.
LEMMA Conflicts ==
  /\ \A m, n : Conflict(m, n) <=> Conflict(n, m)
  /\ \A m, n : Conflict(m, n) => m # "none" /\ n # "none"
  /\ \A m : m # "none" => Conflict("update", m) /\ Conflict(m, "update")
  /\ \A m : Conflict("key share", m) => m = "update"
BY DEF Conflict

\* Nothing waits that an earlier statement of its operation has freed.
LEMMA FreedIsFree ==
  ASSUME RowInv, NEW u \in Txns, NEW g \in Executed(u), Frees(g, Pending(u))
  PROVE  WaitsFor(u) = {}
<1> SUFFICES ASSUME NEW w \in Txns \ {u}, NEW f \in Executed(w),
                    f.row = Pending(u).row, Conflict(f.mode, Pending(u).mode)
             PROVE  FALSE
  BY DEF WaitsFor
<1> DEFINE q == Pending(u)
<1>1. \A x \in Executed(u), y \in Executed(w) : x.row = y.row => ~Conflict(x.mode, y.mode)
  BY DEF RowInv, Exclusion
<1>2. f.row = q.row /\ Conflict(f.mode, q.mode) /\ f.mode # "none" /\ Frees(g, q)
  BY Conflicts
<1> HIDE DEF q
<1>3. CASE g.row = q.row /\ g.mode = "update"
  <2>1. Conflict("update", f.mode)
    BY <1>2, Conflicts
  <2>2. ~Conflict(g.mode, f.mode)
    BY <1>1, <1>2, <1>3
  <2> QED
    BY <1>3, <2>1, <2>2
<1>4. CASE g.row = q.row /\ g.mode = q.mode
  BY <1>1, <1>2, <1>4, Conflicts
<1>5. CASE g = Lock(Governor(q.row))
  <2>1. g.row = Governor(f.row) /\ g.mode = "update"
    BY <1>2, <1>5, Fields
  <2>2. Governor(f.row) = f.row \/ Lock(Governor(f.row)) \in Executed(w)
    BY <1>2, TheirStatements
  <2>3. CASE Governor(f.row) = f.row
    <3>1. Conflict("update", f.mode)
      BY <1>2, Conflicts
    <3>2. ~Conflict(g.mode, f.mode)
      BY <1>1, <2>1, <2>3
    <3> QED
      BY <2>1, <3>1, <3>2
  <2>4. CASE Lock(Governor(f.row)) \in Executed(w)
    <3>1. Lock(Governor(f.row)).row = g.row /\ Lock(Governor(f.row)).mode = "update"
      BY <2>1, Fields
    <3>2. Conflict("update", "update")
      BY Conflicts
    <3> QED
      BY <1>1, <2>1, <2>4, <3>1, <3>2
  <2> QED
    BY <2>2, <2>3, <2>4
<1> QED
  BY <1>2, <1>3, <1>4, <1>5 DEF Frees

\* Whoever waits for a session, waits below what it waits for itself.
LEMMA WaitsClimb ==
  ASSUME RowInv, LocksInOrder, NEW t \in Txns, NEW u \in WaitsFor(t), WaitsFor(u) # {},
         op[u].kind # "member"
  PROVE  Level(Pending(t)) < Level(Pending(u))
<1> DEFINE p == Pending(t)
           q == Pending(u)
           does == op[u].does
<1>1. u \in Txns /\ ~Finished(t) /\ ~Finished(u)
  BY DEF WaitsFor
<1>2. PICK e \in Executed(u) : e.row = p.row /\ Conflict(e.mode, p.mode)
  BY DEF WaitsFor
<1>3. q.mode # "none"
  BY Conflicts DEF WaitsFor
<1>4. p \in Statements /\ q \in Statements /\ done[u] + 1 \in DOMAIN does /\ done[u] \in Nat
  BY <1>1, TheirStatements DEF RowInv, RowType
<1>5. Orderly(does)
  BY <1>1 DEF LocksInOrder, Ordered
<1>6. /\ done[u] + 1 - 1 = done[u] /\ q = does[done[u] + 1]
      /\ \A g : g \in Executed(u) <=> \E k \in 1..done[u] : g = does[k]
  BY <1>4 DEF Pending, Executed
<1>7. Height(p.row) \in Nat /\ Height(q.row) \in Nat
  <2>1. p.row \in Tables \X Names /\ q.row \in Tables \X Names
    BY <1>4 DEF Statements
  <2> QED
    BY <2>1, HeightBounds
<1>8. Level(p) \in Nat /\ Level(q) \in Nat /\ Ceiling(e) \in Nat
  BY <1>2, <1>7, LevelBounds
<1>9. ~\E g \in Executed(u) : Frees(g, q)
  BY <1>1, FreedIsFree
<1> HIDE DEF p, q, does
<1>10. \A k \in 1..done[u] : Below(does[k], q)
  BY <1>3, <1>4, <1>5, <1>6, <1>9 DEF Orderly
<1>11. Ceiling(e) < Level(q)
  <2>1. Below(e, q)
    BY <1>6, <1>10
  <2>2. e.mode # "none"
    BY <1>2, Conflicts
  <2> QED
    BY <1>3, <2>1, <2>2 DEF Below
<1>12. Level(p) <= Ceiling(e)
  <2> DEFINE h == Height(p.row)
  <2>1. Height(e.row) = h /\ h \in Nat
    BY <1>2, <1>7
  <2>2. CASE e.mode = "key share"
    <3>1. p.mode = "update"
      <4>1. Conflict("key share", p.mode)
        BY <1>2, <2>2
      <4> QED
        BY <4>1, Conflicts
    <3>2. Level(p) = 2 * h + 0 /\ Ceiling(e) = 2 * h + 0
      BY <2>1, <2>2, <3>1 DEF Level, Ceiling
    <3> HIDE DEF h
    <3> QED
      BY <2>1, <3>2
  <2>3. CASE e.mode # "key share"
    <3>1. Ceiling(e) = 2 * h + 1
      BY <2>1, <2>3 DEF Ceiling
    <3>2. Level(p) \in {2 * h + 0, 2 * h + 1}
      BY DEF Level
    <3> HIDE DEF h
    <3> QED
      BY <2>1, <3>1, <3>2
  <2> QED
    BY <2>2, <2>3
<1>13. Level(p) < Level(q)
  BY <1>8, <1>11, <1>12
<1> QED
  BY <1>13 DEF p, q

\* A set of bounded numbers has a highest one.
LEMMA Highest ==
  ASSUME NEW S, S \subseteq Nat, S # {}, NEW b \in Nat, \A x \in S : x <= b
  PROVE  \E x \in S : \A y \in S : y <= x
<1> DEFINE T == {b - x : x \in S}
<1>1. T \subseteq Nat /\ T # {}
  <2>1. ASSUME NEW x \in S
        PROVE  b - x \in Nat
    <3>1. x \in Nat /\ x <= b
      OBVIOUS
    <3> QED
      BY <3>1
  <2> QED
    BY <2>1
<1>2. IsWellFoundedOn(OpToRel(<, Nat), Nat)
  BY NatLessThanWellFounded
<1>3. PICK z \in T : \A y \in T : ~ (<<y, z>> \in OpToRel(<, Nat))
  <2> HIDE DEF T
  <2> QED
    BY <1>1, <1>2, WFMin
<1>4. PICK x \in S : z = b - x
  OBVIOUS
<1>5. ASSUME NEW y \in S
      PROVE  y <= x
  <2>1. b - y \in T /\ b - y \in Nat /\ b - x \in Nat
    BY <1>1
  <2>2. ~ (<<b - y, b - x>> \in OpToRel(<, Nat))
    BY <1>3, <1>4, <2>1
  <2>3. ~ (b - y < b - x)
    BY <2>1, <2>2 DEF OpToRel
  <2>4. x \in Nat /\ y \in Nat
    OBVIOUS
  <2> QED
    BY <2>3, <2>4
<1> QED
  BY <1>5

\* Who makes a member and is waited for, waits for a checkout.
LEMMA MembersWaitForCheckouts ==
  ASSUME RowInv, LocksInOrder, NEW t \in Txns, op[t].kind = "member", Executed(t) # {},
         NEW w \in WaitsFor(t)
  PROVE  op[w].kind = "checkout"
<1>1. w \in Txns /\ ~Finished(t)
  BY DEF WaitsFor
<1>2. PICK f \in Executed(w) : f.row = Pending(t).row /\ Conflict(f.mode, Pending(t).mode)
  BY DEF WaitsFor
<1>3. PICK s \in Sellers, u \in Users : op[t].does = <<Lock(Seller(s)), Key(User(u))>>
  BY DEF LocksInOrder, Ordered
<1>4. done[t] \in Nat /\ done[t] + 1 \in DOMAIN op[t].does
  BY <1>1, TheirStatements DEF RowInv, RowType
<1>5. done[t] # 0
  BY DEF Executed
<1>6. done[t] = 1
  BY <1>3, <1>4, <1>5
<1>7. Pending(t) = Key(User(u))
  BY <1>3, <1>6 DEF Pending
<1>8. Pending(t).row = User(u) /\ Pending(t).mode = "key share"
  <2>1. Key(User(u)).row = User(u) /\ Key(User(u)).mode = "key share"
    BY Fields
  <2> QED
    BY <1>7, <2>1
<1>9. f.mode = "update" /\ f.row = User(u)
  <2>1. Conflict("key share", f.mode)
    BY <1>2, <1>8, Conflicts
  <2> QED
    BY <1>2, <1>8, <2>1, Conflicts
<1>10. f.row \in {User(n) : n \in Names}
  BY <1>9, KnownNames
<1> QED
  BY <1>1, <1>9, <1>10, TheirStatements

\* The waiter at the highest level would wait for one above it.
LEMMA NoOtherDeadlock ==
  RowInv /\ LocksInOrder => OnlyMembershipDeadlocks
<1> SUFFICES ASSUME RowInv, LocksInOrder, NEW D \in SUBSET Txns, Deadlocked(D),
                    ~ \E t, u \in D : op[t].kind = "member" /\ op[u].kind = "checkout"
             PROVE  FALSE
  BY DEF OnlyMembershipDeadlocks
<1>1. D # {} /\ \A t \in D : WaitsFor(t) \cap D # {}
  BY DEF Deadlocked
<1>2. ASSUME NEW t \in D, Executed(t) # {}
      PROVE  op[t].kind # "member"
  <2>1. PICK w \in WaitsFor(t) : w \in D
    BY <1>1
  <2> QED
    BY <1>2, <2>1, MembersWaitForCheckouts
<1> DEFINE S == {Level(Pending(t)) : t \in D}
           b == 2 * (7 + N) + 1
<1>3. ASSUME NEW t \in D
      PROVE  Level(Pending(t)) \in 0..b
  <2>1. ~Finished(t)
    BY <1>1 DEF WaitsFor
  <2>2. Pending(t).row \in Tables \X Names
    BY <2>1, TheirStatements DEF Statements
  <2> DEFINE h == Height(Pending(t).row)
  <2>3. h \in 0..(7 + N) /\ N \in Nat
    BY <2>2, HeightBounds, VariantRanks
  <2>4. Level(Pending(t)) \in {2 * h + 0, 2 * h + 1}
    BY DEF Level
  <2> HIDE DEF h
  <2> QED
    BY <2>3, <2>4
<1>4. b \in Nat
  BY VariantRanks
<1>5. S \subseteq Nat /\ S # {} /\ \A x \in S : x <= b
  <2> HIDE DEF b
  <2> QED
    BY <1>1, <1>3, <1>4
<1>6. PICK x \in S : \A y \in S : y <= x
  <2> HIDE DEF S, b
  <2> QED
    BY <1>4, <1>5, Highest
<1>7. PICK t \in D : x = Level(Pending(t))
  BY <1>6
<1>8. PICK u \in WaitsFor(t) : u \in D
  BY <1>1
<1>9. WaitsFor(u) # {} /\ Executed(u) # {}
  BY <1>1, <1>8 DEF WaitsFor
<1>10. Level(Pending(t)) < Level(Pending(u))
  BY <1>2, <1>8, <1>9, WaitsClimb
<1>11. Level(Pending(u)) <= Level(Pending(t))
  BY <1>6, <1>7, <1>8
<1> QED
  BY <1>3, <1>4, <1>8, <1>10, <1>11

\* Sessions wait for each other in a circle only if one of them makes a member
\* of a shop and another checks out, in whatever number they run: all others
\* lock their rows in one order (service.go of order, inventory.go,
\* fulfillment.go, delivery.go), or hold a lock that keeps the others off.
THEOREM NoOtherDeadlocks == Spec => []OnlyMembershipDeadlocks
<1>1. RowInv /\ [Next]_vars => RowInv'
  BY SameRows, BeginStep, ExecuteStep, CommitStep, AbortStep DEF Next
<1> QED
  BY RowInit, <1>1, InOrderInit, InOrderStep, NoOtherDeadlock, PTL DEF Spec

=============================================================================
