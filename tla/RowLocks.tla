------------------------------ MODULE RowLocks ------------------------------
(***************************************************************************)
(* The row locks behind the handlers of Orders. There, a handler is one    *)
(* step; here it is what PostgreSQL is sent: statements one at a time,     *)
(* interleaved with those of other transactions, each waiting until no     *)
(* other transaction holds a conflicting lock on its row. Values are left  *)
(* out: what matters is which row is locked, read and written when.        *)
(*                                                                         *)
(* A shop's parts of an order are one row here, and so are its shipments:  *)
(* both are only ever written under the lock of the order. A product's     *)
(* categories are part of its row, and a user has one address. Rows a      *)
(* handler only inserts (movements, events, items) are left out, but the   *)
(* row that a foreign key of theirs names is locked FOR KEY SHARE by the   *)
(* insert, where anybody locks such rows FOR UPDATE.                       *)
(*                                                                         *)
(* Who may call, as administrator, member of the shop or owner of a live   *)
(* account, is asked without any lock: the module ShopAccess is about it,  *)
(* and these reads are left out here.                                      *)
(***************************************************************************)
EXTENDS Integers, FiniteSets, Sequences, SequencesExt, Sorting

CONSTANTS
    Txns,                  \* database sessions
    Users, Drivers, Staff, \* accounts; those of drivers, and of shops and administrators
    Sellers,
    Products,
    Variants, ProductOf,   \* variant ids, ordered as ORDER BY variant_id; their products
    SellerOf,              \* and the shops of these
    Coupons,
    Orders, ItemsOf,       \* orders placed earlier, and the variants in each
    Transfers              \* provider transaction ids

ASSUME RowAssumption ==
    /\ Drivers \subseteq Users /\ Staff \subseteq Users
    /\ Variants \subseteq Nat /\ IsFiniteSet(Variants)
    /\ ProductOf \in [Variants -> Products]
    /\ SellerOf \in [Variants -> Sellers]
    /\ ItemsOf \in [Orders -> SUBSET Variants]

VARIABLES
    op,      \* op[t]: the operation the session executes
    done,    \* done[t]: how many of its statements it has executed
    stale    \* stale[t]: the rows it has read that others have changed since

vars == <<op, done, stale>>

---------------------------------------------------------------------------
(* Statements *)

User(u)      == <<"user", u>>
Address(u)   == <<"address", u>>
Cart(u)      == <<"cart", u>>
OrdersOf(u)  == <<"orders of", u>>
Product(p)   == <<"product", p>>
Variant(v)   == <<"variant", v>>
Coupon(c)    == <<"coupon", c>>
Order(o)     == <<"order", o>>
Children(o)  == <<"seller orders", o>>
Payment(o)   == <<"payment", o>>
Shipments(o) == <<"shipments", o>>
Receipt(x)   == <<"receipt", x>>
Driver(u)    == <<"driver", u>>
Seller(s)    == <<"seller", s>>

Lock(row)  == [row |-> row, mode |-> "update",        reads |-> TRUE,  writes |-> FALSE]
Read(row)  == [row |-> row, mode |-> "none",          reads |-> TRUE,  writes |-> FALSE]
\* An update of a column with a unique index (a SKU, a slug) would lock FOR UPDATE;
\* who makes one locks no other row that anybody waits for.
Write(row) == [row |-> row, mode |-> "no key update", reads |-> FALSE, writes |-> TRUE]
Key(row)   == [row |-> row, mode |-> "key share",     reads |-> FALSE, writes |-> FALSE]

\* PostgreSQL's row-level lock modes, as far as they are used.
Conflict(m, n) ==
    /\ "none" \notin {m, n}
    /\ "key share" \in {m, n} => "update" \in {m, n}

Operation(kind, statements) == [kind |-> kind, does |-> statements]

NoOperation == Operation("none", <<>>)

\* For each item, in this order, its one statement, its two, or its three.
ForEach(items, Statement(_)) == [i \in DOMAIN items |-> Statement(items[i])]

ForEachTwo(items, First(_), Second(_)) ==
    [i \in 1..(2 * Len(items)) |->
        LET v == items[(i + 1) \div 2] IN IF i % 2 = 1 THEN First(v) ELSE Second(v)]

ForEachThree(items, First(_), Second(_), Third(_)) ==
    [i \in 1..(3 * Len(items)) |->
        LET v == items[(i + 2) \div 3]
        IN IF i % 3 = 1 THEN First(v) ELSE IF i % 3 = 2 THEN Second(v) ELSE Third(v)]

---------------------------------------------------------------------------
(* The customer's operations *)

\* Checkout takes the user, the cart, the variants and at last the coupon; the
\* address, the products and the shops it only reads. Each shop's part of the order
\* is inserted, and names the shop, after that.
Checkout(u, items, coupons) ==
    Operation("checkout",
        <<Lock(User(u)), Read(OrdersOf(u)), Read(Address(u)), Lock(Cart(u))>>
        \o ForEachThree(Ascending(items), LAMBDA v : Lock(Variant(v)),
                        LAMBDA v : Read(Product(ProductOf[v])), LAMBDA v : Read(Seller(SellerOf[v])))
        \o ForEachTwo(SetToSeq(coupons), LAMBDA c : Lock(Coupon(c)), LAMBDA c : Write(Coupon(c)))
        \o ForEachTwo(Ascending(items), LAMBDA v : Key(Seller(SellerOf[v])), LAMBDA v : Write(Variant(v)))
        \o <<Write(Cart(u)), Write(OrdersOf(u))>>)

\* Mutant: the items are not sorted.
CancelUnsorted(o) ==
    Operation("cancel",
        <<Lock(Order(o)), Lock(Payment(o)), Read(Children(o))>>
        \o ForEach(Reverse(Ascending(ItemsOf[o])), LAMBDA v : Write(Variant(v)))
        \o <<Write(Order(o)), Write(Children(o)), Write(Payment(o))>>)

Cancel(o) ==
    Operation("cancel",
        <<Lock(Order(o)), Lock(Payment(o)), Read(Children(o))>>
        \o ForEach(Ascending(ItemsOf[o]), LAMBDA v : Write(Variant(v)))
        \o <<Write(Order(o)), Write(Children(o)), Write(Payment(o))>>)

PutCart(u, v) ==
    Operation("put", <<Lock(Cart(u)), Read(Variant(v)), Read(Product(ProductOf[v])),
                       Read(Seller(SellerOf[v])), Write(Cart(u)), Key(Variant(v))>>)

RemoveFromCart(u) == Operation("remove", <<Lock(Cart(u)), Write(Cart(u))>>)

\* SaveAddress and DeleteAddress.
ChangeAddress(u) == Operation("address", <<Write(Address(u))>>)

---------------------------------------------------------------------------
(* Payment *)

\* The insert of a receipt waits for another insert of the same transfer.
Receive(x, o) ==
    Operation("receive", <<Write(Receipt(x)), Lock(Order(o)), Lock(Payment(o)),
                           Write(Payment(o)), Write(Receipt(x))>>)

---------------------------------------------------------------------------
(* Delivery *)

\* What Fulfill writes: the seller order, from the shipment's creation on the
\* shipment, with the last delivery the payment, and the order.
FulfillWrites(o, to) ==
    <<Write(Children(o))>>
    \o (IF to = "confirmed" THEN <<>> ELSE <<Write(Shipments(o))>>)
    \o <<Read(Children(o))>>
    \o (IF to = "delivered" THEN <<Write(Payment(o))>> ELSE <<>>)
    \o <<Write(Order(o))>>

\* Mutant: the seller order read before the lock is not read again after it.
FulfillReadingFirst(o, to) ==
    Operation("fulfill", <<Read(Children(o)), Lock(Order(o)), Read(Shipments(o)),
                           Read(Payment(o))>> \o FulfillWrites(o, to))

\* The shop's own carrier. The seller order that is read before the lock only says
\* which order to lock.
Fulfill(o, to) ==
    Operation("fulfill", <<Lock(Order(o)), Read(Children(o)), Read(Shipments(o)),
                           Read(Payment(o))>> \o FulfillWrites(o, to))

\* Every event of a shipment names the user who caused it.
CreateShipment(o, s, actor) ==
    Operation("create", <<Lock(Order(o)), Read(Children(o)), Read(Shipments(o)),
                          Read(Payment(o)), Read(Seller(s)), Write(Shipments(o)),
                          Key(User(actor))>>)

\* What every operation on a platform shipment does first.
Mutate(o) == <<Lock(Order(o)), Lock(Shipments(o)), Read(Children(o))>>

Assign(o, d, actor) ==
    Operation("assign", Mutate(o) \o <<Lock(Driver(d)), Write(Shipments(o)), Key(User(actor))>>)

UpdateShipment(o, d) ==
    Operation("report", Mutate(o) \o <<Lock(Driver(d)), Read(Payment(o)), Write(Shipments(o)),
                                       Write(Children(o)), Read(Children(o)), Write(Order(o)),
                                       Key(User(d))>>)

Settle(o, actor) ==
    Operation("settle", Mutate(o) \o <<Read(Payment(o)), Write(Shipments(o)), Key(User(actor)),
                                       Read(Children(o)), Write(Payment(o))>>)

\* An approval also gives the user the role of a driver.
ApproveDriver(d, status) ==
    Operation("approve", <<Lock(Driver(d)), Write(Driver(d))>>
                         \o (IF status = "approved" THEN <<Key(User(d))>> ELSE <<>>))

---------------------------------------------------------------------------
(* The shop's and the administrator's operations *)

\* The product is read before the transaction that writes it.
Save(p)          == Operation("save", <<Read(Product(p)), Write(Product(p))>>)
Adjust(v)        == Operation("adjust", <<Lock(Variant(v)), Write(Variant(v))>>)
UpdateVariant(v) == Operation("reprice", <<Write(Variant(v))>>)
SetActive(c)     == Operation("switch", <<Write(Coupon(c))>>)
SetShopStatus(s) == Operation("status", <<Write(Seller(s))>>)
UpdateShop(s)    == Operation("profile", <<Lock(Seller(s)), Write(Seller(s))>>)

\* A new member's row names the shop, which is locked already, and the user.
SetMember(s, u) == Operation("member", <<Lock(Seller(s)), Key(User(u))>>)

Operations ==
    {Checkout(u, items, coupons) :
        u \in Users, items \in SUBSET Variants \ {{}}, coupons \in {{}} \cup {{c} : c \in Coupons}}
    \cup {Cancel(o) : o \in Orders}
    \cup {Fulfill(o, to) : o \in Orders, to \in {"confirmed", "shipping", "delivered"}}
    \cup {PutCart(u, v) : u \in Users, v \in Variants}
    \cup {RemoveFromCart(u) : u \in Users} \cup {ChangeAddress(u) : u \in Users}
    \cup {Receive(x, o) : x \in Transfers, o \in Orders}
    \cup {CreateShipment(o, s, u) : o \in Orders, s \in Sellers, u \in Staff}
    \cup {Assign(o, d, u) : o \in Orders, d \in Drivers, u \in Staff}
    \cup {UpdateShipment(o, d) : o \in Orders, d \in Drivers}
    \cup {Settle(o, u) : o \in Orders, u \in Staff}
    \cup {ApproveDriver(d, status) : d \in Drivers, status \in {"approved", "suspended"}}
    \cup {Save(p) : p \in Products}
    \cup {Adjust(v) : v \in Variants} \cup {UpdateVariant(v) : v \in Variants}
    \cup {SetActive(c) : c \in Coupons}
    \cup {SetShopStatus(s) : s \in Sellers} \cup {UpdateShop(s) : s \in Sellers}
    \cup {SetMember(s, u) : s \in Sellers, u \in Users}

---------------------------------------------------------------------------
(* Transactions *)

Running(t)  == op[t] # NoOperation
Finished(t) == done[t] = Len(op[t].does)
Pending(t)    == op[t].does[done[t] + 1]
Executed(t) == {op[t].does[i] : i \in 1..done[t]}

Known(t)   == {statement.row : statement \in {e \in Executed(t) : e.reads}}
Changed(t) == {statement.row : statement \in {e \in Executed(t) : e.writes}}

\* Whose locks the session's next statement has to wait for.
WaitsFor(t) ==
    IF ~Running(t) \/ Finished(t) THEN {}
    ELSE {u \in Txns \ {t} : \E e \in Executed(u) :
             e.row = Pending(t).row /\ Conflict(e.mode, Pending(t).mode)}

Init ==
    /\ op = [t \in Txns |-> NoOperation]
    /\ done = [t \in Txns |-> 0]
    /\ stale = [t \in Txns |-> {}]

Begin(t, operation) ==
    /\ ~Running(t)
    /\ op' = [op EXCEPT ![t] = operation]
    /\ UNCHANGED <<done, stale>>

Execute(t) ==
    /\ Running(t) /\ ~Finished(t) /\ WaitsFor(t) = {}
    /\ done' = [done EXCEPT ![t] = @ + 1]
    /\ stale' = IF Pending(t).reads THEN [stale EXCEPT ![t] = @ \ {Pending(t).row}] ELSE stale
    /\ UNCHANGED op

End(t) ==
    /\ op' = [op EXCEPT ![t] = NoOperation]
    /\ done' = [done EXCEPT ![t] = 0]

\* The others now know outdated rows.
Commit(t) ==
    /\ Running(t) /\ Finished(t)
    /\ End(t)
    /\ stale' = [u \in Txns |-> IF u = t THEN {} ELSE stale[u] \cup (Known(u) \cap Changed(t))]

\* A refusal, a failure, a crash, or the victim of the database's deadlock check.
Abort(t) ==
    /\ Running(t)
    /\ End(t)
    /\ stale' = [stale EXCEPT ![t] = {}]

Next ==
    \E t \in Txns :
        \/ \E operation \in Operations : Begin(t, operation)
        \/ Execute(t)
        \/ Commit(t)
        \/ Abort(t)

Spec == Init /\ [][Next]_vars

---------------------------------------------------------------------------
(* What the locks achieve *)

\* What may have changed since it was read without a lock, and is decided on all
\* the same: a shop's standing, asked of another service; whether a product is
\* published, for a checkout, a cart item or the next save of it; the address an
\* order is sent to; and the stock a cart item is compared with.
Tolerated(t) ==
    {Seller(s) : s \in Sellers} \cup {Product(p) : p \in Products} \cup {Address(u) : u \in Users}
    \cup (IF op[t].kind = "put" THEN {Variant(v) : v \in Variants} ELSE {})

\* Whatever else a handler has read and decides on is still so when it commits:
\* nobody changes an order, its payment and parcels, the driver, the units and prices
\* sold, the coupon, the cart or the customer's orders under it. For these one
\* handler may be one step, as it is in the module Orders; what Tolerated lists may
\* be outdated at the commit, and the code does nothing about it.
DecisionsHold ==
    \A t \in Txns : stale[t] \subseteq Tolerated(t)

\* Sessions that will wait for each other for ever.
Deadlocked(D) == D # {} /\ \A t \in D : WaitsFor(t) \cap D # {}

\* The handlers never wait for each other in a circle, except around the one who
\* makes a member of a shop: he holds the shop and wants the user, while this user
\* may be checking out, hold himself and want the shop. The database ends the
\* circle by aborting one of them.
OnlyMembershipDeadlocks ==
    \A D \in SUBSET Txns :
        Deadlocked(D) => \E t, u \in D : op[t].kind = "member" /\ op[u].kind = "checkout"

=============================================================================
