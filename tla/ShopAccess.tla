----------------------------- MODULE ShopAccess -----------------------------
(***************************************************************************)
(* Who may act for a shop. The members of a shop are rows of the Seller    *)
(* service. Its own changes of the shop read the actor's role under the    *)
(* lock of the shop's row; the other services ask it over gRPC, which      *)
(* reads the role and then, in a statement of its own, the shop, and act   *)
(* on the answer later. Meanwhile the owner changes the members and the    *)
(* administrator the status. One shop, statement by statement.             *)
(***************************************************************************)
EXTENDS Integers, FiniteSets

CONSTANTS
    People,    \* accounts
    Requests,  \* requests, each made once
    MaxDecisions

ASSUME ShopAccessAssumption == MaxDecisions \in Nat

Managers == {"owner", "manager"}
Members  == Managers \cup {"staff"}

\* The roles a request needs.
Needs == [update |-> Managers, member |-> {"owner"}, asset |-> Members, page |-> Members,
          orders |-> Members, dashboard |-> Managers, fulfil |-> Members,
          voucher |-> Managers, message |-> Members]

\* Changes of the shop itself; pages of the Seller service; all else asks it.
Locked == {"update", "member"}
Local  == Locked \cup {"asset", "page"}

VARIABLES
    shopStatus,
    member,    \* the rows of seller_members: of each account, its role or none
    shopLock,  \* the request whose transaction holds the shop's row, or {}
    requests,  \* of each request: what is asked, by whom, where it is, what it read
    during,    \* ghost: the roles its actor has had and the shop's statuses since
    decisions

shopVars == <<shopStatus, member, shopLock, requests, during, decisions>>

NoRole == "none"
Ask(kind, by, target, role) ==
    [kind |-> kind, by |-> by, target |-> target, role |-> role,
     step |-> "asked", status |-> "none", atCommit |-> NoRole]

AnyAsk == {Ask(kind, by, by, NoRole) : kind \in DOMAIN Needs \ {"member"}, by \in People}
        \cup {Ask("member", by, target, role) :
                by \in People, target \in People, role \in {"manager", "staff", NoRole}}

NotMade == [step |-> "not made"]
Refused == [step |-> "refused"]
Is(h, step) == requests[h].step = step
Moved(h, step) == requests' = [requests EXCEPT ![h].step = step]
Refuse(h) == requests' = [requests EXCEPT ![h] = Refused]

Owners(roles) == {u \in People : roles[u] = "owner"}

\* Before the shop is created, or with any members that requests made earlier.
ShopInit ==
    /\ \/ shopStatus = "none" /\ member = [u \in People |-> NoRole]
       \/ /\ shopStatus \in {"pending", "approved"}
          /\ member \in {roles \in [People -> Members \cup {NoRole}] : Cardinality(Owners(roles)) = 1}
    /\ shopLock = {} /\ decisions = 0
    /\ requests = [h \in Requests |-> NotMade]
    /\ during = [h \in Requests |-> [roles |-> {}, statuses |-> {}]]

\* What the requests under way have seen happen.
Seen(roles, status) ==
    during' = [h \in Requests |->
                 IF requests[h].step \in {"not made", "done", "refused"} THEN during[h]
                 ELSE [roles |-> during[h].roles \cup {roles[requests[h].by]},
                       statuses |-> during[h].statuses \cup {status}]]

---------------------------------------------------------------------------

\* The shop and its owner, in one transaction.
Create(u) ==
    /\ shopStatus = "none"
    /\ shopStatus' = "pending"
    /\ member' = [member EXCEPT ![u] = "owner"]
    /\ UNCHANGED <<shopLock, requests, during, decisions>>

Arrives(h, ask) ==
    /\ requests[h] = NotMade /\ shopStatus # "none"
    /\ requests' = [requests EXCEPT ![h] = ask]
    /\ during' = [during EXCEPT ![h] = [roles |-> {member[ask.by]}, statuses |-> {shopStatus}]]
    /\ UNCHANGED <<shopStatus, member, shopLock, decisions>>

\* Mutant: the shop is read without FOR UPDATE.
RowFreeAlways == TRUE

RowFree == shopLock = {}

Locks(h) ==
    /\ Is(h, "asked") /\ requests[h].kind \in Locked
    /\ RowFree /\ shopLock' = {h}
    /\ Moved(h, "locked")
    /\ UNCHANGED <<shopStatus, member, during, decisions>>

\* In a transaction: with the lock of the shop's row, read before.
Role(h) ==
    /\ \/ Is(h, "locked")
       \/ Is(h, "asked") /\ requests[h].kind \notin Locked
    /\ LET role == member[requests[h].by]
       IN  IF role \notin Needs[requests[h].kind]
           THEN Refuse(h) /\ shopLock' = shopLock \ {h}
           ELSE /\ Moved(h, IF requests[h].kind \in Local THEN "allowed" ELSE "vouched for")
                /\ UNCHANGED shopLock
    /\ UNCHANGED <<shopStatus, member, during, decisions>>

\* The second statement of the RPC reads the status.
CheckMembership(h) ==
    /\ Is(h, "vouched for")
    /\ requests' = [requests EXCEPT ![h].status = shopStatus, ![h].step = "allowed"]
    /\ UNCHANGED <<shopStatus, member, shopLock, during, decisions>>

\* The call over gRPC times out: the request fails.
CallFails(h) ==
    /\ requests[h].step \in {"asked", "vouched for"} /\ requests[h].kind \notin Local
    /\ Refuse(h)
    /\ UNCHANGED <<shopStatus, member, shopLock, during, decisions>>

---------------------------------------------------------------------------

Acts(h, kinds) ==
    /\ Is(h, "allowed") /\ requests[h].kind \in kinds
    /\ requests' = [requests EXCEPT ![h].step = "done", ![h].atCommit = member[requests[h].by]]

Update(h) ==
    /\ Acts(h, {"update"}) /\ shopLock' = shopLock \ {h}
    /\ UNCHANGED <<shopStatus, member, during, decisions>>

\* An owner stays one.
SetMember(h) ==
    /\ Is(h, "allowed") /\ requests[h].kind = "member"
    /\ LET q == requests[h] IN
       IF member[q.target] = "owner"
       THEN Refuse(h) /\ UNCHANGED <<member, during>>
       ELSE /\ Acts(h, {"member"})
            /\ member' = [member EXCEPT ![q.target] = q.role]
            /\ Seen(member', shopStatus)
    /\ shopLock' = shopLock \ {h}
    /\ UNCHANGED <<shopStatus, decisions>>

\* One statement, which waits for whoever has the row.
SetAsset(h) ==
    /\ Acts(h, {"asset"}) /\ RowFree
    /\ UNCHANGED <<shopStatus, member, shopLock, during, decisions>>

Reads(h, kind) ==
    /\ Acts(h, {kind})
    /\ UNCHANGED <<shopStatus, member, shopLock, during, decisions>>

ListMembers(h) == Reads(h, "page")
Orders(h)      == Reads(h, "orders")
Dashboard(h)   == Reads(h, "dashboard")

Fulfill(h) ==
    /\ Acts(h, {"fulfil"})
    /\ UNCHANGED <<shopStatus, member, shopLock, during, decisions>>

\* Only for a shop that was approved when the role had been read.
Manage(h) ==
    /\ Is(h, "allowed") /\ requests[h].kind = "voucher"
    /\ IF requests[h].status = "approved" THEN Acts(h, {"voucher"}) ELSE Refuse(h)
    /\ UNCHANGED <<shopStatus, member, shopLock, during, decisions>>

\* A member of the shop writes into a conversation that is locked.
WriteMessage(h) ==
    /\ Acts(h, {"message"})
    /\ UNCHANGED <<shopStatus, member, shopLock, during, decisions>>

Status(status) ==
    /\ shopStatus # "none" /\ RowFree /\ decisions < MaxDecisions
    /\ shopStatus' = status /\ decisions' = decisions + 1
    /\ Seen(member, status)
    /\ UNCHANGED <<member, shopLock, requests>>

ShopNext ==
    \/ \E u \in People : Create(u)
    \/ \E status \in {"approved", "suspended"} : Status(status)
    \/ \E h \in Requests :
        \/ \E ask \in AnyAsk : Arrives(h, ask)
        \/ Locks(h) \/ Role(h) \/ CheckMembership(h) \/ CallFails(h)
        \/ Update(h) \/ SetMember(h) \/ SetAsset(h)
        \/ ListMembers(h) \/ Orders(h) \/ Dashboard(h)
        \/ Fulfill(h) \/ Manage(h) \/ WriteMessage(h)

ShopSpec == ShopInit /\ [][ShopNext]_shopVars

---------------------------------------------------------------------------

\* A change of the shop or of its members is committed by someone who has the
\* role at that moment; anything else is done by someone who had it, and a
\* voucher is made for a shop that was approved, at some moment of the request.
Justified(h) ==
    LET q == requests[h] IN
    /\ q.kind \in Locked => q.atCommit \in Needs[q.kind]
    /\ during[h].roles \cap Needs[q.kind] # {}
    /\ q.kind = "voucher" => "approved" \in during[h].statuses

\* However the members change while requests are under way, nobody acts for a
\* shop without the role that takes, and the shop keeps exactly one owner.
OnlyMembersAct ==
    /\ \A h \in Requests : Is(h, "done") => Justified(h)
    /\ shopStatus # "none" => Cardinality(Owners(member)) = 1

=============================================================================
