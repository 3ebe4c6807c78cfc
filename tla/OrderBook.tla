------------------------------- MODULE OrderBook ------------------------------
(* The order book of GDP units (irg_gdp): place_order inserts a PENDING order,  *)
(* commits it, and matches it in a transaction that locks the opposite orders.  *)
(* The order itself is neither locked nor read again.  Orders are named by      *)
(* their creation.                                                             *)
EXTENDS Handlers

CONSTANTS
    Price,     \* prices per unit
    Size,      \* numbers of units of an order
    MaxOrder   \* bound: orders placed

ASSUME BookConstants == Price \cup Size \subseteq Nat /\ MaxOrder \in Nat

VARIABLES
    order,      \* the TradeRecord rows: status, side, user, units, price, counterparty
    placing,    \* Request -> the order it has inserted and is about to match
    fills,      \* history: order -> times it was executed
    stranded    \* history: orders whose matching was aborted

bookVars == <<order, placing, fills, stranded>>

Orders == 1..MaxOrder
Nobody == "nobody"

BookInit ==
    /\ order = [o \in Orders |-> Absent]
    /\ placing = [q \in Request |-> Free]
    /\ fills = [o \in Orders |-> 0]
    /\ stranded = {}

Pending(o) == order[o].status = "PENDING"

Crosses(a, b) ==
    /\ order[a].side # order[b].side
    /\ IF order[a].side = "BUY" THEN order[b].price <= order[a].price ELSE order[b].price >= order[a].price

\* m comes before n among the orders t is matched with: the better price, then the
\* older order.
Before(m, n, t) ==
    \/ IF order[t].side = "BUY" THEN order[m].price < order[n].price ELSE order[m].price > order[n].price
    \/ order[m].price = order[n].price /\ m < n

Matches(t) == {o \in Orders: Pending(o) /\ Crosses(t, o)}

PlaceOrder(q, side, user, units, price) ==
    /\ placing[q] = Free /\ HasRoom(order)
    /\ LET o == NextRow(order) IN
       /\ order' = [order EXCEPT ![o] = [status |-> "PENDING", side |-> side, user |-> user,
                                         units |-> units, price |-> price, counterparty |-> Nobody]]
       /\ placing' = [placing EXCEPT ![q] = [pc |-> "matching", order |-> o]]
    /\ UNCHANGED <<fills, stranded>>

\* The first match of the same size; t is saved from the copy made at its insertion,
\* whatever another matching has made of it.
Executes(t, m) ==
    /\ order' = [order EXCEPT ![t].status = "COMPLETED", ![t].counterparty = order[m].user,
                              ![m].status = "COMPLETED", ![m].counterparty = order[t].user]
    /\ fills' = [fills EXCEPT ![t] = @ + 1, ![m] = @ + 1]

Matched(q, chosen) ==
    /\ placing[q] # Free
    /\ LET t == placing[q].order IN
       \/ \E m \in chosen: (\A n \in chosen \ {m}: Before(m, n, t)) /\ Executes(t, m)
       \/ chosen = {} /\ UNCHANGED <<order, fills>>
    /\ placing' = [placing EXCEPT ![q] = Free]
    /\ UNCHANGED stranded

SameSize(t, candidates) == {m \in candidates: order[m].units = order[t].units}

\* (mutant of MatchOrder: the search ends at the best order, whatever its size)
MatchBestOrder(q) ==
    Matched(q, LET t == placing[q].order IN
               SameSize(t, {m \in Matches(t): \A n \in Matches(t) \ {m}: Before(m, n, t)}))

MatchOrder(q) == Matched(q, SameSize(placing[q].order, Matches(placing[q].order)))

\* The transaction is rolled back: the process dies or the database ends a deadlock.
MatchAborts(q) ==
    /\ placing[q] # Free
    /\ placing' = [placing EXCEPT ![q] = Free]
    /\ stranded' = stranded \cup {placing[q].order}
    /\ UNCHANGED <<order, fills>>

BookNext ==
    \E q \in Request:
        \/ MatchOrder(q) \/ MatchAborts(q)
        \/ \E side \in {"BUY", "SELL"}, user \in User, units \in Size, price \in Price:
              PlaceOrder(q, side, user, units, price)

BookSpec == BookInit /\ [][BookNext]_bookVars

-----------------------------------------------------------------------------
OrderRow == [status: {"PENDING", "COMPLETED"}, side: {"BUY", "SELL"}, user: User, units: Size,
             price: Price, counterparty: User \cup {Nobody}]

\* Orders have the fields of the model, and a request matches the order it inserted.
BookTypeOK ==
    /\ order \in [Orders -> {Absent} \cup OrderRow]
    /\ placing \in [Request -> {Free} \cup [pc: {"matching"}, order: Orders]]
    /\ fills \in [Orders -> Nat] /\ stranded \subseteq Orders

InMatching == {placing[q].order: q \in {p \in Request: placing[p] # Free}}

\* Nobody waits in the book for a trade that is there: once their matching is done,
\* no two pending orders of the same size cross, whichever orders were inserted
\* between the insertion and the matching of another (views.py, _match_order).
BookIsUncrossed ==
    \A a, b \in Orders \ (InMatching \cup stranded):
        Pending(a) /\ Pending(b) /\ order[a].units = order[b].units => ~Crosses(a, b)

\* "runs in atomic block to prevent double-match" (views.py, _match_order): an order
\* is executed once.  The block locks the opposite orders only: an order that another
\* matching took between its insertion and its own matching is executed again.
NoDoubleMatch == \A o \in Orders: fills[o] <= 1
=============================================================================
