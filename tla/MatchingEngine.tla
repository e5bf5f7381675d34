--------------------------- MODULE MatchingEngine ---------------------------
(***************************************************************************)
(* Continuous matching (matching_engine.hpp, matching_engine.cpp) over the *)
(* order book.  submit is a loop; each pass of it is a step here, and no   *)
(* other call can begin before it returns: the engine belongs to one       *)
(* thread.                                                                 *)
(***************************************************************************)
EXTENDS OrderBook

CONSTANTS
    Quantities,   \* the quantities of incoming orders
    MaxNodes      \* bound: limit orders come until so many have rested

ASSUME EngineAssumption == Quantities \subseteq Int /\ MaxNodes \in Nat

VARIABLES
    taker,        \* the order submit works on: at most one
    filled,       \* what submit has filled of it
    fill          \* the last Fill pushed to out: at most one

vars == <<bvars, taker, filled, fill>>

Order == [id: OrderIds, side: Side, type: {"Limit", "Market"},
          price: Prices, qty: Int]

Fill == [taker_id: OrderIds, maker_id: OrderIds, price: Prices, qty: Int]

Init ==
    /\ BookInit
    /\ taker = << >>
    /\ filled = 0
    /\ fill = << >>

Idle  == taker = << >>
Taker == taker[1]
Maker == opposite(Taker.side)

(* Variant: an equal price does not cross.                                 *)
CrossesStrictly(o, book_px) ==
    \/ o.type = "Market"
    \/ IF o.side = "Buy" THEN o.price > book_px ELSE o.price < book_px

crosses(o, book_px) ==
    \/ o.type = "Market"
    \/ IF o.side = "Buy" THEN o.price >= book_px ELSE o.price <= book_px

Min2(a, b) == IF a <= b THEN a ELSE b

(* submit(o): the call, a pass of its loop, and its return.                *)
Submit(o) ==
    /\ Idle
    /\ o.type = "Limit" => next_node <= MaxNodes
    /\ taker' = << o >>
    /\ filled' = 0
    /\ fill' = << >>
    /\ UNCHANGED bvars

(* The loop goes on: there is liquidity, it crosses, and a front order.    *)
Matches ==
    /\ Taker.qty > 0
    /\ ~empty(Maker)
    /\ crosses(Taker, best_price(Maker))
    /\ BestLevel(Maker) # << >>

Trade ==
    /\ ~Idle
    /\ Matches
    /\ LET traded == Min2(Taker.qty, best(Maker).qty)
       IN /\ fill' = << [taker_id |-> Taker.id, maker_id |-> best(Maker).id,
                         price |-> best_price(Maker), qty |-> traded] >>
          /\ taker' = << [Taker EXCEPT !.qty = @ - traded] >>
          /\ filled' = filled + traded
          /\ reduce_front(Maker, traded)

Return ==
    /\ ~Idle
    /\ ~Matches
    /\ IF Taker.qty > 0 /\ Taker.type = "Limit" THEN add(Taker) ELSE UNCHANGED bvars
    /\ taker' = << >>
    /\ fill' = << >>
    /\ UNCHANGED filled

Cancel(id) ==
    /\ Idle
    /\ cancel(id)
    /\ fill' = << >>
    /\ UNCHANGED <<taker, filled>>

Incoming == [id: OrderIds, side: Side, type: {"Limit", "Market"},
             price: Prices, qty: Quantities]

Next ==
    \/ \E o \in Incoming : Submit(o)
    \/ Trade
    \/ Return
    \/ \E id \in OrderIds : Cancel(id)

Spec == Init /\ [][Next]_vars

(* submit runs until it returns.                                           *)
FairSpec == Spec /\ WF_vars(Trade) /\ WF_vars(Return)

-----------------------------------------------------------------------------
(* The book never crosses itself: submit rests a remainder only after      *)
(* every order it crosses is gone, so the best bid is below the best ask   *)
(* whatever orders and cancels came before.  And best_bid and best_ask are *)
(* prices somebody trades at: no level is left empty, and no order rests   *)
(* with nothing to trade.                                                  *)
Uncrossed ==
    /\ \A b \in DOMAIN book["Buy"], a \in DOMAIN book["Sell"] : b < a
    /\ \A s \in DOMAIN book : \A p \in DOMAIN book[s] :
          OrdersAt(s, p) # {} /\ \A o \in OrdersAt(s, p) : o.qty > 0

(* No iterator in the index dangles: it points to a node that is in the    *)
(* list of its level and carries that id, even when callers reuse ids, as  *)
(* the feed handlers do, whose decode leaves every id zero.                *)
IndexSound ==
    \A id \in DOMAIN index :
        LET loc == index[id]
        IN /\ loc.price \in DOMAIN book[loc.side]
           /\ \E r \in OrdersAt(loc.side, loc.price) : r.node = loc.it /\ r.id = id

Indexed(r) == r.id \in DOMAIN index /\ index[r.id].it = r.node

Cancellable == {r.node : r \in {r \in Orders : Indexed(r)}}

Nodes == {r.node : r \in Orders}

(* The node's id is borne by another resting order as well.                *)
Shared(n) ==
    \E r, other \in Orders \cup Orders' : r.node = n /\ other.node # n /\ other.id = r.id

(* cancel never answers false for an order that rests: it can be cancelled *)
(* once it rests, and as long as it does, through partial fills and the    *)
(* fills and cancels of others, unless another resting order has its id.   *)
StaysCancellable ==
    [][/\ (Nodes' \ Nodes) \subseteq Cancellable'
       /\ \A n \in Cancellable \cap Nodes' : n \in Cancellable' \/ Shared(n)]_vars

P == INSTANCE PriceTimePriority WITH resting <- Orders

(* The engine trades in strict price-time priority at the maker's price    *)
(* until nothing crosses, rests only limit remainders, and a cancel takes  *)
(* out one order and disturbs nobody's place in the queue.                 *)
StrictPriority == P!Spec

(* submit returns: every pass of the loop uses up quantity.                *)
SubmitReturns == ~Idle ~> Idle

=============================================================================
