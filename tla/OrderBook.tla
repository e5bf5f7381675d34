----------------------------- MODULE OrderBook -----------------------------
(***************************************************************************)
(* The single-symbol limit order book (order_book.hpp, order_book.cpp):    *)
(* two maps from price to a level, the FIFO list of the orders resting at  *)
(* that price, and the index from order id to the place of an order.       *)
(*                                                                         *)
(* A std::list iterator is the identity of a list node: nodes are numbered *)
(* as they are allocated.  Order ids are the caller's and may repeat.      *)
(***************************************************************************)
EXTENDS Integers, Sequences, FiniteSets

CONSTANTS
    Prices,      \* the prices of limit orders, in ticks
    OrderIds

ASSUME BookAssumption == Prices \subseteq Int /\ IsFiniteSet(Prices)

VARIABLES
    book,        \* bids_ and asks_: for each side, a function from its prices
    index,       \* index_: a function from the indexed ids to a Location
    next_node    \* the next list node

bvars == <<book, index, next_node>>

Side == {"Buy", "Sell"}

opposite(s) == IF s = "Buy" THEN "Sell" ELSE "Buy"

Resting == [node: Nat, id: OrderIds, side: Side, price: Prices, qty: Int]

Location == [side: Side, price: Prices, it: Nat]

(* The function f without the arguments in D, and with x mapped to y.      *)
Without(f, D)   == [k \in DOMAIN f \ D |-> f[k]]
With(f, x, y)   == [k \in DOMAIN f \cup {x} |-> IF k = x THEN y ELSE f[k]]

BookInit ==
    /\ book = [s \in Side |-> << >>]
    /\ index = << >>
    /\ next_node = 1

LevelAt(s, p) == IF p \in DOMAIN book[s] THEN book[s][p] ELSE << >>

(* Variant: rested in front of the level.                                *)
AddInFront(o) ==
    LET r == [node |-> next_node, id |-> o.id, side |-> o.side,
              price |-> o.price, qty |-> o.qty]
    IN /\ book' = [book EXCEPT ![o.side] =
                     With(@, o.price, << r >> \o LevelAt(o.side, o.price))]
       /\ index' = With(index, o.id,
                        [side |-> o.side, price |-> o.price, it |-> next_node])
       /\ next_node' = next_node + 1

add(o) ==
    LET r == [node |-> next_node, id |-> o.id, side |-> o.side,
              price |-> o.price, qty |-> o.qty]
    IN /\ book' = [book EXCEPT ![o.side] =
                     With(@, o.price, Append(LevelAt(o.side, o.price), r))]
       /\ index' = With(index, o.id,
                        [side |-> o.side, price |-> o.price, it |-> next_node])
       /\ next_node' = next_node + 1

(* A level goes when its last order goes.                                  *)
SetLevel(levels, p, level) ==
    IF level = << >> THEN Without(levels, {p}) ELSE With(levels, p, level)

(* The list without the node an iterator points to.                        *)
PositionOf(level, it) == CHOOSE i \in DOMAIN level : level[i].node = it

Erase(level, it) ==
    [i \in 1..(Len(level) - 1) |->
        IF i < PositionOf(level, it) THEN level[i] ELSE level[i + 1]]

(* cancel(id) when the id is known; when it is not, nothing changes.       *)
cancel(id) ==
    /\ id \in DOMAIN index
    /\ LET loc == index[id]
       IN book' = IF loc.price \in DOMAIN book[loc.side]
                  THEN [book EXCEPT ![loc.side] =
                          SetLevel(@, loc.price, Erase(@[loc.price], loc.it))]
                  ELSE book
    /\ index' = Without(index, {id})
    /\ UNCHANGED next_node

empty(s) == DOMAIN book[s] = {}

best_price(s) ==
    CHOOSE p \in DOMAIN book[s] :
        \A q \in DOMAIN book[s] : IF s = "Buy" THEN q <= p ELSE p <= q

BestLevel(s) == book[s][best_price(s)]

(* The front of the best level; there is none when that level is empty.    *)
best(s) == Head(BestLevel(s))

(* Variants: a filled order stays in the index, a reduced one leaves it, a *)
(* filled one stays in the level.                                          *)
ReduceFront(s, qty, gone, indexed) ==
    LET p     == best_price(s)
        level == BestLevel(s)
        left  == best(s).qty - qty
    IN /\ book' = [book EXCEPT ![s] =
                     SetLevel(@, p, IF gone THEN Tail(level)
                                    ELSE [level EXCEPT ![1].qty = left])]
       /\ index' = IF indexed THEN index ELSE Without(index, {best(s).id})
       /\ UNCHANGED next_node

ReduceKeepingIndex(s, qty)  == ReduceFront(s, qty, best(s).qty <= qty, TRUE)
ReduceLosingIndex(s, qty)   == ReduceFront(s, qty, best(s).qty <= qty, FALSE)
ReduceKeepingFilled(s, qty) == ReduceFront(s, qty, best(s).qty < qty, best(s).qty >= qty)

reduce_front(s, qty) ==
    LET p     == best_price(s)
        level == BestLevel(s)
        left  == best(s).qty - qty
    IN /\ book' = [book EXCEPT ![s] =
                     SetLevel(@, p, IF left <= 0 THEN Tail(level)
                                    ELSE [level EXCEPT ![1].qty = left])]
       /\ index' = IF left <= 0 THEN Without(index, {best(s).id}) ELSE index
       /\ UNCHANGED next_node

-----------------------------------------------------------------------------
(* All resting orders.                                                     *)
OrdersAt(s, p) == {book[s][p][i] : i \in DOMAIN book[s][p]}
OrdersOn(s)    == UNION {OrdersAt(s, p) : p \in DOMAIN book[s]}
Orders         == OrdersOn("Buy") \cup OrdersOn("Sell")

=============================================================================
