------------------------- MODULE PriceTimePriority -------------------------
(***************************************************************************)
(* What the matching engine promises, without levels, lists or an index:   *)
(* the resting orders are a set, and an incoming order trades with the one *)
(* that has priority, best price first and then longest resting, until     *)
(* none crosses.  Nodes number the orders in the order they came to rest.  *)
(***************************************************************************)
EXTENDS Integers

VARIABLES
    resting,   \* the set of resting orders
    taker,     \* the incoming order: at most one
    filled,    \* how much of it, or of the one before, was filled
    fill       \* the trade just made: at most one

Init == resting = {} /\ taker = << >> /\ filled = 0 /\ fill = << >>

Priority(a, b) ==
    \/ IF a.side = "Buy" THEN a.price > b.price ELSE a.price < b.price
    \/ a.price = b.price /\ a.node < b.node

Crosses(o, r) ==
    /\ r.side # o.side
    /\ \/ o.type = "Market"
       \/ IF o.side = "Buy" THEN o.price >= r.price ELSE o.price <= r.price

Arrive ==
    /\ taker = << >>
    /\ taker' # << >>
    /\ filled' = 0
    /\ fill' = << >>
    /\ UNCHANGED resting

Trade ==
    /\ taker # << >>
    /\ \E m \in resting :
         /\ Crosses(taker[1], m)
         /\ \A r \in resting : Crosses(taker[1], r) => r = m \/ Priority(m, r)
         /\ LET traded == IF taker[1].qty <= m.qty THEN taker[1].qty ELSE m.qty
                left   == [m EXCEPT !.qty = @ - traded]
            IN /\ traded > 0
               /\ fill' = << [taker_id |-> taker[1].id, maker_id |-> m.id,
                              price |-> m.price, qty |-> traded] >>
               /\ filled' = filled + traded
               /\ taker' = << [taker[1] EXCEPT !.qty = @ - traded] >>
               /\ resting' = (resting \ {m}) \cup (IF left.qty > 0 THEN {left} ELSE {})

(* The rest of a limit order joins the resting orders, behind all others.  *)
Rest ==
    /\ taker # << >>
    /\ taker[1].qty > 0 /\ taker[1].type = "Limit"
    /\ \A r \in resting : ~Crosses(taker[1], r)
    /\ \E r \in resting' :
         /\ resting' = resting \cup {r}
         /\ \A x \in resting : x.node < r.node
         /\ <<r.id, r.side, r.price, r.qty>> =
              <<taker[1].id, taker[1].side, taker[1].price, taker[1].qty>>
    /\ taker' = << >> /\ fill' = << >> /\ filled' = filled

(* Nothing is left of it, or it is a market order without liquidity.       *)
Expire ==
    /\ taker # << >>
    /\ taker[1].qty > 0 => /\ taker[1].type = "Market"
                           /\ \A r \in resting : ~Crosses(taker[1], r)
    /\ taker' = << >> /\ fill' = << >> /\ filled' = filled
    /\ UNCHANGED resting

Cancel ==
    /\ taker = << >>
    /\ \E r \in resting : resting' = resting \ {r}
    /\ UNCHANGED <<taker, filled>>
    /\ fill' = << >>

Next == Arrive \/ Trade \/ Rest \/ Expire \/ Cancel

Spec == Init /\ [][Next]_<<resting, taker, filled, fill>>

=============================================================================
