------------------------------ MODULE RiskGate ------------------------------
(***************************************************************************)
(* The pre-trade risk gate (risk_gate.hpp, risk_gate.cpp), and a caller    *)
(* that keeps the net position, has one order at work at a time and gives  *)
(* check the position before it.  Quantities and prices are signed         *)
(* integers of Width bits.  What signed arithmetic yields on overflow is   *)
(* undefined: any number of that width.                                    *)
(***************************************************************************)
EXTENDS Integers, Sequences

CONSTANTS
    Width,           \* 64
    max_order_qty, max_position, reference_price, price_band

Word == -(2^(Width - 1)) .. (2^(Width - 1) - 1)

ASSUME GateAssumption ==
    /\ Width \in Nat \ {0}
    /\ {max_order_qty, max_position, reference_price, price_band} \subseteq Word

VARIABLES
    position,    \* buys less sells
    working,     \* the accepted order, with what is open of it: at most one
    decision     \* of the last check

vars == <<position, working, decision>>

Order == [side: {"Buy", "Sell"}, type: {"Limit", "Market"}, price: Word, qty: Word]

Abs(x) == IF x < 0 THEN -x ELSE x

(* Signed addition, and llabs, which has no result for the least number.   *)
Plus(a, b) == IF a + b \in Word THEN {a + b} ELSE Word
llabs(x)   == IF Abs(x) \in Word THEN {Abs(x)} ELSE Word

Signed(o) == IF o.side = "Buy" THEN o.qty ELSE -o.qty

(* Variant: shorts are not limited.                                       *)
LongOnly(pos, o) == Plus(pos, Signed(o))

(* The magnitudes the resulting position may be taken for.                 *)
Magnitudes(pos, o) == UNION {llabs(r) : r \in Plus(pos, Signed(o))}

OutOfBand(price, lo, hi) == price < lo \/ price > hi

(* The tests of check, in their order, for the magnitude m and the collar. *)
DecisionFor(o, m, lo, hi) ==
    IF o.qty <= 0 THEN "RejectInvalid"
    ELSE IF max_order_qty > 0 /\ o.qty > max_order_qty THEN "RejectOrderTooLarge"
    ELSE IF max_position > 0 /\ m > max_position THEN "RejectPositionBreach"
    ELSE IF o.type = "Limit" /\ price_band > 0 /\ OutOfBand(o.price, lo, hi)
         THEN "RejectPriceOutOfBand"
    ELSE "Accept"

check(o, pos) ==
    {DecisionFor(o, m, lo, hi) : m \in Magnitudes(pos, o),
        lo \in Plus(reference_price, -price_band), hi \in Plus(reference_price, price_band)}

Init == position = 0 /\ working = << >> /\ decision = "RejectInvalid"

Submit(o) ==
    /\ working = << >>
    /\ decision' \in check(o, position)
    /\ working' = IF decision' = "Accept" THEN << o >> ELSE << >>
    /\ UNCHANGED position

(* The venue fills some of the order at work, or the rest is cancelled.    *)
Filled(q) ==
    /\ working # << >>
    /\ q \in 1..working[1].qty
    /\ position' = position + (IF working[1].side = "Buy" THEN q ELSE -q)
    /\ working' = IF q = working[1].qty THEN << >> ELSE << [working[1] EXCEPT !.qty = @ - q] >>
    /\ UNCHANGED decision

Cancelled ==
    /\ working # << >>
    /\ working' = << >>
    /\ UNCHANGED <<position, decision>>

Next ==
    \/ \E o \in Order : Submit(o)
    \/ \E q \in Word : Filled(q)
    \/ Cancelled

Spec == Init /\ [][Next]_vars

-----------------------------------------------------------------------------
(* Limits for which no sum in check overflows while the position is within *)
(* its own.                                                                *)
LimitsFit == max_order_qty > 0 /\ max_position + max_order_qty \in Word

(* "reject if |resulting net position| exceeds this": the net position     *)
(* stays within max_position through any sequence of orders, partial fills *)
(* and cancels, and so will the order at work leave it, however much of it *)
(* is filled.  Without a size limit that fits, a sum that overflows may    *)
(* pass for a small one.                                                   *)
PositionWithinLimit ==
    LimitsFit /\ max_position > 0 =>
        /\ Abs(position) <= max_position
        /\ working # << >> => Abs(position + Signed(working[1])) <= max_position

=============================================================================
