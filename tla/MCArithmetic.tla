---------------------------- MODULE MCArithmetic ----------------------------
(***************************************************************************)
(* The computations of the library, each on its own: the risk gate, the    *)
(* checksum of every body up to a bound, grown byte by byte, and the       *)
(* latency histogram.                                                      *)
(***************************************************************************)
EXTENDS RiskGate, Wire, LatencyHistogram

CONSTANT MaxLen   \* bound: bytes of a body

VARIABLES of, body

NoBodySizes == << >>

MCInit ==
    /\ Init /\ HistogramInit /\ body = << >>
    /\ of \in {"risk gate", "checksum", "histogram"}

Gate      == of = "risk gate" /\ Next /\ UNCHANGED <<of, body, histogram>>
Histogram == of = "histogram" /\ HistogramNext /\ UNCHANGED <<of, body, vars>>

Checksum ==
    /\ of = "checksum" /\ Len(body) < MaxLen
    /\ \E b \in 0..(Radix - 1) : body' = Append(body, b)
    /\ UNCHANGED <<of, vars, histogram>>

MCSpec == MCInit /\ [][Gate \/ Checksum \/ Histogram]_<<of, body, vars, histogram>>

(* Reference: the sum of a body, and the one that weighs a byte by its     *)
(* distance from the end.                                                  *)
PlainSum(b) ==
    LET Sum[n \in 0..Len(b)] == IF n = 0 THEN 0 ELSE Sum[n - 1] + b[n]
    IN  Sum[Len(b)]

WeightedSum(b) ==
    LET Sum[n \in 0..Len(b)] == IF n = 0 THEN 0 ELSE Sum[n - 1] + (Len(b) + 1 - n) * b[n]
    IN  Sum[Len(b)]

(* A byte that stands for sum modulo Radix - 1.                            *)
Reduces(half, sum) == half \in 1..(Radix - 1) /\ (half - sum) % (Radix - 1) = 0

(* Each half of the checksum is the sum it stands for modulo Radix - 1, in *)
(* a single byte: the reductions deferred to the end of a block, and the   *)
(* one after the last, lose nothing and leave no carry.                    *)
ChecksumIsResidue ==
    /\ Reduces(fletcher16(body) % Radix, PlainSum(body))
    /\ Reduces(fletcher16(body) \div Radix, WeightedSum(body))

=============================================================================
