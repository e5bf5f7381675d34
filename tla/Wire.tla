-------------------------------- MODULE Wire --------------------------------
(***************************************************************************)
(* The wire format (wire.hpp, wire.cpp): frames and their checksum.        *)
(*                                                                         *)
(* A stream is a sequence of units.  A unit is one field of a header or    *)
(* one byte of a body; only the magic keeps its two bytes, because a read  *)
(* can end between them.  What the bytes of a body mean is left out.       *)
(***************************************************************************)
EXTENDS Integers, Sequences

CONSTANTS
    Radix,       \* 256: the values of a byte
    Block,       \* 21: bytes summed between two reductions
    BodySizes    \* the body length of each known type

ASSUME WireAssumption ==
    /\ Radix \in Nat \ {0, 1}
    /\ Block \in Nat \ {0}
    /\ \A t \in DOMAIN BodySizes : BodySizes[t] \in Nat

(* "21 bytes is the most that can be accumulated before" a reduction: no   *)
(* more than Start1 is left of sum1, or 2 * (Radix - 1) of sum2 after one, *)
(* and a block leads from there to less than Radix^2.                      *)
Start1 == Radix - 1 + ((2 * (Radix - 1) + Block * (Radix - 1)) \div Radix)

ASSUME BlockAssumption ==
    /\ Start1 <= 2 * (Radix - 1)
    /\ 4 * (Radix - 1) + 2 * Block * Start1 + (Radix - 1) * Block * (Block + 1)
         < 2 * Radix * Radix

kMagic      == <<75, 88>>
kVersion    == 1
kHeaderSize == 7

(* Variant: the sum is cut to a byte instead of being reduced.             *)
CarryLost(x) == x % Radix

(* What overflows a byte is added back: the value modulo Radix - 1.        *)
Carry(x) == (x % Radix) + (x \div Radix)

(* Fletcher's two sums; the second weighs a byte by its distance from the  *)
(* end.  Both are reduced after each block and once more at the end.       *)
fletcher16(body) ==
    LET Sums[n \in 0..Len(body)] ==
          IF n = 0 THEN <<Radix - 1, Radix - 1>>
          ELSE LET sum1 == Sums[n - 1][1] + body[n]
                   sum2 == Sums[n - 1][2] + sum1
               IN  IF n % Block = 0 \/ n = Len(body)
                   THEN <<Carry(sum1), Carry(sum2)>> ELSE <<sum1, sum2>>
        last == Sums[Len(body)]
    IN  Carry(last[2]) * Radix + Carry(last[1])

(* The frame of a message.                                                 *)
encode(type, seq, body) ==
    kMagic \o <<kVersion, type, Len(body), seq, fletcher16(body)>> \o body

=============================================================================
