-------------------------------- MODULE Bits --------------------------------
(* Powers of two, for the widths and the shifts of the code.               *)
EXTENDS Integers

Pow2[n \in Nat] == IF n = 0 THEN 1 ELSE 2 * Pow2[n - 1]

=============================================================================
