----------------------------- MODULE RingIndex -----------------------------
(***************************************************************************)
(* What the two rings, between threads (spsc_ring_buffer.hpp) and between  *)
(* processes (shm_ring.hpp), have in common: indices that count for ever,  *)
(* modulo the width of their type, and slots that are found by masking.    *)
(***************************************************************************)
EXTENDS Integers, Sequences

CONSTANTS
    Values,      \* what is pushed
    NoValue,     \* what a slot holds before its first push
    Capacity,    \* number of slots
    Width        \* an index counts modulo Width (2^64 in the build)

(* Both rings want a power of two, which divides the range of the index.   *)
ASSUME RingAssumption ==
    /\ Capacity \in Nat /\ Capacity >= 2
    /\ Width \in Nat /\ Width >= 2 * Capacity
    /\ Width % Capacity = 0

ASSUME ValueAssumption == NoValue \notin Values

VARIABLES
    head, tail,  \* the two indices
    slots,
    got          \* what the last successful pop returned

Index == 0..(Width - 1)

(* Unsigned arithmetic on indices.                                         *)
Inc(i)      == IF i = Width - 1 THEN 0 ELSE i + 1
Minus(i, j) == IF i >= j THEN i - j ELSE i - j + Width

Slot(i) == i % Capacity

(* The n values from index i on.                                           *)
Queue(s, i, n) == [k \in 1..n |-> s[Slot(i + k - 1)]]

=============================================================================
