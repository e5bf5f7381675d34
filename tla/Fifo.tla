-------------------------------- MODULE Fifo --------------------------------
(***************************************************************************)
(* What a single-producer single-consumer ring promises its callers: a     *)
(* bounded first-in first-out queue.  A push that returns true appends, a  *)
(* pop that returns true hands out the oldest value; calls that return     *)
(* false change nothing and are stuttering steps here.                     *)
(***************************************************************************)
EXTENDS Integers, Sequences

CONSTANTS Values, Capacity

VARIABLES
    queue,   \* the values pushed and not yet popped, oldest first
    got      \* the values the last successful pop returned: at most one

Init == queue = << >> /\ got = << >>

Push == /\ Len(queue) < Capacity
        /\ \E v \in Values : queue' = Append(queue, v)
        /\ UNCHANGED got

Pop == /\ queue # << >>
       /\ queue' = Tail(queue)
       /\ got' = << Head(queue) >>

Next == Push \/ Pop

Spec == Init /\ [][Next]_<<queue, got>>

=============================================================================
