------------------------------ MODULE SpscRing ------------------------------
(***************************************************************************)
(* The lock-free ring buffer (spsc_ring_buffer.hpp) with its producer and  *)
(* its consumer thread.  Every step is one access to shared memory, so the *)
(* two threads interleave between the load of the other's index, the slot  *)
(* access and the publishing store.                                        *)
(*                                                                         *)
(* An index is a size_t: it counts modulo Width.  An acquire load of the   *)
(* other thread's index may return any value that index had since the one  *)
(* this thread saw last (coherence), not only the newest.  Data written    *)
(* before a release store is visible to the thread that loaded its value;  *)
(* what it must not do is touch a slot the other thread may still be       *)
(* using, which is the invariant NoDataRace.                               *)
(***************************************************************************)
EXTENDS RingIndex

VARIABLES
    p_pc,        \* where the producer is: "idle", "write" or "publish"
    p_value,     \* the argument of push
    p_seen,      \* the newest tail_ the producer has loaded
    c_pc,        \* where the consumer is: "idle", "read" or "publish"
    c_value,     \* what pop moved out of the slot
    c_seen       \* the newest head_ the consumer has loaded

producer == <<head, p_pc, p_value, p_seen>>
consumer == <<tail, c_pc, c_value, c_seen, got>>
vars     == <<slots, producer, consumer>>

(* The values a load may return when the thread last saw the index at old  *)
(* and it is now at new.                                                   *)
Loads(old, new) == {i \in Index : Minus(i, old) <= Minus(new, old)}

Init ==
    /\ head = 0 /\ tail = 0
    /\ slots = [i \in 0..(Capacity - 1) |-> NoValue]
    /\ p_pc = "idle" /\ p_value = NoValue /\ p_seen = 0
    /\ c_pc = "idle" /\ c_value = NoValue /\ c_seen = 0
    /\ got = << >>

(* Variant: one slot too many.                                             *)
LooksFullLate(t) == Minus(Inc(head), t) > Capacity + 1

(* push: the full test, then the slot, then the index.                     *)
LooksFull(t) == Minus(Inc(head), t) > Capacity

PushFull ==
    /\ p_pc = "idle"
    /\ \E t \in Loads(p_seen, tail) : LooksFull(t) /\ p_seen' = t
    /\ UNCHANGED <<slots, head, p_pc, p_value, consumer>>

PushRoom(v) ==
    /\ p_pc = "idle"
    /\ \E t \in Loads(p_seen, tail) : ~LooksFull(t) /\ p_seen' = t
    /\ p_value' = v
    /\ p_pc' = "write"
    /\ UNCHANGED <<slots, head, consumer>>

PushWrite ==
    /\ p_pc = "write"
    /\ slots' = [slots EXCEPT ![Slot(head)] = p_value]
    /\ p_pc' = "publish"
    /\ UNCHANGED <<head, p_value, p_seen, consumer>>

PushPublish ==
    /\ p_pc = "publish"
    /\ head' = Inc(head)
    /\ p_pc' = "idle"
    /\ UNCHANGED <<slots, p_value, p_seen, consumer>>

(* pop: the empty test, then the slot, then the index.                     *)
PopEmpty ==
    /\ c_pc = "idle"
    /\ \E h \in Loads(c_seen, head) : h = tail /\ c_seen' = h
    /\ UNCHANGED <<slots, producer, tail, c_pc, c_value, got>>

(* Variant: the last value is not seen.                                    *)
PopAllButLast ==
    /\ c_pc = "idle"
    /\ \E h \in Loads(c_seen, head) : Minus(h, tail) > 1 /\ c_seen' = h
    /\ c_pc' = "read"
    /\ UNCHANGED <<slots, producer, tail, c_value, got>>

PopSome ==
    /\ c_pc = "idle"
    /\ \E h \in Loads(c_seen, head) : h # tail /\ c_seen' = h
    /\ c_pc' = "read"
    /\ UNCHANGED <<slots, producer, tail, c_value, got>>

PopRead ==
    /\ c_pc = "read"
    /\ c_value' = slots[Slot(tail)]
    /\ c_pc' = "publish"
    /\ UNCHANGED <<slots, producer, tail, c_seen, got>>

(* Variant: one value is popped and all that were seen are released.       *)
PopReleasingAll ==
    /\ c_pc = "publish"
    /\ tail' = c_seen
    /\ got' = << c_value >>
    /\ c_pc' = "idle"
    /\ UNCHANGED <<slots, producer, c_value, c_seen>>

PopPublish ==
    /\ c_pc = "publish"
    /\ tail' = Inc(tail)
    /\ got' = << c_value >>
    /\ c_pc' = "idle"
    /\ UNCHANGED <<slots, producer, c_value, c_seen>>

Push == PushFull \/ (\E v \in Values : PushRoom(v)) \/ PushWrite \/ PushPublish
Pop  == PopEmpty \/ PopSome \/ PopRead \/ PopPublish

Next == Push \/ Pop

Spec == Init /\ [][Next]_vars

(* A push or pop that has started runs to its end; the consumer keeps      *)
(* polling, and a store becomes visible to it in finite time.              *)
Fairness ==
    /\ WF_vars(PushWrite)
    /\ WF_vars(PushPublish)
    /\ WF_vars(PopSome)
    /\ WF_vars(PopRead)
    /\ WF_vars(PopPublish)

FairSpec == Spec /\ Fairness

-----------------------------------------------------------------------------
(* Every index is in the range of size_t and every slot holds a value.     *)
TypeOK ==
    /\ head \in Index /\ tail \in Index /\ p_seen \in Index /\ c_seen \in Index
    /\ slots \in [0..(Capacity - 1) -> Values \cup {NoValue}]
    /\ p_pc \in {"idle", "write", "publish"}
    /\ c_pc \in {"idle", "read", "publish"}
    /\ p_value \in Values \cup {NoValue}
    /\ c_value \in Values \cup {NoValue}
    /\ got = << >> \/ \E v \in Values : got = << v >>

(* "the producer never overwrites unread data" and "the consumer never     *)
(* sees an index ahead of the data": producer and consumer are never at    *)
(* the same slot, however stale the indices they loaded are and wherever   *)
(* the counters wrap.                                                      *)
NoDataRace ==
    ~(p_pc = "write" /\ c_pc = "read" /\ Slot(head) = Slot(tail))

(* The contents of the ring as a queue: the slots of the size() indices    *)
(* from tail_ on.                                                          *)
Contents == Queue(slots, tail, Minus(head, tail))

F == INSTANCE Fifo WITH queue <- Contents

(* The ring is a bounded first-in first-out queue: at every moment its     *)
(* contents are what was pushed and not popped, in order, never more than  *)
(* Capacity; a push takes effect at its store to head_ and a pop at its    *)
(* store to tail_.                                                         *)
ImplementsFifo == F!Spec

(* What is in the ring is popped: it is empty again and again, or pops     *)
(* keep succeeding, also when the load of head_ is often stale.            *)
ConsumerDrains == []<>(head = tail) \/ []<><<PopPublish>>_vars

=============================================================================
