------------------------------ MODULE ShmRing ------------------------------
(***************************************************************************)
(* The ring in memory that two processes share (shm_ring.hpp): a writer    *)
(* that creates it once and a reader that attaches, both of which die and  *)
(* come back at any point.  A step is one access to the segment, or the    *)
(* accesses between two of them whose order the other process cannot tell. *)
(* The loads return the newest value; SpscRing, whose queue logic this is, *)
(* is about stale ones.                                                    *)
(***************************************************************************)
EXTENDS RingIndex

CONSTANTS
    OldIndex,    \* indices the memory may hold before create
    MaxRefused   \* bound: corruption events counted

ASSUME ShmRingAssumption ==
    /\ OldIndex \subseteq Index
    /\ MaxRefused \in Nat

VARIABLES
    stored,        \* the fields of the header that create has stored
    w_pc,          \* the writer: "dead", "create", "idle", "write" or "publish"
    w_head,        \* push's head
    w_value,       \* and its argument
    r_pc,          \* the reader: "dead", "magic", "idle", "read" or "publish"
    r_tail,        \* pop's tail
    r_value,       \* and what it copied out
    corruption_,   \* of the reader
    good_head,     \* the indices without foreign stores
    good_tail,
    foreign        \* did a foreign store happen?

header   == <<stored, slots>>
writer   == <<w_pc, w_head, w_value>>
reader   == <<r_pc, r_tail, r_value, corruption_>>
ghosts   == <<good_head, good_tail, foreign, got>>
ringvars == <<header, head, tail, writer, reader, ghosts>>

(* What create stores before its release fence.  Whether an attach with a  *)
(* message type of its own would be refused is not part of this.           *)
Fields == {"capacity", "elem_size", "version", "head", "tail"}

(* A fresh segment: no magic, anything for indices.                        *)
RingInit ==
    /\ stored = {}
    /\ head \in OldIndex /\ tail \in OldIndex
    /\ slots = [i \in 0..(Capacity - 1) |-> NoValue]
    /\ w_pc = "create" /\ w_head = 0 /\ w_value = NoValue
    /\ r_pc = "dead" /\ r_tail = 0 /\ r_value = NoValue /\ corruption_ = 0
    /\ good_head = 0 /\ good_tail = 0 /\ foreign = FALSE /\ got = << >>

-----------------------------------------------------------------------------
(* create: the fields in any order the compiler and the processor choose.  *)
CreateStore(f) ==
    /\ w_pc = "create"
    /\ f \in Fields \ stored
    /\ stored' = stored \cup {f}
    /\ head' = IF f = "head" THEN 0 ELSE head
    /\ tail' = IF f = "tail" THEN 0 ELSE tail
    /\ UNCHANGED <<slots, writer, reader, ghosts>>

(* Variant: no fence, so that the magic may be seen first.                 *)
CreateUnfenced ==
    /\ w_pc = "create"
    /\ stored' = stored \cup {"magic"}
    /\ w_pc' = IF Fields \subseteq stored THEN "idle" ELSE w_pc
    /\ UNCHANGED <<slots, head, tail, w_head, w_value, reader, ghosts>>

(* The magic after the fence, then bind.                                   *)
CreateMagic ==
    /\ w_pc = "create"
    /\ Fields \subseteq stored
    /\ stored' = stored \cup {"magic"}
    /\ w_pc' = "idle"
    /\ UNCHANGED <<slots, head, tail, w_head, w_value, reader, ghosts>>

(* A writer that comes back to a segment without the magic creates it.     *)
CreateAgain ==
    /\ w_pc = "dead" /\ "magic" \notin stored
    /\ w_pc' = "create" /\ stored' = {}
    /\ UNCHANGED <<slots, head, tail, w_head, w_value, reader, ghosts>>

(* The tests of attach, which are those of every field behind the magic.   *)
Attachable == {"magic", "version", "elem_size", "capacity"} \subseteq stored

(* An attach that fails leaves its process as it was: it may try again.    *)
WriterAttaches ==
    /\ w_pc = "dead" /\ Attachable
    /\ w_pc' = "idle"
    /\ UNCHANGED <<header, head, tail, w_head, w_value, reader, ghosts>>

(* The magic is read before the acquire fence and the rest after it.       *)
AttachMagic ==
    /\ r_pc = "dead" /\ "magic" \in stored
    /\ r_pc' = "magic"
    /\ UNCHANGED <<header, head, tail, writer, r_tail, r_value, corruption_, ghosts>>

AttachBind ==
    /\ r_pc = "magic"
    /\ r_pc' = IF Attachable THEN "idle" ELSE "dead"
    /\ UNCHANGED <<header, head, tail, writer, r_tail, r_value, corruption_, ghosts>>

-----------------------------------------------------------------------------
(* push: a full ring changes nothing.                                      *)
WriterClaims(v) ==
    /\ w_pc = "idle"
    /\ Minus(head, tail) < Capacity
    /\ w_pc' = "write" /\ w_head' = head /\ w_value' = v
    /\ UNCHANGED <<header, head, tail, reader, ghosts>>

WriterFills ==
    /\ w_pc = "write"
    /\ slots' = [slots EXCEPT ![Slot(w_head)] = w_value]
    /\ w_pc' = "publish"
    /\ UNCHANGED <<stored, head, tail, w_head, w_value, reader, ghosts>>

WriterPublishes ==
    /\ w_pc = "publish"
    /\ head' = Inc(w_head)
    /\ good_head' = Inc(good_head)
    /\ w_pc' = "idle"
    /\ UNCHANGED <<header, tail, w_head, w_value, reader, good_tail, foreign, got>>

(* Variant: the full ring is taken for a corrupt one.                      *)
OutOfRangeEarly(h) == Minus(h, tail) >= Capacity

OutOfRange(h) == Minus(h, tail) > Capacity

(* Variant: the indices are trusted.                                       *)
ReaderTrusts ==
    /\ r_pc = "idle"
    /\ head # tail
    /\ r_pc' = "read" /\ r_tail' = tail
    /\ UNCHANGED <<header, head, tail, writer, r_value, corruption_, ghosts>>

(* pop: an empty ring changes nothing, indices out of range are counted.   *)
ReaderFinds ==
    /\ r_pc = "idle"
    /\ head # tail /\ ~OutOfRange(head)
    /\ r_pc' = "read" /\ r_tail' = tail
    /\ UNCHANGED <<header, head, tail, writer, r_value, corruption_, ghosts>>

ReaderRefuses ==
    /\ r_pc = "idle"
    /\ head # tail /\ OutOfRange(head)
    /\ corruption_ < MaxRefused
    /\ corruption_' = corruption_ + 1
    /\ UNCHANGED <<header, head, tail, writer, r_pc, r_tail, r_value, ghosts>>

ReaderCopies ==
    /\ r_pc = "read"
    /\ r_value' = slots[Slot(r_tail)]
    /\ r_pc' = "publish"
    /\ UNCHANGED <<header, head, tail, writer, r_tail, corruption_, ghosts>>

ReaderPublishes ==
    /\ r_pc = "publish"
    /\ tail' = Inc(r_tail)
    /\ good_tail' = Inc(good_tail)
    /\ got' = << r_value >>
    /\ r_pc' = "idle"
    /\ UNCHANGED <<header, head, writer, r_tail, r_value, corruption_, good_head, foreign>>

-----------------------------------------------------------------------------
(* A process dies wherever it is; only what it stored stays.               *)
WriterDies ==
    /\ w_pc # "dead"
    /\ w_pc' = "dead"
    /\ UNCHANGED <<header, head, tail, w_head, w_value, reader, ghosts>>

ReaderDies ==
    /\ r_pc # "dead"
    /\ r_pc' = "dead" /\ corruption_' = 0
    /\ UNCHANGED <<header, head, tail, writer, r_tail, r_value, ghosts>>

(* A nonsense index: far enough out of range that the operation the other  *)
(* process may be in, which moves its own index by one, does not bring it  *)
(* back.                                                                   *)
Nonsense(h, t) == Minus(h, t) \in (Capacity + 2)..(Width - 2)

(* A foreign build in the place of a dead process stores one.              *)
ForeignStore ==
    /\ Attachable
    /\ \/ w_pc = "dead" /\ head' \in {h \in Index : Nonsense(h, tail)} /\ UNCHANGED tail
       \/ r_pc = "dead" /\ tail' \in {t \in Index : Nonsense(head, t)} /\ UNCHANGED head
    /\ foreign' = TRUE
    /\ UNCHANGED <<header, writer, reader, good_head, good_tail, got>>

(* "Recovering the segment": the index is stored as it should be.          *)
Recover ==
    /\ Attachable
    /\ w_pc \notin {"write", "publish"} /\ r_pc \notin {"read", "publish"}
    /\ head' = good_head /\ tail' = good_tail
    /\ UNCHANGED <<header, writer, reader, ghosts>>

Writer ==
    \/ \E f \in Fields : CreateStore(f)
    \/ CreateMagic \/ CreateAgain \/ WriterAttaches \/ WriterDies
    \/ (\E v \in Values : WriterClaims(v)) \/ WriterFills \/ WriterPublishes

Reader ==
    \/ AttachMagic \/ AttachBind \/ ReaderDies
    \/ ReaderFinds \/ ReaderRefuses \/ ReaderCopies \/ ReaderPublishes

RingNext == Writer \/ Reader \/ ForeignStore \/ Recover

RingSpec == RingInit /\ [][RingNext]_ringvars

-----------------------------------------------------------------------------
RingTypeOK ==
    /\ stored \subseteq Fields \cup {"magic"}
    /\ head \in Index /\ tail \in Index /\ w_head \in Index /\ r_tail \in Index
    /\ good_head \in Index /\ good_tail \in Index
    /\ slots \in [0..(Capacity - 1) -> Values \cup {NoValue}]
    /\ w_pc \in {"dead", "create", "idle", "write", "publish"}
    /\ r_pc \in {"dead", "magic", "idle", "read", "publish"}
    /\ w_value \in Values \cup {NoValue} /\ r_value \in Values \cup {NoValue}
    /\ corruption_ \in 0..MaxRefused /\ foreign \in BOOLEAN

(* "a reader that sees the magic is guaranteed to see a fully initialised  *)
(* header behind it": a process that attached found every field stored,    *)
(* the indices, which no test of attach covers, included, wherever in      *)
(* create the writer is or died.                                           *)
BoundIsWhole == r_pc # "dead" \/ w_pc \notin {"dead", "create"} => Fields \subseteq stored

(* pop counts corruption only after a foreign store: a process that dies   *)
(* between any two steps, and a full ring, leave the indices in range.     *)
CorruptionIsForeign == corruption_ > 0 => foreign

(* The messages between the indices as they would be without foreign       *)
(* stores.                                                                 *)
Messages == Queue(slots, good_tail, Minus(good_head, good_tail))

Q == INSTANCE Fifo WITH queue <- Messages

(* The ring is a bounded first-in first-out queue through deaths and       *)
(* returns of both processes at any step, and through foreign stores: no   *)
(* message is lost, repeated, or read from outside the indices, and once   *)
(* the index is recovered the service goes on where it was.                *)
SurvivesDeaths == Q!Spec

=============================================================================
