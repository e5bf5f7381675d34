---------------------------- MODULE RingProofs ------------------------------
(***************************************************************************)
(* Theorems about the two rings and the shared memory below and above      *)
(* them.  No mapping extends past its segment, and the name leads to the   *)
(* segment of the creator that lives, for any number of processes, objects *)
(* and segments.  Between threads the ring is free of data races and       *)
(* implements a bounded queue, for every capacity and every width of the   *)
(* indices.  In shared memory it is never bound half-initialised, counts   *)
(* no corruption of its own making, and is a bounded queue through deaths  *)
(* of both processes.  The demo on two rings: its verdict is true and its  *)
(* queue depth is one, for every length of the stream, the warm-up and the *)
(* ping-pong.  Both rings rest on facts about remainders, indices and the  *)
(* queues between two of them, which come before them.                     *)
(***************************************************************************)
EXTENDS SpscRing, ShmRing, PosixShm, ShmIpc, TLAPS

(* What the proofs use of sequences.                                       *)

(* The empty sequence, and the length of any other.                        *)
LEMMA EmptySeq ==
  ASSUME NEW A
  PROVE  /\ << >> \in Seq(A) /\ Len(<< >>) = 0
         /\ \A z \in Seq(A) : z # << >> => Len(z) \in Nat \ {0}
  OBVIOUS

(* A sequence is a function on the numbers up to its length.               *)
LEMMA LenProperties ==
  ASSUME NEW A, NEW z \in Seq(A)
  PROVE  Len(z) \in Nat /\ z \in [1..Len(z) -> A] /\ DOMAIN z = 1..Len(z)
  OBVIOUS

(* A function on the numbers up to n is a sequence.                        *)
LEMMA IsASeq ==
  ASSUME NEW A, NEW n \in Nat, NEW f \in [1..n -> A]
  PROVE  f \in Seq(A) /\ Len(f) = n
  OBVIOUS

(* A sequence with one element replaced.                                   *)
LEMMA ExceptSeq ==
  ASSUME NEW A, NEW z \in Seq(A), NEW k \in 1..Len(z), NEW a \in A
  PROVE  LET w == [z EXCEPT ![k] = a]
         IN  /\ w \in Seq(A) /\ Len(w) = Len(z)
             /\ \A i \in 1..Len(z) : w[i] = IF i = k THEN a ELSE z[i]
  OBVIOUS

(* Sequences of one length with the same elements are the same.            *)
LEMMA SeqEqual ==
  ASSUME NEW A, NEW z \in Seq(A), NEW w \in Seq(A),
         Len(z) = Len(w), \A k \in 1..Len(z) : z[k] = w[k]
  PROVE  z = w
  OBVIOUS

(* The first element and the rest.                                         *)
LEMMA HeadTailProperties ==
  ASSUME NEW A, NEW z \in Seq(A), z # << >>
  PROVE  /\ Head(z) \in A /\ Tail(z) \in Seq(A) /\ Len(Tail(z)) = Len(z) - 1
         /\ \A k \in 1..Len(Tail(z)) : Tail(z)[k] = z[k + 1]
  OBVIOUS

(* A sequence with one element more.                                       *)
LEMMA AppendProperties ==
  ASSUME NEW A, NEW z \in Seq(A), NEW a \in A
  PROVE  /\ Append(z, a) \in Seq(A) /\ Append(z, a) # << >>
         /\ Len(Append(z, a)) = Len(z) + 1 /\ Append(z, a)[Len(z) + 1] = a
         /\ \A k \in 1..Len(z) : Append(z, a)[k] = z[k]
  OBVIOUS

-----------------------------------------------------------------------------
(* The segments and their name.                                            *)

(* The inductive invariant.  What holds of an object by itself: the file   *)
(* it has open and how much of it its next call may count on.              *)
ObjectOK(o, z) ==
    /\ o.fd = 0 => o.next = "none"
    /\ o.owner => o.next = "none" /\ o.addr # 0 /\ o.addr = o.fd
    /\ o.next = "ftruncate" => z[o.fd] = 0
    /\ o.next \in {"mmap", "map"} => o.bytes <= z[o.fd]
    /\ o.addr # 0 => o.size <= z[o.addr]

(* What holds of a process: one that is not running has no objects, and a  *)
(* child is making none.                                                   *)
ProcessOK(p) ==
    /\ process[p] = "down" => \A s \in Slots : objects[p][s] = Empty
    /\ process[p] = "forked" => \A s \in Slots : objects[p][s].next \notin {"ftruncate", "mmap"}

(* No two objects make one segment.                                        *)
OneMaker ==
    \A p, q \in Procs : \A s, t \in Slots :
        /\ objects[p][s].next = "ftruncate" /\ objects[q][t].next = "ftruncate"
        /\ objects[p][s].fd = objects[q][t].fd
        => p = q /\ s = t

Creator(p, s) == process[p] = "up" /\ Made(objects[p][s])

(* The creator that lives, if any, is one, and the name leads to it.       *)
OneCreator ==
    /\ \A p, q \in Procs : \A s, t \in Slots : Creator(p, s) /\ Creator(q, t) => p = q /\ s = t
    /\ \A p \in Procs : \A s \in Slots : Creator(p, s) => name = objects[p][s].fd
    /\ name # 0 /\ ~crashed => \E p \in Procs : \E s \in Slots : Creator(p, s)

SegmentsInv ==
    /\ SegmentsTypeOK
    /\ \A p \in Procs : ProcessOK(p) /\ \A s \in Slots : ObjectOK(objects[p][s], sizes)
    /\ OneMaker
    /\ Considerate => OneCreator

(* The objects there may be when n segments were made.                     *)
Object(n) ==
    [addr: 0..n, size: Sizes \cup {0}, fd: 0..n, owner: BOOLEAN,
     next: {"none", "ftruncate", "mmap", "fstat", "map"}, bytes: Sizes \cup {0}]

LEMMA EmptyFacts ==
  ASSUME NEW n \in Nat, NEW z
  PROVE  /\ Empty \in Object(n) /\ ObjectOK(Empty, z) /\ ~Made(Empty)
         /\ Empty.next = "none" /\ ~Empty.owner /\ Empty.addr = 0 /\ Empty.fd = 0
BY DEF Empty, Object, ObjectOK, Made

LEMMA TypeFacts ==
  ASSUME SegmentsTypeOK
  PROVE  /\ sizes \in Seq(Sizes \cup {0}) /\ Len(sizes) \in Nat
         /\ \A i \in 1..Len(sizes) : sizes[i] \in Nat
         /\ objects \in [Procs -> [Slots -> Object(Len(sizes))]]
         /\ \A p \in Procs, s \in Slots : objects[p][s] \in Object(Len(sizes))
<1>1. sizes \in Seq(Sizes \cup {0}) /\ Len(sizes) \in Nat /\ Sizes \subseteq Nat
  BY ShmAssumption DEF SegmentsTypeOK
<1>2. \A i \in 1..Len(sizes) : sizes[i] \in Sizes \cup {0}
  BY <1>1
<1>3. objects \in [Procs -> [Slots -> Object(Len(sizes))]]
  BY Zenon DEF SegmentsTypeOK, Object
<1>4. \A p \in Procs, s \in Slots : objects[p][s] \in Object(Len(sizes))
  BY <1>3, Zenon
<1>5. \A i \in 1..Len(sizes) : sizes[i] \in Nat
  <2>1. Sizes \cup {0} \subseteq Nat
    BY ShmAssumption
  <2> QED  BY <1>2, <2>1, Zenon
<1> QED  BY <1>1, <1>3, <1>4, <1>5, Zenon

(* One object changes.                                                     *)
LEMMA SetFacts ==
  ASSUME SegmentsTypeOK, NEW p \in Procs, NEW s \in Slots, NEW o, Set(p, s, o)
  PROVE  /\ \A q \in Procs, t \in Slots :
              objects'[q][t] = IF q = p /\ t = s THEN o ELSE objects[q][t]
         /\ \A n \in Nat : n >= Len(sizes) /\ o \in Object(n) =>
              objects' \in [Procs -> [Slots -> Object(n)]]
<1>1. objects \in [Procs -> [Slots -> Object(Len(sizes))]]
  BY TypeFacts, Zenon
<1>2. \A q \in Procs, t \in Slots :
          objects'[q][t] = IF q = p /\ t = s THEN o ELSE objects[q][t]
  BY <1>1, Zenon DEF Set
<1>3. ASSUME NEW n \in Nat, n >= Len(sizes), o \in Object(n)
      PROVE  objects' \in [Procs -> [Slots -> Object(n)]]
  <2>1. Object(Len(sizes)) \subseteq Object(n)
    <3>1. 0..Len(sizes) \subseteq 0..n
      BY <1>3, TypeFacts
    <3> QED  BY <3>1, Zenon DEF Object
  <2> HIDE DEF Object
  <2>2. objects[p] \in [Slots -> Object(n)]
    BY <1>1, <2>1, Zenon
  <2>3. objects \in [Procs -> [Slots -> Object(n)]]
    BY <1>1, <2>1, Zenon
  <2> QED  BY <1>3, <2>2, <2>3, Zenon DEF Set
<1> QED  BY <1>2, <1>3, Zenon

LEMMA SegmentsInitially == SegmentsInit => SegmentsInv
<1> SUFFICES ASSUME SegmentsInit PROVE SegmentsInv
  OBVIOUS
<1>1. \A p \in Procs, s \in Slots : objects[p][s] = Empty
  BY Zenon DEF SegmentsInit
<1>2. sizes = << >> /\ Len(sizes) = 0 /\ name = 0 /\ process = [p \in Procs |-> "down"]
  BY Zenon DEF SegmentsInit
<1>3. SegmentsTypeOK
  <2>1. objects \in [Procs -> [Slots -> Object(0)]]
    BY EmptyFacts, Zenon DEF SegmentsInit
  <2>2. MaxSegments \in Nat
    BY ShmAssumption, Zenon
  <2>3. sizes \in Seq(Sizes \cup {0}) /\ Len(sizes) <= MaxSegments /\ name \in 0..Len(sizes)
    BY <1>2, <2>2
  <2>4. process \in [Procs -> {"up", "forked", "down"}] /\ crashed \in BOOLEAN
    BY <1>2, Zenon DEF SegmentsInit
  <2> QED  BY <1>2, <2>1, <2>3, <2>4, Zenon DEF SegmentsTypeOK, Object
<1>4. \A p \in Procs : ProcessOK(p) /\ \A s \in Slots : ObjectOK(objects[p][s], sizes)
  BY <1>1, <1>2, EmptyFacts, Zenon DEF ProcessOK
<1>5. OneMaker /\ OneCreator
  BY <1>1, <1>2, EmptyFacts, Zenon DEF OneMaker, OneCreator, Creator
<1> QED  BY <1>3, <1>4, <1>5, Zenon DEF SegmentsInv

-----------------------------------------------------------------------------
(* A step of one object that makes no segment and is no new creator.  If   *)
(* it removes the name, it was the creator and is no longer.               *)
LEMMA ObjectStep ==
  ASSUME SegmentsInv, NEW p \in Procs, NEW s \in Slots, NEW o \in Object(Len(sizes)), Set(p, s, o),
         UNCHANGED <<sizes, process, crashed>>,
         process[p] # "down",
         ObjectOK(o, sizes), o.next # "ftruncate",
         process[p] = "forked" => o.next # "mmap",
         Made(o) => Made(objects[p][s]) /\ o.fd = objects[p][s].fd,
         \/ name' = name /\ (Made(objects[p][s]) => Made(o))
         \/ name' = 0 /\ process[p] = "up" /\ Made(objects[p][s]) /\ ~Made(o)
  PROVE  SegmentsInv'
<1>1. SegmentsTypeOK /\ Len(sizes) \in Nat
  BY TypeFacts, Zenon DEF SegmentsInv
<1>2. \A q \in Procs, t \in Slots :
          objects'[q][t] = IF q = p /\ t = s THEN o ELSE objects[q][t]
  BY <1>1, SetFacts
<1>3. objects' \in [Procs -> [Slots -> Object(Len(sizes))]]
  BY <1>1, SetFacts
<1>4. SegmentsTypeOK'
  <2>1. name' \in 0..Len(sizes)
    BY <1>1 DEF SegmentsTypeOK
  <2> QED  BY <1>1, <1>3, <2>1, Zenon DEF SegmentsTypeOK, Object
<1>5. ASSUME NEW q \in Procs
      PROVE  ProcessOK(q)' /\ \A t \in Slots : ObjectOK(objects[q][t], sizes)'
  <2>1. ProcessOK(q) /\ \A t \in Slots : ObjectOK(objects[q][t], sizes)
    BY Zenon DEF SegmentsInv
  <2>2. ProcessOK(q)'
    BY <1>2, <2>1, Zenon DEF ProcessOK
  <2>3. \A t \in Slots : ObjectOK(objects'[q][t], sizes)
    BY <1>2, <2>1, Zenon
  <2> QED  BY <2>2, <2>3, Zenon DEF ObjectOK
<1>6. OneMaker'
  BY <1>2 DEF SegmentsInv, OneMaker
<1>7. ASSUME Considerate
      PROVE  OneCreator'
  <2>1. OneCreator
    BY <1>7, Zenon DEF SegmentsInv
  <2>2. ASSUME NEW q \in Procs, NEW t \in Slots, Creator(q, t)'
        PROVE  Creator(q, t) /\ objects'[q][t].fd = objects[q][t].fd
    BY <1>2, <2>2, Zenon DEF Creator, Made
  <2>3. CASE name' = name /\ (Made(objects[p][s]) => Made(o))
    <3>1. ASSUME NEW q \in Procs, NEW t \in Slots, Creator(q, t)
          PROVE  Creator(q, t)'
      BY <1>2, <2>3, <3>1, Zenon DEF Creator, Made
    <3> QED  BY <2>1, <2>2, <2>3, <3>1 DEF OneCreator
  <2>4. CASE name' = 0 /\ process[p] = "up" /\ Made(objects[p][s]) /\ ~Made(o)
    <3>1. Creator(p, s) /\ ~Creator(p, s)'
      BY <1>2, <2>4, Zenon DEF Creator, Made
    <3>2. \A q \in Procs, t \in Slots : ~Creator(q, t)'
      BY <2>1, <2>2, <3>1 DEF OneCreator
    <3> QED  BY <2>4, <3>2, Zenon DEF OneCreator
  <2> QED  BY <2>3, <2>4, Zenon
<1> QED  BY <1>4, <1>5, <1>6, <1>7, Zenon DEF SegmentsInv

(* The steps of create() but its shm_open and ftruncate, of                *)
(* open_existing(), and close().                                           *)
LEMMA CallStep ==
  ASSUME SegmentsInv, NEW p \in Procs, NEW s \in Slots,
         \/ CreateFails(p, s, "ftruncate") \/ CreateFails(p, s, "mmap") \/ CreateMap(p, s)
         \/ open_existing(p, s) \/ close(p, s)
  PROVE  SegmentsInv'
<1> DEFINE old == objects[p][s]
<1>1. /\ SegmentsTypeOK /\ Len(sizes) \in Nat /\ old \in Object(Len(sizes)) /\ ObjectOK(old, sizes)
      /\ ProcessOK(p) /\ process[p] \in {"up", "forked", "down"} /\ name \in 0..Len(sizes)
  BY TypeFacts, Zenon DEF SegmentsInv, SegmentsTypeOK
<1>2. CASE CreateFails(p, s, "ftruncate") \/ CreateFails(p, s, "mmap")
  <2>1. process[p] = "up" /\ Made(old)
    BY <1>1, <1>2, Zenon DEF CreateFails, At, ProcessOK, Made
  <2> QED  BY <1>1, <1>2, <2>1, ObjectStep, EmptyFacts, Zenon DEF CreateFails
<1>3. CASE CreateMap(p, s)
  <2> DEFINE o == [Empty EXCEPT !.addr = old.fd, !.size = old.bytes, !.fd = old.fd, !.owner = TRUE]
  <2>1. Set(p, s, o) /\ UNCHANGED <<name, sizes, process, crashed>> /\ At(p, s, "mmap")
    BY <1>3, Zenon DEF CreateMap
  <2>2. old.next = "mmap" /\ process[p] = "up" /\ Made(old)
    BY <1>1, <2>1, Zenon DEF At, ProcessOK, Made
  <2>3. o \in Object(Len(sizes)) /\ ObjectOK(o, sizes) /\ o.next = "none" /\ Made(o) /\ o.fd = old.fd
    BY <1>1, <2>2, Zenon DEF Object, ObjectOK, Made, Empty
  <2> HIDE DEF o
  <2> QED  BY <2>1, <2>2, <2>3, ObjectStep, Zenon
<1>4. ASSUME NEW bytes \in Sizes, Open(p, s, bytes)
      PROVE  SegmentsInv'
  <2> DEFINE o == [Empty EXCEPT !.fd = name, !.next = "fstat", !.bytes = bytes]
  <2>1. /\ Set(p, s, o) /\ UNCHANGED <<name, sizes, process, crashed>>
        /\ process[p] # "down" /\ old = Empty /\ name # 0
    BY <1>4, Zenon DEF Open
  <2>2. o \in Object(Len(sizes)) /\ ObjectOK(o, sizes) /\ o.next = "fstat" /\ ~Made(o)
    BY <1>1, <2>1, Zenon DEF Object, ObjectOK, Made, Empty
  <2> HIDE DEF o
  <2> QED  BY <2>1, <2>2, ObjectStep, EmptyFacts, <1>1, Zenon
<1>5. CASE OpenStat(p, s)
  <2> DEFINE o == [old EXCEPT !.next = "map"]
  <2>1. /\ Set(p, s, o) /\ UNCHANGED <<name, sizes, process, crashed>> /\ At(p, s, "fstat")
        /\ old.bytes <= sizes[old.fd]
    BY <1>5, Zenon DEF OpenStat
  <2>2. old.next = "fstat" /\ process[p] # "down" /\ ~Made(old)
    BY <1>1, <2>1, Zenon DEF At, Made, ObjectOK
  <2>3. o \in Object(Len(sizes)) /\ ObjectOK(o, sizes) /\ o.next = "map" /\ ~Made(o)
    BY <1>1, <2>1, <2>2, Zenon DEF Object, ObjectOK, Made
  <2> HIDE DEF o
  <2> QED  BY <2>1, <2>2, <2>3, ObjectStep, Zenon
<1>6. CASE OpenMap(p, s)
  <2> DEFINE o == [Empty EXCEPT !.addr = old.fd, !.size = old.bytes, !.fd = old.fd]
  <2>1. Set(p, s, o) /\ UNCHANGED <<name, sizes, process, crashed>> /\ At(p, s, "map")
    BY <1>6, Zenon DEF OpenMap
  <2>2. old.next = "map" /\ process[p] # "down" /\ ~Made(old)
    BY <1>1, <2>1, Zenon DEF At, Made, ObjectOK
  <2>3. o \in Object(Len(sizes)) /\ ObjectOK(o, sizes) /\ o.next = "none" /\ ~Made(o)
    BY <1>1, <2>1, <2>2, Zenon DEF Object, ObjectOK, Made, Empty
  <2> HIDE DEF o
  <2> QED  BY <2>1, <2>2, <2>3, ObjectStep, Zenon
<1>7. CASE OpenFails(p, s)
  <2>1. process[p] # "down" /\ ~Made(old)
    BY <1>1, <1>7, Zenon DEF OpenFails, At, Made, ObjectOK
  <2> QED  BY <1>1, <1>7, <2>1, ObjectStep, EmptyFacts, Zenon DEF OpenFails
<1>8. CASE close(p, s)
  <2>1. process[p] = "up" /\ (Made(old) <=> old.owner)
    BY <1>8, Zenon DEF close, Made
  <2>2. name' = IF old.owner THEN 0 ELSE name
    BY <1>8, Zenon DEF close, NameAfter
  <2> QED  BY <1>1, <1>8, <2>1, <2>2, ObjectStep, EmptyFacts, Zenon DEF close
<1> QED  BY <1>2, <1>3, <1>4, <1>5, <1>6, <1>7, <1>8, Zenon DEF open_existing

(* shm_open makes a segment no object knows of.                            *)
LEMMA CreateOpenStep ==
  ASSUME SegmentsInv, NEW p \in Procs, NEW s \in Slots, NEW bytes \in Sizes, CreateOpen(p, s, bytes)
  PROVE  SegmentsInv'
<1> DEFINE n == Len(sizes) + 1
           o == [Empty EXCEPT !.fd = n, !.next = "ftruncate", !.bytes = bytes]
<1>1. /\ process[p] = "up" /\ objects[p][s] = Empty /\ name = 0 /\ Len(sizes) < MaxSegments
      /\ name' = n /\ sizes' = Append(sizes, 0) /\ Set(p, s, o) /\ UNCHANGED <<process, crashed>>
  BY Zenon DEF CreateOpen
<1>2. /\ SegmentsTypeOK /\ Len(sizes) \in Nat /\ sizes \in Seq(Sizes \cup {0})
      /\ \A q \in Procs, t \in Slots : objects[q][t] \in Object(Len(sizes))
  BY TypeFacts, Zenon DEF SegmentsInv
<1>3. n \in Nat /\ n >= Len(sizes) /\ n # 0
  BY <1>2
<1>4. /\ sizes' \in Seq(Sizes \cup {0}) /\ Len(sizes') = n
      /\ sizes'[n] = 0 /\ \A i \in 1..Len(sizes) : sizes'[i] = sizes[i]
  BY <1>1, <1>2
<1>5. o \in Object(n) /\ ~o.owner /\ o.addr = 0 /\ o.next = "ftruncate" /\ o.fd = n /\ Made(o)
  <2>1. 0 \in 0..n /\ n \in 0..n
    BY <1>3
  <2> HIDE DEF n
  <2> QED  BY <2>1, Zenon DEF Object, Empty, Made
<1> HIDE DEF o, n
<1>6. /\ \A q \in Procs, t \in Slots :
           objects'[q][t] = IF q = p /\ t = s THEN o ELSE objects[q][t]
      /\ objects' \in [Procs -> [Slots -> Object(n)]]
  BY <1>1, <1>2, <1>3, <1>5, SetFacts
<1>7. SegmentsTypeOK'
  <2>1. Len(sizes') <= MaxSegments /\ name' \in 0..Len(sizes')
    BY <1>1, <1>2, <1>3, <1>4, ShmAssumption DEF n
  <2> QED  BY <1>1, <1>2, <1>4, <1>6, <2>1, Zenon DEF SegmentsTypeOK, Object
<1>8. ASSUME NEW q \in Procs
      PROVE  ProcessOK(q)' /\ \A t \in Slots : ObjectOK(objects[q][t], sizes)'
  <2>1. ProcessOK(q) /\ \A t \in Slots : ObjectOK(objects[q][t], sizes)
    BY Zenon DEF SegmentsInv
  <2>2. ProcessOK(q)'
    BY <1>1, <1>6, <2>1, Zenon DEF ProcessOK
  <2>3. ASSUME NEW t \in Slots
        PROVE  ObjectOK(objects'[q][t], sizes')
    <3>1. CASE q = p /\ t = s
      BY <1>3, <1>4, <1>5, <1>6, <3>1, Zenon DEF ObjectOK
    <3>2. CASE ~(q = p /\ t = s)
      <4> DEFINE u == objects[q][t]
      <4>1. u.fd \in 0..Len(sizes) /\ u.addr \in 0..Len(sizes) /\ ObjectOK(u, sizes)
        BY <1>2, <2>1, Zenon DEF Object
      <4>2. /\ u.fd # 0 => sizes'[u.fd] = sizes[u.fd]
            /\ u.addr # 0 => sizes'[u.addr] = sizes[u.addr]
        BY <1>2, <1>4, <4>1
      <4>3. objects'[q][t] = u
        BY <1>6, <3>2, Zenon
      <4> QED  BY <4>1, <4>2, <4>3, Zenon DEF ObjectOK
    <3> QED  BY <3>1, <3>2, Zenon
  <2> QED  BY <2>2, <2>3, Zenon DEF ObjectOK
<1>9. OneMaker'
  <2>1. \A q \in Procs, t \in Slots : objects[q][t].fd # n
    BY <1>2 DEF Object, n
  <2> QED  BY <1>5, <1>6, <2>1 DEF SegmentsInv, OneMaker
<1>10. ASSUME Considerate
       PROVE  OneCreator'
  <2>1. \A q \in Procs, t \in Slots : ~Creator(q, t)
    <3> SUFFICES ASSUME NEW q \in Procs, NEW t \in Slots, Creator(q, t) PROVE FALSE
      OBVIOUS
    <3>1. objects[q][t].fd = 0 /\ ObjectOK(objects[q][t], sizes)
      BY <1>1, <1>10, Zenon DEF SegmentsInv, OneCreator
    <3> QED  BY <3>1, Zenon DEF Creator, Made, ObjectOK
  <2>2. \A q \in Procs, t \in Slots : Creator(q, t)' <=> q = p /\ t = s
    BY <1>1, <1>5, <1>6, <2>1, Zenon DEF Creator, Made
  <2> QED  BY <1>1, <1>5, <1>6, <2>2, Zenon DEF OneCreator
<1> QED  BY <1>7, <1>8, <1>9, <1>10, Zenon DEF SegmentsInv

(* ftruncate gives the segment its size, which was zero.                   *)
LEMMA CreateTruncateStep ==
  ASSUME SegmentsInv, NEW p \in Procs, NEW s \in Slots, CreateTruncate(p, s)
  PROVE  SegmentsInv'
<1> DEFINE old == objects[p][s]
           o == [old EXCEPT !.next = "mmap"]
<1>1. /\ process[p] # "down" /\ old.next = "ftruncate"
      /\ sizes' = [sizes EXCEPT ![old.fd] = old.bytes] /\ Set(p, s, o)
      /\ UNCHANGED <<name, process, crashed>>
  BY Zenon DEF CreateTruncate, At
<1>2. /\ SegmentsTypeOK /\ Len(sizes) \in Nat /\ sizes \in Seq(Sizes \cup {0})
      /\ \A i \in 1..Len(sizes) : sizes[i] \in Nat
      /\ \A q \in Procs, t \in Slots : objects[q][t] \in Object(Len(sizes))
      /\ ObjectOK(old, sizes) /\ ProcessOK(p)
  BY TypeFacts, Zenon DEF SegmentsInv
<1>3. /\ old.fd \in 1..Len(sizes) /\ sizes[old.fd] = 0 /\ old.bytes \in Sizes \cup {0} /\ old.bytes \in Nat
      /\ process[p] = "up"
  BY <1>1, <1>2, ShmAssumption DEF Object, ObjectOK, ProcessOK, SegmentsTypeOK
<1>4. /\ o \in Object(Len(sizes)) /\ o.next = "mmap" /\ o.fd = old.fd /\ o.bytes = old.bytes
      /\ o.addr = old.addr /\ o.size = old.size /\ o.owner = old.owner
      /\ Made(o) /\ Made(old)
  BY <1>1, <1>2, Zenon DEF Object, Made
<1>5. /\ sizes' \in Seq(Sizes \cup {0}) /\ Len(sizes') = Len(sizes)
      /\ sizes'[old.fd] = old.bytes
      /\ \A i \in 1..Len(sizes) : i # old.fd => sizes'[i] = sizes[i]
  BY <1>1, <1>2, <1>3, ExceptSeq
<1>6. \A i \in 1..Len(sizes) : sizes[i] <= sizes'[i] /\ sizes'[i] \in Nat
  BY <1>2, <1>3, <1>5
<1> HIDE DEF o
<1>7. /\ \A q \in Procs, t \in Slots :
           objects'[q][t] = IF q = p /\ t = s THEN o ELSE objects[q][t]
      /\ objects' \in [Procs -> [Slots -> Object(Len(sizes))]]
  BY <1>1, <1>2, <1>4, SetFacts
<1>8. SegmentsTypeOK'
  BY <1>1, <1>2, <1>5, <1>7, Zenon DEF SegmentsTypeOK, Object
<1>9. ASSUME NEW q \in Procs
      PROVE  ProcessOK(q)' /\ \A t \in Slots : ObjectOK(objects[q][t], sizes)'
  <2>1. ProcessOK(q) /\ \A t \in Slots : ObjectOK(objects[q][t], sizes)
    BY Zenon DEF SegmentsInv
  <2>2. ProcessOK(q)'
    BY <1>1, <1>3, <1>7, <2>1, SMTT(30) DEF ProcessOK
  <2>3. ASSUME NEW t \in Slots
        PROVE  ObjectOK(objects'[q][t], sizes')
    <3> DEFINE u == objects[q][t]
    <3>1. /\ u.fd \in 0..Len(sizes) /\ u.addr \in 0..Len(sizes) /\ ObjectOK(u, sizes)
          /\ u.bytes \in Nat /\ u.size \in Nat
      <4>1. u \in Object(Len(sizes)) /\ ObjectOK(u, sizes)
        BY <1>2, <2>1, Zenon
      <4> HIDE DEF u
      <4>2. /\ u.fd \in 0..Len(sizes) /\ u.addr \in 0..Len(sizes)
            /\ u.bytes \in Sizes \cup {0} /\ u.size \in Sizes \cup {0}
        BY <4>1, Zenon DEF Object
      <4>3. Sizes \cup {0} \subseteq Nat
        BY ShmAssumption
      <4> QED  BY <4>1, <4>2, <4>3, Zenon
    <3>2. /\ u.fd # 0 => sizes[u.fd] <= sizes'[u.fd] /\ sizes'[u.fd] \in Nat /\ sizes[u.fd] \in Nat
          /\ u.addr # 0 => sizes[u.addr] <= sizes'[u.addr] /\ sizes'[u.addr] \in Nat /\ sizes[u.addr] \in Nat
      BY <1>2, <1>6, <3>1
    <3>3. u.addr # 0 => u.size <= sizes'[u.addr]
      BY <3>1, <3>2 DEF ObjectOK
    <3>4. CASE q = p /\ t = s
      <4>1. objects'[q][t] = o /\ u = old
        BY <1>7, <3>4, Zenon
      <4>2. o.bytes <= sizes'[o.fd] /\ o.fd # 0
        BY <1>3, <1>4, <1>5
      <4>3. o.addr # 0 => o.size <= sizes'[o.addr]
        BY <1>4, <3>3, <4>1, Zenon
      <4>4. ~o.owner
        BY <1>1, <1>2, <1>4, SMTT(30) DEF ObjectOK
      <4> QED  BY <1>4, <4>1, <4>2, <4>3, <4>4, Zenon DEF ObjectOK
    <3>5. CASE ~(q = p /\ t = s)
      <4>1. objects'[q][t] = u
        BY <1>7, <3>5, Zenon
      <4>2. u.next = "ftruncate" => sizes'[u.fd] = 0
        <5> SUFFICES ASSUME u.next = "ftruncate" PROVE sizes'[u.fd] = 0
          OBVIOUS
        <5>1. u.fd # old.fd
          BY <1>1, <3>5, Zenon DEF SegmentsInv, OneMaker
        <5>2. u.fd # 0 /\ sizes[u.fd] = 0
          <6>1. ObjectOK(u, sizes) /\ u.next # "none"
            BY <3>1, Zenon
          <6> HIDE DEF u
          <6> QED  BY <6>1, Zenon DEF ObjectOK
        <5> QED  BY <1>2, <1>5, <3>1, <5>1, <5>2
      <4>3. u.next \in {"mmap", "map"} => u.bytes <= sizes'[u.fd]
        BY <3>1, <3>2 DEF ObjectOK
      <4> QED  BY <3>1, <3>3, <4>1, <4>2, <4>3, Zenon DEF ObjectOK
    <3> QED  BY <3>4, <3>5, Zenon
  <2> QED  BY <2>2, <2>3, Zenon DEF ObjectOK
<1>10. OneMaker'
  BY <1>4, <1>7, SMTT(30) DEF SegmentsInv, OneMaker
<1>11. ASSUME Considerate
       PROVE  OneCreator'
  <2>1. \A q \in Procs, t \in Slots :
            /\ Creator(q, t)' <=> Creator(q, t)
            /\ objects'[q][t].fd = objects[q][t].fd
    BY <1>1, <1>4, <1>7, Zenon DEF Creator, Made
  <2> QED  BY <1>1, <1>11, <2>1 DEF SegmentsInv, OneCreator
<1> QED  BY <1>8, <1>9, <1>10, <1>11, Zenon DEF SegmentsInv

(* Both objects of a move: the one moved from is empty, the other has what *)
(* it held.                                                                *)
LEMMA MoveStep ==
  ASSUME SegmentsInv, NEW p \in Procs, NEW s \in Slots, NEW t \in Slots, move(p, s, t)
  PROVE  SegmentsInv'
<1>1. /\ process[p] = "up" /\ s # t
      /\ objects[p][s].next = "none" /\ objects[p][t].next = "none"
      /\ name' = IF objects[p][t].owner THEN 0 ELSE name
      /\ objects' = [objects EXCEPT ![p][t] = objects[p][s], ![p][s] = Empty]
      /\ UNCHANGED <<sizes, process, crashed>>
  BY Zenon DEF move, NameAfter
<1>2. /\ SegmentsTypeOK /\ Len(sizes) \in Nat /\ objects \in [Procs -> [Slots -> Object(Len(sizes))]]
      /\ name \in 0..Len(sizes)
  BY TypeFacts, Zenon DEF SegmentsInv, SegmentsTypeOK
<1>3. Empty \in Object(Len(sizes))
  BY <1>2, EmptyFacts, Zenon
<1> HIDE DEF Object
<1>4. /\ objects'[p][t] = objects[p][s] /\ objects'[p][s] = Empty
      /\ \A q \in Procs, u \in Slots : q # p \/ u \notin {s, t} => objects'[q][u] = objects[q][u]
  BY <1>1, <1>2, Zenon
<1>5. objects' \in [Procs -> [Slots -> Object(Len(sizes))]]
  <2> DEFINE u == [objects[p] EXCEPT ![t] = objects[p][s], ![s] = Empty]
  <2>1. u \in [Slots -> Object(Len(sizes))]
    BY <1>2, <1>3, Zenon
  <2>2. objects' = [objects EXCEPT ![p] = u]
    BY <1>1, <1>2, Zenon
  <2> HIDE DEF u
  <2> QED  BY <1>2, <2>1, <2>2, Zenon
<1>6. SegmentsTypeOK'
  <2>1. name' \in 0..Len(sizes)
    BY <1>1, <1>2
  <2> QED  BY <1>1, <1>2, <1>5, <2>1, Zenon DEF SegmentsTypeOK, Object
<1>7. ASSUME NEW q \in Procs
      PROVE  ProcessOK(q)' /\ \A u \in Slots : ObjectOK(objects[q][u], sizes)'
  <2>1. ProcessOK(q) /\ \A u \in Slots : ObjectOK(objects[q][u], sizes) /\ ObjectOK(objects[p][s], sizes)
    BY Zenon DEF SegmentsInv
  <2>2. ProcessOK(q)'
    BY <1>1, <1>4, <2>1, Zenon DEF ProcessOK
  <2>3. \A u \in Slots : ObjectOK(objects'[q][u], sizes)
    BY <1>2, <1>4, <2>1, EmptyFacts, Zenon
  <2> QED  BY <1>1, <2>2, <2>3, Zenon DEF ObjectOK
<1>8. OneMaker'
  BY <1>1, <1>2, <1>4, EmptyFacts DEF SegmentsInv, OneMaker
<1>9. ASSUME Considerate
      PROVE  OneCreator'
  <2>1. OneCreator /\ ~Made(Empty)
    BY <1>2, <1>9, EmptyFacts, Zenon DEF SegmentsInv
  <2>2. /\ ~Creator(p, s)' /\ (Creator(p, t)' <=> Creator(p, s))
        /\ \A q \in Procs, u \in Slots : q # p \/ u \notin {s, t} => (Creator(q, u)' <=> Creator(q, u))
    BY <1>1, <1>4, <2>1, Zenon DEF Creator, Made
  <2>3. CASE objects[p][t].owner
    <3>1. Creator(p, t)
      BY <1>1, <2>3, Zenon DEF Creator, Made
    <3>2. \A q \in Procs, u \in Slots : Creator(q, u) => q = p /\ u = t
      BY <2>1, <3>1, Zenon DEF OneCreator
    <3>3. \A q \in Procs, u \in Slots : ~Creator(q, u)'
      BY <1>1, <2>2, <3>2, Zenon
    <3> QED  BY <1>1, <2>3, <3>3, Zenon DEF OneCreator
  <2>4. CASE ~objects[p][t].owner
    <3>1. ~Creator(p, t) /\ name' = name
      BY <1>1, <2>4, Zenon DEF Creator, Made
    <3>2. ASSUME NEW q \in Procs, NEW u \in Slots, Creator(q, u)
          PROVE  IF q = p /\ u = s THEN Creator(p, t)' /\ objects'[p][t] = objects[q][u]
                 ELSE Creator(q, u)' /\ objects'[q][u] = objects[q][u]
      BY <1>1, <1>4, <2>2, <3>1, <3>2, Zenon
    <3>3. ASSUME NEW q \in Procs, NEW u \in Slots, Creator(q, u)'
          PROVE  IF q = p /\ u = t THEN Creator(p, s) /\ objects'[q][u] = objects[p][s]
                 ELSE Creator(q, u) /\ objects'[q][u] = objects[q][u]
      BY <1>1, <1>4, <2>2, <3>1, <3>3, Zenon
    <3>4. \A q, r \in Procs : \A u, v \in Slots : Creator(q, u)' /\ Creator(r, v)' => q = r /\ u = v
      <4>1. \A q, r \in Procs : \A u, v \in Slots : Creator(q, u) /\ Creator(r, v) => q = r /\ u = v
        BY <2>1, Zenon DEF OneCreator
      <4>2. \A q \in Procs : \A u \in Slots :
                Creator(q, u)' => (q = p /\ u = t /\ Creator(p, s)) \/ Creator(q, u)
        BY <3>3, Zenon
      <4>3. ~Creator(p, t) /\ ~Creator(p, s)' /\ s # t
        BY <1>1, <2>2, <3>1, Zenon
      <4> QED  BY <4>1, <4>2, <4>3, Zenon
    <3>5. \A q \in Procs : \A u \in Slots : Creator(q, u)' => name' = objects'[q][u].fd
      BY <2>1, <3>1, <3>3 DEF OneCreator
    <3>6. name' # 0 /\ ~crashed' => \E q \in Procs : \E u \in Slots : Creator(q, u)'
      BY <1>1, <2>1, <3>1, <3>2, Zenon DEF OneCreator
    <3> QED  BY <3>4, <3>5, <3>6, Zenon DEF OneCreator
  <2> QED  BY <2>3, <2>4, Zenon
<1> QED  BY <1>6, <1>7, <1>8, <1>9, Zenon DEF SegmentsInv

(* Processes start, fork and end.                                          *)
LEMMA UnlinkStep ==
  ASSUME SegmentsInv, NEW p \in Procs, unlink(p) \/ Start(p)
  PROVE  SegmentsInv'
<1>1. UNCHANGED <<sizes, objects, crashed>> /\ (name' = name \/ name' = 0)
  BY Zenon DEF unlink, Start
<1>2. SegmentsTypeOK'
  <2>1. name' \in 0..Len(sizes) /\ process' \in [Procs -> {"up", "forked", "down"}]
    <3>1. SegmentsTypeOK /\ Len(sizes) \in Nat
      BY TypeFacts, Zenon DEF SegmentsInv
    <3>2. name' \in 0..Len(sizes)
      BY <1>1, <3>1 DEF SegmentsTypeOK
    <3>3. process' = process \/ process' = [process EXCEPT ![p] = "up"]
      BY Zenon DEF unlink, Start
    <3> QED  BY <3>1, <3>2, <3>3, Zenon DEF SegmentsTypeOK
  <2> QED  BY <1>1, <2>1, Zenon DEF SegmentsInv, SegmentsTypeOK
<1>3. \A q \in Procs : ProcessOK(q)' /\ \A s \in Slots : ObjectOK(objects[q][s], sizes)'
  <2>1. \A q \in Procs : process'[q] \in {"down", "forked"} => process'[q] = process[q]
    BY Zenon DEF SegmentsInv, SegmentsTypeOK, unlink, Start
  <2>2. ASSUME NEW q \in Procs
        PROVE  ProcessOK(q) /\ \A s \in Slots : ObjectOK(objects[q][s], sizes)
    BY Zenon DEF SegmentsInv
  <2>3. ASSUME NEW q \in Procs
        PROVE  ProcessOK(q)'
    BY <1>1, <2>1, <2>2, Zenon DEF ProcessOK
  <2>4. ASSUME NEW q \in Procs, NEW s \in Slots
        PROVE  ObjectOK(objects[q][s], sizes)'
    BY <1>1, <2>2, Zenon DEF ObjectOK
  <2> QED  BY <2>3, <2>4, Zenon
<1>4. OneMaker'
  BY <1>1 DEF SegmentsInv, OneMaker
<1>5. ASSUME Considerate
      PROVE  OneCreator'
  <2>1. CASE unlink(p)
    <3>1. \A q \in Procs, s \in Slots : ~Creator(q, s)'
      BY <1>5, <2>1, Zenon DEF unlink, InUse, Creator, Made
    <3> QED  BY <2>1, <3>1, Zenon DEF unlink, OneCreator
  <2>2. CASE Start(p)
    <3>1. \A s \in Slots : ~Made(objects[p][s])
      BY <2>2, TypeFacts, EmptyFacts, Zenon DEF Start, SegmentsInv, ProcessOK
    <3>2. \A q \in Procs, s \in Slots : Creator(q, s)' <=> Creator(q, s)
      BY <2>2, <3>1, SMTT(30) DEF Start, Creator, Made, SegmentsInv, SegmentsTypeOK
    <3> QED  BY <1>1, <1>5, <2>2, <3>2 DEF Start, SegmentsInv, OneCreator
  <2> QED  BY <2>1, <2>2, Zenon
<1> QED  BY <1>2, <1>3, <1>4, <1>5, Zenon DEF SegmentsInv

LEMMA ForkStep ==
  ASSUME SegmentsInv, NEW p \in Procs, NEW c \in Procs, Fork(p, c)
  PROVE  SegmentsInv'
<1>1. /\ process[p] = "up" /\ process[c] = "down" /\ \A s \in Slots : objects[p][s].next = "none"
      /\ process' = [process EXCEPT ![c] = "forked"] /\ objects' = [objects EXCEPT ![c] = objects[p]]
      /\ UNCHANGED <<name, sizes, crashed>>
  BY Zenon DEF Fork
<1>2. objects \in [Procs -> [Slots -> Object(Len(sizes))]] /\ process \in [Procs -> {"up", "forked", "down"}]
  BY TypeFacts, Zenon DEF SegmentsInv, SegmentsTypeOK
<1>3. \A q \in Procs : objects'[q] = (IF q = c THEN objects[p] ELSE objects[q])
                       /\ process'[q] = (IF q = c THEN "forked" ELSE process[q])
  BY <1>1, <1>2, Zenon
<1>4. SegmentsTypeOK'
  <2> HIDE DEF Object
  <2>1. objects' \in [Procs -> [Slots -> Object(Len(sizes))]]
    BY <1>1, <1>2, Zenon
  <2>2. process' \in [Procs -> {"up", "forked", "down"}]
    BY <1>1, <1>2, SMTT(30)
  <2> QED  BY <1>1, <2>1, <2>2, Zenon DEF SegmentsInv, SegmentsTypeOK, Object
<1>5. \A q \in Procs : ProcessOK(q)' /\ \A s \in Slots : ObjectOK(objects[q][s], sizes)'
  BY <1>1, <1>3 DEF SegmentsInv, ProcessOK, ObjectOK
<1>6. OneMaker'
  BY <1>1, <1>3 DEF SegmentsInv, OneMaker
<1>7. ASSUME Considerate
      PROVE  OneCreator'
  <2>1. \A q \in Procs, s \in Slots : Creator(q, s)' <=> Creator(q, s)
    BY <1>1, <1>3 DEF Creator, Made
  <2>2. \A q \in Procs, s \in Slots : Creator(q, s) => objects'[q][s] = objects[q][s]
    BY <1>1, <1>3, Zenon DEF Creator
  <2> QED  BY <1>1, <1>7, <2>1, <2>2 DEF SegmentsInv, OneCreator
<1> QED  BY <1>4, <1>5, <1>6, <1>7, Zenon DEF SegmentsInv

LEMMA EndStep ==
  ASSUME SegmentsInv, NEW p \in Procs, ExitChild(p) \/ Crash(p)
  PROVE  SegmentsInv'
<1>1. /\ process' = [process EXCEPT ![p] = "down"]
      /\ objects' = [objects EXCEPT ![p] = [s \in Slots |-> Empty]]
      /\ UNCHANGED <<name, sizes>>
      /\ (process[p] = "forked" /\ crashed' = crashed) \/ crashed' = TRUE
  BY Zenon DEF ExitChild, Crash
<1>2. /\ objects \in [Procs -> [Slots -> Object(Len(sizes))]] /\ process \in [Procs -> {"up", "forked", "down"}]
      /\ Len(sizes) \in Nat /\ Empty \in Object(Len(sizes)) /\ ObjectOK(Empty, sizes)
      /\ ~Made(Empty) /\ Empty.next = "none"
  BY TypeFacts, EmptyFacts, Zenon DEF SegmentsInv, SegmentsTypeOK
<1> HIDE DEF Object
<1>3. \A q \in Procs : /\ process'[q] = IF q = p THEN "down" ELSE process[q]
                       /\ \A s \in Slots : objects'[q][s] = IF q = p THEN Empty ELSE objects[q][s]
  BY <1>1, <1>2, Zenon
<1>4. SegmentsTypeOK'
  <2>1. objects' \in [Procs -> [Slots -> Object(Len(sizes))]]
    BY <1>1, <1>2, Zenon
  <2>2. process' \in [Procs -> {"up", "forked", "down"}] /\ crashed' \in BOOLEAN
    BY <1>1, <1>2, Zenon DEF SegmentsInv, SegmentsTypeOK
  <2> QED  BY <1>1, <2>1, <2>2, Zenon DEF SegmentsInv, SegmentsTypeOK, Object
<1>5. \A q \in Procs : ProcessOK(q)' /\ \A s \in Slots : ObjectOK(objects[q][s], sizes)'
  BY <1>1, <1>2, <1>3 DEF SegmentsInv, ProcessOK, ObjectOK
<1>6. OneMaker'
  <2>1. \A q \in Procs, s \in Slots :
          objects'[q][s].next = "ftruncate" => objects'[q][s] = objects[q][s]
    BY <1>2, <1>3, Zenon
  <2>2. OneMaker
    BY Zenon DEF SegmentsInv
  <2> QED  BY <2>1, <2>2 DEF OneMaker
<1>7. ASSUME Considerate
      PROVE  OneCreator'
  <2>1. \A q \in Procs, s \in Slots : Creator(q, s)' => Creator(q, s) /\ objects'[q][s] = objects[q][s]
    BY <1>2, <1>3, Zenon DEF Creator, Made
  <2>2. ~crashed' => \A q \in Procs, s \in Slots : Creator(q, s) => Creator(q, s)'
    BY <1>1, <1>3, Zenon DEF Creator, Made
  <2>3. crashed => crashed'
    BY Zenon DEF ExitChild, Crash
  <2> QED  BY <1>1, <1>7, <2>1, <2>2, <2>3 DEF SegmentsInv, OneCreator
<1> QED  BY <1>4, <1>5, <1>6, <1>7, Zenon DEF SegmentsInv

LEMMA SegmentInvariant == SegmentsSpec => []SegmentsInv
<1>1. SegmentsInit => SegmentsInv
  BY SegmentsInitially, Zenon
<1>2. SegmentsInv /\ [SegmentsNext]_segmentvars => SegmentsInv'
  <2> SUFFICES ASSUME SegmentsInv, [SegmentsNext]_segmentvars PROVE SegmentsInv'
    OBVIOUS
  <2>1. ASSUME NEW p \in Procs, NEW s \in Slots, create(p, s) \/ open_existing(p, s) \/ close(p, s)
        PROVE  SegmentsInv'
    BY <2>1, CallStep, CreateOpenStep, CreateTruncateStep, Zenon DEF create
  <2>2. ASSUME NEW p \in Procs, NEW s \in Slots, NEW t \in Slots, move(p, s, t)
        PROVE  SegmentsInv'
    BY <2>2, MoveStep, Zenon
  <2>3. ASSUME NEW p \in Procs, NEW c \in Procs, Fork(p, c)
        PROVE  SegmentsInv'
    BY <2>3, ForkStep, Zenon
  <2>4. ASSUME NEW p \in Procs, unlink(p) \/ Start(p) \/ ExitChild(p) \/ Crash(p)
        PROVE  SegmentsInv'
    BY <2>4, UnlinkStep, EndStep, Zenon
  <2>5. CASE UNCHANGED segmentvars
    <3>1. UNCHANGED <<name, sizes, objects, process, crashed>>
      BY <2>5, Zenon DEF segmentvars
    <3>2. SegmentsTypeOK'
      BY <3>1, SMTT(30) DEF SegmentsInv, SegmentsTypeOK
    <3>3. \A p \in Procs : ProcessOK(p)' /\ \A s \in Slots : ObjectOK(objects[p][s], sizes)'
      BY <3>1, Zenon DEF SegmentsInv, ProcessOK, ObjectOK
    <3>4. OneMaker'
      BY <3>1, Zenon DEF SegmentsInv, OneMaker
    <3>5. Considerate => OneCreator'
      BY <3>1 DEF SegmentsInv, OneCreator, Creator
    <3> QED  BY <3>2, <3>3, <3>4, <3>5, Zenon DEF SegmentsInv
  <2> QED  BY <2>1, <2>2, <2>3, <2>4, <2>5, Zenon DEF SegmentsNext
<1> QED  BY <1>1, <1>2, PTL DEF SegmentsSpec

(* No mapping extends past its segment, whatever calls of other processes  *)
(* came between the open and the mmap of create or open_existing.          *)
THEOREM MappingsFit == SegmentsSpec => []MappingFits
<1>1. SegmentsInv => MappingFits
  BY Zenon DEF SegmentsInv, ObjectOK, MappingFits
<1> QED  BY <1>1, SegmentInvariant, PTL

(* While the creator of a segment lives the name leads to it, whoever      *)
(* closes, forks, moves or dies, if nobody unlinks a name that is in use;  *)
(* and the name outlives nobody who ended in order.                        *)
THEOREM NameLeadsToCreator == SegmentsSpec => []NameMeansCreator
<1>1. SegmentsInv => NameMeansCreator
  BY Zenon DEF SegmentsInv, NameMeansCreator, OneCreator, Creator, InUse
<1> QED  BY <1>1, SegmentInvariant, PTL

-----------------------------------------------------------------------------
(* Division with remainder, and the remainder is what % computes.          *)
LEMMA Remainder ==
  ASSUME NEW a \in Nat, NEW c \in Nat, c > 0
  PROVE  \E q \in Nat : a = c * q + (a % c) /\ a % c \in 0..(c - 1)
<1> DEFINE q == a \div c
           r == a - c * q
<1>1. q \in Nat /\ c * q <= a /\ a < c * (q + 1) /\ c * q \in Nat
  OBVIOUS
<1> HIDE DEF q
<1>2. r \in 0..(c - 1) /\ a = c * q + r
  BY <1>1
<1> HIDE DEF r
<1>3. (c * q + r) % c = r
  BY <1>1, <1>2
<1> QED  BY <1>1, <1>2, <1>3, Zenon

(* Adding a multiple of c does not change the remainder.                   *)
LEMMA RemainderPlus ==
  ASSUME NEW a \in Nat, NEW c \in Nat, c > 0, NEW w \in Nat, w % c = 0
  PROVE  (a + w) % c = a % c
<1>1. PICK q \in Nat : a = c * q + (a % c) /\ a % c \in 0..(c - 1)
  BY Remainder, Zenon
<1>2. PICK p \in Nat : w = c * p + 0
  BY Remainder, Zenon
<1>3. c * (q + p) = c * q + c * p /\ q + p \in Nat
  OBVIOUS
<1>4. a + w = c * (q + p) + (a % c)
  BY <1>1, <1>2, <1>3
<1>5. \A k \in Nat : \A r \in 0..(c - 1) : (c * k + r) % c = r
  OBVIOUS
<1> QED  BY <1>1, <1>3, <1>4, <1>5, Zenon

(* Numbers less than c apart have different remainders.                    *)
LEMMA RemainderDistinct ==
  ASSUME NEW a \in Nat, NEW c \in Nat, c > 0, NEW d \in 1..(c - 1)
  PROVE  (a + d) % c # a % c
<1> SUFFICES ASSUME (a + d) % c = a % c
             PROVE  FALSE
  OBVIOUS
<1>1. PICK q \in Nat : a = c * q + (a % c) /\ a % c \in 0..(c - 1)
  BY Remainder, Zenon
<1>2. PICK p \in Nat : a + d = c * p + (a % c)
  <2>1. a + d \in Nat
    OBVIOUS
  <2>2. \E p \in Nat : a + d = c * p + ((a + d) % c)
    BY <2>1, Remainder, Zenon
  <2> QED  BY <2>2, Zenon
<1>3. c * (p - q) = c * p - c * q
  OBVIOUS
<1>4. c * (p - q) = d
  BY <1>1, <1>2, <1>3
<1>5. CASE p - q >= 1
  <2>1. c * (p - q) >= c
    BY <1>5
  <2> QED  BY <1>4, <2>1
<1>6. CASE p - q <= 0
  <2>1. c * (p - q) <= 0
    BY <1>6
  <2> QED  BY <1>4, <2>1
<1> QED  BY <1>5, <1>6

-----------------------------------------------------------------------------
(* Arithmetic on indices: how far they are ahead of an index b.            *)
LEMMA IndexFacts ==
  ASSUME NEW i \in Index, NEW j \in Index, NEW b \in Index
  PROVE  /\ Minus(i, j) \in Index
         /\ Inc(i) \in Index
         /\ Minus(i, b) = Minus(j, b) => i = j
         /\ Minus(j, b) <= Minus(i, b) => Minus(i, j) = Minus(i, b) - Minus(j, b)
         /\ Minus(i, b) < Width - 1 => Minus(Inc(i), b) = Minus(i, b) + 1
         /\ Minus(i, i) = 0
BY RingAssumption DEF Index, Minus, Inc

(* The slot of an index depends on the index only modulo Width.            *)
LEMMA SlotFacts ==
  ASSUME NEW i \in Index
  PROVE  /\ Slot(i) \in 0..(Capacity - 1)
         /\ \A k \in Nat : Slot(i + k) \in 0..(Capacity - 1)
         /\ \A j \in Index : Slot(j) = Slot(i + Minus(j, i))
         /\ \A k \in Nat : Slot(Inc(i) + k) = Slot(i + k + 1)
         /\ \A k \in Nat, n \in Nat : k < n /\ n - k < Capacity => Slot(i + k) # Slot(i + n)
<1>0. /\ Capacity \in Nat /\ Capacity > 0 /\ Width \in Nat /\ Width % Capacity = 0
      /\ i \in Nat /\ Width > 0
  BY RingAssumption DEF Index
<1>1. \A k \in Nat : i + k \in Nat /\ (i + k) % Capacity \in 0..(Capacity - 1)
  BY <1>0
<1>2. Slot(i) \in 0..(Capacity - 1)
  BY <1>0 DEF Slot
<1>3. ASSUME NEW j \in Index
      PROVE  Slot(j) = Slot(i + Minus(j, i))
  <2>1. j \in Nat
    BY <1>0 DEF Index
  <2>2. CASE j >= i
    <3>1. i + Minus(j, i) = j
      BY <1>0, <2>1, <2>2 DEF Minus
    <3> QED  BY <3>1, Zenon
  <2>3. CASE ~(j >= i)
    <3>1. i + Minus(j, i) = j + Width
      BY <1>0, <2>1, <2>3 DEF Minus
    <3>2. (j + Width) % Capacity = j % Capacity
      BY <1>0, <2>1, RemainderPlus, Zenon
    <3> QED  BY <3>1, <3>2, Zenon DEF Slot
  <2> QED  BY <2>2, <2>3, Zenon
<1>4. ASSUME NEW k \in Nat
      PROVE  Slot(Inc(i) + k) = Slot(i + k + 1)
  <2>1. CASE i = Width - 1
    <3>1. Inc(i) + k = k /\ i + k + 1 = k + Width
      BY <1>0, <2>1 DEF Inc
    <3>2. (k + Width) % Capacity = k % Capacity
      BY <1>0, RemainderPlus, Zenon
    <3> QED  BY <3>1, <3>2, Zenon DEF Slot
  <2>2. CASE i # Width - 1
    <3>1. Inc(i) + k = i + k + 1
      BY <1>0, <2>2 DEF Inc
    <3> QED  BY <3>1, Zenon
  <2> QED  BY <2>1, <2>2, Zenon
<1>5. ASSUME NEW k \in Nat, NEW n \in Nat, k < n, n - k < Capacity
      PROVE  Slot(i + k) # Slot(i + n)
  <2>1. n - k \in 1..(Capacity - 1) /\ i + k \in Nat /\ (i + k) + (n - k) = i + n
    BY <1>0, <1>5
  <2>2. ((i + k) + (n - k)) % Capacity # (i + k) % Capacity
    BY <1>0, <2>1, RemainderDistinct, Zenon
  <2> QED  BY <2>1, <2>2, Zenon DEF Slot
<1> QED  BY <1>1, <1>2, <1>3, <1>4, <1>5, Zenon DEF Slot

(* What a queue of n values that starts at index i is.                     *)
LEMMA QueueFacts ==
  ASSUME NEW s, NEW i, NEW n \in Nat, \A k \in 1..n : s[Slot(i + k - 1)] \in Values
  PROVE  /\ Queue(s, i, n) \in Seq(Values)
         /\ Len(Queue(s, i, n)) = n
         /\ \A k \in 1..n : Queue(s, i, n)[k] = s[Slot(i + k - 1)]
<1> DEFINE e(k) == s[Slot(i + k - 1)]
<1>1. \A k \in 1..n : e(k) \in Values
  OBVIOUS
<1> HIDE DEF e
<1>2. [k \in 1..n |-> e(k)] \in Seq(Values) /\ Len([k \in 1..n |-> e(k)]) = n
  BY <1>1, IsASeq, Zenon
<1>3. Queue(s, i, n) = [k \in 1..n |-> e(k)]
  BY Zenon DEF Queue, e
<1> QED  BY <1>2, <1>3, Zenon DEF e

(* How a longer or shorter queue is recognised.                            *)
LEMMA IsAppend ==
  ASSUME NEW S, NEW s \in Seq(S), NEW v \in S, NEW u \in Seq(S),
         Len(u) = Len(s) + 1, u[Len(s) + 1] = v, \A k \in 1..Len(s) : u[k] = s[k]
  PROVE  u = Append(s, v)
<1>1. /\ Append(s, v) \in Seq(S) /\ Len(Append(s, v)) = Len(s) + 1
      /\ \A k \in 1..Len(s) : Append(s, v)[k] = s[k]
      /\ Append(s, v)[Len(s) + 1] = v
  BY AppendProperties
<1>2. Len(s) \in Nat
  BY LenProperties, Zenon
<1>3. \A k \in 1..Len(u) : u[k] = Append(s, v)[k]
  BY <1>1, <1>2
<1> QED  BY <1>1, <1>3, SeqEqual, Zenon

LEMMA IsTail ==
  ASSUME NEW S, NEW s \in Seq(S), s # << >>, NEW u \in Seq(S),
         Len(u) = Len(s) - 1, \A k \in 1..Len(u) : u[k] = s[k + 1]
  PROVE  u = Tail(s)
<1>1. /\ Tail(s) \in Seq(S) /\ Len(Tail(s)) = Len(s) - 1
      /\ \A k \in 1..Len(Tail(s)) : Tail(s)[k] = s[k + 1]
  BY HeadTailProperties, Zenon
<1> QED  BY <1>1, SeqEqual, Zenon

-----------------------------------------------------------------------------
(* A store to the slot behind a queue that is not full leaves the queue.   *)
LEMMA QueueKept ==
  ASSUME NEW s, NEW u, NEW h \in Index, NEW i \in Index, Minus(h, i) < Capacity,
         \A j \in 0..(Capacity - 1) : j # Slot(h) => u[j] = s[j]
  PROVE  /\ \A k \in 1..Minus(h, i) : u[Slot(i + k - 1)] = s[Slot(i + k - 1)]
         /\ Queue(u, i, Minus(h, i)) = Queue(s, i, Minus(h, i))
<1> DEFINE n == Minus(h, i)
<1>1. n \in Nat /\ n < Capacity /\ Capacity \in Nat
  BY RingAssumption DEF Index, Minus
<1>2. Slot(h) = Slot(i + n)
  BY SlotFacts, Zenon
<1> HIDE DEF n
<1>3. ASSUME NEW k \in 1..n
      PROVE  u[Slot(i + k - 1)] = s[Slot(i + k - 1)]
  <2>1. k - 1 \in Nat /\ k - 1 < n /\ i + (k - 1) = i + k - 1 /\ n - (k - 1) < Capacity
    BY <1>1 DEF Index
  <2>2. Slot(i + (k - 1)) # Slot(i + n) /\ Slot(i + (k - 1)) \in 0..(Capacity - 1)
    BY <1>1, <2>1, SlotFacts, Zenon
  <2> QED  BY <1>2, <2>1, <2>2, Zenon
<1> QED  BY <1>3, Zenon DEF Queue, n

(* One more value at the end.                                              *)
LEMMA QueueGrows ==
  ASSUME NEW s, NEW h \in Index, NEW i \in Index, Minus(h, i) < Capacity,
         \A k \in 1..Minus(h, i) : s[Slot(i + k - 1)] \in Values, s[Slot(h)] \in Values
  PROVE  /\ Minus(Inc(h), i) = Minus(h, i) + 1
         /\ \A k \in 1..Minus(Inc(h), i) : s[Slot(i + k - 1)] \in Values
         /\ Queue(s, i, Minus(Inc(h), i)) = Append(Queue(s, i, Minus(h, i)), s[Slot(h)])
<1> DEFINE n == Minus(h, i)  m == Minus(Inc(h), i)
<1>1. n \in Nat /\ m = n + 1 /\ m \in Nat
  BY RingAssumption DEF Index, Minus, Inc
<1>2. Slot(h) = Slot(i + m - 1)
  <2>1. i + m - 1 = i + n
    BY <1>1 DEF Index
  <2> QED  BY <2>1, SlotFacts
<1>3. \A k \in 1..n : s[Slot(i + k - 1)] \in Values
  OBVIOUS
<1> HIDE DEF n, m
<1>4. \A k \in 1..m : s[Slot(i + k - 1)] \in Values
  <2> SUFFICES ASSUME NEW k \in 1..m PROVE s[Slot(i + k - 1)] \in Values
    OBVIOUS
  <2>1. k \in 1..n \/ k = m
    BY <1>1
  <2> QED  BY <1>2, <1>3, <2>1, Zenon
<1>5. /\ Queue(s, i, n) \in Seq(Values) /\ Len(Queue(s, i, n)) = n
      /\ \A k \in 1..n : Queue(s, i, n)[k] = s[Slot(i + k - 1)]
  BY <1>1, <1>3, QueueFacts, Zenon
<1>6. /\ Queue(s, i, m) \in Seq(Values) /\ Len(Queue(s, i, m)) = m
      /\ \A k \in 1..m : Queue(s, i, m)[k] = s[Slot(i + k - 1)]
  BY <1>1, <1>4, QueueFacts
<1>7. Queue(s, i, m)[n + 1] = s[Slot(h)] /\ \A k \in 1..n : Queue(s, i, m)[k] = Queue(s, i, n)[k]
  <2>1. m \in 1..m /\ \A k \in 1..n : k \in 1..m
    BY <1>1
  <2>2. Queue(s, i, m)[m] = s[Slot(h)]
    BY <1>2, <1>6, <2>1, Zenon
  <2>3. \A k \in 1..n : Queue(s, i, m)[k] = Queue(s, i, n)[k]
    BY <1>5, <1>6, <2>1, Zenon
  <2> QED  BY <1>1, <2>2, <2>3, Zenon
<1>8. Queue(s, i, m) = Append(Queue(s, i, n), s[Slot(h)])
  <2>1. s[Slot(h)] \in Values /\ Len(Queue(s, i, m)) = Len(Queue(s, i, n)) + 1
    BY <1>1, <1>5, <1>6, Zenon
  <2>2. Queue(s, i, m)[Len(Queue(s, i, n)) + 1] = s[Slot(h)]
    BY <1>5, <1>7, Zenon
  <2> QED  BY <1>5, <1>6, <1>7, <2>1, <2>2, IsAppend, Zenon
<1> QED  BY <1>1, <1>4, <1>8, Zenon DEF n, m

(* The oldest value taken out.                                             *)
LEMMA QueueShrinks ==
  ASSUME NEW s, NEW h \in Index, NEW i \in Index, h # i,
         \A k \in 1..Minus(h, i) : s[Slot(i + k - 1)] \in Values
  PROVE  /\ Minus(h, Inc(i)) = Minus(h, i) - 1
         /\ Minus(h, i) \in Nat \ {0}
         /\ s[Slot(i)] \in Values
         /\ \A k \in 1..Minus(h, Inc(i)) : s[Slot(Inc(i) + k - 1)] \in Values
         /\ Queue(s, i, Minus(h, i)) # << >>
         /\ Head(Queue(s, i, Minus(h, i))) = s[Slot(i)]
         /\ Queue(s, Inc(i), Minus(h, Inc(i))) = Tail(Queue(s, i, Minus(h, i)))
<1> DEFINE n == Minus(h, i)  m == Minus(h, Inc(i))
<1>1. n \in Nat /\ n >= 1 /\ m = n - 1 /\ m \in Nat
  BY RingAssumption DEF Index, Minus, Inc
<1>2. \A k \in 1..n : s[Slot(i + k - 1)] \in Values
  OBVIOUS
<1> HIDE DEF n, m
<1>3. \A k \in 1..m : Slot(Inc(i) + k - 1) = Slot(i + (k + 1) - 1) /\ k + 1 \in 1..n
  <2> SUFFICES ASSUME NEW k \in 1..m
               PROVE  Slot(Inc(i) + k - 1) = Slot(i + (k + 1) - 1) /\ k + 1 \in 1..n
    OBVIOUS
  <2>1. k - 1 \in Nat /\ k + 1 \in 1..n
    BY <1>1
  <2>2. Slot(Inc(i) + (k - 1)) = Slot(i + (k - 1) + 1)
    BY <2>1, SlotFacts, Zenon
  <2>3. Inc(i) \in Int /\ i \in Int
    BY IndexFacts DEF Index
  <2>4. Inc(i) + k - 1 = Inc(i) + (k - 1) /\ i + (k - 1) + 1 = i + (k + 1) - 1
    BY <2>1, <2>3
  <2> QED  BY <2>1, <2>2, <2>4, Zenon
<1>4. \A k \in 1..m : s[Slot(Inc(i) + k - 1)] \in Values
  BY <1>2, <1>3, Zenon
<1>5. i + 1 - 1 = i /\ s[Slot(i)] \in Values
  <2>1. i + 1 - 1 = i
    BY DEF Index
  <2> QED  BY <1>1, <1>2, <2>1
<1>6. /\ Queue(s, i, n) \in Seq(Values) /\ Len(Queue(s, i, n)) = n
      /\ \A k \in 1..n : Queue(s, i, n)[k] = s[Slot(i + k - 1)]
  BY <1>1, <1>2, QueueFacts, Zenon
<1>7. /\ Queue(s, Inc(i), m) \in Seq(Values) /\ Len(Queue(s, Inc(i), m)) = m
      /\ \A k \in 1..m : Queue(s, Inc(i), m)[k] = s[Slot(Inc(i) + k - 1)]
  BY <1>1, <1>4, QueueFacts
<1>8. Queue(s, i, n) # << >> /\ Head(Queue(s, i, n)) = s[Slot(i)]
  <2>1. Queue(s, i, n) # << >>
    BY <1>1, <1>6, EmptySeq
  <2>2. Head(Queue(s, i, n)) = Queue(s, i, n)[1]
    BY <1>6, <2>1, HeadTailProperties
  <2>3. Queue(s, i, n)[1] = s[Slot(i + 1 - 1)]
    BY <1>1, <1>6
  <2> QED  BY <1>5, <2>1, <2>2, <2>3, Zenon
<1>9. \A k \in 1..m : Queue(s, Inc(i), m)[k] = Queue(s, i, n)[k + 1]
  BY <1>3, <1>6, <1>7, Zenon
<1>10. Queue(s, Inc(i), m) = Tail(Queue(s, i, n))
  BY <1>1, <1>6, <1>7, <1>8, <1>9, IsTail, Zenon
<1> QED  BY <1>1, <1>4, <1>5, <1>8, <1>10 DEF n, m

-----------------------------------------------------------------------------
(* The ring between two threads.                                           *)

(* A loaded index lies between the one seen last and the current one.      *)
LEMMA LoadFacts ==
  ASSUME NEW old \in Index, NEW new \in Index, NEW b \in Index,
         Minus(old, b) <= Minus(new, b), NEW i \in Loads(old, new)
  PROVE  i \in Index /\ Minus(old, b) <= Minus(i, b) /\ Minus(i, b) <= Minus(new, b)
BY RingAssumption DEF Loads, Index, Minus

-----------------------------------------------------------------------------
(* The inductive invariant.  Measured from the oldest index, the tail_ the *)
(* producer saw last, the indices are in order and at most Capacity apart; *)
(* a thread inside its call has room or data by the index it loaded; and   *)
(* every slot between tail_ and head_ holds a pushed value.                *)
Ahead(i) == Minus(i, p_seen)

Ordered ==
    /\ Ahead(tail) <= Ahead(c_seen)
    /\ Ahead(c_seen) <= Ahead(head)
    /\ Ahead(head) <= Capacity

ProducerHasRoom ==
    p_pc # "idle" => Ahead(head) < Capacity /\ p_value \in Values

ConsumerHasData == c_pc # "idle" => Ahead(tail) < Ahead(c_seen)

SlotsHoldData ==
    /\ \A k \in 1..Minus(head, tail) : slots[Slot(tail + k - 1)] \in Values
    /\ p_pc = "publish" => slots[Slot(head)] = p_value
    /\ c_pc = "publish" => c_value = slots[Slot(tail)]

RingInv == TypeOK /\ Ordered /\ ProducerHasRoom /\ ConsumerHasData /\ SlotsHoldData

(* The facts about one state that the steps below use.                     *)
LEMMA RingFacts ==
  ASSUME RingInv
  PROVE  /\ head \in Index /\ tail \in Index /\ p_seen \in Index /\ c_seen \in Index
         /\ Capacity \in Nat /\ Capacity >= 2 /\ Width \in Nat /\ Width > Capacity + 1
         /\ Ahead(head) \in Nat /\ Ahead(tail) \in Nat /\ Ahead(c_seen) \in Nat
         /\ Minus(head, tail) = Ahead(head) - Ahead(tail)
         /\ Minus(head, tail) \in 0..Capacity
         /\ p_pc # "idle" => Minus(head, tail) < Capacity
         /\ c_pc # "idle" => Minus(head, tail) >= 1
<1>1. head \in Index /\ tail \in Index /\ p_seen \in Index /\ c_seen \in Index
  BY Zenon DEF RingInv, TypeOK
<1>2. Capacity \in Nat /\ Capacity >= 2 /\ Width \in Nat /\ Width > Capacity + 1
  BY RingAssumption
<1>3. Ahead(head) \in Nat /\ Ahead(tail) \in Nat /\ Ahead(c_seen) \in Nat
  <2>1. Ahead(head) \in Index /\ Ahead(tail) \in Index /\ Ahead(c_seen) \in Index
    BY <1>1, IndexFacts, Zenon DEF Ahead
  <2> QED  BY <1>2, <2>1 DEF Index
<1>4. Ahead(tail) <= Ahead(head) /\ Ahead(head) <= Capacity
  BY <1>3, <1>2 DEF RingInv, Ordered
<1>5. Minus(head, tail) = Ahead(head) - Ahead(tail)
  BY <1>1, <1>4, IndexFacts DEF Ahead
<1>6. p_pc # "idle" => Ahead(head) < Capacity
  BY Zenon DEF RingInv, ProducerHasRoom
<1>7. c_pc # "idle" => Ahead(tail) < Ahead(head)
  BY <1>3 DEF RingInv, ConsumerHasData, Ordered
<1> QED  BY <1>1, <1>2, <1>3, <1>4, <1>5, <1>6, <1>7

(* Two threads inside their calls are at different slots.                  *)
LEMMA RaceFree == RingInv => NoDataRace
<1> SUFFICES ASSUME RingInv, p_pc = "write", c_pc = "read"
             PROVE  Slot(head) # Slot(tail)
  BY Zenon DEF NoDataRace
<1> DEFINE n == Minus(head, tail)
<1>1. head \in Index /\ tail \in Index /\ n \in Nat /\ 0 < n /\ n - 0 < Capacity
  BY RingFacts
<1>2. Slot(head) = Slot(tail + n)
  BY <1>1, SlotFacts, Zenon
<1>3. Slot(tail + 0) # Slot(tail + n)
  BY <1>1, SlotFacts, Zenon
<1>4. tail + 0 = tail
  BY <1>1 DEF Index
<1> QED  BY <1>2, <1>3, <1>4, Zenon

LEMMA InitRing == Init => RingInv /\ Contents = << >>
<1> SUFFICES ASSUME Init PROVE RingInv /\ Contents = << >>
  OBVIOUS
<1>1. 0 \in Index /\ Minus(0, 0) = 0 /\ Capacity \in Nat
  BY RingAssumption DEF Index, Minus
<1>2. TypeOK
  BY <1>1, Zenon DEF Init, TypeOK
<1>3. Contents = << >>
  BY <1>1 DEF Init, Contents, Queue
<1> QED  BY <1>1, <1>2, <1>3 DEF Init, RingInv, Ordered, ProducerHasRoom, ConsumerHasData,
                                 SlotsHoldData, Ahead

-----------------------------------------------------------------------------
(* The steps of the producer.                                              *)

(* Loading tail_ moves the base the indices are measured from.             *)
LEMMA PushLoad ==
  ASSUME RingInv, NEW t \in Loads(p_seen, tail), p_seen' = t,
         UNCHANGED <<slots, head, consumer>>
  PROVE  /\ p_seen' \in Index
         /\ Ahead(tail)' <= Ahead(c_seen)'
         /\ Ahead(c_seen)' <= Ahead(head)'
         /\ Ahead(head)' <= Capacity
         /\ Ahead(tail) < Ahead(c_seen) => Ahead(tail)' < Ahead(c_seen)'
         /\ Ahead(head)' = Minus(head, t)
         /\ ~LooksFull(t) => Ahead(head)' < Capacity
         /\ Contents' = Contents
<1>0. UNCHANGED <<slots, head, tail, c_pc, c_value, c_seen>>
  BY Zenon DEF consumer
<1>1. /\ Ahead(tail) <= Ahead(c_seen) /\ Ahead(c_seen) <= Ahead(head) /\ Ahead(head) <= Capacity
      /\ head \in Index /\ tail \in Index /\ p_seen \in Index /\ c_seen \in Index
      /\ Ahead(head) \in Nat /\ Ahead(tail) \in Nat /\ Ahead(c_seen) \in Nat
      /\ Capacity \in Nat /\ Width \in Nat /\ Width > Capacity + 1
  BY RingFacts, Zenon DEF RingInv, Ordered
<1>2. Minus(p_seen, p_seen) <= Minus(tail, p_seen)
  <2>1. Minus(p_seen, p_seen) = 0
    BY <1>1, IndexFacts, Zenon
  <2> QED  BY <1>1, <2>1 DEF Ahead
<1>3. t \in Index /\ Ahead(t) <= Ahead(tail)
  BY <1>1, <1>2, LoadFacts, Zenon DEF Ahead
<1>4. Ahead(t) \in Nat
  BY <1>1, <1>3, IndexFacts DEF Ahead, Index
<1>5. /\ Ahead(tail)' = Minus(tail, t) /\ Ahead(c_seen)' = Minus(c_seen, t)
      /\ Ahead(head)' = Minus(head, t)
  BY <1>0, Zenon DEF Ahead
<1>6. \A i \in Index : Ahead(t) <= Ahead(i) => Minus(i, t) = Ahead(i) - Ahead(t)
  BY <1>1, <1>3, IndexFacts DEF Ahead
<1>7. Ahead(t) <= Ahead(c_seen) /\ Ahead(t) <= Ahead(head)
  BY <1>1, <1>3, <1>4
<1>8. /\ Minus(tail, t) = Ahead(tail) - Ahead(t)
      /\ Minus(c_seen, t) = Ahead(c_seen) - Ahead(t)
      /\ Minus(head, t) = Ahead(head) - Ahead(t)
  BY <1>1, <1>3, <1>6, <1>7, Zenon
<1>9. ~LooksFull(t) => Minus(head, t) < Capacity
  <2>1. Minus(head, t) \in Nat /\ Minus(head, t) <= Capacity
    BY <1>1, <1>3, <1>4, <1>8
  <2>2. Minus(Inc(head), t) = Minus(head, t) + 1
    <3>1. Minus(head, t) < Width - 1
      BY <1>1, <2>1
    <3> QED  BY <1>1, <1>3, <3>1, IndexFacts
  <2> QED  BY <1>1, <2>1, <2>2 DEF LooksFull
<1>10. Contents' = Contents
  BY <1>0, Zenon DEF Contents
<1> QED  BY <1>1, <1>3, <1>4, <1>5, <1>8, <1>9, <1>10

LEMMA PushFullStep ==
  ASSUME RingInv, PushFull
  PROVE  RingInv' /\ UNCHANGED <<Contents, got>>
<1>1. PICK t \in Loads(p_seen, tail) : p_seen' = t
  BY Zenon DEF PushFull
<1>2. UNCHANGED <<slots, head, p_pc, p_value, consumer>> /\ p_pc = "idle"
  BY Zenon DEF PushFull
<1>3. /\ p_seen' \in Index /\ Ahead(tail)' <= Ahead(c_seen)'
      /\ Ahead(c_seen)' <= Ahead(head)' /\ Ahead(head)' <= Capacity
      /\ Ahead(tail) < Ahead(c_seen) => Ahead(tail)' < Ahead(c_seen)'
      /\ Contents' = Contents
  BY <1>1, <1>2, PushLoad, Zenon
<1> QED  BY <1>2, <1>3, Zenon DEF RingInv, TypeOK, Ordered, ProducerHasRoom, ConsumerHasData,
                          SlotsHoldData, consumer

LEMMA PushRoomStep ==
  ASSUME RingInv, NEW v \in Values, PushRoom(v)
  PROVE  RingInv' /\ UNCHANGED <<Contents, got>>
<1>1. PICK t \in Loads(p_seen, tail) : ~LooksFull(t) /\ p_seen' = t
  BY Zenon DEF PushRoom
<1>2. UNCHANGED <<slots, head, consumer>> /\ p_value' = v /\ p_pc' = "write"
  BY Zenon DEF PushRoom
<1>3. /\ p_seen' \in Index /\ Ahead(tail)' <= Ahead(c_seen)'
      /\ Ahead(c_seen)' <= Ahead(head)' /\ Ahead(head)' <= Capacity
      /\ Ahead(tail) < Ahead(c_seen) => Ahead(tail)' < Ahead(c_seen)'
      /\ Ahead(head)' < Capacity
      /\ Contents' = Contents
  BY <1>1, <1>2, PushLoad, Zenon
<1> QED  BY <1>2, <1>3, Zenon DEF RingInv, TypeOK, Ordered, ProducerHasRoom, ConsumerHasData,
                          SlotsHoldData, consumer

LEMMA PushWriteStep ==
  ASSUME RingInv, PushWrite
  PROVE  RingInv' /\ UNCHANGED <<Contents, got>>
<1> DEFINE n == Minus(head, tail)
<1>0. /\ p_pc = "write" /\ p_pc' = "publish"
      /\ slots' = [slots EXCEPT ![Slot(head)] = p_value]
      /\ UNCHANGED <<head, tail, p_value, p_seen, c_pc, c_value, c_seen, got>>
  BY Zenon DEF PushWrite, consumer
<1>1. /\ head \in Index /\ tail \in Index /\ n \in Nat /\ n < Capacity /\ Capacity \in Nat
      /\ c_pc # "idle" => n >= 1
  BY <1>0, RingFacts
<1>2. /\ slots \in [0..(Capacity - 1) -> Values \cup {NoValue}]
      /\ p_value \in Values /\ Slot(head) \in 0..(Capacity - 1)
  BY <1>0, <1>1, SlotFacts, Zenon DEF RingInv, TypeOK, ProducerHasRoom
<1>3. \A j \in 0..(Capacity - 1) : j # Slot(head) => slots'[j] = slots[j]
  BY <1>0, <1>2, Zenon
<1>4. /\ \A k \in 1..n : slots'[Slot(tail + k - 1)] = slots[Slot(tail + k - 1)]
      /\ Queue(slots', tail, n) = Queue(slots, tail, n)
  BY <1>1, <1>3, QueueKept, Zenon
<1>5. slots'[Slot(head)] = p_value /\ slots' \in [0..(Capacity - 1) -> Values \cup {NoValue}]
  BY <1>0, <1>2, Zenon
<1>6. Contents' = Contents
  BY <1>0, <1>4, Zenon DEF Contents
<1>7. c_pc = "publish" => slots'[Slot(tail)] = slots[Slot(tail)]
  <2>1. tail + 1 - 1 = tail
    BY <1>1 DEF Index
  <2> QED  BY <1>1, <1>4, <2>1
<1>8. SlotsHoldData'
  <2>1. \A k \in 1..Minus(head, tail)' : slots'[Slot(tail' + k - 1)] \in Values
    BY <1>0, <1>4, Zenon DEF RingInv, SlotsHoldData
  <2> QED  BY <1>0, <1>5, <1>7, <2>1, Zenon DEF RingInv, SlotsHoldData
<1>9. TypeOK'
  BY <1>0, <1>5, Zenon DEF RingInv, TypeOK
<1>10. (Ordered /\ ProducerHasRoom /\ ConsumerHasData)'
  BY <1>0, <1>2, Zenon DEF RingInv, Ordered, ProducerHasRoom, ConsumerHasData, Ahead
<1> QED  BY <1>0, <1>6, <1>8, <1>9, <1>10, Zenon DEF RingInv

(* The store to head_ appends the value to the queue.                      *)
LEMMA PushPublishStep ==
  ASSUME RingInv, PushPublish
  PROVE  RingInv' /\ F!Push
<1> DEFINE n == Minus(head, tail)
<1>0. /\ p_pc = "publish" /\ p_pc' = "idle" /\ head' = Inc(head)
      /\ UNCHANGED <<slots, tail, p_value, p_seen, c_pc, c_value, c_seen, got>>
  BY Zenon DEF PushPublish, consumer
<1>1. /\ head \in Index /\ tail \in Index /\ n \in Nat /\ n < Capacity /\ Capacity \in Nat
      /\ p_seen \in Index /\ c_seen \in Index
      /\ Ahead(head) \in Nat /\ Ahead(c_seen) \in Nat /\ Width \in Nat /\ Width > Capacity + 1
      /\ Ahead(head) < Capacity /\ p_value \in Values /\ slots[Slot(head)] = p_value
  BY <1>0, RingFacts DEF RingInv, ProducerHasRoom, SlotsHoldData
<1>2. head' \in Index /\ Ahead(head)' = Ahead(head) + 1
  <2>1. Minus(head, p_seen) < Width - 1
    BY <1>1 DEF Ahead
  <2> QED  BY <1>0, <1>1, <2>1, IndexFacts DEF Ahead
<1>3. \A k \in 1..n : slots[Slot(tail + k - 1)] \in Values
  BY Zenon DEF RingInv, SlotsHoldData
<1>4. /\ Minus(head', tail) = n + 1
      /\ \A k \in 1..Minus(head', tail) : slots[Slot(tail + k - 1)] \in Values
      /\ Queue(slots, tail, Minus(head', tail)) = Append(Queue(slots, tail, n), p_value)
  BY <1>0, <1>1, <1>3, QueueGrows, Zenon
<1>5. SlotsHoldData'
  BY <1>0, <1>4, Zenon DEF RingInv, SlotsHoldData
<1>6. RingInv'
  <2>1. TypeOK'
    BY <1>0, <1>2, Zenon DEF RingInv, TypeOK
  <2>2. Ordered'
    <3>1. Ahead(tail)' = Ahead(tail) /\ Ahead(c_seen)' = Ahead(c_seen)
      BY <1>0, Zenon DEF Ahead
    <3> QED  BY <1>1, <1>2, <3>1 DEF RingInv, Ordered
  <2>3. (ProducerHasRoom /\ ConsumerHasData)'
    BY <1>0, Zenon DEF RingInv, ProducerHasRoom, ConsumerHasData, Ahead
  <2> QED  BY <1>5, <2>1, <2>2, <2>3, Zenon DEF RingInv
<1>7. Len(Contents) = n /\ Contents' = Append(Contents, p_value)
  <2>1. Len(Contents) = n
    BY <1>1, <1>3, QueueFacts, Zenon DEF Contents
  <2> QED  BY <1>0, <1>4, <2>1, Zenon DEF Contents
<1> QED  BY <1>0, <1>1, <1>6, <1>7, Zenon DEF F!Push

-----------------------------------------------------------------------------
(* The steps of the consumer.                                              *)

(* Loading head_ moves what the consumer has seen towards head_.           *)
LEMMA PopLoad ==
  ASSUME RingInv, NEW h \in Loads(c_seen, head), c_seen' = h,
         UNCHANGED <<slots, producer, tail, c_value, got>>
  PROVE  /\ c_seen' \in Index
         /\ Ordered'
         /\ h # tail => Ahead(tail)' < Ahead(c_seen)'
         /\ UNCHANGED <<Contents, got>>
<1>0. UNCHANGED <<slots, head, tail, p_pc, p_value, p_seen>>
  BY Zenon DEF producer
<1>1. /\ Ahead(tail) <= Ahead(c_seen) /\ Ahead(c_seen) <= Ahead(head) /\ Ahead(head) <= Capacity
      /\ head \in Index /\ tail \in Index /\ p_seen \in Index /\ c_seen \in Index
      /\ Ahead(head) \in Nat /\ Ahead(tail) \in Nat /\ Ahead(c_seen) \in Nat
  BY RingFacts, Zenon DEF RingInv, Ordered
<1>2. h \in Index /\ Ahead(c_seen) <= Ahead(h) /\ Ahead(h) <= Ahead(head)
  BY <1>1, LoadFacts, Zenon DEF Ahead
<1>3. Ahead(h) \in Nat /\ (Ahead(h) = Ahead(tail) => h = tail)
  <2>1. Ahead(h) \in Index
    BY <1>1, <1>2, IndexFacts, Zenon DEF Ahead
  <2> QED  BY <1>1, <1>2, <2>1, IndexFacts, RingAssumption DEF Ahead, Index
<1>4. /\ Ahead(tail)' = Ahead(tail) /\ Ahead(c_seen)' = Ahead(h) /\ Ahead(head)' = Ahead(head)
      /\ Contents' = Contents
  BY <1>0, Zenon DEF Ahead, Contents
<1> QED  BY <1>1, <1>2, <1>3, <1>4 DEF Ordered

LEMMA PopLoadStep ==
  ASSUME RingInv, PopEmpty \/ PopSome
  PROVE  RingInv' /\ UNCHANGED <<Contents, got>>
<1>1. PICK h \in Loads(c_seen, head) : c_seen' = h /\ (PopSome => h # tail)
  BY Zenon DEF PopEmpty, PopSome
<1>2. /\ UNCHANGED <<slots, producer, tail, c_value, got>> /\ c_pc = "idle"
      /\ c_pc' = "idle" \/ (PopSome /\ c_pc' = "read")
  BY Zenon DEF PopEmpty, PopSome
<1>3. /\ c_seen' \in Index /\ Ordered' /\ (h # tail => Ahead(tail)' < Ahead(c_seen)')
      /\ UNCHANGED <<Contents, got>>
  BY <1>1, <1>2, PopLoad, Zenon
<1>4. ConsumerHasData' /\ SlotsHoldData' /\ ProducerHasRoom'
  BY <1>1, <1>2, <1>3, Zenon DEF RingInv, ConsumerHasData, SlotsHoldData, ProducerHasRoom, producer, Ahead
<1>5. TypeOK'
  BY <1>2, <1>3, Zenon DEF RingInv, TypeOK, producer
<1> QED  BY <1>3, <1>4, <1>5, Zenon DEF RingInv

LEMMA PopReadStep ==
  ASSUME RingInv, PopRead
  PROVE  RingInv' /\ UNCHANGED <<Contents, got>>
<1>0. /\ c_pc = "read" /\ c_pc' = "publish" /\ c_value' = slots[Slot(tail)]
      /\ UNCHANGED <<slots, head, p_pc, p_value, p_seen, tail, c_seen, got>>
  BY Zenon DEF PopRead, producer
<1>1. slots[Slot(tail)] \in Values \cup {NoValue}
  <2>1. Slot(tail) \in 0..(Capacity - 1)
    BY RingFacts, SlotFacts, Zenon
  <2> QED  BY <2>1, Zenon DEF RingInv, TypeOK
<1>2. TypeOK'
  BY <1>0, <1>1, Zenon DEF RingInv, TypeOK
<1>3. Contents' = Contents
  BY <1>0, Zenon DEF Contents
<1> QED  BY <1>0, <1>2, <1>3, Zenon DEF RingInv, Ordered, ProducerHasRoom, ConsumerHasData,
                                 SlotsHoldData, Ahead

(* The store to tail_ takes the oldest value out of the queue.             *)
LEMMA PopPublishStep ==
  ASSUME RingInv, PopPublish
  PROVE  RingInv' /\ F!Pop
<1> DEFINE n == Minus(head, tail)
<1>0. /\ c_pc = "publish" /\ c_pc' = "idle" /\ tail' = Inc(tail) /\ got' = << c_value >>
      /\ UNCHANGED <<slots, head, p_pc, p_value, p_seen, c_value, c_seen>>
  BY Zenon DEF PopPublish, producer
<1>1. /\ head \in Index /\ tail \in Index /\ p_seen \in Index /\ c_seen \in Index
      /\ n \in Nat /\ n >= 1 /\ Capacity \in Nat /\ Width \in Nat /\ Width > Capacity + 1
      /\ Ahead(head) \in Nat /\ Ahead(tail) \in Nat /\ Ahead(c_seen) \in Nat
      /\ n = Ahead(head) - Ahead(tail)
      /\ Ahead(tail) < Ahead(c_seen) /\ Ahead(c_seen) <= Ahead(head) /\ Ahead(head) <= Capacity
      /\ c_value = slots[Slot(tail)]
  BY <1>0, RingFacts DEF RingInv, ConsumerHasData, SlotsHoldData, Ordered
<1>2. tail' \in Index /\ Ahead(tail)' = Ahead(tail) + 1
  <2>1. Minus(tail, p_seen) < Width - 1
    BY <1>1 DEF Ahead
  <2> QED  BY <1>0, <1>1, <2>1, IndexFacts, Zenon DEF Ahead
<1>3. head # tail /\ \A k \in 1..n : slots[Slot(tail + k - 1)] \in Values
  <2>1. head # tail
    BY <1>1 DEF Index, Minus
  <2> QED  BY <2>1, Zenon DEF RingInv, SlotsHoldData
<1>4. /\ \A k \in 1..Minus(head, tail') : slots[Slot(tail' + k - 1)] \in Values
      /\ c_value \in Values
      /\ Contents # << >> /\ Head(Contents) = c_value
      /\ Queue(slots, tail', Minus(head, tail')) = Tail(Contents)
  <2>1. head \in Index /\ tail \in Index
    BY <1>1, Zenon
  <2>2. /\ slots[Slot(tail)] \in Values
        /\ \A k \in 1..Minus(head, Inc(tail)) : slots[Slot(Inc(tail) + k - 1)] \in Values
        /\ Contents # << >> /\ Head(Contents) = slots[Slot(tail)]
        /\ Queue(slots, Inc(tail), Minus(head, Inc(tail))) = Tail(Contents)
    BY <1>3, <2>1, QueueShrinks, Zenon DEF Contents
  <2> QED  BY <1>0, <1>1, <2>2, Zenon
<1>5. RingInv'
  <2>1. TypeOK'
    BY <1>0, <1>2, <1>4, Zenon DEF RingInv, TypeOK
  <2>2. Ordered'
    <3>1. Ahead(head)' = Ahead(head) /\ Ahead(c_seen)' = Ahead(c_seen)
      BY <1>0, Zenon DEF Ahead
    <3> QED  BY <1>1, <1>2, <3>1 DEF Ordered
  <2>3. (ProducerHasRoom /\ ConsumerHasData)'
    BY <1>0, Zenon DEF RingInv, ProducerHasRoom, ConsumerHasData, Ahead
  <2>4. SlotsHoldData'
    BY <1>0, <1>4, Zenon DEF RingInv, SlotsHoldData
  <2> QED  BY <2>1, <2>2, <2>3, <2>4, Zenon DEF RingInv
<1>6. Contents' = Tail(Contents)
  BY <1>0, <1>4, Zenon DEF Contents
<1> QED  BY <1>0, <1>4, <1>5, <1>6, Zenon DEF F!Pop

-----------------------------------------------------------------------------
LEMMA RingStep ==
  ASSUME RingInv, [Next]_vars
  PROVE  RingInv' /\ [F!Next]_<<Contents, got>>
<1>1. CASE PushFull
  BY <1>1, PushFullStep, Zenon
<1>2. ASSUME NEW v \in Values, PushRoom(v)
      PROVE  RingInv' /\ [F!Next]_<<Contents, got>>
  BY <1>2, PushRoomStep, Zenon
<1>3. CASE PushWrite
  BY <1>3, PushWriteStep, Zenon
<1>4. CASE PushPublish
  BY <1>4, PushPublishStep, Zenon DEF F!Next
<1>5. CASE PopEmpty \/ PopSome
  BY <1>5, PopLoadStep, Zenon
<1>6. CASE PopRead
  BY <1>6, PopReadStep, Zenon
<1>7. CASE PopPublish
  BY <1>7, PopPublishStep, Zenon DEF F!Next
<1>8. CASE UNCHANGED vars
  <2>1. UNCHANGED <<slots, head, tail, p_pc, p_value, p_seen, c_pc, c_value, c_seen, got>>
    BY <1>8, Zenon DEF vars, producer, consumer
  <2>2. Contents' = Contents
    BY <2>1, Zenon DEF Contents
  <2> QED  BY <2>1, <2>2, Zenon DEF RingInv, TypeOK, Ordered, ProducerHasRoom, ConsumerHasData,
                             SlotsHoldData, Ahead
<1> QED  BY <1>1, <1>2, <1>3, <1>4, <1>5, <1>6, <1>7, <1>8, Zenon DEF Next, Push, Pop

(* push and pop never touch the same slot at the same time.                *)
THEOREM RingSafety == Spec => [](TypeOK /\ NoDataRace)
<1>1. Init => RingInv
  BY InitRing, Zenon
<1>2. RingInv /\ [Next]_vars => RingInv'
  BY RingStep, Zenon
<1>3. RingInv => TypeOK /\ NoDataRace
  BY RaceFree, Zenon DEF RingInv
<1> QED  BY <1>1, <1>2, <1>3, PTL DEF Spec

(* The ring implements the bounded queue: nothing is lost, duplicated,     *)
(* reordered or overwritten, whatever the threads loaded.                  *)
THEOREM RingIsFifo == Spec => ImplementsFifo
<1>1. Init => RingInv /\ F!Init
  BY InitRing, Zenon DEF Init, F!Init
<1>2. RingInv /\ [Next]_vars => RingInv' /\ [F!Next]_<<Contents, got>>
  BY RingStep, Zenon
<1> QED  BY <1>1, <1>2, PTL DEF Spec, ImplementsFifo, F!Spec

-----------------------------------------------------------------------------
(* The ring in shared memory.                                              *)

Pushing == w_pc \in {"write", "publish"}
Popping == r_pc \in {"read", "publish"}

(* The inductive invariant.  Nobody is past the magic before the header is *)
(* whole, and until then no message was moved.                             *)
HeaderFirst ==
    /\ "magic" \in stored => Fields \subseteq stored
    /\ r_pc # "dead" => "magic" \in stored
    /\ w_pc \in {"idle", "write", "publish"} => "magic" \in stored
    /\ w_pc = "create" => "magic" \notin stored
    /\ "magic" \notin stored =>
         /\ good_head = 0 /\ good_tail = 0
         /\ "head" \in stored => head = 0
         /\ "tail" \in stored => tail = 0

(* The indices are as they should be, or so far out of range, after a      *)
(* foreign store, that the operations under way leave them there.          *)
Good == head = good_head /\ tail = good_tail

Bad ==
    /\ foreign
    /\ Minus(head, tail) > (IF Popping THEN Capacity + 1 ELSE Capacity)
    /\ Minus(head, tail) <= (IF Pushing THEN Width - 2 ELSE Width - 1)

GoodOrBad == "magic" \in stored => Good \/ Bad

(* A process inside its call has room or data by the good indices.         *)
InCall ==
    /\ Minus(good_head, good_tail) <= Capacity
    /\ Pushing => /\ w_head = head /\ head = good_head /\ w_value \in Values
                  /\ Minus(good_head, good_tail) < Capacity
    /\ Popping => /\ r_tail = tail /\ tail = good_tail
                  /\ good_head # good_tail

SlotsHoldMessages ==
    /\ \A k \in 1..Minus(good_head, good_tail) : slots[Slot(good_tail + k - 1)] \in Values
    /\ w_pc = "publish" => slots[Slot(good_head)] = w_value
    /\ r_pc = "publish" => r_value = slots[Slot(good_tail)]

ShmInv ==
    RingTypeOK /\ HeaderFirst /\ GoodOrBad /\ InCall /\ SlotsHoldMessages /\ CorruptionIsForeign

LEMMA ShmFacts ==
  ASSUME ShmInv
  PROVE  /\ head \in Index /\ tail \in Index /\ good_head \in Index /\ good_tail \in Index
         /\ Capacity \in Nat /\ Capacity >= 2 /\ Width \in Nat /\ Width > Capacity + 1
         /\ Minus(head, tail) \in Nat /\ Minus(head, tail) < Width
         /\ Minus(good_head, good_tail) \in Nat
<1>1. head \in Index /\ tail \in Index /\ good_head \in Index /\ good_tail \in Index
  BY Zenon DEF ShmInv, RingTypeOK
<1> QED  BY <1>1, RingAssumption DEF Index, Minus

LEMMA InitShm == RingInit => ShmInv /\ Messages = << >>
<1> SUFFICES ASSUME RingInit PROVE ShmInv /\ Messages = << >>
  OBVIOUS
<1>1. 0 \in Index /\ Minus(0, 0) = 0 /\ Capacity \in Nat /\ OldIndex \subseteq Index /\ MaxRefused \in Nat
  BY RingAssumption, ShmRingAssumption DEF Index, Minus
<1>2. RingTypeOK
  <2>1. slots \in [0..(Capacity - 1) -> Values \cup {NoValue}]
    BY Zenon DEF RingInit
  <2>2. corruption_ \in 0..MaxRefused /\ head \in Index /\ tail \in Index
    BY <1>1 DEF RingInit
  <2> QED  BY <1>1, <2>1, <2>2, Zenon DEF RingInit, RingTypeOK
<1>3. Messages = << >>
  BY <1>1 DEF RingInit, Messages, Queue
<1>4. HeaderFirst /\ GoodOrBad /\ CorruptionIsForeign
  BY DEF RingInit, HeaderFirst, GoodOrBad, CorruptionIsForeign
<1>5. InCall /\ SlotsHoldMessages
  BY <1>1 DEF RingInit, InCall, SlotsHoldMessages, Pushing, Popping
<1> QED  BY <1>2, <1>3, <1>4, <1>5, Zenon DEF ShmInv

-----------------------------------------------------------------------------
(* Creating, attaching, dying.                                             *)
LEMMA CreateStep ==
  ASSUME ShmInv, (\E f \in Fields : CreateStore(f)) \/ CreateMagic \/ CreateAgain
  PROVE  ShmInv' /\ UNCHANGED <<Messages, got>>
<1>1. /\ UNCHANGED <<slots, w_head, w_value, r_pc, r_tail, r_value, corruption_>>
      /\ UNCHANGED <<good_head, good_tail, foreign, got>>
      /\ w_pc \in {"create", "dead"} /\ w_pc' \in {"create", "idle"}
  BY Zenon DEF CreateStore, CreateMagic, CreateAgain, writer, reader, ghosts
<1>2. "magic" \notin stored /\ r_pc = "dead" /\ good_head = 0 /\ good_tail = 0
  BY Zenon DEF ShmInv, HeaderFirst, CreateStore, CreateMagic, CreateAgain
<1>3. Messages' = Messages
  BY <1>1, Zenon DEF Messages
<1>4. RingTypeOK'
  <2>1. 0 \in Index
    BY RingAssumption DEF Index
  <2> QED  BY <1>1, <2>1, Zenon DEF ShmInv, RingTypeOK, CreateStore, CreateMagic, CreateAgain
<1>5. HeaderFirst' /\ GoodOrBad'
  <2>1. ASSUME NEW f \in Fields, CreateStore(f)
        PROVE  HeaderFirst' /\ GoodOrBad'
    <3>1. "magic" \notin stored' /\ w_pc' = "create"
      BY <1>2, <2>1, Zenon DEF CreateStore, Fields, writer
    <3> QED  BY <1>1, <1>2, <2>1, <3>1, Zenon DEF ShmInv, HeaderFirst, GoodOrBad, CreateStore
  <2>2. CASE CreateMagic
    <3>1. Fields \subseteq stored' /\ "magic" \in stored' /\ w_pc' = "idle"
      BY <2>2, Zenon DEF CreateMagic
    <3>2. head = 0 /\ tail = 0
      BY <1>2, <2>2, Zenon DEF ShmInv, HeaderFirst, CreateMagic, Fields
    <3> QED  BY <1>1, <1>2, <2>2, <3>1, <3>2, Zenon DEF HeaderFirst, GoodOrBad, Good, CreateMagic
  <2>3. CASE CreateAgain
    BY <1>1, <1>2, <2>3, Zenon DEF HeaderFirst, GoodOrBad, CreateAgain
  <2> QED  BY <2>1, <2>2, <2>3, Zenon
<1>6. InCall' /\ SlotsHoldMessages' /\ CorruptionIsForeign'
  BY <1>1, <1>2, Zenon DEF ShmInv, InCall, SlotsHoldMessages, CorruptionIsForeign, Pushing, Popping
<1> QED  BY <1>1, <1>3, <1>4, <1>5, <1>6, Zenon DEF ShmInv

LEMMA AttachStep ==
  ASSUME ShmInv, WriterAttaches \/ AttachMagic \/ AttachBind \/ WriterDies \/ ReaderDies
  PROVE  ShmInv' /\ UNCHANGED <<Messages, got>>
<1>1. /\ UNCHANGED <<stored, slots, head, tail, w_head, w_value, r_tail, r_value>>
      /\ UNCHANGED <<good_head, good_tail, foreign, got>>
      /\ (w_pc' = w_pc \/ (w_pc' = "idle" /\ "magic" \in stored) \/ w_pc' = "dead")
      /\ (r_pc' = r_pc \/ (r_pc' \in {"magic", "idle"} /\ "magic" \in stored) \/ r_pc' = "dead")
      /\ (corruption_' = corruption_ \/ corruption_' = 0)
  BY Zenon DEF ShmInv, HeaderFirst, WriterAttaches, AttachMagic, AttachBind, WriterDies, ReaderDies, header, writer, reader,
         ghosts, Attachable
<1>2. Messages' = Messages
  BY <1>1, Zenon DEF Messages
<1>3. RingTypeOK' /\ CorruptionIsForeign'
  BY <1>1, ShmRingAssumption DEF ShmInv, RingTypeOK, CorruptionIsForeign
<1>4. HeaderFirst'
  BY <1>1, Zenon DEF ShmInv, HeaderFirst
<1>5. (Pushing' => Pushing /\ w_pc' = w_pc) /\ (Popping' => Popping /\ r_pc' = r_pc)
  BY <1>1, Zenon DEF Pushing, Popping
<1>6. GoodOrBad'
  <2>1. Minus(head, tail)' = Minus(head, tail)
    BY <1>1, Zenon
  <2> QED  BY <1>1, <1>5, <2>1, ShmFacts DEF ShmInv, GoodOrBad, Good, Bad
<1>7. InCall' /\ SlotsHoldMessages'
  BY <1>1, <1>5, Zenon DEF ShmInv, InCall, SlotsHoldMessages, Pushing, Popping
<1> QED  BY <1>1, <1>2, <1>3, <1>4, <1>6, <1>7, Zenon DEF ShmInv

(* A foreign index is out of range and stays there; recovering ends that.  *)
LEMMA ForeignStep ==
  ASSUME ShmInv, ForeignStore \/ Recover
  PROVE  ShmInv' /\ UNCHANGED <<Messages, got>>
<1>1. /\ UNCHANGED <<stored, slots, w_pc, w_head, w_value, r_pc, r_tail, r_value, corruption_>>
      /\ UNCHANGED <<good_head, good_tail, got>> /\ "magic" \in stored
  BY Zenon DEF ForeignStore, Recover, header, writer, reader, ghosts, Attachable
<1>2. Messages' = Messages
  BY <1>1, Zenon DEF Messages
<1>3. RingTypeOK' /\ CorruptionIsForeign'
  <2>1. head' \in Index /\ tail' \in Index
    BY Zenon DEF ShmInv, RingTypeOK, ForeignStore, Recover
  <2>2. foreign' \in BOOLEAN /\ (foreign => foreign')
    BY Zenon DEF ShmInv, RingTypeOK, ForeignStore, Recover, ghosts
  <2> QED  BY <1>1, <2>1, <2>2, Zenon DEF ShmInv, RingTypeOK, CorruptionIsForeign
<1>4. HeaderFirst'
  BY <1>1, Zenon DEF ShmInv, HeaderFirst
<1>5. GoodOrBad'
  <2>1. CASE Recover
    BY <1>1, <2>1, Zenon DEF Recover, GoodOrBad, Good
  <2>2. CASE ForeignStore
    <3>1. Nonsense(head', tail') /\ foreign'
      BY <2>2, Zenon DEF ForeignStore
    <3> QED  BY <1>1, <3>1, RingAssumption DEF Nonsense, GoodOrBad, Bad
  <2> QED  BY <2>1, <2>2, Zenon
<1>6. (Pushing => head' = head) /\ (Popping => tail' = tail)
  BY Zenon DEF ForeignStore, Recover, Pushing, Popping
<1>7. InCall' /\ SlotsHoldMessages'
  BY <1>1, <1>6, Zenon DEF ShmInv, InCall, SlotsHoldMessages, Pushing, Popping
<1> QED  BY <1>1, <1>2, <1>3, <1>4, <1>5, <1>7, Zenon DEF ShmInv

-----------------------------------------------------------------------------
(* push.  It starts only on good indices, for a bad one looks full.        *)
LEMMA ClaimStep ==
  ASSUME ShmInv, NEW v \in Values, WriterClaims(v)
  PROVE  ShmInv' /\ UNCHANGED <<Messages, got>>
<1>1. /\ w_pc = "idle" /\ w_pc' = "write" /\ w_head' = head /\ w_value' = v
      /\ UNCHANGED <<stored, slots, head, tail, r_pc, r_tail, r_value, corruption_>>
      /\ UNCHANGED <<good_head, good_tail, foreign, got>> /\ Minus(head, tail) < Capacity
  BY Zenon DEF WriterClaims, header, reader, ghosts
<1>2. "magic" \in stored /\ Good
  BY <1>1, ShmFacts DEF ShmInv, HeaderFirst, GoodOrBad, Bad
<1>3. Messages' = Messages /\ Good' /\ Pushing'
  BY <1>1, <1>2, Zenon DEF Messages, Good, Pushing
<1>4. RingTypeOK' /\ CorruptionIsForeign' /\ HeaderFirst' /\ GoodOrBad'
  BY <1>1, <1>2, <1>3, Zenon DEF ShmInv, RingTypeOK, CorruptionIsForeign, HeaderFirst, GoodOrBad
<1>5. InCall' /\ SlotsHoldMessages'
  BY <1>1, <1>2, <1>3, Zenon DEF ShmInv, InCall, SlotsHoldMessages, Popping, Good
<1> QED  BY <1>1, <1>3, <1>4, <1>5, Zenon DEF ShmInv

(* The slot written is behind the queue.                                   *)
LEMMA FillStep ==
  ASSUME ShmInv, WriterFills
  PROVE  ShmInv' /\ UNCHANGED <<Messages, got>>
<1>1. /\ w_pc = "write" /\ w_pc' = "publish"
      /\ slots' = [slots EXCEPT ![Slot(w_head)] = w_value]
      /\ UNCHANGED <<stored, head, tail, w_head, w_value, r_pc, r_tail, r_value, corruption_>>
      /\ UNCHANGED <<good_head, good_tail, foreign, got>>
  BY Zenon DEF WriterFills, reader, ghosts
<1>2. /\ Pushing /\ Pushing' /\ Popping' = Popping /\ w_head = good_head /\ w_value \in Values
      /\ Minus(good_head, good_tail) < Capacity
  BY <1>1, Zenon DEF ShmInv, InCall, Pushing, Popping
<1>3. slots \in [0..(Capacity - 1) -> Values \cup {NoValue}]
  BY Zenon DEF ShmInv, RingTypeOK
<1>4. /\ \A k \in 1..Minus(good_head, good_tail) :
           slots'[Slot(good_tail + k - 1)] = slots[Slot(good_tail + k - 1)]
      /\ Messages' = Messages
      /\ slots'[Slot(good_head)] = w_value
  <2>1. good_head \in Index /\ good_tail \in Index /\ Slot(good_head) \in 0..(Capacity - 1)
    BY ShmFacts, SlotFacts, Zenon
  <2>2. /\ slots'[Slot(good_head)] = w_value
        /\ \A j \in 0..(Capacity - 1) : j # Slot(good_head) => slots'[j] = slots[j]
    BY <1>1, <1>2, <1>3, <2>1, Zenon
  <2>3. /\ Queue(slots', good_tail, Minus(good_head, good_tail))
              = Queue(slots, good_tail, Minus(good_head, good_tail))
        /\ \A k \in 1..Minus(good_head, good_tail) :
             slots'[Slot(good_tail + k - 1)] = slots[Slot(good_tail + k - 1)]
    BY <1>2, <2>1, <2>2, QueueKept
  <2> QED  BY <1>1, <2>2, <2>3, Zenon DEF Messages
<1>5. RingTypeOK' /\ CorruptionIsForeign' /\ HeaderFirst'
  BY <1>1, <1>2, <1>3, Zenon DEF ShmInv, RingTypeOK, CorruptionIsForeign, HeaderFirst
<1>6. GoodOrBad' /\ InCall'
  <2>1. Minus(head, tail)' = Minus(head, tail)
    BY <1>1, Zenon
  <2> QED  BY <1>1, <1>2, <2>1, Zenon DEF ShmInv, GoodOrBad, Good, Bad, InCall
<1>7. SlotsHoldMessages'
  <2>1. r_pc = "publish" => slots'[Slot(good_tail)] = slots[Slot(good_tail)]
    <3> SUFFICES ASSUME r_pc = "publish" PROVE slots'[Slot(good_tail)] = slots[Slot(good_tail)]
      OBVIOUS
    <3>1. good_head # good_tail
      BY Zenon DEF ShmInv, InCall, Popping
    <3>2. 1 \in 1..Minus(good_head, good_tail) /\ good_tail + 1 - 1 = good_tail
      BY <3>1, ShmFacts DEF Index, Minus
    <3> QED  BY <1>4, <3>2, Zenon
  <2> QED  BY <1>1, <1>4, <2>1, Zenon DEF ShmInv, SlotsHoldMessages
<1> QED  BY <1>1, <1>4, <1>5, <1>6, <1>7, Zenon DEF ShmInv

(* The store to head appends the value.                                    *)
LEMMA WriterPublishStep ==
  ASSUME ShmInv, WriterPublishes
  PROVE  ShmInv' /\ Q!Push
<1>1. /\ w_pc = "publish" /\ w_pc' = "idle" /\ head' = Inc(w_head) /\ good_head' = Inc(good_head)
      /\ UNCHANGED <<stored, slots, tail, w_head, w_value, r_pc, r_tail, r_value, corruption_>>
      /\ UNCHANGED <<good_tail, foreign, got>>
  BY Zenon DEF WriterPublishes, header, reader
<1>2. /\ Pushing /\ ~Pushing' /\ Popping' = Popping /\ w_head = head /\ head = good_head
      /\ w_value \in Values /\ Minus(good_head, good_tail) < Capacity
      /\ slots[Slot(good_head)] = w_value
  BY <1>1, Zenon DEF ShmInv, InCall, SlotsHoldMessages, Pushing, Popping
<1>3. \A k \in 1..Minus(good_head, good_tail) : slots[Slot(good_tail + k - 1)] \in Values
  BY Zenon DEF ShmInv, SlotsHoldMessages
<1>4. /\ Minus(Inc(good_head), good_tail) = Minus(good_head, good_tail) + 1
      /\ \A k \in 1..Minus(Inc(good_head), good_tail) : slots[Slot(good_tail + k - 1)] \in Values
      /\ Queue(slots, good_tail, Minus(Inc(good_head), good_tail))
            = Append(Queue(slots, good_tail, Minus(good_head, good_tail)), w_value)
  BY <1>2, <1>3, ShmFacts, QueueGrows, Zenon
<1>5. Inc(head) \in Index /\ (Minus(head, tail) < Width - 1 => Minus(head', tail) = Minus(head, tail) + 1)
  BY <1>1, <1>2, ShmFacts, IndexFacts, Zenon
<1>6. RingTypeOK' /\ CorruptionIsForeign' /\ HeaderFirst'
  BY <1>1, <1>2, <1>5, Zenon DEF ShmInv, RingTypeOK, CorruptionIsForeign, HeaderFirst
<1>7. GoodOrBad'
  <2>1. CASE Good
    BY <1>1, <1>2, <2>1, Zenon DEF GoodOrBad, Good
  <2>2. CASE Bad
    BY <1>1, <1>2, <1>5, <2>2, ShmFacts DEF GoodOrBad, Bad
  <2> QED  BY <1>1, <2>1, <2>2, Zenon DEF ShmInv, GoodOrBad, HeaderFirst
<1>8. InCall'
  <2>1. Popping => Inc(good_head) # good_tail
    <3>1. Minus(Inc(good_head), good_tail) # 0
      BY <1>4, ShmFacts
    <3> QED  BY <3>1, ShmFacts DEF Minus, Index
  <2> QED  BY <1>1, <1>2, <1>4, <2>1, ShmFacts DEF ShmInv, InCall
<1>9. SlotsHoldMessages'
  BY <1>1, <1>4, Zenon DEF ShmInv, SlotsHoldMessages
<1>10. Len(Messages) < Capacity /\ Messages' = Append(Messages, w_value)
  <2>1. Len(Messages) = Minus(good_head, good_tail)
    BY <1>3, ShmFacts, QueueFacts, Zenon DEF Messages
  <2> QED  BY <1>1, <1>2, <1>4, <2>1, Zenon DEF Messages
<1> QED  BY <1>1, <1>2, <1>6, <1>7, <1>8, <1>9, <1>10, Zenon DEF ShmInv, Q!Push

-----------------------------------------------------------------------------
(* pop.  It starts only on good indices, for bad ones are refused.         *)
LEMMA FindStep ==
  ASSUME ShmInv, ReaderFinds
  PROVE  ShmInv' /\ UNCHANGED <<Messages, got>>
<1>1. /\ r_pc = "idle" /\ r_pc' = "read" /\ r_tail' = tail /\ head # tail
      /\ UNCHANGED <<stored, slots, head, tail, w_pc, w_head, w_value, r_value, corruption_>>
      /\ UNCHANGED <<good_head, good_tail, foreign, got>> /\ ~(Minus(head, tail) > Capacity)
  BY Zenon DEF ReaderFinds, OutOfRange, header, writer, ghosts
<1>2. "magic" \in stored /\ Good
  BY <1>1, ShmFacts DEF ShmInv, HeaderFirst, GoodOrBad, Bad
<1>3. Messages' = Messages /\ Good' /\ Pushing' = Pushing
  BY <1>1, <1>2, Zenon DEF Messages, Good, Pushing
<1>4. RingTypeOK' /\ CorruptionIsForeign' /\ HeaderFirst' /\ GoodOrBad'
  BY <1>1, <1>2, <1>3, Zenon DEF ShmInv, RingTypeOK, CorruptionIsForeign, HeaderFirst, GoodOrBad
<1>5. InCall' /\ SlotsHoldMessages'
  BY <1>1, <1>2, <1>3, Zenon DEF ShmInv, InCall, SlotsHoldMessages, Good
<1> QED  BY <1>1, <1>3, <1>4, <1>5, Zenon DEF ShmInv

LEMMA RefuseStep ==
  ASSUME ShmInv, ReaderRefuses
  PROVE  ShmInv' /\ UNCHANGED <<Messages, got>>
<1>1. /\ UNCHANGED <<stored, slots, head, tail, w_pc, w_head, w_value, r_pc, r_tail, r_value>>
      /\ UNCHANGED <<good_head, good_tail, foreign, got>> /\ Minus(head, tail) > Capacity
      /\ r_pc = "idle" /\ corruption_' = corruption_ + 1 /\ corruption_ < MaxRefused
  BY Zenon DEF ReaderRefuses, OutOfRange, header, writer, ghosts
<1>2. foreign
  <2>1. ~Good
    BY <1>1, ShmFacts DEF ShmInv, InCall, Good
  <2> QED  BY <1>1, <2>1, Zenon DEF ShmInv, HeaderFirst, GoodOrBad, Bad
<1>3. corruption_' \in 0..MaxRefused
  BY <1>1, ShmRingAssumption DEF ShmInv, RingTypeOK
<1>4. RingTypeOK' /\ CorruptionIsForeign' /\ HeaderFirst'
  BY <1>1, <1>2, <1>3, Zenon DEF ShmInv, RingTypeOK, CorruptionIsForeign, HeaderFirst
<1>5. GoodOrBad' /\ InCall' /\ SlotsHoldMessages' /\ Messages' = Messages
  BY <1>1, Zenon DEF ShmInv, GoodOrBad, Good, Bad, InCall, SlotsHoldMessages, Pushing, Popping, Messages
<1> QED  BY <1>1, <1>4, <1>5, Zenon DEF ShmInv

LEMMA CopyStep ==
  ASSUME ShmInv, ReaderCopies
  PROVE  ShmInv' /\ UNCHANGED <<Messages, got>>
<1>1. /\ r_pc = "read" /\ r_pc' = "publish" /\ r_value' = slots[Slot(r_tail)]
      /\ UNCHANGED <<stored, slots, head, tail, w_pc, w_head, w_value, r_tail, corruption_>>
      /\ UNCHANGED <<good_head, good_tail, foreign, got>>
  BY Zenon DEF ReaderCopies, header, writer, ghosts
<1>2. Popping /\ Popping' /\ Pushing' = Pushing /\ r_tail = good_tail
  BY <1>1, Zenon DEF ShmInv, InCall, Pushing, Popping
<1>3. r_value' \in Values \cup {NoValue}
  <2>1. Slot(good_tail) \in 0..(Capacity - 1)
    BY ShmFacts, SlotFacts, Zenon
  <2> QED  BY <1>1, <1>2, <2>1, Zenon DEF ShmInv, RingTypeOK
<1>4. RingTypeOK' /\ CorruptionIsForeign' /\ HeaderFirst'
  BY <1>1, <1>3, Zenon DEF ShmInv, RingTypeOK, CorruptionIsForeign, HeaderFirst
<1>5. GoodOrBad' /\ InCall' /\ Messages' = Messages
  BY <1>1, <1>2, Zenon DEF ShmInv, GoodOrBad, Good, Bad, InCall, Messages
<1>6. SlotsHoldMessages'
  BY <1>1, <1>2, Zenon DEF ShmInv, SlotsHoldMessages
<1> QED  BY <1>1, <1>4, <1>5, <1>6, Zenon DEF ShmInv

(* The store to tail takes the oldest value out.                           *)
LEMMA ReaderPublishStep ==
  ASSUME ShmInv, ReaderPublishes
  PROVE  ShmInv' /\ Q!Pop
<1>1. /\ r_pc = "publish" /\ r_pc' = "idle" /\ tail' = Inc(r_tail) /\ good_tail' = Inc(good_tail)
      /\ got' = << r_value >>
      /\ UNCHANGED <<stored, slots, head, w_pc, w_head, w_value, r_tail, r_value, corruption_>>
      /\ UNCHANGED <<good_head, foreign>>
  BY Zenon DEF ReaderPublishes, header, writer
<1>2. /\ Popping /\ ~Popping' /\ Pushing' = Pushing /\ r_tail = tail /\ tail = good_tail
      /\ good_head # good_tail /\ r_value = slots[Slot(good_tail)]
  BY <1>1, Zenon DEF ShmInv, InCall, SlotsHoldMessages, Pushing, Popping
<1>3. \A k \in 1..Minus(good_head, good_tail) : slots[Slot(good_tail + k - 1)] \in Values
  BY Zenon DEF ShmInv, SlotsHoldMessages
<1>4. /\ Minus(good_head, Inc(good_tail)) = Minus(good_head, good_tail) - 1
      /\ \A k \in 1..Minus(good_head, Inc(good_tail)) : slots[Slot(Inc(good_tail) + k - 1)] \in Values
      /\ Messages # << >> /\ Head(Messages) = r_value
      /\ Queue(slots, Inc(good_tail), Minus(good_head, Inc(good_tail))) = Tail(Messages)
  BY <1>2, <1>3, ShmFacts, QueueShrinks DEF Messages
<1>5. Inc(tail) \in Index /\ (head # tail => Minus(head, tail') = Minus(head, tail) - 1)
  BY <1>1, <1>2, ShmFacts DEF Index, Inc, Minus
<1>6. RingTypeOK' /\ CorruptionIsForeign' /\ HeaderFirst'
  BY <1>1, <1>2, <1>5, Zenon DEF ShmInv, RingTypeOK, CorruptionIsForeign, HeaderFirst
<1>7. GoodOrBad'
  <2>1. CASE Good
    BY <1>1, <1>2, <2>1, Zenon DEF GoodOrBad, Good
  <2>2. CASE Bad
    <3>1. head # tail
      BY <2>2, ShmFacts DEF Bad, Minus, Index
    <3> QED  BY <1>1, <1>2, <1>5, <2>2, <3>1, ShmFacts DEF GoodOrBad, Bad
  <2> QED  BY <1>1, <2>1, <2>2, Zenon DEF ShmInv, GoodOrBad, HeaderFirst
<1>8. InCall'
  BY <1>1, <1>2, <1>4, ShmFacts DEF ShmInv, InCall
<1>9. SlotsHoldMessages'
  BY <1>1, <1>4, Zenon DEF ShmInv, SlotsHoldMessages
<1>10. Messages' = Tail(Messages)
  BY <1>1, <1>4, Zenon DEF Messages
<1> QED  BY <1>1, <1>4, <1>6, <1>7, <1>8, <1>9, <1>10, Zenon DEF ShmInv, Q!Pop

-----------------------------------------------------------------------------
LEMMA ShmStep ==
  ASSUME ShmInv, [RingNext]_ringvars
  PROVE  ShmInv' /\ [Q!Next]_<<Messages, got>>
<1>1. CASE (\E f \in Fields : CreateStore(f)) \/ CreateMagic \/ CreateAgain
  BY <1>1, CreateStep, Zenon
<1>2. CASE WriterAttaches \/ AttachMagic \/ AttachBind \/ WriterDies \/ ReaderDies
  BY <1>2, AttachStep, Zenon
<1>3. CASE ForeignStore \/ Recover
  BY <1>3, ForeignStep, Zenon
<1>4. ASSUME NEW v \in Values, WriterClaims(v)
      PROVE  ShmInv' /\ [Q!Next]_<<Messages, got>>
  BY <1>4, ClaimStep, Zenon
<1>5. CASE WriterFills
  BY <1>5, FillStep, Zenon
<1>6. CASE WriterPublishes
  BY <1>6, WriterPublishStep, Zenon DEF Q!Next
<1>7. CASE ReaderFinds \/ ReaderRefuses \/ ReaderCopies
  BY <1>7, FindStep, RefuseStep, CopyStep, Zenon
<1>8. CASE ReaderPublishes
  BY <1>8, ReaderPublishStep, Zenon DEF Q!Next
<1>9. CASE UNCHANGED ringvars
  <2>1. /\ UNCHANGED <<stored, slots, head, tail, w_pc, w_head, w_value>>
        /\ UNCHANGED <<r_pc, r_tail, r_value, corruption_, good_head, good_tail, foreign, got>>
    BY <1>9, Zenon DEF ringvars, header, writer, reader, ghosts
  <2>2. RingTypeOK' /\ HeaderFirst' /\ CorruptionIsForeign' /\ Messages' = Messages
    BY <2>1, Zenon DEF ShmInv, RingTypeOK, HeaderFirst, CorruptionIsForeign, Messages
  <2>3. GoodOrBad' /\ InCall' /\ SlotsHoldMessages'
    BY <2>1, Zenon DEF ShmInv, GoodOrBad, Good, Bad, InCall, SlotsHoldMessages, Pushing, Popping
  <2> QED  BY <2>1, <2>2, <2>3, Zenon DEF ShmInv
<1> QED  BY <1>1, <1>2, <1>3, <1>4, <1>5, <1>6, <1>7, <1>8, <1>9, Zenon DEF RingNext, Writer, Reader

LEMMA ShmInvariant == RingSpec => []ShmInv
<1>1. ShmInv /\ [RingNext]_ringvars => ShmInv'
  BY ShmStep, Zenon
<1> QED  BY <1>1, InitShm, PTL DEF RingSpec

(* A process that is bound to the ring finds its whole header, wherever in *)
(* create the writer is or died.                                           *)
THEOREM HeaderIsWhole == RingSpec => []BoundIsWhole
<1>1. ShmInv => BoundIsWhole
  BY Zenon DEF ShmInv, RingTypeOK, HeaderFirst, BoundIsWhole
<1> QED  BY <1>1, ShmInvariant, PTL

(* pop counts corruption only after a foreign store.                       *)
THEOREM CorruptionIsNotOurs == RingSpec => []CorruptionIsForeign
<1>1. ShmInv => CorruptionIsForeign
  BY Zenon DEF ShmInv
<1> QED  BY <1>1, ShmInvariant, PTL

(* The ring implements the bounded queue, whatever process dies at which   *)
(* access, and whatever a foreign process stored in the meantime.          *)
THEOREM ShmRingIsFifo == RingSpec => SurvivesDeaths
<1>1. RingInit => ShmInv /\ Q!Init
  BY InitShm, Zenon DEF RingInit, Q!Init
<1>2. ShmInv /\ [RingNext]_ringvars => ShmInv' /\ [Q!Next]_<<Messages, got>>
  BY ShmStep, Zenon
<1> QED  BY <1>1, <1>2, PTL DEF RingSpec, SurvivesDeaths, Q!Spec

-----------------------------------------------------------------------------
(* The demo.  Its inductive invariant says, for every place the parent can *)
(* be in, what is in the rings and where the child can be; a parent that   *)
(* ended with an error says nothing.                                       *)
Message == [seq: Int, payload: SUBSET Int]

(* What the parent streams: message number k, or the sentinel after all.   *)
Item(k) == IF k <= stream_count THEN Msg(k - 1, {k - 1}) ELSE Sentinel

(* The parent has pushed total items and the child has drained count.      *)
Draining(total) ==
    /\ count \in 0..stream_count /\ checksum = 0..(count - 1)
    /\ to_writer = << >> /\ to_reader \in Seq(Message)
    /\ count + Len(to_reader) = total
    /\ \A k \in 1..Len(to_reader) : to_reader[k] = Item(count + k)
    /\ child_pc \in {"open", "stream", "ended"}
    /\ child_pc = "open" => count = 0

Drained == count = stream_count /\ checksum = 0..(stream_count - 1)

Reporting ==
    /\ Drained /\ to_reader = << >>
    /\ \/ to_writer = << >> /\ child_pc \in {"report", "ended"}
       \/ to_writer = << Msg(stream_count, 0..(stream_count - 1)) >> /\ child_pc \in {"ping", "ended"}

Quiet ==
    /\ Drained /\ to_reader = << >> /\ to_writer = << >>
    /\ child_pc \in {"ping", "ended"}

(* One ping is under way: to the child, in its hands, or back.             *)
UnderWay ==
    /\ Drained
    /\ \/ to_reader = << Msg(p_i, {}) >> /\ to_writer = << >> /\ child_pc \in {"ping", "ended"}
       \/ /\ to_reader = << >> /\ to_writer = << >>
          /\ child_pc = "ended" \/ (child_pc = "echo" /\ c_held = Msg(p_i, {}))
       \/ to_reader = << >> /\ to_writer = << Msg(p_i, {}) >> /\ child_pc \in {"ping", "ended"}

Stopping ==
    /\ Drained /\ to_writer = << >>
    /\ \/ to_reader = << Sentinel >> /\ child_pc \in {"ping", "ended"} /\ c_rc # "0"
       \/ to_reader = << >> /\ child_pc = "ended"

Before == parent_pc # "ended" /\ parent_pc # "waitpid"

IpcInv ==
    /\ ~alarm /\ p_i \in Nat
    /\ p_rc = "running" <=> parent_pc # "ended"
    /\ c_rc = "running" <=> child_pc # "ended"
    /\ parent_pc \in {"setup", "stream", "ack", "warmup", "warmup echo", "ping", "pong", "stop",
                 "waitpid", "ended"}
    /\ Before => c_rc # "0"
    /\ parent_pc = "setup" => /\ child_pc = "none" /\ to_reader = << >> /\ to_writer = << >>
                         /\ p_i = 0 /\ count = 0 /\ checksum = {}
    /\ parent_pc = "stream" => p_i <= stream_count /\ Draining(p_i)
    /\ parent_pc = "ack" => Draining(stream_count + 1) \/ Reporting
    /\ parent_pc \in {"warmup", "ping", "stop"} => Quiet
    /\ parent_pc \in {"warmup echo", "pong"} => UnderWay
    /\ parent_pc = "waitpid" => Stopping
    /\ p_rc = "0" => Drained /\ to_reader = << >> /\ to_writer = << >> /\ c_rc = "0"

LEMMA OneMessage ==
  /\ \A x : /\ Head(<< x >>) = x /\ Tail(<< x >>) = << >> /\ << x >> # << >>
            /\ Append(<< >>, x) = << x >> /\ Len(<< x >>) = 1
  /\ Len(<< >>) = 0
OBVIOUS

LEMMA InitDemo == DemoInit => IpcInv
<1> SUFFICES ASSUME DemoInit PROVE IpcInv
  OBVIOUS
<1> QED  BY Zenon DEF DemoInit, IpcInv, Before

LEMMA DemoStutters == IpcInv /\ UNCHANGED demovars => IpcInv'
<1> SUFFICES ASSUME IpcInv, UNCHANGED demovars PROVE IpcInv'
  OBVIOUS
<1>1. /\ to_reader' = to_reader /\ to_writer' = to_writer
      /\ parent_pc' = parent_pc /\ p_i' = p_i /\ p_rc' = p_rc /\ alarm' = alarm
      /\ child_pc' = child_pc /\ c_held' = c_held /\ count' = count /\ checksum' = checksum /\ c_rc' = c_rc
  BY Zenon DEF demovars, rings, parent, child
<1> QED  BY <1>1, Zenon DEF IpcInv, Before, Draining, Reporting, Quiet, UnderWay, Stopping, Drained

LEMMA ParentGivesUp ==
  ASSUME IpcInv, parent_pc' = "ended", p_rc' = "1" \/ p_rc' = "killed", p_i' = p_i, alarm' = alarm,
         child_pc' = child_pc, c_rc' = c_rc
  PROVE  IpcInv'
BY Zenon DEF IpcInv, Before

LEMMA ChildGivesUp ==
  ASSUME IpcInv, child_pc # "none", child_pc # "ended", child_pc' = "ended",
         c_rc' = "2" \/ c_rc' = "3" \/ c_rc' = "killed",
         UNCHANGED <<rings, parent, c_held, count, checksum>>
  PROVE  IpcInv'
<1>1. /\ to_reader' = to_reader /\ to_writer' = to_writer
      /\ parent_pc' = parent_pc /\ p_i' = p_i /\ p_rc' = p_rc /\ alarm' = alarm
      /\ c_held' = c_held /\ count' = count /\ checksum' = checksum
  BY Zenon DEF rings, parent
<1>2. p_rc # "0" /\ parent_pc # "setup"
  BY Zenon DEF IpcInv
<1>3. ~alarm' /\ p_i' \in Nat /\ (p_rc' = "running" <=> parent_pc' # "ended")
      /\ (c_rc' = "running" <=> child_pc' # "ended")
      /\ parent_pc' \in {"setup", "stream", "ack", "warmup", "warmup echo", "ping", "pong", "stop",
                    "waitpid", "ended"}
      /\ c_rc' # "0"
  BY <1>1, Zenon DEF IpcInv
<1>4. /\ Drained' <=> Drained
      /\ Draining(p_i)' <=> /\ count \in 0..stream_count /\ checksum = 0..(count - 1)
                            /\ to_writer = << >> /\ to_reader \in Seq(Message)
                            /\ count + Len(to_reader) = p_i
                            /\ \A k \in 1..Len(to_reader) : to_reader[k] = Item(count + k)
  BY <1>1, Zenon DEF Drained, Draining
<1>5. parent_pc = "stream" => p_i' <= stream_count /\ Draining(p_i)'
  BY <1>1, <1>4, Zenon DEF IpcInv, Draining
<1>6. parent_pc = "ack" => Draining(stream_count + 1)' \/ Reporting'
  BY <1>1, <1>4, Zenon DEF IpcInv, Draining, Reporting
<1>7. /\ parent_pc \in {"warmup", "ping", "stop"} => Quiet'
      /\ parent_pc \in {"warmup echo", "pong"} => UnderWay'
      /\ parent_pc = "waitpid" => Stopping'
  BY <1>1, <1>3, <1>4, Zenon DEF IpcInv, Quiet, UnderWay, Stopping
<1> QED  BY <1>1, <1>2, <1>3, <1>5, <1>6, <1>7, Zenon DEF IpcInv

LEMMA KilledStep ==
  ASSUME IpcInv, Killed
  PROVE  IpcInv'
<1>1. CASE parent_pc # "ended" /\ ParentEnds("killed") /\ UNCHANGED <<rings, alarm, child>>
  BY <1>1, ParentGivesUp, Zenon DEF ParentEnds, child
<1>2. CASE child_pc \notin {"none", "ended"} /\ ChildEnds("killed")
           /\ UNCHANGED <<rings, parent, c_held, count, checksum>>
  BY <1>2, ChildGivesUp, Zenon DEF ChildEnds
<1> QED  BY <1>1, <1>2, Zenon DEF Killed

LEMMA SetupStep ==
  ASSUME IpcInv, Setup
  PROVE  IpcInv'
<1>1. /\ parent_pc = "setup" /\ to_reader = << >> /\ to_writer = << >> /\ p_i = 0 /\ count = 0
      /\ checksum = {} /\ p_rc = "running" /\ c_rc = "running" /\ ~alarm
      /\ to_reader' = to_reader /\ to_writer' = to_writer /\ alarm' = alarm /\ c_held' = c_held
      /\ count' = count /\ checksum' = checksum /\ c_rc' = c_rc
  BY Zenon DEF IpcInv, Setup, rings
<1>2. CASE parent_pc' = "stream" /\ child_pc' = "open" /\ UNCHANGED <<p_i, p_rc>>
  <2>1. Draining(p_i)'
    BY <1>1, <1>2, IpcAssumption DEF Draining
  <2> QED  BY <1>1, <1>2, <2>1, IpcAssumption DEF IpcInv, Before
<1>3. CASE ParentEnds("1") /\ UNCHANGED child_pc
  BY <1>1, <1>3, ParentGivesUp, Zenon DEF ParentEnds
<1> QED  BY <1>2, <1>3, Zenon DEF Setup

(* What holds in every state of a demo that runs.                          *)
LEMMA Running ==
  ASSUME IpcInv, parent_pc # "ended"
  PROVE  p_rc = "running" /\ ~alarm /\ p_i \in Nat
BY Zenon DEF IpcInv

(* The parent pushes a message of the stream, or the sentinel.             *)
LEMMA StreamStep ==
  ASSUME IpcInv, Stream \/ StreamSentinel
  PROVE  IpcInv'
<1>1. /\ parent_pc = "stream" /\ p_i \in Nat /\ p_i <= stream_count /\ Draining(p_i)
      /\ p_rc = "running" /\ c_rc # "0" /\ ~alarm /\ (c_rc = "running" <=> child_pc # "ended")
  BY Zenon DEF IpcInv, Stream, StreamSentinel, Before
<1> DEFINE m == Item(p_i + 1)
<1>2. /\ to_reader' = Append(to_reader, m) /\ to_writer' = to_writer /\ p_rc' = p_rc
      /\ alarm' = alarm /\ child_pc' = child_pc /\ c_held' = c_held /\ count' = count
      /\ checksum' = checksum /\ c_rc' = c_rc
  <2>1. CASE Stream
    <3>1. m = Msg(p_i, {p_i})
      BY <1>1, <2>1, IpcAssumption DEF Item, Stream
    <3> HIDE DEF m
    <3> QED  BY <2>1, <3>1, Zenon DEF Stream, ParentPushes, child
  <2>2. CASE StreamSentinel
    <3>1. m = Sentinel
      BY <1>1, <2>2, IpcAssumption DEF Item, StreamSentinel
    <3> HIDE DEF m
    <3> QED  BY <2>2, <3>1, Zenon DEF StreamSentinel, ParentPushes, child
  <2> QED  BY <2>1, <2>2, Zenon
<1>3. m \in Message
  BY <1>1, IpcAssumption DEF Item, Message, Msg, Sentinel, kSentinel
<1>a. PICK n \in Nat : n = p_i + 1
  BY <1>1
<1>4. Draining(n)'
  <2> HIDE DEF m
  <2>1. /\ to_reader \in Seq(Message) /\ count \in Nat /\ Len(to_reader) \in Nat
        /\ count + Len(to_reader) = p_i
    BY <1>1, IpcAssumption DEF Draining
  <2>2. to_reader' \in Seq(Message) /\ Len(to_reader') = Len(to_reader) + 1
    BY <1>2, <1>3, <2>1
  <2>3. ASSUME NEW k \in 1..Len(to_reader') PROVE to_reader'[k] = Item(count + k)
    <3>1. CASE k <= Len(to_reader)
      BY <1>1, <1>2, <2>1, <2>2, <3>1 DEF Draining
    <3>2. CASE k = Len(to_reader) + 1
      <4>1. to_reader'[k] = m /\ count + k = p_i + 1
        BY <1>2, <2>1, <3>2
      <4> QED  BY <4>1, Zenon DEF m
    <3> QED  BY <2>1, <2>2, <3>1, <3>2
  <2>4. count' + Len(to_reader') = n
    BY <1>2, <1>a, <2>1, <2>2
  <2> QED  BY <1>1, <1>2, <2>2, <2>3, <2>4, Zenon DEF Draining
<1>5. CASE Stream
  <2>1. parent_pc' = "stream" /\ p_i' = p_i + 1 /\ p_i' \in Nat /\ p_i' <= stream_count
    BY <1>1, <1>5, IpcAssumption DEF Stream
  <2>2. Draining(p_i)'
    BY <1>4, <1>a, <2>1, Zenon DEF Draining
  <2> QED  BY <1>1, <1>2, <2>1, <2>2, Zenon DEF IpcInv, Before
<1>6. CASE StreamSentinel
  <2>1. parent_pc' = "ack" /\ p_i' = 0 /\ p_i = stream_count
    BY <1>6, Zenon DEF StreamSentinel
  <2>2. Draining(stream_count + 1)'
    BY <1>4, <1>a, <2>1, Zenon
  <2> QED  BY <1>1, <1>2, <2>1, <2>2, Zenon DEF IpcInv, Before
<1> QED  BY <1>5, <1>6, Zenon

(* The parent takes the report, and an echo of the warm-up or the pong.    *)
LEMMA TakeAckStep ==
  ASSUME IpcInv, TakeAck
  PROVE  IpcInv'
<1>1. /\ parent_pc = "ack" /\ p_rc = "running" /\ p_i \in Nat /\ c_rc # "0" /\ ~alarm
      /\ (c_rc = "running" <=> child_pc # "ended") /\ (Draining(stream_count + 1) \/ Reporting)
      /\ to_writer # << >> /\ to_writer' = Tail(to_writer) /\ to_reader' = to_reader
  BY Zenon DEF IpcInv, TakeAck, ParentPops, Before
<1>2. /\ Drained /\ to_reader = << >> /\ child_pc \in {"ping", "ended"}
      /\ to_writer = << Msg(stream_count, 0..(stream_count - 1)) >>
  BY <1>1, Zenon DEF Draining, Reporting
<1>3. to_writer' = << >> /\ StreamOk(Head(to_writer))
  BY <1>1, <1>2, OneMessage, Zenon DEF StreamOk
<1>4. /\ parent_pc' = "warmup" /\ p_i' = p_i /\ p_rc' = p_rc /\ alarm' = alarm
      /\ child_pc' = child_pc /\ c_rc' = c_rc /\ count' = count /\ checksum' = checksum
  BY <1>3, Zenon DEF TakeAck, child
<1>5. Quiet'
  BY <1>1, <1>2, <1>3, <1>4, Zenon DEF Quiet, Drained
<1> QED  BY <1>1, <1>4, <1>5, Zenon DEF IpcInv

LEMMA PingStep ==
  ASSUME IpcInv, Ping
  PROVE  IpcInv'
<1>1. /\ parent_pc \in {"warmup", "ping"} /\ p_rc = "running" /\ p_i \in Nat /\ c_rc # "0" /\ ~alarm
      /\ (c_rc = "running" <=> child_pc # "ended") /\ Quiet
  BY Zenon DEF IpcInv, Ping, Before
<1>2. /\ parent_pc' \in {"warmup echo", "pong"} /\ p_i' = p_i /\ p_rc' = p_rc /\ alarm' = alarm
      /\ to_reader' = Append(to_reader, Msg(p_i, {})) /\ to_writer' = to_writer
      /\ child_pc' = child_pc /\ c_rc' = c_rc /\ count' = count /\ checksum' = checksum
  BY Zenon DEF Ping, ParentPushes, child
<1>3. to_reader' = << Msg(p_i, {}) >>
  BY <1>1, <1>2, OneMessage, Zenon DEF Quiet
<1>4. UnderWay'
  BY <1>1, <1>2, <1>3, Zenon DEF Quiet, UnderWay, Drained
<1> QED  BY <1>1, <1>2, <1>4, Zenon DEF IpcInv

LEMMA TakeEchoStep ==
  ASSUME IpcInv, TakeEcho \/ TakePong
  PROVE  IpcInv'
<1>1. /\ parent_pc \in {"warmup echo", "pong"} /\ p_rc = "running" /\ p_i \in Nat /\ c_rc # "0" /\ ~alarm
      /\ (c_rc = "running" <=> child_pc # "ended") /\ UnderWay
      /\ to_writer # << >> /\ to_writer' = Tail(to_writer) /\ to_reader' = to_reader
      /\ child_pc' = child_pc /\ c_rc' = c_rc /\ count' = count /\ checksum' = checksum
  BY Zenon DEF IpcInv, TakeEcho, TakePong, ParentPops, Before, child
<1>2. Drained /\ to_reader = << >> /\ to_writer = << Msg(p_i, {}) >> /\ child_pc \in {"ping", "ended"}
  BY <1>1, Zenon DEF UnderWay
<1>3. to_writer' = << >> /\ Head(to_writer).seq = p_i
  <2>1. to_writer' = << >> /\ Head(to_writer) = Msg(p_i, {})
    BY <1>1, <1>2, OneMessage, Zenon
  <2>2. Msg(p_i, {}).seq = p_i
    BY Zenon DEF Msg
  <2> QED  BY <2>1, <2>2, Zenon
<1>4. /\ parent_pc' \in {"warmup", "ping", "stop"} /\ p_rc' = p_rc /\ alarm' = alarm
      /\ p_i' = p_i + 1 \/ p_i' = 0
  <2>1. CASE TakeEcho
    BY <2>1, Zenon DEF TakeEcho
  <2>2. CASE TakePong
    BY <1>3, <2>2, Zenon DEF TakePong
  <2> QED  BY <2>1, <2>2, Zenon
<1>5. p_i' \in Nat
  <2>1. p_i \in Nat /\ (p_i' = p_i + 1 \/ p_i' = 0)
    BY <1>1, <1>4, Zenon
  <2> QED  BY <2>1
<1>6. Quiet'
  BY <1>1, <1>2, <1>3, Zenon DEF Quiet, Drained
<1> QED  BY <1>1, <1>4, <1>5, <1>6, Zenon DEF IpcInv

LEMMA StopStep ==
  ASSUME IpcInv, SendStop \/ waitpid
  PROVE  IpcInv'
<1>1. CASE SendStop
  <2>1. /\ parent_pc = "stop" /\ p_rc = "running" /\ p_i \in Nat /\ c_rc # "0" /\ ~alarm
        /\ (c_rc = "running" <=> child_pc # "ended") /\ Quiet
    BY <1>1, Zenon DEF IpcInv, SendStop, Before
  <2>2. /\ parent_pc' = "waitpid" /\ p_i' = p_i /\ p_rc' = p_rc /\ alarm' = alarm
        /\ to_reader' = Append(to_reader, Sentinel) /\ to_writer' = to_writer
        /\ child_pc' = child_pc /\ c_rc' = c_rc /\ count' = count /\ checksum' = checksum
    BY <1>1, Zenon DEF SendStop, ParentPushes, child
  <2>3. to_reader' = << Sentinel >>
    BY <2>1, <2>2, OneMessage, Zenon DEF Quiet
  <2>4. Stopping'
    BY <2>1, <2>2, <2>3, Zenon DEF Quiet, Stopping, Drained
  <2> QED  BY <2>1, <2>2, <2>4, Zenon DEF IpcInv, Before
<1>2. CASE waitpid
  <2>1. /\ parent_pc = "waitpid" /\ child_pc = "ended" /\ p_rc = "running" /\ p_i \in Nat /\ ~alarm
        /\ (c_rc = "running" <=> child_pc # "ended") /\ Stopping
    BY <1>2, Zenon DEF IpcInv, waitpid
  <2>2. /\ parent_pc' = "ended" /\ p_i' = p_i /\ p_rc' = (IF c_rc = "0" THEN "0" ELSE "1") /\ alarm' = alarm
        /\ to_reader' = to_reader /\ to_writer' = to_writer
        /\ child_pc' = child_pc /\ c_rc' = c_rc /\ count' = count /\ checksum' = checksum
    BY <1>2, Zenon DEF waitpid, ParentEnds, rings, child
  <2>3. CASE c_rc = "0"
    <3>1. Drained' /\ to_reader' = << >> /\ to_writer' = << >>
      BY <2>1, <2>2, <2>3, Zenon DEF Stopping, Drained
    <3> QED  BY <2>1, <2>2, <2>3, <3>1, Zenon DEF IpcInv, Before
  <2>4. CASE c_rc # "0"
    BY <2>2, <2>4, ParentGivesUp, Zenon
  <2> QED  BY <2>3, <2>4, Zenon
<1> QED  BY <1>1, <1>2, Zenon

(* A push can fail only while the stream is under way: the rings are deep  *)
(* enough for one message.                                                 *)
LEMMA ParentTimesOutStep ==
  ASSUME IpcInv, ParentTimesOut
  PROVE  IpcInv'
<1>1. parent_pc # "stop"
  <2> SUFFICES ASSUME parent_pc = "stop" PROVE FALSE
    OBVIOUS
  <2>1. to_reader = << >>
    BY Zenon DEF IpcInv, Quiet
  <2>2. Len(to_reader) = Depth
    BY Zenon DEF ParentTimesOut, PushFails, PopFails
  <2> QED  BY <2>1, <2>2, IpcAssumption
<1> QED  BY <1>1, ParentGivesUp, Zenon DEF ParentTimesOut, ParentEnds, child

-----------------------------------------------------------------------------
LEMMA OpenStep ==
  ASSUME IpcInv, OpenSegment
  PROVE  IpcInv'
<1>1. CASE ChildEnds("2")
  BY <1>1, ChildGivesUp, Zenon DEF OpenSegment, ChildEnds
<1>2. CASE child_pc' = "stream" /\ UNCHANGED c_rc
  <2>1. /\ to_reader' = to_reader /\ to_writer' = to_writer /\ child_pc = "open"
        /\ parent_pc' = parent_pc /\ p_i' = p_i /\ p_rc' = p_rc /\ alarm' = alarm
        /\ c_held' = c_held /\ count' = count /\ checksum' = checksum /\ c_rc' = c_rc
    BY <1>2, Zenon DEF OpenSegment, rings, parent
  <2>2. /\ parent_pc \in {"stream", "ack", "ended"} /\ p_rc # "0" /\ p_i \in Nat /\ ~alarm
        /\ parent_pc = "stream" => p_i <= stream_count /\ Draining(p_i)
        /\ parent_pc = "ack" => Draining(stream_count + 1)
        /\ p_rc = "running" <=> parent_pc # "ended"
        /\ c_rc = "running"
    BY <2>1, Zenon DEF IpcInv, Reporting, Quiet, UnderWay, Stopping
  <2>3. /\ Draining(p_i) => Draining(p_i)'
        /\ Draining(stream_count + 1) => Draining(stream_count + 1)'
    BY <1>2, <2>1, Zenon DEF Draining
  <2> QED  BY <1>2, <2>1, <2>2, <2>3, Zenon DEF IpcInv
<1> QED  BY <1>1, <1>2, Zenon DEF OpenSegment

(* The child drains what the parent pushed, in order.                      *)
LEMMA DrainStep ==
  ASSUME IpcInv, DrainStream
  PROVE  IpcInv'
<1>1. /\ child_pc = "stream" /\ to_reader # << >> /\ to_reader' = Tail(to_reader)
      /\ to_writer' = to_writer /\ parent_pc' = parent_pc /\ p_i' = p_i /\ p_rc' = p_rc /\ alarm' = alarm
      /\ c_held' = c_held /\ c_rc' = c_rc
  BY Zenon DEF DrainStream, ChildPops, parent
<1>2. /\ parent_pc \in {"stream", "ack", "ended"} /\ p_rc # "0" /\ p_i \in Nat /\ ~alarm
      /\ parent_pc = "stream" => p_i <= stream_count /\ Draining(p_i)
      /\ parent_pc = "ack" => Draining(stream_count + 1)
      /\ p_rc = "running" <=> parent_pc # "ended"
      /\ c_rc = "running"
  BY <1>1, Zenon DEF IpcInv, Reporting, Quiet, UnderWay, Stopping
<1>a. child_pc' # "ended"
  BY <1>1, Zenon DEF DrainStream
<1>3. ASSUME NEW total \in Nat, Draining(total), total <= stream_count + 1
      PROVE  \/ Draining(total)'
             \/ total = stream_count + 1 /\ Reporting'
  <2>1. /\ count \in 0..stream_count /\ checksum = 0..(count - 1) /\ to_writer = << >>
        /\ to_reader \in Seq(Message) /\ count + Len(to_reader) = total
        /\ \A k \in 1..Len(to_reader) : to_reader[k] = Item(count + k)
    BY <1>3, Zenon DEF Draining
  <2>2. Len(to_reader) \in Nat /\ Len(to_reader) > 0 /\ count \in Nat
    BY <1>1, <2>1, IpcAssumption, EmptySeq
  <2>3. /\ Head(to_reader) = Item(count + 1)
        /\ to_reader' \in Seq(Message) /\ Len(to_reader') = Len(to_reader) - 1
        /\ \A k \in 1..Len(to_reader') : to_reader'[k] = Item(count + 1 + k)
    <3>1. /\ Head(to_reader) = to_reader[1]
          /\ to_reader' \in Seq(Message) /\ Len(to_reader') = Len(to_reader) - 1
          /\ \A k \in 1..Len(to_reader') : to_reader'[k] = to_reader[k + 1]
      <4>1. to_reader' = Tail(to_reader) /\ to_reader # << >>
        BY <1>1, Zenon
      <4> QED  BY <2>1, <2>2, <4>1
    <3>2. \A k \in 1..Len(to_reader') : k + 1 \in 1..Len(to_reader) /\ count + (k + 1) = count + 1 + k
      BY <2>2, <3>1
    <3>3. 1 \in 1..Len(to_reader)
      BY <2>2
    <3> QED  BY <2>1, <3>1, <3>2, <3>3, Zenon
  <2>4. CASE count < stream_count
    <3>1. Head(to_reader) = Msg(count, {count})
      BY <2>2, <2>3, <2>4, IpcAssumption DEF Item
    <3>2. Head(to_reader).seq # kSentinel /\ Head(to_reader).payload = {count}
      BY <2>2, <3>1 DEF Msg, kSentinel
    <3>3. count' = count + 1 /\ checksum' = Xor(checksum, {count}) /\ child_pc' = child_pc
      BY <3>2, Zenon DEF DrainStream
    <3>4. checksum' = 0..(count' - 1)
      <4>1. \A x : x \in Xor(0..(count - 1), {count}) <=> x \in 0..(count - 1) \/ x = count
        BY <2>2 DEF Xor
      <4>2. \A x : x \in 0..count <=> x \in 0..(count - 1) \/ x = count
        BY <2>2
      <4>3. Xor(0..(count - 1), {count}) = 0..count
        BY <4>1, <4>2, Zenon
      <4>4. count' - 1 = count
        BY <2>2, <3>3
      <4> QED  BY <2>1, <3>3, <4>3, <4>4, Zenon
    <3>5. count' \in 0..stream_count /\ count' + Len(to_reader') = total
      <4>1. Len(to_reader') = Len(to_reader) - 1 /\ count + Len(to_reader) = total
        BY <2>1, <2>3, Zenon
      <4> QED  BY <2>2, <2>4, <3>3, <4>1, IpcAssumption
    <3>6. \A k \in 1..Len(to_reader') : to_reader'[k] = Item(count' + k)
      BY <2>3, <3>3, Zenon
    <3>7. child_pc' = "stream" /\ to_writer' = << >>
      BY <1>1, <2>1, <3>3, Zenon
    <3> QED  BY <2>3, <3>4, <3>5, <3>6, <3>7, Zenon DEF Draining
  <2>5. CASE count = stream_count
    <3>1. Head(to_reader) = Sentinel
      BY <2>2, <2>3, <2>5, IpcAssumption DEF Item
    <3>2. Head(to_reader).seq = kSentinel
      BY <3>1 DEF Sentinel, Msg
    <3>3. count' = count /\ checksum' = checksum /\ child_pc' = "report"
      BY <3>2, Zenon DEF DrainStream
    <3>4. total = stream_count + 1 /\ Len(to_reader') = 0
      BY <1>3, <2>1, <2>2, <2>3, <2>5, IpcAssumption
    <3>5. to_reader' = << >>
      BY <2>3, <3>4, EmptySeq, Zenon
    <3>6. to_writer' = << >>
      BY <1>1, <2>1, Zenon
    <3> QED  BY <2>1, <2>5, <3>3, <3>4, <3>5, <3>6, Zenon DEF Reporting, Drained
  <2> QED  BY <2>1, <2>4, <2>5, IpcAssumption
<1>4. CASE parent_pc = "stream"
  <2>1. p_i \in Nat /\ p_i <= stream_count + 1 /\ p_i # stream_count + 1
    <3>1. p_i \in Nat /\ p_i <= stream_count
      BY <1>2, <1>4, Zenon
    <3> QED  BY <3>1, IpcAssumption
  <2>2. PICK total \in Nat : total = p_i
    BY <2>1, Zenon
  <2>3. Draining(total)'
    BY <1>2, <1>3, <1>4, <2>1, <2>2, Zenon
  <2>4. Draining(p_i)'
    BY <1>1, <2>2, <2>3, Zenon DEF Draining
  <2> QED  BY <1>1, <1>2, <1>a, <1>4, <2>4, Zenon DEF IpcInv
<1>5. CASE parent_pc = "ack"
  <2>1. stream_count + 1 \in Nat /\ stream_count + 1 <= stream_count + 1
    BY IpcAssumption
  <2>2. Draining(stream_count + 1)' \/ Reporting'
    BY <1>2, <1>3, <1>5, <2>1, Zenon
  <2> QED  BY <1>1, <1>2, <1>a, <1>5, <2>2, Zenon DEF IpcInv
<1>6. CASE parent_pc = "ended"
  BY <1>1, <1>2, <1>a, <1>6, Zenon DEF IpcInv, Before
<1> QED  BY <1>2, <1>4, <1>5, <1>6, Zenon

LEMMA ReportStep ==
  ASSUME IpcInv, Report
  PROVE  IpcInv'
<1>1. /\ child_pc = "report" /\ to_writer' = Append(to_writer, Msg(count, checksum))
      /\ to_reader' = to_reader /\ child_pc' = "ping" /\ c_rc' = c_rc /\ count' = count
      /\ checksum' = checksum /\ c_held' = c_held
      /\ parent_pc' = parent_pc /\ p_i' = p_i /\ p_rc' = p_rc /\ alarm' = alarm
  BY Zenon DEF Report, ChildPushes, parent
<1>2. /\ parent_pc \in {"ack", "ended"} /\ p_rc # "0" /\ p_i \in Nat /\ ~alarm
      /\ parent_pc = "ack" => Reporting /\ to_writer = << >>
      /\ p_rc = "running" <=> parent_pc # "ended"
      /\ c_rc = "running"
  BY <1>1, Zenon DEF IpcInv, Draining, Reporting, Quiet, UnderWay, Stopping
<1>3. CASE parent_pc = "ack"
  <2>1. to_writer' = << Msg(stream_count, 0..(stream_count - 1)) >>
    BY <1>1, <1>2, <1>3, OneMessage, Zenon DEF Reporting, Drained
  <2>2. Reporting'
    BY <1>1, <1>2, <1>3, <2>1, Zenon DEF Reporting, Drained
  <2> QED  BY <1>1, <1>2, <1>3, <2>2, Zenon DEF IpcInv
<1>4. CASE parent_pc = "ended"
  BY <1>1, <1>2, <1>4, Zenon DEF IpcInv, Before
<1> QED  BY <1>2, <1>3, <1>4, Zenon

(* The child takes a ping, whose number is no sentinel, or the sentinel.   *)
LEMMA TakePingStep ==
  ASSUME IpcInv, TakePing
  PROVE  IpcInv'
<1>1. /\ child_pc = "ping" /\ to_reader # << >> /\ to_reader' = Tail(to_reader)
      /\ to_writer' = to_writer /\ parent_pc' = parent_pc /\ p_i' = p_i /\ p_rc' = p_rc /\ alarm' = alarm
      /\ c_held' = Head(to_reader) /\ count' = count /\ checksum' = checksum
      /\ IF Head(to_reader).seq = kSentinel THEN child_pc' = "ended" /\ c_rc' = "0"
         ELSE child_pc' = "echo" /\ c_rc' = c_rc
  BY Zenon DEF TakePing, ChildPops, ChildEnds, parent
<1>2. /\ parent_pc \in {"warmup echo", "pong", "waitpid", "ended"} /\ p_rc # "0" /\ p_i \in Nat /\ ~alarm
      /\ parent_pc \in {"warmup echo", "pong"} =>
           Drained /\ to_reader = << Msg(p_i, {}) >> /\ to_writer = << >>
      /\ parent_pc = "waitpid" => Drained /\ to_reader = << Sentinel >> /\ to_writer = << >>
      /\ p_rc = "running" <=> parent_pc # "ended"
      /\ c_rc = "running"
  BY <1>1, Zenon DEF IpcInv, Draining, Reporting, Quiet, UnderWay, Stopping
<1>3. CASE parent_pc \in {"warmup echo", "pong"}
  <2>1. to_reader' = << >> /\ Head(to_reader) = Msg(p_i, {})
    BY <1>1, <1>2, <1>3, OneMessage, Zenon
  <2>2. Head(to_reader).seq # kSentinel
    <3>1. p_i \in Nat
      BY <1>2, Zenon
    <3> QED  BY <2>1, <3>1 DEF Msg, kSentinel
  <2>3. UnderWay'
    BY <1>1, <1>2, <1>3, <2>1, <2>2, Zenon DEF UnderWay, Drained
  <2> QED  BY <1>1, <1>2, <1>3, <2>2, <2>3, Zenon DEF IpcInv
<1>4. CASE parent_pc = "waitpid"
  <2>1. to_reader' = << >> /\ Head(to_reader) = Sentinel
    BY <1>1, <1>2, <1>4, OneMessage, Zenon
  <2>2. Head(to_reader).seq = kSentinel
    BY <2>1 DEF Sentinel, Msg
  <2>3. Stopping'
    BY <1>1, <1>2, <1>4, <2>1, <2>2, Zenon DEF Stopping, Drained
  <2> QED  BY <1>1, <1>2, <1>4, <2>2, <2>3, Zenon DEF IpcInv, Before
<1>5. CASE parent_pc = "ended"
  BY <1>1, <1>2, <1>5, Zenon DEF IpcInv, Before
<1> QED  BY <1>2, <1>3, <1>4, <1>5, Zenon

LEMMA EchoStep ==
  ASSUME IpcInv, Echo
  PROVE  IpcInv'
<1>1. /\ child_pc = "echo" /\ to_writer' = Append(to_writer, c_held)
      /\ to_reader' = to_reader /\ child_pc' = "ping" /\ c_rc' = c_rc /\ count' = count
      /\ checksum' = checksum /\ c_held' = c_held
      /\ parent_pc' = parent_pc /\ p_i' = p_i /\ p_rc' = p_rc /\ alarm' = alarm
  BY Zenon DEF Echo, ChildPushes, parent
<1>2. /\ parent_pc \in {"warmup echo", "pong", "ended"} /\ p_rc # "0" /\ p_i \in Nat /\ ~alarm
      /\ parent_pc \in {"warmup echo", "pong"} =>
           Drained /\ to_reader = << >> /\ to_writer = << >> /\ c_held = Msg(p_i, {})
      /\ p_rc = "running" <=> parent_pc # "ended"
      /\ c_rc = "running"
  BY <1>1, Zenon DEF IpcInv, Draining, Reporting, Quiet, UnderWay, Stopping
<1>3. CASE parent_pc \in {"warmup echo", "pong"}
  <2>1. to_writer' = << Msg(p_i, {}) >>
    BY <1>1, <1>2, <1>3, OneMessage, Zenon
  <2>2. UnderWay'
    BY <1>1, <1>2, <1>3, <2>1, Zenon DEF UnderWay, Drained
  <2> QED  BY <1>1, <1>2, <1>3, <2>2, Zenon DEF IpcInv
<1>4. CASE parent_pc = "ended"
  BY <1>1, <1>2, <1>4, Zenon DEF IpcInv, Before
<1> QED  BY <1>2, <1>3, <1>4, Zenon

LEMMA ChildTimesOutStep ==
  ASSUME IpcInv, ChildTimesOut
  PROVE  IpcInv'
<1>1. child_pc # "none" /\ child_pc # "ended" /\ child_pc' = "ended" /\ c_rc' = "3"
  BY Zenon DEF ChildTimesOut, ChildEnds
<1> QED  BY <1>1, ChildGivesUp, Zenon DEF ChildTimesOut

LEMMA DemoInvariant == DemoSpec => []IpcInv
<1>1. IpcInv /\ [DemoNext]_demovars => IpcInv'
  <2> SUFFICES ASSUME IpcInv, [DemoNext]_demovars PROVE IpcInv'
    OBVIOUS
  <2>1. ASSUME Parent PROVE IpcInv'
    BY <2>1, SetupStep, StreamStep, TakeAckStep, PingStep, TakeEchoStep, StopStep,
       ParentTimesOutStep, Zenon DEF Parent
  <2>2. ASSUME Child PROVE IpcInv'
    BY <2>2, OpenStep, DrainStep, ReportStep, TakePingStep, EchoStep, ChildTimesOutStep, Zenon
       DEF Child
  <2> QED  BY <2>1, <2>2, KilledStep, DemoStutters, Zenon DEF DemoNext
<1> QED  BY <1>1, InitDemo, PTL DEF DemoSpec

(* Exit code 0 of the demo is earned and no alarm is false, for every      *)
(* length of the stream, the warm-up and the ping-pong, whoever times out  *)
(* or is killed wherever.                                                  *)
THEOREM DemoVerdictIsTrue == DemoSpec => []VerdictIsTrue
<1>1. IpcInv => VerdictIsTrue
  BY Zenon DEF IpcInv, VerdictIsTrue, Drained
<1> QED  BY <1>1, DemoInvariant, PTL

(* From the warm-up on one message is under way at most.                   *)
THEOREM DemoDepthIsOne == DemoSpec => []DepthIsOne
<1>a. 0 + 0 + 0 <= 1 /\ 0 + 0 + 1 <= 1 /\ 1 + 0 + 0 <= 1 /\ 0 + 1 + 0 <= 1
  OBVIOUS
<1>1. IpcInv => DepthIsOne
  <2> SUFFICES ASSUME IpcInv, parent_pc \in {"warmup", "warmup echo", "ping", "pong", "stop"}
               PROVE  Len(to_reader) + Len(to_writer) + (IF child_pc = "echo" THEN 1 ELSE 0) <= 1
    BY Zenon DEF DepthIsOne
  <2>1. Quiet \/ UnderWay
    BY Zenon DEF IpcInv
  <2>2. \/ to_reader = << >> /\ to_writer = << >>
        \/ to_reader = << Msg(p_i, {}) >> /\ to_writer = << >> /\ child_pc # "echo"
        \/ to_reader = << >> /\ to_writer = << Msg(p_i, {}) >> /\ child_pc # "echo"
    BY <2>1, Zenon DEF Quiet, UnderWay
  <2>3. \/ Len(to_reader) = 0 /\ Len(to_writer) = 0
        \/ Len(to_reader) = 1 /\ Len(to_writer) = 0 /\ child_pc # "echo"
        \/ Len(to_reader) = 0 /\ Len(to_writer) = 1 /\ child_pc # "echo"
    BY <2>2, OneMessage, Zenon
  <2> QED  BY <1>a, <2>3, Zenon
<1> QED  BY <1>1, DemoInvariant, PTL

=============================================================================
