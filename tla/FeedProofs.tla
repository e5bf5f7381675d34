----------------------------- MODULE FeedProofs -----------------------------
(***************************************************************************)
(* What both feed handlers keep of the orders they decode: neither loses   *)
(* one of them.  The epoll handler reads all that had arrived at the       *)
(* signal, and the io_uring handler keeps one request per socket           *)
(* outstanding: for any number of connections, sizes of frames, reads and  *)
(* ring, and lengths of the streams.                                       *)
(***************************************************************************)
EXTENDS FeedHandler, UringHandler, TLAPS

(* What the proofs use of sequences.                                       *)

(* The empty sequence, and the length of any other.                        *)
LEMMA EmptySeq ==
  ASSUME NEW A
  PROVE  /\ << >> \in Seq(A) /\ Len(<< >>) = 0
         /\ \A z \in Seq(A) : z # << >> => Len(z) \in Nat \ {0}
  OBVIOUS

(* Sequences of one length with the same elements are the same.            *)
LEMMA SeqEqual ==
  ASSUME NEW A, NEW z \in Seq(A), NEW w \in Seq(A),
         Len(z) = Len(w), \A k \in 1..Len(z) : z[k] = w[k]
  PROVE  z = w
  OBVIOUS

(* One sequence behind another.                                            *)
LEMMA ConcatProperties ==
  ASSUME NEW A, NEW z \in Seq(A), NEW w \in Seq(A)
  PROVE  /\ z \o w \in Seq(A) /\ Len(z \o w) = Len(z) + Len(w)
         /\ \A k \in 1..(Len(z) + Len(w)) :
              (z \o w)[k] = IF k <= Len(z) THEN z[k] ELSE w[k - Len(z)]
  OBVIOUS

(* The empty sequence adds nothing.                                        *)
LEMMA ConcatEmptySeq ==
  ASSUME NEW A, NEW z \in Seq(A)
  PROVE  << >> \o z = z /\ z \o << >> = z
  OBVIOUS

(* Concatenation is associative.                                           *)
LEMMA ConcatAssociative ==
  ASSUME NEW A, NEW z \in Seq(A), NEW w \in Seq(A), NEW v \in Seq(A)
  PROVE  (z \o w) \o v = z \o (w \o v)
  OBVIOUS

(* The first element and the rest.                                         *)
LEMMA HeadTailProperties ==
  ASSUME NEW A, NEW z \in Seq(A), z # << >>
  PROVE  /\ Head(z) \in A /\ Tail(z) \in Seq(A) /\ Len(Tail(z)) = Len(z) - 1
         /\ \A k \in 1..Len(Tail(z)) : Tail(z)[k] = z[k + 1]
  OBVIOUS

(* A sequence with one element more.                                       *)
LEMMA AppendProperties ==
  ASSUME NEW A, NEW z \in Seq(A), NEW a \in A
  PROVE  /\ Append(z, a) \in Seq(A) /\ Append(z, a) # << >>
         /\ Len(Append(z, a)) = Len(z) + 1 /\ Append(z, a)[Len(z) + 1] = a
         /\ \A k \in 1..Len(z) : Append(z, a)[k] = z[k]
  OBVIOUS

(* To append is to concatenate.                                            *)
LEMMA AppendIsConcat ==
  ASSUME NEW A, NEW z \in Seq(A), NEW a \in A
  PROVE  Append(z, a) = z \o <<a>>
  OBVIOUS

-----------------------------------------------------------------------------
(* The inductive invariant of what the two handlers share.                 *)
OrderId == Conns \X Nat

Reading == {"read", "decode", "push", "late"}

TypesOK ==
    /\ g_running \in BOOLEAN /\ g_reader_done \in BOOLEAN /\ exited \in BOOLEAN
    /\ fin \in [Conns -> BOOLEAN] /\ DOMAIN state = Conns
    /\ kernel \in [Conns -> Nat] /\ partial \in [Conns -> Nat] /\ decoded \in [Conns -> Nat]
    /\ sent \in [Conns -> Nat] /\ due \in [Conns -> Nat]
    /\ ring \in Seq(OrderId) /\ consumed \in Seq(OrderId) /\ submitted \in Seq(OrderId)
    /\ pc \in Reading => fd \in Conns
    /\ IF pc = "push" THEN \E o \in OrderId : pending = << o >> ELSE pending = << >>

(* The flag is set when the reader has stopped.                            *)
FlagLast == (exited => g_reader_done) /\ (g_reader_done => pc = "stopped")

PipelineInv == TypesOK /\ FlagLast /\ NoOrderLost

(* The inductive invariant of the epoll handler's final drain.  No unit is *)
(* lost: what a peer sent is decoded, in the reassembly buffer or still in *)
(* the kernel, unless the connection closed, and then a whole frame is not *)
(* missing.                                                                *)
Accounted(c) ==
    /\ state[c] = "none" => sent[c] = 0
    /\ FrameUnits * due[c] <= sent[c]
    /\ g_running = TRUE => due[c] = 0
    /\ partial[c] >= FrameUnits => fd = c /\ pc \in {"decode", "push"}
    /\ state[c] # "closed" => sent[c] = FrameUnits * decoded[c] + partial[c] + kernel[c]
    /\ state[c] = "closed" => sent[c] < FrameUnits * (decoded[c] + 1)

(* In the final drain a connection is read, or is going to be.             *)
Served(c) == decoded[c] >= due[c] \/ c \in events \/ (fd = c /\ pc \in {"read", "decode", "push"})

DrainOK ==
    /\ events \subseteq Conns \cup {Listener}
    /\ \A c \in Conns : state[c] \in {"none", "backlog", "open", "closed"}
    /\ pc \in {"read", "decode", "push"} => state[fd] = "open"
    /\ \A c \in events \cap Conns : state[c] = "open" /\ ~(fd = c /\ pc \in Reading)
    /\ pc = "backlog" => g_running = FALSE
    /\ draining \in BOOLEAN
    /\ draining = TRUE =>
         /\ g_running = FALSE /\ events \subseteq Conns
         /\ pc \in {"event", "read", "decode", "push", "stop", "stopped"}
         /\ pc \in {"stop", "stopped"} => events = {}
         /\ \A c \in Conns : Served(c)

EpollInv == PipelineInv /\ DrainOK /\ \A c \in Conns : Accounted(c)

-----------------------------------------------------------------------------
LEMMA InitPipeline == PipelineInit => PipelineInv
<1> SUFFICES ASSUME PipelineInit PROVE PipelineInv
  OBVIOUS
<1>1. /\ g_running = TRUE /\ g_reader_done = FALSE /\ exited = FALSE /\ pc = "listen"
      /\ state = [c \in Conns |-> "none"] /\ fin = [c \in Conns |-> FALSE]
      /\ pending = << >> /\ ring = << >> /\ consumed = << >> /\ submitted = << >>
  BY DEF PipelineInit
<1>2. /\ kernel = [c \in Conns |-> 0] /\ partial = [c \in Conns |-> 0]
      /\ decoded = [c \in Conns |-> 0] /\ sent = [c \in Conns |-> 0] /\ due = [c \in Conns |-> 0]
  BY DEF PipelineInit
<1>3. /\ kernel \in [Conns -> Nat] /\ partial \in [Conns -> Nat] /\ decoded \in [Conns -> Nat]
      /\ sent \in [Conns -> Nat] /\ due \in [Conns -> Nat]
  BY <1>2
<1>4. << >> \in Seq(OrderId) /\ fin \in [Conns -> BOOLEAN] /\ DOMAIN state = Conns
  BY <1>1
<1>5. TypesOK
  BY <1>1, <1>3, <1>4, Zenon DEF TypesOK, Reading
<1>6. NoOrderLost
  <2>1. Flow = << >>
    BY <1>1 DEF Flow
  <2>2. DOMAIN Flow = {} /\ DOMAIN submitted = {} /\ DOMAIN consumed = {}
    BY <1>1, <2>1
  <2>3. Elements(Flow) = {} /\ Elements(submitted) = {} /\ Elements(consumed) = {}
    BY <2>2 DEF Elements
  <2>4. UNION {{c} \X (1..decoded[c]) : c \in Conns} = {}
    <3>1. \A c \in Conns : 1..decoded[c] = {}
      BY <1>2
    <3> QED  BY <3>1
  <2> QED  BY <1>1, <2>2, <2>3, <2>4 DEF NoOrderLost
<1> QED  BY <1>1, <1>5, <1>6, Zenon DEF PipelineInv, FlagLast

(* A step that moves no order.                                             *)
LEMMA QuietStep ==
  ASSUME PipelineInv, pc # "stopped" \/ pc' = "stopped", UNCHANGED <<queue, sink, flags, decoded>>,
         pc = "push" <=> pc' = "push",
         DOMAIN state' = Conns, fin' \in [Conns -> BOOLEAN],
         kernel' \in [Conns -> Nat], partial' \in [Conns -> Nat], sent' \in [Conns -> Nat],
         pc' \in Reading => fd' \in Conns
  PROVE  PipelineInv'
<1>1. /\ pending' = pending /\ ring' = ring /\ consumed' = consumed /\ submitted' = submitted
      /\ exited' = exited /\ g_running' = g_running /\ g_reader_done' = g_reader_done
      /\ due' = due /\ decoded' = decoded
  BY DEF queue, sink, flags
<1>2. TypesOK'
  BY <1>1, Zenon DEF PipelineInv, TypesOK
<1>3. FlagLast'
  BY <1>1, Zenon DEF PipelineInv, FlagLast
<1>4. NoOrderLost'
  <2>1. Flow' = Flow /\ Elements(Flow)' = Elements(Flow)
    BY <1>1 DEF Flow, Elements
  <2>2. Elements(submitted)' = Elements(submitted) /\ Elements(consumed)' = Elements(consumed)
    BY <1>1 DEF Elements
  <2> QED  BY <1>1, <2>1, <2>2 DEF PipelineInv, NoOrderLost
<1> QED  BY <1>2, <1>3, <1>4 DEF PipelineInv

LEMMA LeaveStep ==
  ASSUME PipelineInv, pc # "push", pc # "stopped", NEW done \in BOOLEAN, Leave(done)
  PROVE  PipelineInv'
<1>1. /\ pending' = pending /\ ring' = ring /\ consumed' = consumed /\ submitted' = submitted
      /\ exited' = exited /\ g_running' = FALSE /\ g_reader_done' = done /\ pc' = "stopped"
      /\ due' = due /\ decoded' = decoded /\ state' = state /\ kernel' = kernel /\ fin' = fin
      /\ partial' = partial /\ sent' = sent
  BY DEF Leave, queue, sink, conns
<1>2. TypesOK'
  BY <1>1, Zenon DEF PipelineInv, TypesOK, Reading
<1>3. FlagLast'
  BY <1>1, Zenon DEF PipelineInv, FlagLast
<1>4. NoOrderLost'
  <2>1. Flow' = Flow /\ Elements(Flow)' = Elements(Flow)
    BY <1>1 DEF Flow, Elements
  <2>2. Elements(submitted)' = Elements(submitted) /\ Elements(consumed)' = Elements(consumed)
    BY <1>1 DEF Elements
  <2> QED  BY <1>1, <2>1, <2>2 DEF PipelineInv, NoOrderLost
<1> QED  BY <1>2, <1>3, <1>4 DEF PipelineInv

(* Appending an element to a sequence.                                     *)
LEMMA AppendFacts ==
  ASSUME NEW S, NEW s \in Seq(S), NEW x \in S
  PROVE  /\ Append(s, x) \in Seq(S) /\ Len(Append(s, x)) = Len(s) + 1
         /\ DOMAIN Append(s, x) = 1..(Len(s) + 1) /\ DOMAIN s = 1..Len(s) /\ Len(s) \in Nat
         /\ \A i \in 1..Len(s) : Append(s, x)[i] = s[i]
         /\ Append(s, x)[Len(s) + 1] = x
         /\ Elements(Append(s, x)) = Elements(s) \cup {x}
<1>1. /\ Append(s, x) \in Seq(S) /\ Len(Append(s, x)) = Len(s) + 1
      /\ DOMAIN Append(s, x) = 1..(Len(s) + 1) /\ DOMAIN s = 1..Len(s) /\ Len(s) \in Nat
      /\ \A i \in 1..Len(s) : Append(s, x)[i] = s[i]
      /\ Append(s, x)[Len(s) + 1] = x
  OBVIOUS
<1>2. \A i : i \in 1..(Len(s) + 1) <=> i \in 1..Len(s) \/ i = Len(s) + 1
  BY <1>1
<1>3. Elements(Append(s, x)) \subseteq Elements(s) \cup {x}
  BY <1>1, <1>2 DEF Elements
<1>4. Elements(s) \cup {x} \subseteq Elements(Append(s, x))
  BY <1>1, <1>2 DEF Elements
<1> QED  BY <1>1, <1>3, <1>4

(* An order moves from the reader into the ring, and out of the ring.      *)
LEMMA PushKeepsFlow ==
  ASSUME NEW S, NEW a \in Seq(S), NEW b \in Seq(S), NEW x \in S
  PROVE  (a \o Append(b, x)) \o << >> = (a \o b) \o << x >>
<1>1. << x >> \in Seq(S) /\ Append(b, x) = b \o << x >> /\ Append(b, x) \in Seq(S)
  BY AppendIsConcat, AppendProperties
<1>2. (a \o Append(b, x)) \o << >> = a \o Append(b, x)
  BY <1>1, ConcatEmptySeq, ConcatProperties, Zenon
<1>3. a \o (b \o << x >>) = (a \o b) \o << x >>
  <2>1. PICK u \in Seq(S) : u = << x >>
    BY <1>1, Zenon
  <2>2. (a \o b) \o u = a \o (b \o u)
    BY ConcatAssociative, SMT
  <2> QED  BY <2>1, <2>2
<1> QED  BY <1>1, <1>2, <1>3, Zenon

LEMMA PopKeepsFlow ==
  ASSUME NEW S, NEW a \in Seq(S), NEW b \in Seq(S), b # << >>, NEW p
  PROVE  (Append(a, Head(b)) \o Tail(b)) \o p = (a \o b) \o p
<1>1. Head(b) \in S /\ Tail(b) \in Seq(S) /\ Append(a, Head(b)) = a \o << Head(b) >>
  BY HeadTailProperties, AppendIsConcat
<1>2. << Head(b) >> \in Seq(S)
  BY <1>1
<1>3. << Head(b) >> \o Tail(b) = b
  <2>1. << Head(b) >> \o Tail(b) \in Seq(S) /\ Len(<< Head(b) >> \o Tail(b)) = Len(b)
    BY <1>1, <1>2, HeadTailProperties, EmptySeq
  <2>2. \A i \in 1..Len(b) : (<< Head(b) >> \o Tail(b))[i] = b[i]
    BY <1>1, <1>2, HeadTailProperties, EmptySeq
  <2> QED  BY <2>1, <2>2, SeqEqual
<1>4. (a \o << Head(b) >>) \o Tail(b) = a \o (<< Head(b) >> \o Tail(b))
  <2>1. PICK u \in Seq(S) : u = << Head(b) >>
    BY <1>2, Zenon
  <2>2. (a \o u) \o Tail(b) = a \o (u \o Tail(b))
    BY <1>1, ConcatAssociative, SMT
  <2> QED  BY <2>1, <2>2
<1> QED  BY <1>1, <1>3, <1>4, Zenon

LEMMA DecodeStep ==
  ASSUME PipelineInv, decode
  PROVE  PipelineInv'
<1> DEFINE o == <<fd, decoded[fd] + 1>>
           s == consumed \o ring
<1>1. /\ pc = "decode" /\ fd \in Conns /\ decoded \in [Conns -> Nat] /\ partial \in [Conns -> Nat]
      /\ ring \in Seq(OrderId) /\ consumed \in Seq(OrderId) /\ pending = << >>
  BY Zenon DEF PipelineInv, TypesOK, decode, Reading
<1>2. /\ decoded' = [decoded EXCEPT ![fd] = @ + 1] /\ pending' = << o >>
      /\ partial' = [partial EXCEPT ![fd] = @ - FrameUnits] /\ partial[fd] >= FrameUnits
      /\ pc' = "push" /\ fd' = fd /\ state' = state /\ kernel' = kernel /\ fin' = fin
      /\ sent' = sent /\ ring' = ring /\ consumed' = consumed /\ submitted' = submitted
      /\ exited' = exited /\ g_running' = g_running /\ g_reader_done' = g_reader_done /\ due' = due
  BY DEF decode, sink, flags
<1>3. o \in OrderId
  BY <1>1 DEF OrderId
<1>4. decoded' \in [Conns -> Nat] /\ partial' \in [Conns -> Nat]
  BY <1>1, <1>2, FeedAssumption
<1>5. TypesOK'
  <2> HIDE DEF o
  <2> QED  BY <1>1, <1>2, <1>3, <1>4, Zenon DEF PipelineInv, TypesOK
<1>6. FlagLast'
  BY <1>1, <1>2, Zenon DEF PipelineInv, FlagLast
<1>7. s \in Seq(OrderId) /\ Flow = s /\ Flow' = Append(s, o)
  <2>1. s \in Seq(OrderId)
    BY <1>1, ConcatProperties, Zenon
  <2>2. Flow = s
    BY <1>1, <2>1, ConcatEmptySeq, Zenon DEF Flow
  <2>3. Flow' = s \o << o >>
    BY <1>2, Zenon DEF Flow
  <2> QED  BY <1>3, <2>1, <2>2, <2>3, AppendIsConcat, Zenon
<1>8. /\ Elements(s) = UNION {{c} \X (1..decoded[c]) : c \in Conns}
      /\ \A i, j \in DOMAIN s : i < j /\ s[i][1] = s[j][1] => s[i][2] < s[j][2]
  BY <1>7, Zenon DEF PipelineInv, NoOrderLost
<1> HIDE DEF s
<1>9. /\ Elements(Flow') = Elements(s) \cup {o} /\ DOMAIN s = 1..Len(s) /\ Len(s) \in Nat
      /\ DOMAIN Flow' = 1..(Len(s) + 1) /\ Flow'[Len(s) + 1] = o
      /\ \A i \in 1..Len(s) : Flow'[i] = s[i]
  <2> HIDE DEF o
  <2> QED  BY <1>3, <1>7, AppendFacts
<1>10. Elements(Flow') = UNION {{c} \X (1..decoded'[c]) : c \in Conns}
  <2>1. \A c \in Conns : \A n : n \in 1..decoded'[c] <=> n \in 1..decoded[c] \/ (c = fd /\ n = decoded[fd] + 1)
    BY <1>1, <1>2
  <2>2. \A x : x \in UNION {{c} \X (1..decoded[c]) : c \in Conns} <=> \E c \in Conns : \E n \in 1..decoded[c] : x = <<c, n>>
    OBVIOUS
  <2>3. \A x : x \in UNION {{c} \X (1..decoded'[c]) : c \in Conns} <=> \E c \in Conns : \E n \in 1..decoded'[c] : x = <<c, n>>
    OBVIOUS
  <2>4. \A x : x \in Elements(Flow') <=> x \in Elements(s) \/ x = <<fd, decoded[fd] + 1>>
    BY <1>9
  <2> QED  BY <1>1, <1>8, <2>1, <2>2, <2>3, <2>4
<1>11. \A i, j \in DOMAIN Flow' : i < j /\ Flow'[i][1] = Flow'[j][1] => Flow'[i][2] < Flow'[j][2]
  <2>1. \A i \in 1..Len(s) : s[i][1] = fd => s[i][2] < decoded[fd] + 1
    <3> TAKE i \in 1..Len(s)
    <3> HAVE s[i][1] = fd
    <3>1. s[i] \in Elements(s)
      BY <1>9 DEF Elements
    <3>2. PICK c \in Conns : \E n \in 1..decoded[c] : s[i] = <<c, n>>
      BY <1>8, <3>1
    <3> QED  BY <1>1, <3>2
  <2>2. o[1] = fd /\ o[2] = decoded[fd] + 1
    OBVIOUS
  <2>3. ASSUME NEW i \in DOMAIN Flow', NEW j \in DOMAIN Flow', i < j, Flow'[i][1] = Flow'[j][1]
        PROVE  Flow'[i][2] < Flow'[j][2]
    <3>1. i \in 1..Len(s) /\ (j \in 1..Len(s) \/ j = Len(s) + 1)
      BY <1>9, <2>3
    <3>2. CASE j \in 1..Len(s)
      BY <1>8, <1>9, <2>3, <3>1, <3>2
    <3>3. CASE j = Len(s) + 1
      BY <1>9, <2>1, <2>2, <2>3, <3>1, <3>3
    <3> QED  BY <3>1, <3>2, <3>3
  <2> QED  BY <2>3
<1>12. NoOrderLost'
  <2>1. ~exited
    BY <1>1, Zenon DEF PipelineInv, FlagLast
  <2>2. Elements(submitted)' = Elements(submitted) /\ Elements(consumed)' = Elements(consumed)
    BY <1>2 DEF Elements
  <2>3. Elements(Flow)' = Elements(Flow')
    BY DEF Elements
  <2> QED  BY <1>2, <1>10, <1>11, <2>1, <2>2, <2>3 DEF PipelineInv, NoOrderLost
<1> QED  BY <1>5, <1>6, <1>12 DEF PipelineInv

LEMMA PushStep ==
  ASSUME PipelineInv, Push
  PROVE  PipelineInv'
<1>1. /\ pc = "push" /\ fd \in Conns
      /\ ring \in Seq(OrderId) /\ consumed \in Seq(OrderId)
  BY Zenon DEF PipelineInv, TypesOK, Push, Reading
<1>2. PICK o \in OrderId : pending = << o >>
  BY <1>1, Zenon DEF PipelineInv, TypesOK
<1>3. /\ ring' = Append(ring, o) /\ pending' = << >> /\ pc' = "decode" /\ fd' = fd
      /\ state' = state /\ kernel' = kernel /\ fin' = fin /\ partial' = partial
      /\ decoded' = decoded /\ sent' = sent /\ consumed' = consumed /\ submitted' = submitted
      /\ exited' = exited /\ g_running' = g_running /\ g_reader_done' = g_reader_done /\ due' = due
  BY <1>2 DEF Push, conns, sink, flags
<1>4. ring' \in Seq(OrderId)
  BY <1>1, <1>2, <1>3, AppendProperties
<1>5. TypesOK'
  BY <1>1, <1>3, <1>4, Zenon DEF PipelineInv, TypesOK
<1>6. FlagLast'
  BY <1>1, <1>3, Zenon DEF PipelineInv, FlagLast
<1>7. Flow' = Flow
  <2>1. (consumed \o Append(ring, o)) \o << >> = (consumed \o ring) \o << o >>
    BY <1>1, PushKeepsFlow
  <2> QED  BY <1>2, <1>3, <2>1 DEF Flow
<1>8. NoOrderLost'
  <2>1. ~exited
    BY <1>1, Zenon DEF PipelineInv, FlagLast
  <2>2. Elements(Flow)' = Elements(Flow)
    BY <1>7 DEF Elements
  <2>3. Elements(submitted)' = Elements(submitted) /\ Elements(consumed)' = Elements(consumed)
    BY <1>3 DEF Elements
  <2> QED  BY <1>3, <1>7, <2>1, <2>2, <2>3 DEF PipelineInv, NoOrderLost
<1> QED  BY <1>5, <1>6, <1>8 DEF PipelineInv

(* What is submitted keeps to the order of what is popped.                 *)
LEMMA ConsumeStep ==
  ASSUME PipelineInv, Consume
  PROVE  PipelineInv'
<1> DEFINE o == Head(ring)
<1>1. /\ ring \in Seq(OrderId) /\ ring # << >> /\ consumed \in Seq(OrderId) /\ submitted \in Seq(OrderId)
      /\ ~exited
  BY Zenon DEF PipelineInv, TypesOK, Consume
<1>2. /\ ring' = Tail(ring) /\ consumed' = Append(consumed, o)
      /\ submitted' = IF o \in Rejected THEN submitted ELSE Append(submitted, o)
      /\ exited' = exited /\ pc' = pc /\ fd' = fd /\ pending' = pending
      /\ state' = state /\ kernel' = kernel /\ fin' = fin /\ partial' = partial
      /\ decoded' = decoded /\ sent' = sent
      /\ g_running' = g_running /\ g_reader_done' = g_reader_done /\ due' = due
  BY DEF Consume, conns, flags
<1>3. o \in OrderId /\ ring' \in Seq(OrderId)
  BY <1>1, <1>2, HeadTailProperties
<1>4. consumed' \in Seq(OrderId) /\ submitted' \in Seq(OrderId)
  BY <1>1, <1>2, <1>3, AppendProperties
<1>5. TypesOK'
  BY <1>2, <1>3, <1>4, Zenon DEF PipelineInv, TypesOK
<1>6. FlagLast'
  BY <1>2, Zenon DEF PipelineInv, FlagLast
<1>7. Flow' = Flow /\ Elements(Flow)' = Elements(Flow)
  <2>1. Flow' = Flow
    <3>1. (Append(consumed, Head(ring)) \o Tail(ring)) \o pending = (consumed \o ring) \o pending
      BY <1>1, PopKeepsFlow
    <3> QED  BY <1>2, <3>1, Zenon DEF Flow
  <2> QED  BY <2>1 DEF Elements
<1> HIDE DEF o
<1>8. /\ Elements(consumed') = Elements(consumed) \cup {o} /\ DOMAIN consumed = 1..Len(consumed)
      /\ DOMAIN consumed' = 1..(Len(consumed) + 1) /\ consumed'[Len(consumed) + 1] = o
      /\ \A i \in 1..Len(consumed) : consumed'[i] = consumed[i]
      /\ Len(consumed) \in Nat
  BY <1>1, <1>2, <1>3, AppendFacts
<1>9. /\ Elements(submitted) = Elements(consumed) \ Rejected
      /\ \A i, j \in DOMAIN submitted : i < j =>
           \E k, l \in DOMAIN consumed :
               k < l /\ consumed[k] = submitted[i] /\ consumed[l] = submitted[j]
  BY Zenon DEF PipelineInv, NoOrderLost
<1>10. /\ Elements(submitted') = Elements(consumed') \ Rejected
       /\ \A i, j \in DOMAIN submitted' : i < j =>
           \E k, l \in DOMAIN consumed' :
               k < l /\ consumed'[k] = submitted'[i] /\ consumed'[l] = submitted'[j]
  <2>1. CASE o \in Rejected
    <3>1. submitted' = submitted
      BY <1>2, <2>1
    <3>2. Elements(submitted') = Elements(consumed') \ Rejected
      BY <1>8, <1>9, <2>1, <3>1
    <3> QED  BY <1>8, <1>9, <3>1, <3>2
  <2>2. CASE o \notin Rejected
    <3>1. submitted' = Append(submitted, o)
      BY <1>2, <2>2
    <3>2. /\ Elements(submitted') = Elements(submitted) \cup {o} /\ DOMAIN submitted = 1..Len(submitted)
          /\ DOMAIN submitted' = 1..(Len(submitted) + 1) /\ submitted'[Len(submitted) + 1] = o
          /\ \A i \in 1..Len(submitted) : submitted'[i] = submitted[i]
          /\ Len(submitted) \in Nat
      BY <1>1, <1>3, <3>1, AppendFacts
    <3>3. Elements(submitted') = Elements(consumed') \ Rejected
      BY <1>8, <1>9, <2>2, <3>2
    <3>4. ASSUME NEW i \in DOMAIN submitted', NEW j \in DOMAIN submitted', i < j
          PROVE  \E k, l \in DOMAIN consumed' :
                     k < l /\ consumed'[k] = submitted'[i] /\ consumed'[l] = submitted'[j]
      <4>1. i \in 1..Len(submitted) /\ (j \in 1..Len(submitted) \/ j = Len(submitted) + 1)
        BY <3>2, <3>4
      <4>2. CASE j \in 1..Len(submitted)
        BY <1>8, <1>9, <3>2, <3>4, <4>1, <4>2
      <4>3. CASE j = Len(submitted) + 1
        <5>1. submitted[i] \in Elements(consumed)
          BY <1>9, <3>2, <4>1 DEF Elements
        <5>2. PICK k \in 1..Len(consumed) : consumed[k] = submitted[i]
          BY <1>8, <5>1 DEF Elements
        <5>3. k < Len(consumed) + 1 /\ k \in DOMAIN consumed' /\ Len(consumed) + 1 \in DOMAIN consumed'
          BY <1>8
        <5> QED  BY <1>8, <3>2, <4>1, <4>3, <5>2, <5>3
      <4> QED  BY <4>1, <4>2, <4>3
    <3> QED  BY <3>3, <3>4
  <2> QED  BY <2>1, <2>2
<1>11. NoOrderLost'
  <2>1. Elements(submitted)' = Elements(submitted') /\ Elements(consumed)' = Elements(consumed')
    BY DEF Elements
  <2>2. /\ Elements(Flow') = UNION {{c} \X (1..decoded'[c]) : c \in Conns}
        /\ \A i, j \in DOMAIN Flow' : i < j /\ Flow'[i][1] = Flow'[j][1] => Flow'[i][2] < Flow'[j][2]
    BY <1>2, <1>7 DEF PipelineInv, NoOrderLost
  <2>3. ~exited'
    BY <1>1, <1>2
  <2> QED  BY <1>7, <1>10, <2>1, <2>2, <2>3, Zenon DEF NoOrderLost
<1> QED  BY <1>5, <1>6, <1>11 DEF PipelineInv

(* The whole frames among the units sent.                                  *)
LEMMA QuotientIsNat ==
  ASSUME NEW n \in Nat, NEW k \in Nat, k > 0
  PROVE  n \div k \in Nat /\ k * (n \div k) <= n
  OBVIOUS

LEMMA ExitStep ==
  ASSUME PipelineInv, Exit
  PROVE  PipelineInv'
<1>1. /\ g_reader_done /\ (LoadsInOrder => ring = << >>)
      /\ exited' = TRUE /\ consumed' = consumed /\ submitted' = submitted /\ pc' = pc /\ fd' = fd
      /\ state' = state /\ kernel' = kernel /\ fin' = fin /\ partial' = partial
      /\ decoded' = decoded /\ sent' = sent /\ pending' = pending /\ ring' = ring
      /\ g_running' = g_running /\ g_reader_done' = g_reader_done /\ due' = due
  BY Zenon DEF Exit, conns, flags, queue
<1>2. TypesOK'
  BY <1>1, Zenon DEF PipelineInv, TypesOK
<1>3. FlagLast'
  BY <1>1, Zenon DEF PipelineInv, FlagLast
<1>4. pending = << >>
  BY <1>1, Zenon DEF PipelineInv, TypesOK, FlagLast
<1>5. NoOrderLost'
  <2>1. Flow' = Flow /\ Elements(Flow)' = Elements(Flow)
    BY <1>1 DEF Flow, Elements
  <2>2. Elements(submitted)' = Elements(submitted) /\ Elements(consumed)' = Elements(consumed)
    BY <1>1 DEF Elements
  <2>3. LoadsInOrder => ring' = << >> /\ pending' = << >>
    BY <1>1, <1>4, Zenon
  <2>4. /\ Elements(Flow)' = UNION {{c} \X (1..decoded'[c]) : c \in Conns}
        /\ \A i, j \in DOMAIN Flow' : i < j /\ Flow'[i][1] = Flow'[j][1] => Flow'[i][2] < Flow'[j][2]
    BY <1>1, <2>1, Zenon DEF PipelineInv, NoOrderLost
  <2>5. /\ Elements(submitted)' = Elements(consumed)' \ Rejected
        /\ \A i, j \in DOMAIN submitted' : i < j =>
             \E k, l \in DOMAIN consumed' :
                 k < l /\ consumed'[k] = submitted'[i] /\ consumed'[l] = submitted'[j]
    BY <1>1, <2>2 DEF PipelineInv, NoOrderLost
  <2> QED  BY <2>3, <2>4, <2>5, Zenon DEF NoOrderLost
<1> QED  BY <1>2, <1>3, <1>5 DEF PipelineInv

LEMMA SignalStep ==
  ASSUME PipelineInv, Signal
  PROVE  PipelineInv'
<1>1. /\ g_running' = FALSE /\ due' = [c \in Conns |-> sent[c] \div FrameUnits]
      /\ g_reader_done' = g_reader_done /\ pc' = pc /\ fd' = fd
      /\ state' = state /\ kernel' = kernel /\ fin' = fin /\ partial' = partial
      /\ decoded' = decoded /\ sent' = sent /\ pending' = pending /\ ring' = ring
      /\ exited' = exited /\ consumed' = consumed /\ submitted' = submitted
  BY DEF Signal, conns, sink, queue
<1>2. due' \in [Conns -> Nat]
  <2>1. sent \in [Conns -> Nat]
    BY Zenon DEF PipelineInv, TypesOK
  <2>2. FrameUnits \in Nat /\ FrameUnits > 0
    BY FeedAssumption
  <2>3. \A c \in Conns : sent[c] \div FrameUnits \in Nat
    BY <2>1, <2>2, QuotientIsNat
  <2> QED  BY <1>1, <2>3
<1>3. TypesOK'
  BY <1>1, <1>2, Zenon DEF PipelineInv, TypesOK
<1>4. FlagLast'
  BY <1>1, Zenon DEF PipelineInv, FlagLast
<1>5. NoOrderLost'
  <2>1. Flow' = Flow /\ Elements(Flow)' = Elements(Flow)
    BY <1>1 DEF Flow, Elements
  <2>2. Elements(submitted)' = Elements(submitted) /\ Elements(consumed)' = Elements(consumed)
    BY <1>1 DEF Elements
  <2> QED  BY <1>1, <2>1, <2>2 DEF PipelineInv, NoOrderLost
<1> QED  BY <1>3, <1>4, <1>5 DEF PipelineInv

(* A peer connects, sends or closes.                                       *)
LEMMA PeerStep ==
  ASSUME PipelineInv, NEW c \in Conns, Connect(c) \/ Send(c) \/ PeerClose(c)
  PROVE  PipelineInv'
<1>1. /\ DOMAIN state = Conns /\ fin \in [Conns -> BOOLEAN] /\ kernel \in [Conns -> Nat]
      /\ partial \in [Conns -> Nat] /\ sent \in [Conns -> Nat] /\ (pc \in Reading => fd \in Conns)
  BY Zenon DEF PipelineInv, TypesOK
<1>2. /\ pc' = pc /\ fd' = fd /\ partial' = partial /\ UNCHANGED <<queue, sink, flags, decoded>>
  BY DEF Connect, Send, PeerClose
<1>3. /\ DOMAIN state' = Conns /\ fin' \in [Conns -> BOOLEAN] /\ kernel' \in [Conns -> Nat]
      /\ sent' \in [Conns -> Nat]
  <2>1. CASE Connect(c)
    BY <1>1, <2>1 DEF Connect
  <2>2. CASE Send(c)
    BY <1>1, <2>2 DEF Send
  <2>3. CASE PeerClose(c)
    BY <1>1, <2>3 DEF PeerClose
  <2> QED  BY <2>1, <2>2, <2>3
<1>4. partial' \in [Conns -> Nat] /\ (pc' \in Reading => fd' \in Conns)
      /\ (pc # "stopped" \/ pc' = "stopped") /\ (pc = "push" <=> pc' = "push")
  BY <1>1, <1>2
<1> QED  BY <1>2, <1>3, <1>4, QuietStep

LEMMA SurroundingsStep ==
  ASSUME PipelineInv, Surroundings
  PROVE  PipelineInv'
BY ConsumeStep, ExitStep, SignalStep, PeerStep DEF Surroundings

-----------------------------------------------------------------------------
(* The epoll handler.                                                      *)
LEMMA FrameArithmetic ==
  ASSUME NEW a \in Nat, NEW b \in Nat
  PROVE  /\ FrameUnits * a \in Nat
         /\ FrameUnits * (a + 1) = FrameUnits * a + FrameUnits
         /\ FrameUnits * a < FrameUnits * (b + 1) => a <= b
<1>1. FrameUnits \in Nat /\ FrameUnits > 0
  BY FeedAssumption
<1>2. FrameUnits * a \in Nat /\ FrameUnits * (a + 1) = FrameUnits * a + FrameUnits
  BY <1>1
<1>3. ASSUME a > b PROVE FrameUnits * a >= FrameUnits * (b + 1)
  <2>1. PICK k \in Nat : a = (b + 1) + k
    BY <1>3
  <2>2. FrameUnits * ((b + 1) + k) = FrameUnits * (b + 1) + FrameUnits * k /\ FrameUnits * k \in Nat
    BY <1>1
  <2>3. FrameUnits * (b + 1) \in Nat
    BY <1>1
  <2> QED  BY <2>1, <2>2, <2>3
<1>4. FrameUnits * (b + 1) \in Nat
  BY <1>1
<1> QED  BY <1>2, <1>3, <1>4

LEMMA InitEpoll == PipelineInit /\ EpollInit => EpollInv
<1> SUFFICES ASSUME PipelineInit, EpollInit PROVE EpollInv
  OBVIOUS
<1>1. /\ pc = "listen" /\ state = [c \in Conns |-> "none"] /\ events = {} /\ draining = FALSE
      /\ kernel = [c \in Conns |-> 0] /\ partial = [c \in Conns |-> 0]
      /\ decoded = [c \in Conns |-> 0] /\ sent = [c \in Conns |-> 0] /\ due = [c \in Conns |-> 0]
  BY DEF PipelineInit, EpollInit
<1>2. DrainOK
  BY <1>1, Zenon DEF DrainOK, Reading
<1>3. \A c \in Conns : Accounted(c)
  <2> TAKE c \in Conns
  <2>1. FrameUnits * 0 = 0 /\ FrameUnits * 0 + 0 + 0 = 0 /\ 0 <= 0 /\ ~(0 >= FrameUnits)
    BY FeedAssumption
  <2>2. state[c] = "none" /\ kernel[c] = 0 /\ partial[c] = 0 /\ decoded[c] = 0 /\ sent[c] = 0 /\ due[c] = 0
    BY <1>1
  <2>3. "none" # "closed"
    OBVIOUS
  <2> QED  BY <2>1, <2>2, <2>3, Zenon DEF Accounted
<1> QED  BY <1>2, <1>3, InitPipeline DEF EpollInv

(* What the invariant says of the variables of the final drain.            *)
LEMMA EpollTypes ==
  ASSUME EpollInv
  PROVE  /\ FrameUnits \in Nat /\ FrameUnits > 0 /\ ReadUnits \in Nat /\ ReadUnits > 0
         /\ g_running \in BOOLEAN /\ DOMAIN state = Conns /\ fin \in [Conns -> BOOLEAN]
         /\ kernel \in [Conns -> Nat] /\ partial \in [Conns -> Nat] /\ decoded \in [Conns -> Nat]
         /\ sent \in [Conns -> Nat] /\ due \in [Conns -> Nat]
         /\ (pc \in Reading => fd \in Conns) /\ Listener \notin Conns
         /\ DrainOK /\ \A c \in Conns : Accounted(c)
<1>1. FrameUnits \in Nat /\ FrameUnits > 0 /\ ReadUnits \in Nat /\ ReadUnits > 0
  BY FeedAssumption
<1> QED  BY <1>1, ListenerAssumption, Zenon DEF EpollInv, PipelineInv, TypesOK

(* A step that leaves alone what the final drain depends on.               *)
LEMMA DrainUntouched ==
  ASSUME EpollInv, UNCHANGED <<pc, fd, state, kernel, partial, decoded, sent, due, g_running, epoll>>
  PROVE  DrainOK' /\ \A c \in Conns : Accounted(c)'
<1>1. DrainOK /\ \A c \in Conns : Accounted(c)
  BY EpollTypes
<1>2. events' = events /\ draining' = draining
  BY DEF epoll
<1> QED  BY <1>1, <1>2 DEF DrainOK, Accounted, Served

LEMMA EpollSurroundings ==
  ASSUME EpollInv, Surroundings, UNCHANGED epoll
  PROVE  EpollInv'
<1>0. /\ decoded \in [Conns -> Nat] /\ sent \in [Conns -> Nat] /\ kernel \in [Conns -> Nat]
      /\ partial \in [Conns -> Nat] /\ due \in [Conns -> Nat] /\ DOMAIN state = Conns
      /\ FrameUnits \in Nat /\ FrameUnits > 0 /\ DrainOK /\ \A c \in Conns : Accounted(c)
  BY EpollTypes
<1>1. PipelineInv'
  BY SurroundingsStep DEF EpollInv
<1>2. events' = events /\ draining' = draining
  BY DEF epoll
<1>3. CASE Consume
  <2>1. UNCHANGED <<pc, fd, state, kernel, partial, decoded, sent, due, g_running, epoll>>
    BY <1>3 DEF Consume, conns, flags
  <2> QED  BY <1>1, <2>1, DrainUntouched DEF EpollInv
<1>4. CASE Exit
  <2>1. UNCHANGED <<pc, fd, state, kernel, partial, decoded, sent, due, g_running, epoll>>
    BY <1>4 DEF Exit, conns, flags
  <2> QED  BY <1>1, <2>1, DrainUntouched DEF EpollInv
<1>5. CASE Signal
  <2>1. /\ due' = [c \in Conns |-> sent[c] \div FrameUnits] /\ g_running' = FALSE
        /\ UNCHANGED <<pc, fd, state, kernel, partial, decoded, sent>>
    BY <1>5 DEF Signal, conns
  <2>2. g_running = TRUE
    BY <1>5, EpollTypes, Zenon DEF Signal
  <2>3. \A c \in Conns : FrameUnits * (sent[c] \div FrameUnits) <= sent[c]
    BY <1>0, QuotientIsNat
  <2>4. DrainOK'
    BY <1>0, <1>2, <2>1, <2>2 DEF DrainOK
  <2>5. \A c \in Conns : Accounted(c)'
    BY <1>0, <2>1, <2>3 DEF Accounted
  <2> QED  BY <1>1, <2>4, <2>5 DEF EpollInv
<1>6. CASE \E d \in Conns : Connect(d)
  <2>1. PICK d \in Conns : Connect(d)
    BY <1>6
  <2>2. /\ state' = [state EXCEPT ![d] = "backlog"] /\ state[d] = "none"
        /\ UNCHANGED <<pc, fd, kernel, partial, decoded, sent, due, g_running>>
    BY <2>1 DEF Connect, flags
  <2>3. DrainOK'
    BY <1>0, <1>2, <2>2 DEF DrainOK, Reading, Served
  <2>4. \A c \in Conns : Accounted(c)'
    BY <1>0, <2>2 DEF Accounted
  <2> QED  BY <1>1, <2>3, <2>4 DEF EpollInv
<1>7. CASE \E d \in Conns : Send(d)
  <2>1. PICK d \in Conns : Send(d)
    BY <1>7
  <2>2. /\ state[d] \notin {"none", "closed"}
        /\ sent' = [sent EXCEPT ![d] = @ + 1] /\ kernel' = [kernel EXCEPT ![d] = @ + 1]
        /\ UNCHANGED <<pc, fd, state, partial, decoded, due, g_running>>
    BY <2>1, Zenon DEF Send, flags, Reachable
  <2>3. DrainOK'
    BY <1>0, <1>2, <2>2 DEF DrainOK, Served
  <2>4. \A c \in Conns : Accounted(c)'
    <3> TAKE c \in Conns
    <3>1. FrameUnits * decoded[c] \in Nat /\ FrameUnits * due[c] \in Nat
      BY <1>0, FrameArithmetic
    <3> QED  BY <1>0, <2>2, <3>1 DEF Accounted
  <2> QED  BY <1>1, <2>3, <2>4 DEF EpollInv
<1>8. CASE \E d \in Conns : PeerClose(d)
  <2>1. UNCHANGED <<pc, fd, state, kernel, partial, decoded, sent, due, g_running, epoll>>
    BY <1>8 DEF PeerClose, flags
  <2> QED  BY <1>1, <2>1, DrainUntouched DEF EpollInv
<1> QED  BY <1>3, <1>4, <1>5, <1>6, <1>7, <1>8 DEF Surroundings

(* Steps of the reader that touch no connection.                           *)
LEMMA EpollControl ==
  ASSUME EpollInv, Listen \/ Check \/ epoll_wait \/ NextEvent \/ AcceptNone \/ DecodedAll
  PROVE  EpollInv'
<1>0. /\ decoded \in [Conns -> Nat] /\ sent \in [Conns -> Nat] /\ kernel \in [Conns -> Nat]
      /\ partial \in [Conns -> Nat] /\ due \in [Conns -> Nat] /\ DOMAIN state = Conns
      /\ fin \in [Conns -> BOOLEAN] /\ (pc \in Reading => fd \in Conns)
      /\ g_running \in BOOLEAN /\ Listener \notin Conns
      /\ FrameUnits \in Nat /\ FrameUnits > 0 /\ DrainOK /\ \A c \in Conns : Accounted(c)
  BY EpollTypes
<1>1. /\ state' = state /\ kernel' = kernel /\ fin' = fin /\ partial' = partial /\ decoded' = decoded
      /\ sent' = sent /\ due' = due /\ g_running' = g_running /\ UNCHANGED <<queue, sink, flags, decoded>>
  BY Zenon DEF Listen, Check, epoll_wait, NextEvent, AcceptNone, DecodedAll, conns, flags
<1>2. ASSUME pc # "stopped", pc # "push", pc' # "push", pc' \in Reading => fd' \in Conns,
             DrainOK', \A c \in Conns : Accounted(c)'
      PROVE  EpollInv'
  <2>1. PipelineInv
    BY DEF EpollInv
  <2>2. /\ DOMAIN state' = Conns /\ fin' \in [Conns -> BOOLEAN] /\ kernel' \in [Conns -> Nat]
        /\ partial' \in [Conns -> Nat] /\ sent' \in [Conns -> Nat]
    BY <1>0, <1>1
  <2>3. PipelineInv'
    BY <1>1, <1>2, <2>1, <2>2, QuietStep, Zenon
  <2> QED  BY <1>2, <2>3 DEF EpollInv
<1>3. ASSUME pc \notin {"decode", "push"}
      PROVE  \A c \in Conns : Accounted(c)'
  BY <1>0, <1>1, <1>3 DEF Accounted
<1>4. CASE Listen
  <2>1. pc = "listen" /\ pc' = "check" /\ fd' = fd /\ events' = events /\ draining' = draining
    BY <1>4 DEF Listen, epoll
  <2>2. DrainOK'
    BY <1>0, <1>1, <2>1 DEF DrainOK, Reading
  <2> QED  BY <1>2, <1>3, <2>1, <2>2 DEF Reading
<1>5. CASE Check
  <2>1. /\ pc = "check" /\ pc' \in {"wait", "backlog"} /\ fd' = fd /\ events' = events /\ draining' = draining
        /\ (pc' = "backlog" => g_running = FALSE)
    BY <1>0, <1>5, Zenon DEF Check, epoll
  <2>2. DrainOK'
    BY <1>0, <1>1, <2>1 DEF DrainOK, Reading
  <2> QED  BY <1>2, <1>3, <2>1, <2>2 DEF Reading
<1>6. CASE epoll_wait
  <2>1. /\ pc = "wait" /\ pc' = "event" /\ fd' = fd /\ draining' = draining
        /\ events' \subseteq Readable
    BY <1>6 DEF epoll_wait
  <2>2. events' \subseteq In("open") \cup {Listener}
    BY <2>1, Zenon DEF Readable
  <2>3. DrainOK'
    BY <1>0, <1>1, <2>1, <2>2 DEF DrainOK, Reading, In
  <2> QED  BY <1>2, <1>3, <2>1, <2>3 DEF Reading
<1>7. CASE NextEvent
  <2>1. pc = "event" /\ draining' = draining
    BY <1>7 DEF NextEvent
  <2>2. CASE events # {} \/ fd' # fd
    <3>1. PICK f \in events : /\ fd' = f /\ events' = events \ {f}
                              /\ pc' = IF f = Listener THEN "accept" ELSE "read"
      BY <1>7, <2>2, Zenon DEF NextEvent
    <3>2. DrainOK'
      BY <1>0, <1>1, <2>1, <3>1 DEF DrainOK, Reading, Served
    <3> QED  BY <1>0, <1>2, <1>3, <2>1, <3>1, <3>2, Zenon DEF Reading, DrainOK
  <2>3. CASE events = {} /\ fd' = fd
    <3>1. events' = events /\ pc' \in {"stop", "check"} /\ (pc' = "stop" <=> draining = TRUE)
      BY <1>0, <1>7, <2>3, Zenon DEF NextEvent, DrainOK
    <3>2. DrainOK'
      BY <1>0, <1>1, <2>1, <2>3, <3>1 DEF DrainOK, Reading, Served
    <3> QED  BY <1>2, <1>3, <2>1, <3>1, <3>2 DEF Reading
  <2> QED  BY <2>2, <2>3
<1>8. CASE AcceptNone
  <2>1. pc \in {"accept", "backlog"} /\ pc' = "event" /\ In("backlog") = {} /\ fd' = fd
    BY <1>8 DEF AcceptNone
  <2>2. CASE pc = "accept"
    <3>1. events' = events /\ draining' = FALSE
      BY <1>8, <2>2, Zenon DEF AcceptNone
    <3>2. DrainOK'
      BY <1>0, <1>1, <2>1, <2>2, <3>1, Zenon DEF DrainOK, Reading
    <3> QED  BY <1>2, <1>3, <2>1, <2>2, <3>2 DEF Reading
  <2>3. CASE pc = "backlog"
    <3>1. events' = In("open") /\ draining' = TRUE
      BY <1>8, <2>3, Zenon DEF AcceptNone
    <3>2. ASSUME NEW c \in Conns, state[c] # "open" PROVE decoded[c] >= due[c]
      <4>1. /\ FrameUnits * due[c] < FrameUnits * (decoded[c] + 1) => due[c] <= decoded[c]
            /\ FrameUnits * due[c] \in Nat /\ FrameUnits * (decoded[c] + 1) \in Nat
            /\ FrameUnits * (decoded[c] + 1) = FrameUnits * decoded[c] + FrameUnits
            /\ FrameUnits * decoded[c] \in Nat
        BY <1>0, FrameArithmetic
      <4>2. state[c] \in {"none", "closed"}
        BY <1>0, <2>1, <3>2 DEF DrainOK, In
      <4> QED  BY <1>0, <3>2, <4>1, <4>2 DEF Accounted
    <3>3. \A c \in Conns : Served(c)'
      BY <1>1, <3>1, <3>2, Zenon DEF Served, In
    <3>4. DrainOK'
      BY <1>0, <1>1, <2>1, <2>3, <3>1, <3>3 DEF DrainOK, Reading, In
    <3> QED  BY <1>2, <1>3, <2>1, <2>3, <3>4 DEF Reading
  <2> QED  BY <2>1, <2>2, <2>3
<1>9. CASE DecodedAll
  <2>1. /\ pc = "decode" /\ pc' = "read" /\ fd' = fd /\ events' = events /\ draining' = draining
        /\ partial[fd] < FrameUnits
    BY <1>9 DEF DecodedAll, epoll
  <2>2. DrainOK'
    BY <1>0, <1>1, <2>1 DEF DrainOK, Reading, Served
  <2>3. fd \in Conns
    BY <1>0, <2>1 DEF Reading
  <2>4. \A c \in Conns : Accounted(c)'
    BY <1>0, <1>1, <2>1, <2>3 DEF Accounted
  <2> QED  BY <1>2, <2>1, <2>2, <2>3, <2>4
<1> QED  BY <1>4, <1>5, <1>6, <1>7, <1>8, <1>9

(* Steps of the reader on a connection.                                    *)
LEMMA EpollIo ==
  ASSUME EpollInv, AcceptOne \/ ReadSome \/ ReadNone
  PROVE  EpollInv'
<1>0. /\ decoded \in [Conns -> Nat] /\ sent \in [Conns -> Nat] /\ kernel \in [Conns -> Nat]
      /\ partial \in [Conns -> Nat] /\ due \in [Conns -> Nat] /\ DOMAIN state = Conns
      /\ fin \in [Conns -> BOOLEAN] /\ (pc \in Reading => fd \in Conns)
      /\ g_running \in BOOLEAN /\ Listener \notin Conns
      /\ FrameUnits \in Nat /\ FrameUnits > 0 /\ ReadUnits \in Nat /\ ReadUnits > 0
      /\ DrainOK /\ \A c \in Conns : Accounted(c)
  BY EpollTypes
<1>1. /\ fin' = fin /\ decoded' = decoded /\ sent' = sent /\ due' = due /\ g_running' = g_running
      /\ fd' = fd /\ events' = events /\ draining' = draining /\ UNCHANGED <<queue, sink, flags, decoded>>
  BY Zenon DEF AcceptOne, ReadSome, ReadNone, flags, epoll
<1>2. ASSUME pc # "stopped", pc # "push", pc' # "push", pc' \in Reading => fd' \in Conns,
             DOMAIN state' = Conns, kernel' \in [Conns -> Nat], partial' \in [Conns -> Nat],
             DrainOK', \A c \in Conns : Accounted(c)'
      PROVE  EpollInv'
  <2>1. PipelineInv
    BY DEF EpollInv
  <2>2. fin' \in [Conns -> BOOLEAN] /\ sent' \in [Conns -> Nat]
    BY <1>0, <1>1
  <2>3. PipelineInv'
    BY <1>1, <1>2, <2>1, <2>2, QuietStep, Zenon
  <2> QED  BY <1>2, <2>3 DEF EpollInv
<1>3. CASE AcceptOne
  <2>1. PICK d \in In("backlog") : state' = [state EXCEPT ![d] = "open"]
    BY <1>3, Zenon DEF AcceptOne
  <2>2. pc \in {"accept", "backlog"} /\ pc' = pc /\ kernel' = kernel /\ partial' = partial
    BY <1>3 DEF AcceptOne
  <2>3. DrainOK'
    BY <1>0, <1>1, <2>1, <2>2 DEF DrainOK, Reading, In
  <2>4. \A c \in Conns : Accounted(c)'
    BY <1>0, <1>1, <2>1, <2>2 DEF Accounted, In
  <2> QED  BY <1>0, <1>2, <2>1, <2>2, <2>3, <2>4 DEF Reading
<1>4. CASE ReadSome
  <2>1. pc = "read" /\ pc' = "decode" /\ kernel[fd] > 0 /\ state' = state /\ fd \in Conns
    BY <1>0, <1>4 DEF ReadSome, Reading
  <2>2. PICK r \in Nat : r = Smaller(ReadUnits, kernel[fd])
    BY <1>0, <2>1 DEF Smaller
  <2>3. r <= kernel[fd] /\ kernel[fd] \in Nat
    BY <1>0, <2>1, <2>2 DEF Smaller
  <2>4. kernel' = [kernel EXCEPT ![fd] = @ - r] /\ partial' = [partial EXCEPT ![fd] = @ + r]
    BY <1>4, <2>2 DEF ReadSome
  <2>5. kernel' \in [Conns -> Nat] /\ partial' \in [Conns -> Nat]
    BY <1>0, <2>1, <2>3, <2>4
  <2>6. DrainOK'
    BY <1>0, <1>1, <2>1, Zenon DEF DrainOK, Reading, Served
  <2>7. \A c \in Conns : Accounted(c)'
    <3> TAKE c \in Conns
    <3>1. FrameUnits * decoded[c] \in Nat /\ FrameUnits * due[c] \in Nat
      BY <1>0, FrameArithmetic
    <3> QED  BY <1>0, <1>1, <2>1, <2>3, <2>4, <3>1 DEF Accounted
  <2> QED  BY <1>0, <1>1, <1>2, <2>1, <2>5, <2>6, <2>7, Zenon
<1>5. CASE ReadNone
  <2>1. pc = "read" /\ pc' = "event" /\ kernel[fd] = 0 /\ kernel' = kernel /\ fd \in Conns
    BY <1>0, <1>5 DEF ReadNone, Reading
  <2>2. /\ FrameUnits * due[fd] < FrameUnits * (decoded[fd] + 1) => due[fd] <= decoded[fd]
        /\ FrameUnits * due[fd] \in Nat /\ FrameUnits * (decoded[fd] + 1) \in Nat
        /\ FrameUnits * (decoded[fd] + 1) = FrameUnits * decoded[fd] + FrameUnits
        /\ FrameUnits * decoded[fd] \in Nat
    BY <1>0, <2>1, FrameArithmetic
  <2>3. state[fd] = "open" /\ partial[fd] < FrameUnits
    BY <1>0, <2>1 DEF DrainOK, Accounted
  <2>4. sent[fd] < FrameUnits * (decoded[fd] + 1)
    BY <1>0, <2>1, <2>2, <2>3 DEF Accounted
  <2>5. CASE fin[fd] /\ ~draining
    <3>1. state' = [state EXCEPT ![fd] = "closed"] /\ partial' = [partial EXCEPT ![fd] = 0]
      BY <1>5, <2>5, Zenon DEF ReadNone
    <3>2. draining = FALSE
      BY <1>0, <2>5, Zenon DEF DrainOK
    <3>3. DrainOK'
      BY <1>0, <1>1, <2>1, <3>1, <3>2, Zenon DEF DrainOK, Reading
    <3>4. \A c \in Conns : Accounted(c)'
      BY <1>0, <1>1, <2>1, <2>3, <2>4, <3>1 DEF Accounted
    <3>5. partial' \in [Conns -> Nat] /\ DOMAIN state' = Conns
      BY <1>0, <3>1, Zenon
    <3> QED  BY <1>0, <1>2, <2>1, <3>3, <3>4, <3>5 DEF Reading
  <2>6. CASE ~(fin[fd] /\ ~draining)
    <3>1. state' = state /\ partial' = partial
      BY <1>5, <2>6, Zenon DEF ReadNone
    <3>2. due[fd] <= decoded[fd]
      BY <1>0, <2>1, <2>2, <2>4 DEF Accounted
    <3>3. DrainOK'
      BY <1>0, <1>1, <2>1, <3>1, <3>2 DEF DrainOK, Reading, Served
    <3>4. \A c \in Conns : Accounted(c)'
      BY <1>0, <1>1, <2>1, <2>3, <3>1 DEF Accounted
    <3> QED  BY <1>0, <1>2, <2>1, <3>1, <3>3, <3>4 DEF Reading
  <2> QED  BY <2>5, <2>6
<1> QED  BY <1>3, <1>4, <1>5

(* The steps both handlers have.                                           *)
LEMMA EpollShared ==
  ASSUME EpollInv, ListenFails \/ decode \/ Push \/ Stop, UNCHANGED epoll
  PROVE  EpollInv'
<1>0. /\ decoded \in [Conns -> Nat] /\ sent \in [Conns -> Nat] /\ kernel \in [Conns -> Nat]
      /\ partial \in [Conns -> Nat] /\ due \in [Conns -> Nat] /\ DOMAIN state = Conns
      /\ (pc \in Reading => fd \in Conns)
      /\ g_running \in BOOLEAN /\ Listener \notin Conns
      /\ FrameUnits \in Nat /\ FrameUnits > 0
      /\ DrainOK /\ \A c \in Conns : Accounted(c)
  BY EpollTypes
<1>1. PipelineInv
  BY DEF EpollInv
<1>2. events' = events /\ draining' = draining
  BY DEF epoll
<1>3. CASE ListenFails \/ Stop
  <2>1. pc \in {"listen", "stop"} /\ Leave(TRUE)
    BY <1>3, Zenon DEF ListenFails, Stop
  <2>2. PipelineInv'
    <3>1. TRUE \in BOOLEAN /\ pc # "push" /\ pc # "stopped"
      BY <2>1
    <3> QED  BY <1>1, <2>1, <3>1, LeaveStep, Zenon
  <2>3. /\ pc' = "stopped" /\ g_running' = FALSE /\ fd' = fd /\ state' = state /\ kernel' = kernel
        /\ partial' = partial /\ decoded' = decoded /\ sent' = sent /\ due' = due
    BY <2>1, Zenon DEF Leave, conns
  <2>4. DrainOK'
    BY <1>0, <1>2, <2>1, <2>3, Zenon DEF DrainOK, Reading, Served
  <2>5. \A c \in Conns : Accounted(c)'
    BY <1>0, <2>1, <2>3 DEF Accounted
  <2> QED  BY <2>2, <2>4, <2>5 DEF EpollInv
<1>4. CASE decode
  <2>1. /\ pc = "decode" /\ partial[fd] >= FrameUnits /\ pc' = "push" /\ fd' = fd
        /\ decoded' = [decoded EXCEPT ![fd] = @ + 1]
        /\ partial' = [partial EXCEPT ![fd] = @ - FrameUnits]
        /\ state' = state /\ kernel' = kernel /\ sent' = sent /\ due' = due /\ g_running' = g_running
    BY <1>4 DEF decode, flags
  <2>2. fd \in Conns /\ state[fd] = "open"
    BY <1>0, <2>1, Zenon DEF Reading, DrainOK
  <2>3. DrainOK'
    BY <1>0, <1>2, <2>1, <2>2, Zenon DEF DrainOK, Reading, Served
  <2>4. \A c \in Conns : Accounted(c)'
    <3> TAKE c \in Conns
    <3>1. FrameUnits * decoded[c] \in Nat /\ FrameUnits * (decoded[c] + 1) = FrameUnits * decoded[c] + FrameUnits
      BY <1>0, FrameArithmetic
    <3> QED  BY <1>0, <2>1, <2>2, <3>1 DEF Accounted
  <2> QED  BY <1>1, <1>4, <2>3, <2>4, DecodeStep DEF EpollInv
<1>5. CASE Push
  <2>1. /\ pc = "push" /\ pc' = "decode" /\ fd' = fd /\ state' = state /\ kernel' = kernel
        /\ partial' = partial /\ decoded' = decoded /\ sent' = sent /\ due' = due /\ g_running' = g_running
    BY <1>5, Zenon DEF Push, conns, flags
  <2>2. DrainOK'
    BY <1>0, <1>2, <2>1 DEF DrainOK, Reading, Served
  <2>3. \A c \in Conns : Accounted(c)'
    BY <1>0, <2>1 DEF Accounted
  <2> QED  BY <1>1, <1>5, <2>2, <2>3, PushStep DEF EpollInv
<1> QED  BY <1>3, <1>4, <1>5

LEMMA EpollInvariant == EpollSpec => []EpollInv
<1>1. ASSUME EpollInv, [EpollNext]_<<pipeline, epoll>>
      PROVE  EpollInv'
  <2>1. CASE EpollNext
    BY <1>1, <2>1, EpollSurroundings, EpollControl, EpollIo, EpollShared DEF EpollNext, EpollReader
  <2>2. CASE UNCHANGED <<pipeline, epoll>>
    <3>1. UNCHANGED <<pc, fd, state, kernel, partial, decoded, sent, due, g_running, epoll, fin>>
      BY <2>2 DEF pipeline, conns, flags
    <3>2. UNCHANGED <<queue, sink, flags, decoded>>
      BY <2>2 DEF pipeline, conns
    <3>3. PipelineInv'
      <4>1. /\ DOMAIN state' = Conns /\ fin' \in [Conns -> BOOLEAN] /\ kernel' \in [Conns -> Nat]
            /\ partial' \in [Conns -> Nat] /\ sent' \in [Conns -> Nat]
            /\ (pc' \in Reading => fd' \in Conns) /\ (pc = "push" <=> pc' = "push")
            /\ (pc # "stopped" \/ pc' = "stopped")
        BY <1>1, <3>1, EpollTypes
      <4>2. PipelineInv
        BY <1>1 DEF EpollInv
      <4> QED  BY <3>2, <4>1, <4>2, QuietStep, Zenon
    <3> QED  BY <1>1, <3>1, <3>3, DrainUntouched DEF EpollInv
  <2> QED  BY <1>1, <2>1, <2>2
<1> QED  BY <1>1, InitEpoll, PTL DEF EpollSpec

(* The epoll handler loses no order it decoded, whatever peers, signal and *)
(* consumer do.                                                            *)
THEOREM EpollLosesNoOrder == EpollSpec => []NoOrderLost
<1>1. EpollInv => NoOrderLost
  BY DEF EpollInv, PipelineInv
<1> QED  BY <1>1, EpollInvariant, PTL

(* The final drain of the epoll handler decodes every frame that had       *)
(* arrived at the signal.                                                  *)
THEOREM EpollReadsAllArrived == EpollSpec => []ArrivedIsRead
<1>1. EpollInv => ArrivedIsRead
  <2> SUFFICES ASSUME EpollInv, pc = "stopped", draining PROVE AllDueDecoded
    BY DEF ArrivedIsRead
  <2>1. draining = TRUE
    BY EpollTypes, Zenon DEF DrainOK
  <2>2. events = {} /\ \A c \in Conns : Served(c)
    BY <2>1, EpollTypes, Zenon DEF DrainOK
  <2> QED  BY <2>2 DEF Served, AllDueDecoded
<1> QED  BY <1>1, EpollInvariant, PTL

-----------------------------------------------------------------------------
(* The io_uring handler.                                                   *)

(* The inductive invariant of the io_uring handler's requests, prepared in *)
(* p, submitted in f and completed in q: a socket has at most one, in one  *)
(* of the three places.                                                    *)
Completion ==
    {Cqe("recv", c, r) : c \in Conns, r \in Nat \cup {Again}}
        \cup {Cqe("accept", c, 0) : c \in Conns} \cup {Cqe("accept", Listener, Again)}

Completed(q, s) == \E e \in Elements(q) : SocketOf(e) = s

Requested(p, f, q, s) == p[s] = 1 \/ f[s] = 1 \/ Completed(q, s)

RequestsOK(p, f, q) ==
    /\ p \in [Sockets -> {0, 1}] /\ f \in [Sockets -> {0, 1}] /\ q \in Seq(Completion)
    /\ \A i, j \in DOMAIN q : SocketOf(q[i]) = SocketOf(q[j]) => i = j
    /\ \A s \in Sockets : p[s] = 0 \/ f[s] = 0
    /\ \A s \in Sockets : Completed(q, s) => p[s] = 0 /\ f[s] = 0

Busy(s) == Requested(sq, inflight, cq, s)

(* A connection with a request is open; the one whose read is decoded has  *)
(* none, and in the main loop no other open one is without.                *)
Between == pc \in {"decode", "push"}

ConnsOK ==
    /\ \A c \in Conns : Busy(c) => state[c] = "open"
    /\ \A c \in Conns : Cqe("accept", c, 0) \in Elements(cq) => state[c] = "accepted"
    /\ Between => ~Busy(fd) /\ state[fd] \in {"open", "late"}
    /\ pc = "late" => state[fd] = "late"
    /\ phase = "main" => \A s \in In("open") \cup {Listener} : Busy(s) \/ (Between /\ s = fd)
    /\ pc = "check" => phase = "main"
    /\ pc = "listen" => /\ sq = NoRequests /\ inflight = NoRequests /\ cq = << >>
                        /\ In("open") = {}

UringInv == PipelineInv /\ RequestsOK(sq, inflight, cq) /\ ConnsOK

-----------------------------------------------------------------------------
(* The requests of the io_uring handler.                                   *)
LEMMA TailFacts ==
  ASSUME NEW S, NEW q \in Seq(S), q # << >>
  PROVE  /\ Head(q) \in S /\ Tail(q) \in Seq(S) /\ Head(q) = q[1] /\ 1 \in DOMAIN q
         /\ Elements(q) = Elements(Tail(q)) \cup {Head(q)}
         /\ DOMAIN Tail(q) = 1..(Len(q) - 1) /\ DOMAIN q = 1..Len(q) /\ Len(q) \in Nat
         /\ \A i \in DOMAIN Tail(q) : i + 1 \in DOMAIN q /\ Tail(q)[i] = q[i + 1]
<1>1. /\ Head(q) \in S /\ Tail(q) \in Seq(S) /\ Head(q) = q[1] /\ Len(q) \in Nat /\ DOMAIN q = 1..Len(q)
      /\ DOMAIN Tail(q) = 1..(Len(q) - 1) /\ Len(q) > 0
      /\ \A i \in 1..(Len(q) - 1) : Tail(q)[i] = q[i + 1]
  BY HeadTailProperties, EmptySeq
<1>2. Elements(q) = Elements(Tail(q)) \cup {Head(q)}
  <2>1. ASSUME NEW i \in 1..Len(q) PROVE i = 1 \/ (i - 1 \in 1..(Len(q) - 1) /\ q[i] = Tail(q)[i - 1])
    BY <1>1
  <2>2. \A i \in 1..(Len(q) - 1) : i + 1 \in 1..Len(q)
    BY <1>1
  <2>3. \A e : e \in Elements(q) <=> \E i \in 1..Len(q) : e = q[i]
    BY <1>1, Zenon DEF Elements
  <2>4. \A e : e \in Elements(Tail(q)) <=> \E i \in 1..(Len(q) - 1) : e = Tail(q)[i]
    BY <1>1, Zenon DEF Elements
  <2>5. ASSUME NEW e \in Elements(q) PROVE e \in Elements(Tail(q)) \/ e = Head(q)
    <3>1. PICK i \in 1..Len(q) : e = q[i]
      BY <2>3, <2>5, Zenon
    <3> QED  BY <1>1, <2>1, <2>4, <3>1, Zenon
  <2>6. ASSUME NEW e \in Elements(Tail(q)) PROVE e \in Elements(q)
    <3>1. PICK i \in 1..(Len(q) - 1) : e = Tail(q)[i]
      BY <2>4, <2>6, Zenon
    <3>2. i + 1 \in 1..Len(q) /\ e = q[i + 1]
      BY <1>1, <2>2, <3>1
    <3> QED  BY <2>3, <3>2, Zenon
  <2>7. Head(q) \in Elements(q)
    <3>1. 1 \in 1..Len(q)
      BY <1>1
    <3> QED  BY <1>1, <2>3, <3>1, Zenon
  <2> QED  BY <2>5, <2>6, <2>7, Zenon
<1> QED  BY <1>1, <1>2

LEMMA SocketOfCqe ==
  /\ \A c \in Conns : \A r : SocketOf(Cqe("recv", c, r)) = c
  /\ \A c, r : SocketOf(Cqe("accept", c, r)) = Listener
  /\ \A e \in Completion : SocketOf(e) \in Sockets
BY DEF SocketOf, Cqe, Completion, Sockets

(* The first completion is taken.                                          *)
LEMMA ReapOne ==
  ASSUME NEW p, NEW f, NEW q, RequestsOK(p, f, q), q # << >>
  PROVE  /\ Head(q) \in Completion /\ Completed(q, SocketOf(Head(q))) /\ RequestsOK(p, f, Tail(q))
         /\ Elements(Tail(q)) \subseteq Elements(q) /\ Head(q) \in Elements(q)
         /\ \A s \in Sockets : Requested(p, f, Tail(q), s) <=> Requested(p, f, q, s) /\ s # SocketOf(Head(q))
<1>0. /\ p \in [Sockets -> {0, 1}] /\ f \in [Sockets -> {0, 1}] /\ q \in Seq(Completion)
      /\ \A i, j \in DOMAIN q : SocketOf(q[i]) = SocketOf(q[j]) => i = j
      /\ \A s \in Sockets : p[s] = 0 \/ f[s] = 0
      /\ \A s \in Sockets : Completed(q, s) => p[s] = 0 /\ f[s] = 0
  BY DEF RequestsOK
<1>1. /\ Head(q) \in Completion /\ Tail(q) \in Seq(Completion) /\ Head(q) = q[1] /\ 1 \in DOMAIN q
      /\ Elements(q) = Elements(Tail(q)) \cup {Head(q)}
      /\ DOMAIN Tail(q) = 1..(Len(q) - 1) /\ DOMAIN q = 1..Len(q) /\ Len(q) \in Nat
      /\ \A i \in DOMAIN Tail(q) : i + 1 \in DOMAIN q /\ Tail(q)[i] = q[i + 1]
  BY <1>0, TailFacts, Zenon
<1>2. \A i, j \in DOMAIN Tail(q) : SocketOf(Tail(q)[i]) = SocketOf(Tail(q)[j]) => i = j
  <2> TAKE i, j \in DOMAIN Tail(q)
  <2> HAVE SocketOf(Tail(q)[i]) = SocketOf(Tail(q)[j])
  <2>1. /\ i + 1 \in DOMAIN q /\ j + 1 \in DOMAIN q
        /\ SocketOf(q[i + 1]) = SocketOf(q[j + 1])
    BY <1>1, Zenon
  <2>2. i + 1 = j + 1
    BY <1>0, <2>1
  <2>3. i \in 1..(Len(q) - 1) /\ j \in 1..(Len(q) - 1) /\ Len(q) \in Nat
    BY <1>1, Zenon
  <2> QED  BY <2>2, <2>3
<1>3. \A e \in Elements(Tail(q)) : SocketOf(e) # SocketOf(Head(q))
  <2> SUFFICES ASSUME NEW i \in DOMAIN Tail(q), SocketOf(Tail(q)[i]) = SocketOf(Head(q))
               PROVE  FALSE
    BY Zenon DEF Elements
  <2>1. i + 1 \in DOMAIN q /\ SocketOf(q[i + 1]) = SocketOf(q[1])
    BY <1>1
  <2>2. i + 1 = 1
    BY <1>0, <1>1, <2>1
  <2> QED  BY <1>1, <2>2
<1>4. \A s : Completed(Tail(q), s) <=> Completed(q, s) /\ s # SocketOf(Head(q))
  BY <1>1, <1>3, Zenon DEF Completed
<1>5. Completed(q, SocketOf(Head(q))) /\ Elements(Tail(q)) \subseteq Elements(q) /\ Head(q) \in Elements(q)
  BY <1>1, Zenon DEF Completed
<1>6. RequestsOK(p, f, Tail(q))
  BY <1>0, <1>1, <1>2, <1>4, Zenon DEF RequestsOK
<1>7. SocketOf(Head(q)) \in Sockets
  BY <1>1, SocketOfCqe, Zenon
<1>8. \A s \in Sockets : Requested(p, f, Tail(q), s) <=> Requested(p, f, q, s) /\ s # SocketOf(Head(q))
  <2>1. 0 # 1
    OBVIOUS
  <2>2. ~(p[SocketOf(Head(q))] = 1) /\ ~(f[SocketOf(Head(q))] = 1)
    BY <1>0, <1>5, <1>7, <2>1, Zenon
  <2> QED  BY <1>4, <2>2, Zenon DEF Requested
<1> QED  BY <1>1, <1>5, <1>6, <1>8, Zenon

Prepared(p, s) == [p EXCEPT ![s] = @ + 1]

(* A request is prepared for a socket that has none.                       *)
LEMMA PrepareOne ==
  ASSUME NEW p, NEW f, NEW q, RequestsOK(p, f, q), NEW s \in Sockets, ~Requested(p, f, q, s)
  PROVE  /\ RequestsOK(Prepared(p, s), f, q)
         /\ \A t \in Sockets : Requested(Prepared(p, s), f, q, t) <=> Requested(p, f, q, t) \/ t = s
<1>0. /\ p \in [Sockets -> {0, 1}] /\ f \in [Sockets -> {0, 1}] /\ q \in Seq(Completion)
      /\ \A i, j \in DOMAIN q : SocketOf(q[i]) = SocketOf(q[j]) => i = j
      /\ \A t \in Sockets : p[t] = 0 \/ f[t] = 0
      /\ \A t \in Sockets : Completed(q, t) => p[t] = 0 /\ f[t] = 0
  BY DEF RequestsOK
<1>1. p[s] = 0 /\ f[s] = 0 /\ ~Completed(q, s)
  BY <1>0 DEF Requested
<1>2. PICK r : r = Prepared(p, s)
  OBVIOUS
<1>3. r \in [Sockets -> {0, 1}] /\ r[s] = 1 /\ \A t \in Sockets : t # s => r[t] = p[t]
  BY <1>0, <1>1, <1>2 DEF Prepared
<1>4. \A t \in Sockets : r[t] = 0 \/ f[t] = 0
  BY <1>0, <1>1, <1>3
<1>5. \A t \in Sockets : Completed(q, t) => r[t] = 0 /\ f[t] = 0
  BY <1>0, <1>1, <1>3
<1>6. RequestsOK(r, f, q)
  BY <1>0, <1>3, <1>4, <1>5, Zenon DEF RequestsOK
<1>7. \A t \in Sockets : Requested(r, f, q, t) <=> Requested(p, f, q, t) \/ t = s
  BY <1>3 DEF Requested
<1> QED  BY <1>2, <1>6, <1>7, Zenon

Submitted(p, f) == [s \in Sockets |-> f[s] + p[s]]

(* The prepared requests are submitted.                                    *)
LEMMA SubmitAll ==
  ASSUME NEW p, NEW f, NEW q, RequestsOK(p, f, q)
  PROVE  /\ RequestsOK(NoRequests, Submitted(p, f), q)
         /\ \A t \in Sockets : Requested(NoRequests, Submitted(p, f), q, t) <=> Requested(p, f, q, t)
<1>g. PICK g : g = Submitted(p, f)
  OBVIOUS
<1>0. /\ p \in [Sockets -> {0, 1}] /\ f \in [Sockets -> {0, 1}] /\ q \in Seq(Completion)
      /\ \A i, j \in DOMAIN q : SocketOf(q[i]) = SocketOf(q[j]) => i = j
      /\ \A t \in Sockets : p[t] = 0 \/ f[t] = 0
      /\ \A t \in Sockets : Completed(q, t) => p[t] = 0 /\ f[t] = 0
  BY DEF RequestsOK
<1>1. /\ NoRequests \in [Sockets -> {0, 1}] /\ \A t \in Sockets : NoRequests[t] = 0
  BY DEF NoRequests
<1>2. g \in [Sockets -> {0, 1}] /\ \A t \in Sockets : g[t] = 1 <=> f[t] = 1 \/ p[t] = 1
  <2>1. g = [s \in Sockets |-> f[s] + p[s]]
    BY <1>g, Zenon DEF Submitted
  <2>2. \A t \in Sockets : p[t] \in {0, 1} /\ f[t] \in {0, 1} /\ (p[t] = 0 \/ f[t] = 0)
    BY <1>0, Zenon
  <2> QED  BY <2>1, <2>2
<1>3. \A t \in Sockets : Completed(q, t) => NoRequests[t] = 0 /\ g[t] = 0
  BY <1>0, <1>1, <1>2
<1>4. RequestsOK(NoRequests, g, q)
  BY <1>0, <1>1, <1>2, <1>3, Zenon DEF RequestsOK
<1>5. 0 # 1
  OBVIOUS
<1>6. \A t \in Sockets : Requested(NoRequests, g, q, t) <=> Requested(p, f, q, t)
  BY <1>1, <1>2, <1>5, Zenon DEF Requested
<1> QED  BY <1>g, <1>4, <1>6, Zenon

Finished(f, s) == [f EXCEPT ![s] = @ - 1]

(* The kernel completes a request.                                         *)
LEMMA CompleteOne ==
  ASSUME NEW p, NEW f, NEW q, RequestsOK(p, f, q), NEW e \in Completion, f[SocketOf(e)] = 1
  PROVE  /\ RequestsOK(p, Finished(f, SocketOf(e)), Append(q, e))
         /\ Elements(Append(q, e)) = Elements(q) \cup {e}
         /\ \A t \in Sockets :
              Requested(p, Finished(f, SocketOf(e)), Append(q, e), t) <=> Requested(p, f, q, t)
<1>g. PICK g : g = Finished(f, SocketOf(e))
  BY Zenon
<1>0. /\ p \in [Sockets -> {0, 1}] /\ f \in [Sockets -> {0, 1}] /\ q \in Seq(Completion)
      /\ \A i, j \in DOMAIN q : SocketOf(q[i]) = SocketOf(q[j]) => i = j
      /\ \A t \in Sockets : p[t] = 0 \/ f[t] = 0
      /\ \A t \in Sockets : Completed(q, t) => p[t] = 0 /\ f[t] = 0
  BY DEF RequestsOK
<1>1. PICK s \in Sockets : s = SocketOf(e)
  BY SocketOfCqe
<1>2. f[s] = 1 /\ p[s] = 0 /\ ~Completed(q, s)
  BY <1>0, <1>1
<1>3. g \in [Sockets -> {0, 1}] /\ g[s] = 0 /\ \A t \in Sockets : t # s => g[t] = f[t]
  BY <1>g, <1>0, <1>1, <1>2 DEF Finished
<1>4. /\ Elements(Append(q, e)) = Elements(q) \cup {e} /\ DOMAIN q = 1..Len(q)
      /\ DOMAIN Append(q, e) = 1..(Len(q) + 1) /\ Append(q, e)[Len(q) + 1] = e
      /\ \A i \in 1..Len(q) : Append(q, e)[i] = q[i]
      /\ Len(q) \in Nat /\ Append(q, e) \in Seq(Completion)
  BY <1>0, AppendFacts, AppendProperties
<1>5. \A t : Completed(Append(q, e), t) <=> Completed(q, t) \/ t = s
  BY <1>1, <1>4, Zenon DEF Completed
<1>6. \A i \in 1..Len(q) : SocketOf(q[i]) # s
  BY <1>2, <1>4, Zenon DEF Completed, Elements
<1>7. \A i, j \in DOMAIN Append(q, e) : SocketOf(Append(q, e)[i]) = SocketOf(Append(q, e)[j]) => i = j
  <2> TAKE i, j \in DOMAIN Append(q, e)
  <2>1. /\ (i \in 1..Len(q) \/ i = Len(q) + 1) /\ (j \in 1..Len(q) \/ j = Len(q) + 1)
    BY <1>4
  <2> QED  BY <1>0, <1>1, <1>4, <1>6, <2>1, Zenon
<1>8. \A t \in Sockets : p[t] = 0 \/ g[t] = 0
  BY <1>0, <1>2, <1>3
<1>9. \A t \in Sockets : Completed(Append(q, e), t) => p[t] = 0 /\ g[t] = 0
  BY <1>0, <1>2, <1>3, <1>5, Zenon
<1>10. RequestsOK(p, g, Append(q, e))
  BY <1>0, <1>3, <1>4, <1>7, <1>8, <1>9, Zenon DEF RequestsOK
<1>11. \A t \in Sockets : Requested(p, g, Append(q, e), t) <=> Requested(p, f, q, t)
  BY <1>2, <1>3, <1>5, Zenon DEF Requested
<1> QED  BY <1>g, <1>4, <1>10, <1>11, Zenon

-----------------------------------------------------------------------------
(* The io_uring handler.                                                   *)
LEMMA InitUring == PipelineInit /\ UringInit => UringInv
<1> SUFFICES ASSUME PipelineInit, UringInit PROVE UringInv
  OBVIOUS
<1>1. /\ pc = "listen" /\ state = [c \in Conns |-> "none"] /\ phase = "setup"
      /\ sq = NoRequests /\ inflight = NoRequests /\ cq = << >>
  BY DEF PipelineInit, UringInit
<1>2. NoRequests \in [Sockets -> {0, 1}] /\ \A s \in Sockets : NoRequests[s] = 0
  BY DEF NoRequests
<1>3. << >> \in Seq(Completion) /\ DOMAIN << >> = {} /\ Elements(<< >>) = {}
  BY DEF Elements
<1>4. RequestsOK(sq, inflight, cq)
  BY <1>1, <1>2, <1>3 DEF RequestsOK, Completed
<1>5. \A c \in Conns : ~Busy(c)
  BY <1>1, <1>2, <1>3 DEF Busy, Requested, Completed, Sockets
<1>6. ConnsOK
  BY <1>1, <1>3, <1>5 DEF ConnsOK, Between, In
<1> QED  BY <1>4, <1>6, InitPipeline DEF UringInv

(* What the invariant says of the variables a step may change.             *)
LEMMA UringTypes ==
  ASSUME UringInv
  PROVE  /\ FrameUnits \in Nat /\ FrameUnits > 0 /\ ReadUnits \in Nat /\ ReadUnits > 0
         /\ DOMAIN state = Conns /\ fin \in [Conns -> BOOLEAN]
         /\ kernel \in [Conns -> Nat] /\ partial \in [Conns -> Nat] /\ sent \in [Conns -> Nat]
         /\ (pc \in Reading => fd \in Conns) /\ Listener \notin Conns
         /\ Sockets = Conns \cup {Listener}
         /\ PipelineInv /\ RequestsOK(sq, inflight, cq) /\ ConnsOK
<1>1. FrameUnits \in Nat /\ FrameUnits > 0 /\ ReadUnits \in Nat /\ ReadUnits > 0
  BY FeedAssumption
<1> QED  BY <1>1, ListenerAssumption, Zenon DEF UringInv, PipelineInv, TypesOK, Sockets

(* A step that moves no order, given what it does to requests and states.  *)
LEMMA UringQuiet ==
  ASSUME UringInv, pc # "stopped" \/ pc' = "stopped", pc = "push" <=> pc' = "push",
         UNCHANGED <<queue, sink, flags, decoded>>, fin' = fin, sent' = sent,
         DOMAIN state' = Conns, kernel' \in [Conns -> Nat], partial' \in [Conns -> Nat],
         pc' \in Reading => fd' \in Conns,
         RequestsOK(sq', inflight', cq'), ConnsOK'
  PROVE  UringInv'
<1>1. PipelineInv /\ fin' \in [Conns -> BOOLEAN] /\ sent' \in [Conns -> Nat]
  BY UringTypes
<1>2. PipelineInv'
  BY <1>1, QuietStep, Zenon
<1> QED  BY <1>2, Zenon DEF UringInv

(* The requests stay as they are.                                          *)
LEMMA SameRequests ==
  ASSUME sq' = sq, inflight' = inflight, cq' = cq
  PROVE  /\ RequestsOK(sq, inflight, cq) => RequestsOK(sq', inflight', cq')
         /\ Elements(cq') = Elements(cq) /\ Elements(cq)' = Elements(cq)
         /\ \A s : Busy(s)' <=> Busy(s)
<1>1. Elements(cq)' = Elements(cq)
  BY DEF Elements
<1> QED  BY <1>1 DEF Busy, Requested, Completed

LEMMA SeenStep ==
  ASSUME NEW others, NEW prepared, RequestsOK(prepared, inflight, others), Seen(others, prepared)
  PROVE  /\ RequestsOK(sq', inflight', cq') /\ Elements(cq)' = Elements(others)
         /\ \A s \in Sockets : Busy(s)' <=> Requested(prepared, inflight, others, s)
         /\ pc' \in {"cqe", "check", "wait"} /\ (pc' = "check" => phase = "main")
<1>0. cq' = others
  BY DEF Seen
<1>1. Elements(cq)' = Elements(others)
  BY <1>0, Zenon DEF Elements
<1>2. \A s : Busy(s)' <=> Requested(sq', inflight', others, s)
  BY <1>0, <1>1 DEF Busy, Requested, Completed
<1>3. CASE others # << >>
  <2>1. pc' = "cqe" /\ sq' = prepared /\ inflight' = inflight
    BY <1>3 DEF Seen
  <2> QED  BY <1>0, <1>1, <1>2, <2>1
<1>4. CASE others = << >>
  <2>1. /\ pc' = IF phase = "main" THEN "check" ELSE "wait"
        /\ sq' = NoRequests /\ inflight' = Submitted(prepared, inflight)
    BY <1>4 DEF Seen, Submitted
  <2>2. /\ RequestsOK(NoRequests, Submitted(prepared, inflight), others)
        /\ \A t \in Sockets : Requested(NoRequests, Submitted(prepared, inflight), others, t)
                               <=> Requested(prepared, inflight, others, t)
    BY SubmitAll, Zenon
  <2> QED  BY <1>0, <1>1, <1>2, <2>1, <2>2
<1> QED  BY <1>3, <1>4

LEMMA UringControl ==
  ASSUME UringInv, UringListen \/ UringCheck \/ WaitTimesOut \/ DrainTimesOut \/ WaitBreaks
  PROVE  UringInv'
<1>0. /\ DOMAIN state = Conns /\ kernel \in [Conns -> Nat] /\ partial \in [Conns -> Nat]
      /\ Listener \notin Conns /\ Sockets = Conns \cup {Listener}
      /\ RequestsOK(sq, inflight, cq) /\ ConnsOK
  BY UringTypes
<1>1. /\ state' = state /\ kernel' = kernel /\ fin' = fin /\ partial' = partial /\ sent' = sent
      /\ fd' = fd /\ UNCHANGED <<queue, sink, flags, decoded>>
      /\ pc \in {"listen", "check", "wait"} /\ pc' \in {"check", "wait", "accept"}
  BY Zenon DEF UringListen, UringCheck, WaitTimesOut, DrainTimesOut, WaitBreaks, conns
<1>2. ASSUME RequestsOK(sq', inflight', cq'), ConnsOK' PROVE UringInv'
  <2>1. /\ DOMAIN state' = Conns /\ kernel' \in [Conns -> Nat] /\ partial' \in [Conns -> Nat]
        /\ (pc # "stopped" \/ pc' = "stopped") /\ (pc = "push" <=> pc' = "push")
        /\ (pc' \in Reading => fd' \in Conns)
    BY <1>0, <1>1 DEF Reading
  <2> QED  BY <1>1, <1>2, <2>1, UringQuiet, Zenon
<1>3. CASE UringListen
  <2>1. /\ pc = "listen" /\ pc' = "check" /\ inflight' = [inflight EXCEPT ![Listener] = 1]
        /\ phase' = "main" /\ sq' = sq /\ cq' = cq
    BY <1>3 DEF UringListen
  <2>2. sq = NoRequests /\ inflight = NoRequests /\ cq = << >> /\ In("open") = {}
    BY <1>0, <2>1 DEF ConnsOK
  <2>3. NoRequests \in [Sockets -> {0, 1}] /\ \A s \in Sockets : NoRequests[s] = 0
    BY DEF NoRequests
  <2>4. /\ inflight' \in [Sockets -> {0, 1}] /\ inflight'[Listener] = 1
        /\ \A s \in Conns : inflight'[s] = 0
    BY <1>0, <2>1, <2>2, <2>3
  <2>5. Elements(cq)' = {} /\ Elements(cq') = {} /\ cq' \in Seq(Completion)
    BY <2>1, <2>2 DEF Elements
  <2>6. RequestsOK(sq', inflight', cq')
    BY <2>1, <2>2, <2>3, <2>4, <2>5 DEF RequestsOK, Completed
  <2>7. Busy(Listener)' /\ \A c \in Conns : ~Busy(c)'
    BY <1>0, <2>1, <2>2, <2>3, <2>4, <2>5 DEF Busy, Requested, Completed
  <2>8. In("open")' = {}
    BY <1>1, <2>2 DEF In
  <2>9. ConnsOK'
    BY <2>1, <2>5, <2>7, <2>8 DEF ConnsOK, Between
  <2> QED  BY <1>2, <2>6, <2>9
<1>4. CASE ~UringListen
  <2>1. sq' = sq /\ inflight' = inflight /\ cq' = cq /\ pc # "listen"
    BY <1>4 DEF UringListen, UringCheck, WaitTimesOut, DrainTimesOut, WaitBreaks, uring
  <2>2. /\ RequestsOK(sq', inflight', cq') /\ Elements(cq)' = Elements(cq) /\ \A s : Busy(s)' <=> Busy(s)
    BY <1>0, <2>1, SameRequests
  <2>3. (phase' = "main" => phase = "main") /\ (pc' = "check" => phase' = "main")
    BY <1>0, <1>4, Zenon DEF UringCheck, WaitTimesOut, DrainTimesOut, WaitBreaks, uring, ConnsOK
  <2>4. In("open")' = In("open")
    BY <1>1 DEF In
  <2>5. ~Between /\ ~Between'
    BY <1>1 DEF Between
  <2>6. ConnsOK'
    BY <1>0, <1>1, <2>1, <2>2, <2>3, <2>4, <2>5, Zenon DEF ConnsOK
  <2> QED  BY <1>2, <2>2, <2>6
<1> QED  BY <1>3, <1>4

(* The kernel's side.                                                      *)
LEMMA KernelStep ==
  ASSUME UringInv, Kernel
  PROVE  UringInv'
<1>0. /\ DOMAIN state = Conns /\ kernel \in [Conns -> Nat] /\ partial \in [Conns -> Nat]
      /\ Listener \notin Conns /\ Sockets = Conns \cup {Listener} /\ ReadUnits \in Nat
      /\ (pc \in Reading => fd \in Conns)
      /\ RequestsOK(sq, inflight, cq) /\ ConnsOK
  BY UringTypes
<1>1. ASSUME NEW e \in Completion, CompletesWith(SocketOf(e), e),
             DOMAIN state' = Conns, kernel' \in [Conns -> Nat],
             \A c \in Conns : state[c] = "open" <=> state'[c] = "open",
             \A c \in Conns : state[c] \in {"accepted", "late"} => state'[c] = state[c],
             \A c \in Conns : e = Cqe("accept", c, 0) => state'[c] = "accepted"
      PROVE  UringInv'
  <2>1. /\ inflight[SocketOf(e)] > 0 /\ inflight' = Finished(inflight, SocketOf(e))
        /\ cq' = Append(cq, e) /\ sq' = sq /\ phase' = phase /\ pc' = pc /\ fd' = fd /\ fin' = fin
        /\ partial' = partial /\ sent' = sent /\ UNCHANGED <<queue, sink, flags, decoded>> /\ pc # "stopped"
    BY <1>1 DEF CompletesWith, Finished
  <2>2. /\ RequestsOK(sq, inflight', Append(cq, e)) /\ Elements(Append(cq, e)) = Elements(cq) \cup {e}
        /\ \A t \in Sockets : Requested(sq, inflight', Append(cq, e), t) <=> Requested(sq, inflight, cq, t)
    <3>1. RequestsOK(sq, inflight, cq)
      BY <1>0, Zenon
    <3>2. inflight[SocketOf(e)] = 1
      <4>1. inflight[SocketOf(e)] \in {0, 1}
        BY <3>1, SocketOfCqe, Zenon DEF RequestsOK
      <4>2. inflight[SocketOf(e)] > 0
        BY <2>1, Zenon
      <4> QED  BY <4>1, <4>2
    <3>3. /\ RequestsOK(sq, Finished(inflight, SocketOf(e)), Append(cq, e))
          /\ Elements(Append(cq, e)) = Elements(cq) \cup {e}
          /\ \A t \in Sockets : Requested(sq, Finished(inflight, SocketOf(e)), Append(cq, e), t)
                                 <=> Requested(sq, inflight, cq, t)
      BY <3>1, <3>2, CompleteOne, Zenon
    <3> QED  BY <2>1, <3>3, Zenon
  <2>3. Elements(cq)' = Elements(cq) \cup {e} /\ Elements(cq') = Elements(cq)'
    BY <2>1, <2>2, Zenon DEF Elements
  <2>4. \A t \in Sockets : Busy(t)' <=> Busy(t)
    BY <2>1, <2>2, <2>3, Zenon DEF Busy, Requested, Completed
  <2>5. In("open")' = In("open")
    BY <1>1, Zenon DEF In
  <2>6. pc # "listen"
    <3>1. SocketOf(e) \in Sockets
      BY SocketOfCqe
    <3>2. NoRequests[SocketOf(e)] = 0
      BY <3>1 DEF NoRequests
    <3>3. pc = "listen" => inflight = NoRequests
      BY <1>0, Zenon DEF ConnsOK
    <3>4. inflight[SocketOf(e)] > 0
      BY <2>1, Zenon
    <3> QED  BY <3>2, <3>3, <3>4
  <2>7. Between' = Between /\ In("open") \subseteq Sockets
    BY <1>0, <2>1, Zenon DEF Between, In
  <2>8. ConnsOK'
    <3>1. \A c \in Conns : Busy(c)' => state'[c] = "open"
      BY <1>0, <1>1, <2>4, Zenon DEF ConnsOK
    <3>2. \A c \in Conns : Cqe("accept", c, 0) \in Elements(cq)' => state'[c] = "accepted"
      BY <1>0, <1>1, <2>3, Zenon DEF ConnsOK
    <3>3. Between => ~Busy(fd)' /\ state'[fd] \in {"open", "late"}
      BY <1>0, <1>1, <2>1, <2>4, Zenon DEF ConnsOK, Between, Reading
    <3>4. pc = "late" => state'[fd] = "late"
      BY <1>0, <1>1, <2>1, Zenon DEF ConnsOK, Reading
    <3>5. phase = "main" => \A s \in In("open") \cup {Listener} : Busy(s)' \/ (Between /\ s = fd)
      BY <1>0, <2>4, <2>7 DEF ConnsOK
    <3>6. pc = "check" => phase = "main"
      BY <1>0, Zenon DEF ConnsOK
    <3>7. \A s : Busy(s)' <=> Requested(sq', inflight', cq', s)
      BY <2>3 DEF Busy, Requested, Completed
    <3> QED  BY <2>1, <2>5, <2>6, <2>7, <3>1, <3>2, <3>3, <3>4, <3>5, <3>6, <3>7 DEF ConnsOK
  <2>9. /\ partial' \in [Conns -> Nat] /\ (pc' \in Reading => fd' \in Conns)
        /\ (pc # "stopped" \/ pc' = "stopped") /\ (pc = "push" <=> pc' = "push")
        /\ RequestsOK(sq', inflight', cq')
    BY <1>0, <2>1, <2>2
  <2> QED  BY <1>1, <2>1, <2>8, <2>9, UringQuiet, Zenon
<1>2. CASE AcceptCompletes
  <2>1. PICK c \in In("backlog") :
           /\ CompletesWith(Listener, Cqe("accept", c, 0))
           /\ state' = [state EXCEPT ![c] = "accepted"] /\ kernel' = kernel
    BY <1>2, Zenon DEF AcceptCompletes
  <2>2. PICK e \in Completion : e = Cqe("accept", c, 0) /\ SocketOf(e) = Listener
    BY <2>1, SocketOfCqe DEF Completion, In
  <2>3. \A d \in Conns : e = Cqe("accept", d, 0) => d = c
    BY <2>2 DEF Cqe
  <2>4. /\ DOMAIN state' = Conns /\ kernel' \in [Conns -> Nat]
        /\ \A d \in Conns : state[d] = "open" <=> state'[d] = "open"
        /\ \A d \in Conns : state[d] \in {"accepted", "late"} => state'[d] = state[d]
        /\ \A d \in Conns : e = Cqe("accept", d, 0) => state'[d] = "accepted"
    BY <1>0, <2>1, <2>3 DEF In
  <2>5. CompletesWith(SocketOf(e), e)
    BY <2>1, <2>2
  <2> QED  BY <1>1, <2>4, <2>5, Zenon
<1>3. CASE \E c \in Conns : RecvCompletes(c)
  <2>1. PICK c \in Conns : RecvCompletes(c)
    BY <1>3
  <2>2. PICK r \in Nat : r = Smaller(ReadUnits, kernel[c])
    BY <1>0 DEF Smaller
  <2>3. r <= kernel[c] /\ kernel[c] \in Nat
    BY <1>0, <2>2 DEF Smaller
  <2>4. /\ CompletesWith(c, Cqe("recv", c, r)) /\ kernel' = [kernel EXCEPT ![c] = @ - r] /\ state' = state
    BY <2>1, <2>2 DEF RecvCompletes
  <2>5. PICK e \in Completion : e = Cqe("recv", c, r) /\ SocketOf(e) = c
    BY SocketOfCqe DEF Completion
  <2>6. /\ DOMAIN state' = Conns /\ kernel' \in [Conns -> Nat]
        /\ \A d \in Conns : e # Cqe("accept", d, 0)
    BY <1>0, <2>3, <2>4, <2>5 DEF Cqe
  <2>7. CompletesWith(SocketOf(e), e)
    BY <2>4, <2>5
  <2> QED  BY <1>1, <2>4, <2>6, <2>7
<1>4. CASE \E s \in Sockets : CompletesInVain(s)
  <2>1. PICK s \in Sockets : CompletesInVain(s)
    BY <1>4
  <2>2. /\ CompletesWith(s, Cqe(IF s = Listener THEN "accept" ELSE "recv", s, Again))
        /\ kernel' = kernel /\ state' = state
    BY <2>1, Zenon DEF CompletesInVain
  <2>3. PICK e \in Completion : /\ e = Cqe(IF s = Listener THEN "accept" ELSE "recv", s, Again)
                                /\ SocketOf(e) = s
    BY <1>0, SocketOfCqe DEF Completion
  <2>4. \A d \in Conns : e # Cqe("accept", d, 0)
    BY <2>3 DEF Cqe, Again
  <2>5. CompletesWith(SocketOf(e), e)
    BY <2>2, <2>3, Zenon
  <2> QED  BY <1>0, <1>1, <2>2, <2>4, <2>5
<1> QED  BY <1>2, <1>3, <1>4 DEF Kernel

(* The completion the reader looks at.                                     *)
LEMMA HeadFacts ==
  ASSUME UringInv, cq # << >>
  PROVE  /\ RequestsOK(sq, inflight, Tail(cq)) /\ Elements(Tail(cq)) \subseteq Elements(cq)
         /\ \A s \in Sockets : Requested(sq, inflight, Tail(cq), s) <=> Busy(s) /\ s # SocketOf(Head(cq))
         /\ \A d \in Elements(Tail(cq)) : SocketOf(d) # SocketOf(Head(cq))
         /\ \/ /\ Head(cq).kind = "recv" /\ Head(cq).conn \in Conns /\ SocketOf(Head(cq)) = Head(cq).conn
               /\ Head(cq).res \in Nat \cup {Again} /\ state[Head(cq).conn] = "open"
            \/ /\ Head(cq).kind = "accept" /\ SocketOf(Head(cq)) = Listener
               /\ Head(cq).res = Again
            \/ /\ Head(cq).kind = "accept" /\ SocketOf(Head(cq)) = Listener
               /\ Head(cq).res = 0 /\ Head(cq).conn \in Conns /\ state[Head(cq).conn] = "accepted"
<1>0. /\ RequestsOK(sq, inflight, cq) /\ ConnsOK
      /\ Sockets = Conns \cup {Listener}
  BY UringTypes
<1>1. /\ Head(cq) \in Completion /\ Completed(cq, SocketOf(Head(cq))) /\ RequestsOK(sq, inflight, Tail(cq))
      /\ Elements(Tail(cq)) \subseteq Elements(cq) /\ Head(cq) \in Elements(cq)
      /\ \A s \in Sockets : Requested(sq, inflight, Tail(cq), s)
                            <=> Requested(sq, inflight, cq, s) /\ s # SocketOf(Head(cq))
  BY <1>0, ReapOne, Zenon
<1>2. SocketOf(Head(cq)) \in Sockets
  BY <1>1, SocketOfCqe, Zenon
<1>3. \A d \in Elements(Tail(cq)) : SocketOf(d) # SocketOf(Head(cq))
  BY <1>1, <1>2, Zenon DEF Requested, Completed
<1>4. Busy(SocketOf(Head(cq)))
  BY <1>1, Zenon DEF Busy, Requested
<1>5. CASE \E c \in Conns, r \in Nat \cup {Again} : Head(cq) = Cqe("recv", c, r)
  <2>1. PICK c \in Conns, r \in Nat \cup {Again} : Head(cq) = Cqe("recv", c, r)
    BY <1>5, Zenon
  <2>2. Head(cq).kind = "recv" /\ Head(cq).conn = c /\ Head(cq).res = r /\ SocketOf(Head(cq)) = c
    BY <2>1, SocketOfCqe DEF Cqe
  <2>3. state[c] = "open"
    BY <1>0, <1>4, <2>2 DEF ConnsOK
  <2> QED  BY <1>1, <1>3, <2>2, <2>3, Zenon DEF Busy
<1>6. CASE \E c \in Conns : Head(cq) = Cqe("accept", c, 0)
  <2>1. PICK c \in Conns : Head(cq) = Cqe("accept", c, 0)
    BY <1>6
  <2>2. Head(cq).kind = "accept" /\ Head(cq).conn = c /\ Head(cq).res = 0
    BY <2>1 DEF Cqe
  <2>3. SocketOf(Head(cq)) = Listener
    BY <2>2 DEF SocketOf
  <2>4. state[c] = "accepted"
    BY <1>0, <1>1, <2>1, Zenon DEF ConnsOK
  <2> QED  BY <1>1, <1>3, <2>2, <2>3, <2>4, Zenon DEF Busy
<1>7. CASE Head(cq) = Cqe("accept", Listener, Again)
  <2>1. Head(cq).kind = "accept" /\ Head(cq).res = Again /\ SocketOf(Head(cq)) = Listener
    BY <1>7, SocketOfCqe DEF Cqe
  <2> QED  BY <1>1, <1>3, <2>1, Zenon DEF Busy
<1>8. \/ \E c \in Conns, r \in Nat \cup {Again} : Head(cq) = Cqe("recv", c, r)
      \/ \E c \in Conns : Head(cq) = Cqe("accept", c, 0)
      \/ Head(cq) = Cqe("accept", Listener, Again)
  <2>1. PICK h \in Completion : h = Head(cq)
    BY <1>1, Zenon
  <2> QED  BY <2>1 DEF Completion
<1> QED  BY <1>5, <1>6, <1>7, <1>8, Zenon

LEMMA AcceptCqeStep ==
  ASSUME UringInv, AcceptCqe
  PROVE  UringInv'
<1>0. /\ DOMAIN state = Conns /\ kernel \in [Conns -> Nat] /\ partial \in [Conns -> Nat]
      /\ Listener \notin Conns /\ Sockets = Conns \cup {Listener} /\ ConnsOK
  BY UringTypes, Zenon
<1>1. /\ pc \in {"wait", "cqe"} /\ cq # << >> /\ Head(cq).kind = "accept"
      /\ (phase = "main" \/ Head(cq).res < 0)
      /\ state' = IF Head(cq).res < 0 THEN state ELSE [state EXCEPT ![Head(cq).conn] = "open"]
      /\ Seen(Tail(cq), IF phase = "main" THEN Rearm(Head(cq)) ELSE sq)
      /\ phase' = phase /\ fd' = fd /\ kernel' = kernel /\ fin' = fin /\ partial' = partial /\ sent' = sent
      /\ UNCHANGED <<queue, sink, flags, decoded>>
  BY DEF AcceptCqe, Reaped
<1>2. /\ RequestsOK(sq, inflight, Tail(cq)) /\ Elements(Tail(cq)) \subseteq Elements(cq)
      /\ \A s \in Sockets : Requested(sq, inflight, Tail(cq), s) <=> Busy(s) /\ s # Listener
      /\ \A d \in Elements(Tail(cq)) : SocketOf(d) # Listener
      /\ \/ Head(cq).res = Again
         \/ Head(cq).res = 0 /\ Head(cq).conn \in Conns /\ state[Head(cq).conn] = "accepted"
  BY <1>1, HeadFacts, Zenon
<1>3. \A c \in Conns : Cqe("accept", c, 0) \notin Elements(Tail(cq))
  BY <1>2, SocketOfCqe, Zenon
<1>4. ASSUME NEW prepared, Seen(Tail(cq), prepared), RequestsOK(prepared, inflight, Tail(cq)),
             \A c \in Conns : Requested(prepared, inflight, Tail(cq), c) => state'[c] = "open",
             phase = "main" => \A s \in In("open")' \cup {Listener} : Requested(prepared, inflight, Tail(cq), s),
             DOMAIN state' = Conns
      PROVE  UringInv'
  <2>1. /\ RequestsOK(sq', inflight', cq') /\ Elements(cq)' = Elements(Tail(cq))
        /\ \A s \in Sockets : Busy(s)' <=> Requested(prepared, inflight, Tail(cq), s)
        /\ pc' \in {"cqe", "check", "wait"} /\ (pc' = "check" => phase = "main")
    BY <1>4, SeenStep, Zenon
  <2>2. In("open")' \subseteq Conns
    BY Zenon DEF In
  <2>3. ConnsOK'
    BY <1>0, <1>1, <1>3, <1>4, <2>1, <2>2, Zenon DEF ConnsOK, Between
  <2>4. /\ kernel' \in [Conns -> Nat] /\ partial' \in [Conns -> Nat] /\ (pc' \in Reading => fd' \in Conns)
        /\ (pc # "stopped" \/ pc' = "stopped") /\ (pc = "push" <=> pc' = "push")
    BY <1>0, <1>1, <2>1 DEF Reading
  <2> QED  BY <1>1, <1>4, <2>1, <2>3, <2>4, UringQuiet, Zenon
<1>5. ~Requested(sq, inflight, Tail(cq), Listener) /\ Listener \in Sockets
  BY <1>0, <1>2, Zenon
<1>6. /\ RequestsOK(Prepared(sq, Listener), inflight, Tail(cq))
      /\ \A t \in Sockets : Requested(Prepared(sq, Listener), inflight, Tail(cq), t)
                            <=> Requested(sq, inflight, Tail(cq), t) \/ t = Listener
  BY <1>2, <1>5, PrepareOne, Zenon
<1>7. Again < 0 /\ ~(0 < 0)
  BY DEF Again
<1>8. CASE phase # "main"
  <2>1. Seen(Tail(cq), sq) /\ state' = state
    BY <1>1, <1>8
  <2> QED  BY <1>0, <1>2, <1>4, <1>8, <2>1, Zenon DEF ConnsOK
<1>9. CASE phase = "main" /\ Head(cq).res = Again
  <2>1. Seen(Tail(cq), Prepared(sq, Listener)) /\ state' = state
    BY <1>1, <1>7, <1>9, Zenon DEF Rearm, Prepare, Prepared
  <2>2. In("open")' = In("open") /\ In("open") \subseteq Conns
    BY <2>1, Zenon DEF In
  <2>3. \A s \in In("open") : Busy(s)
    BY <1>0, <1>1, <1>9 DEF ConnsOK, Between
  <2>4. \A c \in Conns : Busy(c) => state[c] = "open"
    BY <1>0 DEF ConnsOK
  <2> QED  BY <1>0, <1>2, <1>4, <1>6, <2>1, <2>2, <2>3, <2>4, Zenon
<1>10. CASE phase = "main" /\ Head(cq).res = 0
  <2>1. PICK c \in Conns : c = Head(cq).conn /\ state[c] = "accepted"
    BY <1>2, <1>7, <1>10, Zenon DEF Again
  <2>2. state' = [state EXCEPT ![c] = "open"]
    BY <1>1, <1>7, <1>10, <2>1, Zenon
  <2>3. Seen(Tail(cq), Prepared(Prepared(sq, Listener), c))
    BY <1>1, <1>7, <1>10, <2>1 DEF Rearm, Prepare, Prepared
  <2>4. ~Requested(Prepared(sq, Listener), inflight, Tail(cq), c) /\ c \in Sockets
    BY <1>0, <1>2, <1>6, <2>1, Zenon DEF ConnsOK
  <2>5. /\ RequestsOK(Prepared(Prepared(sq, Listener), c), inflight, Tail(cq))
        /\ \A t \in Sockets : Requested(Prepared(Prepared(sq, Listener), c), inflight, Tail(cq), t)
                              <=> Requested(Prepared(sq, Listener), inflight, Tail(cq), t) \/ t = c
    BY <1>6, <2>4, PrepareOne, Zenon
  <2>6. In("open")' = In("open") \cup {c} /\ In("open") \subseteq Conns /\ DOMAIN state' = Conns
    BY <1>0, <2>1, <2>2, Zenon DEF In
  <2>7. \A s \in In("open") : Busy(s)
    BY <1>0, <1>1, <1>10, Zenon DEF ConnsOK, Between
  <2>8. \A d \in Conns : Busy(d) \/ d = c => state'[d] = "open"
    BY <1>0, <2>1, <2>2 DEF ConnsOK
  <2> QED  BY <1>0, <1>2, <1>4, <1>6, <2>3, <2>5, <2>6, <2>7, <2>8, Zenon
<1> QED  BY <1>2, <1>8, <1>9, <1>10

LEMMA AcceptInDrainStep ==
  ASSUME UringInv, AcceptInDrain
  PROVE  UringInv'
<1>0. /\ DOMAIN state = Conns /\ kernel \in [Conns -> Nat] /\ partial \in [Conns -> Nat]
      /\ Listener \notin Conns /\ Sockets = Conns \cup {Listener} /\ ConnsOK
  BY UringTypes
<1>1. /\ pc \in {"wait", "cqe"} /\ cq # << >> /\ Head(cq).kind = "accept"
      /\ phase = "drain" /\ Head(cq).res >= 0
      /\ state' = [state EXCEPT ![Head(cq).conn] = "late"] /\ cq' = Tail(cq)
      /\ pc' = "late" /\ fd' = Head(cq).conn /\ sq' = sq /\ inflight' = inflight
      /\ phase' = phase /\ kernel' = kernel /\ fin' = fin /\ partial' = partial /\ sent' = sent
      /\ UNCHANGED <<queue, sink, flags, decoded>>
  BY Zenon DEF AcceptInDrain, Reaped
<1>2. /\ RequestsOK(sq, inflight, Tail(cq)) /\ Elements(Tail(cq)) \subseteq Elements(cq)
      /\ \A s \in Sockets : Requested(sq, inflight, Tail(cq), s) <=> Busy(s) /\ s # Listener
      /\ \A d \in Elements(Tail(cq)) : SocketOf(d) # Listener
      /\ Head(cq).conn \in Conns /\ state[Head(cq).conn] = "accepted"
  <2>1. Head(cq).kind # "recv" /\ Head(cq).res # Again
    BY <1>1 DEF Again
  <2> QED  BY <1>1, <2>1, HeadFacts, Zenon
<1>3. \A c \in Conns : Cqe("accept", c, 0) \notin Elements(Tail(cq))
  BY <1>2, SocketOfCqe, Zenon
<1>4. Elements(cq)' = Elements(Tail(cq)) /\ \A s : Busy(s)' <=> Requested(sq, inflight, Tail(cq), s)
  <2>1. Elements(cq)' = Elements(Tail(cq))
    BY <1>1 DEF Elements
  <2> QED  BY <1>1, <2>1, Zenon DEF Busy, Requested, Completed
<1>5. ConnsOK'
  BY <1>0, <1>1, <1>2, <1>3, <1>4, Zenon DEF ConnsOK, Between
<1>6. /\ DOMAIN state' = Conns /\ kernel' \in [Conns -> Nat] /\ partial' \in [Conns -> Nat]
      /\ (pc' \in Reading => fd' \in Conns)
      /\ (pc # "stopped" \/ pc' = "stopped") /\ (pc = "push" <=> pc' = "push")
      /\ RequestsOK(sq', inflight', cq')
  BY <1>0, <1>1, <1>2, Zenon
<1> QED  BY <1>1, <1>5, <1>6, UringQuiet, Zenon

LEMMA RecvCqeStep ==
  ASSUME UringInv, RecvCqe
  PROVE  UringInv'
<1>0. /\ DOMAIN state = Conns /\ kernel \in [Conns -> Nat] /\ partial \in [Conns -> Nat]
      /\ Listener \notin Conns /\ Sockets = Conns \cup {Listener} /\ ConnsOK
  BY UringTypes
<1>1. /\ pc \in {"wait", "cqe"} /\ cq # << >> /\ Head(cq).kind = "recv" /\ Head(cq).res > 0
      /\ partial' = [partial EXCEPT ![Head(cq).conn] = @ + Head(cq).res] /\ cq' = Tail(cq)
      /\ pc' = "decode" /\ fd' = Head(cq).conn /\ sq' = sq /\ inflight' = inflight
      /\ phase' = phase /\ kernel' = kernel /\ fin' = fin /\ state' = state /\ sent' = sent
      /\ UNCHANGED <<queue, sink, flags, decoded>>
  BY Zenon DEF RecvCqe, Reaped
<1>2. /\ RequestsOK(sq, inflight, Tail(cq)) /\ Elements(Tail(cq)) \subseteq Elements(cq)
      /\ \A s \in Sockets : Requested(sq, inflight, Tail(cq), s) <=> Busy(s) /\ s # Head(cq).conn
      /\ Head(cq).conn \in Conns /\ state[Head(cq).conn] = "open" /\ Head(cq).res \in Nat
  <2>1. Head(cq).kind # "accept" /\ Head(cq).res # Again
    BY <1>1 DEF Again
  <2>2. Head(cq).res \in Nat \cup {Again} => Head(cq).res \in Nat
    BY <2>1, Zenon
  <2> QED  BY <1>1, <2>1, <2>2, HeadFacts, Zenon
<1>3. Elements(cq)' = Elements(Tail(cq)) /\ \A s : Busy(s)' <=> Requested(sq, inflight, Tail(cq), s)
  <2>1. Elements(cq)' = Elements(Tail(cq))
    BY <1>1, Zenon DEF Elements
  <2> QED  BY <1>1, <2>1, Zenon DEF Busy, Requested, Completed
<1>4. In("open")' = In("open") /\ In("open") \subseteq Conns
  BY <1>1 DEF In
<1>5. ConnsOK'
  BY <1>0, <1>1, <1>2, <1>3, <1>4, Zenon DEF ConnsOK, Between
<1>6. /\ DOMAIN state' = Conns /\ kernel' \in [Conns -> Nat] /\ partial' \in [Conns -> Nat]
      /\ (pc' \in Reading => fd' \in Conns)
      /\ (pc # "stopped" \/ pc' = "stopped") /\ (pc = "push" <=> pc' = "push")
      /\ RequestsOK(sq', inflight', cq')
  <2>1. partial' \in [Conns -> Nat]
    <3>1. partial \in [Conns -> Nat] /\ Head(cq).conn \in Conns /\ Head(cq).res \in Nat
      BY <1>0, <1>2, Zenon
    <3>2. partial' = [partial EXCEPT ![Head(cq).conn] = @ + Head(cq).res]
      BY <1>1, Zenon
    <3> QED  BY <3>1, <3>2
  <2>2. pc # "stopped" /\ pc # "push" /\ pc' # "push"
    BY <1>1
  <2> QED  BY <1>0, <1>1, <1>2, <2>1, <2>2, Zenon
<1> QED  BY <1>1, <1>5, <1>6, UringQuiet, Zenon

(* A batch goes on after others, with these requests prepared.             *)
LEMMA GoesOn ==
  ASSUME UringInv, pc \notin {"stopped", "push", "listen"}, NEW others, NEW prepared, Seen(others, prepared),
         RequestsOK(prepared, inflight, others), Elements(others) \subseteq Elements(cq),
         phase' = phase, UNCHANGED <<queue, sink, flags, decoded>>, fin' = fin, sent' = sent,
         DOMAIN state' = Conns, kernel' \in [Conns -> Nat], partial' \in [Conns -> Nat],
         \A c \in Conns : Requested(prepared, inflight, others, c) => state'[c] = "open",
         \A c \in Conns : state[c] = "accepted" => state'[c] = "accepted",
         phase = "main" => \A s \in In("open")' \cup {Listener} : Requested(prepared, inflight, others, s)
  PROVE  UringInv'
<1>0. /\ Listener \notin Conns /\ Sockets = Conns \cup {Listener} /\ ConnsOK
  BY UringTypes, Zenon
<1>1. /\ RequestsOK(sq', inflight', cq') /\ Elements(cq)' = Elements(others)
      /\ \A s \in Sockets : Busy(s)' <=> Requested(prepared, inflight, others, s)
      /\ pc' \in {"cqe", "check", "wait"} /\ (pc' = "check" => phase = "main")
  BY SeenStep, Zenon
<1>2. In("open")' \subseteq Conns
  BY Zenon DEF In
<1>3. \A c \in Conns : Cqe("accept", c, 0) \in Elements(others) => state'[c] = "accepted"
  BY <1>0, Zenon DEF ConnsOK
<1>4. ConnsOK'
  BY <1>0, <1>1, <1>2, <1>3, Zenon DEF ConnsOK, Between
<1>5. /\ (pc' \in Reading => fd' \in Conns)
      /\ (pc # "stopped" \/ pc' = "stopped") /\ (pc = "push" <=> pc' = "push")
  BY <1>1, Zenon DEF Reading
<1> QED  BY <1>1, <1>4, <1>5, UringQuiet, Zenon

LEMMA RecvNothingStep ==
  ASSUME UringInv, RecvNothing
  PROVE  UringInv'
<1>0. /\ DOMAIN state = Conns /\ kernel \in [Conns -> Nat] /\ partial \in [Conns -> Nat]
      /\ Listener \notin Conns /\ Sockets = Conns \cup {Listener} /\ ConnsOK
  BY UringTypes
<1>1. /\ pc \in {"wait", "cqe"} /\ cq # << >> /\ Head(cq).kind = "recv" /\ Head(cq).res <= 0
      /\ state' = IF phase = "main" /\ Head(cq).res # Again
                  THEN [state EXCEPT ![Head(cq).conn] = "closed"] ELSE state
      /\ partial' = IF phase = "main" /\ Head(cq).res # Again
                    THEN [partial EXCEPT ![Head(cq).conn] = 0] ELSE partial
      /\ Seen(Tail(cq), IF phase = "main" /\ Head(cq).res = Again THEN Prepare(Head(cq).conn) ELSE sq)
      /\ phase' = phase /\ fd' = fd /\ kernel' = kernel /\ fin' = fin /\ sent' = sent
      /\ UNCHANGED <<queue, sink, flags, decoded>>
  BY DEF RecvNothing, Reaped
<1>2. /\ RequestsOK(sq, inflight, Tail(cq)) /\ Elements(Tail(cq)) \subseteq Elements(cq)
      /\ \A s \in Sockets : Requested(sq, inflight, Tail(cq), s) <=> Busy(s) /\ s # Head(cq).conn
      /\ Head(cq).conn \in Conns /\ state[Head(cq).conn] = "open"
  BY <1>1, HeadFacts, Zenon
<1>3. /\ \A c \in Conns : Busy(c) => state[c] = "open"
      /\ phase = "main" => \A s \in In("open") \cup {Listener} : Busy(s)
  BY <1>0, <1>1, Zenon DEF ConnsOK, Between
<1>4. partial' \in [Conns -> Nat] /\ DOMAIN state' = Conns /\ kernel' \in [Conns -> Nat]
  BY <1>0, <1>1, <1>2, Zenon
<1>5. /\ pc \notin {"stopped", "push", "listen"} /\ phase' = phase /\ fin' = fin /\ sent' = sent
      /\ UNCHANGED <<queue, sink, flags, decoded>> /\ Elements(Tail(cq)) \subseteq Elements(cq)
  BY <1>1, <1>2, Zenon
<1>6. CASE phase = "main" /\ Head(cq).res = Again
  <2>1. Seen(Tail(cq), Prepared(sq, Head(cq).conn)) /\ state' = state
    BY <1>1, <1>6 DEF Prepare, Prepared
  <2>2. ~Requested(sq, inflight, Tail(cq), Head(cq).conn) /\ Head(cq).conn \in Sockets
    BY <1>0, <1>2, Zenon
  <2>3. PICK c \in Sockets : c = Head(cq).conn
    BY <2>2
  <2>4. /\ RequestsOK(Prepared(sq, c), inflight, Tail(cq))
        /\ \A t \in Sockets : Requested(Prepared(sq, c), inflight, Tail(cq), t)
                              <=> Requested(sq, inflight, Tail(cq), t) \/ t = c
    BY <1>2, <2>2, <2>3, PrepareOne, Zenon
  <2>5. In("open")' = In("open") /\ In("open") \subseteq Conns
    BY <2>1 DEF In
  <2>6. /\ \A d \in Conns : Requested(Prepared(sq, c), inflight, Tail(cq), d) => state'[d] = "open"
        /\ \A d \in Conns : state[d] = "accepted" => state'[d] = "accepted"
        /\ phase = "main" =>
             \A s \in In("open")' \cup {Listener} : Requested(Prepared(sq, c), inflight, Tail(cq), s)
    BY <1>0, <1>2, <1>3, <2>1, <2>3, <2>4, <2>5, Zenon
  <2>7. Seen(Tail(cq), Prepared(sq, c))
    BY <2>1, <2>3
  <2> QED  BY <1>4, <1>5, <2>4, <2>6, <2>7, GoesOn, Zenon
<1>7. CASE ~(phase = "main" /\ Head(cq).res = Again)
  <2>1. Seen(Tail(cq), sq)
    BY <1>1, <1>7, Zenon
  <2>2. /\ \A d \in Conns : Requested(sq, inflight, Tail(cq), d) => state'[d] = "open"
        /\ \A d \in Conns : state[d] = "accepted" => state'[d] = "accepted"
    BY <1>0, <1>1, <1>2, <1>3, Zenon
  <2>3. ASSUME phase = "main"
        PROVE  \A s \in In("open")' \cup {Listener} : Requested(sq, inflight, Tail(cq), s)
    <3>1. state' = [state EXCEPT ![Head(cq).conn] = "closed"]
      BY <1>1, <1>7, <2>3, Zenon
    <3>2. In("open")' = In("open") \ {Head(cq).conn} /\ In("open") \subseteq Conns
      BY <1>0, <1>2, <3>1, Zenon DEF In
    <3> QED  BY <1>0, <1>2, <1>3, <2>3, <3>2, Zenon
  <2>4. RequestsOK(sq, inflight, Tail(cq))
    BY <1>2
  <2> QED  BY <1>4, <1>5, <2>1, <2>2, <2>3, <2>4, GoesOn, Zenon
<1> QED  BY <1>6, <1>7, Zenon

LEMMA ReadDecodedStep ==
  ASSUME UringInv, ReadDecoded
  PROVE  UringInv'
<1>0. /\ DOMAIN state = Conns /\ kernel \in [Conns -> Nat] /\ partial \in [Conns -> Nat]
      /\ Listener \notin Conns /\ Sockets = Conns \cup {Listener} /\ (pc \in Reading => fd \in Conns)
      /\ RequestsOK(sq, inflight, cq) /\ ConnsOK
  BY UringTypes, Zenon
<1>1. /\ pc = "decode" /\ phase' = phase /\ fd' = fd /\ fin' = fin /\ sent' = sent
      /\ state' = state /\ partial' = partial /\ kernel' = kernel /\ UNCHANGED <<queue, sink, flags, decoded>>
  BY Zenon DEF ReadDecoded, conns
<1>2. /\ fd \in Conns /\ ~Busy(fd) /\ state[fd] \in {"open", "late"}
      /\ \A c \in Conns : Busy(c) => state[c] = "open"
      /\ phase = "main" => \A s \in In("open") \cup {Listener} : Busy(s) \/ s = fd
  BY <1>0, <1>1 DEF ConnsOK, Between, Reading
<1>3. In("open")' = In("open") /\ In("open") \subseteq Conns
  BY <1>1 DEF In
<1>4. CASE state[fd] = "late"
  <2>1. pc' = "late" /\ sq' = sq /\ inflight' = inflight /\ cq' = cq
    BY <1>4, Zenon DEF ReadDecoded
  <2>2. RequestsOK(sq', inflight', cq') /\ Elements(cq)' = Elements(cq) /\ \A s : Busy(s)' <=> Busy(s)
    BY <1>0, <2>1, SameRequests, Zenon
  <2>3. phase = "main" => \A s \in In("open")' \cup {Listener} : Busy(s)'
    BY <1>0, <1>2, <1>3, <1>4, <2>2, Zenon DEF In
  <2>4. ConnsOK'
    BY <1>0, <1>1, <1>4, <2>1, <2>2, <2>3, Zenon DEF ConnsOK, Between
  <2>5. /\ DOMAIN state' = Conns /\ kernel' \in [Conns -> Nat] /\ partial' \in [Conns -> Nat]
        /\ (pc' \in Reading => fd' \in Conns)
        /\ (pc # "stopped" \/ pc' = "stopped") /\ (pc = "push" <=> pc' = "push")
    BY <1>0, <1>1, <1>2, <2>1
  <2> QED  BY <1>1, <2>2, <2>4, <2>5, UringQuiet, Zenon
<1>5. CASE state[fd] = "open"
  <2>1. Seen(cq, IF phase = "main" THEN Prepared(sq, fd) ELSE sq)
    BY <1>5, Zenon DEF ReadDecoded, Prepare, Prepared
  <2>2. /\ pc \notin {"stopped", "push", "listen"} /\ phase' = phase /\ fin' = fin /\ sent' = sent
        /\ UNCHANGED <<queue, sink, flags, decoded>> /\ Elements(cq) \subseteq Elements(cq)
        /\ DOMAIN state' = Conns /\ kernel' \in [Conns -> Nat] /\ partial' \in [Conns -> Nat]
        /\ \A d \in Conns : state[d] = "accepted" => state'[d] = "accepted"
    BY <1>0, <1>1
  <2>3. CASE phase = "main"
    <3>1. ~Requested(sq, inflight, cq, fd) /\ fd \in Sockets
      BY <1>0, <1>2 DEF Busy
    <3>2. /\ RequestsOK(Prepared(sq, fd), inflight, cq)
          /\ \A t \in Sockets : Requested(Prepared(sq, fd), inflight, cq, t)
                                <=> Requested(sq, inflight, cq, t) \/ t = fd
      BY <1>0, <3>1, PrepareOne, Zenon
    <3>3. /\ \A c \in Conns : Requested(Prepared(sq, fd), inflight, cq, c) => state'[c] = "open"
          /\ phase = "main" => \A s \in In("open")' \cup {Listener} : Requested(Prepared(sq, fd), inflight, cq, s)
      BY <1>0, <1>1, <1>2, <1>3, <1>5, <3>2 DEF Busy
    <3>4. Seen(cq, Prepared(sq, fd))
      BY <2>1, <2>3
    <3> QED  BY <2>2, <3>2, <3>3, <3>4, GoesOn, Zenon
  <2>4. CASE phase # "main"
    <3>1. Seen(cq, sq) /\ RequestsOK(sq, inflight, cq)
      BY <1>0, <2>1, <2>4, Zenon
    <3>2. \A c \in Conns : Requested(sq, inflight, cq, c) => state'[c] = "open"
      BY <1>1, <1>2 DEF Busy
    <3> QED  BY <2>2, <2>4, <3>1, <3>2, GoesOn, Zenon
  <2> QED  BY <2>3, <2>4
<1> QED  BY <1>2, <1>4, <1>5

(* The connections read at once.                                           *)
LEMMA LateStep ==
  ASSUME UringInv, LateRead \/ LateClose \/ AcceptLate
  PROVE  UringInv'
<1>0. /\ DOMAIN state = Conns /\ kernel \in [Conns -> Nat] /\ partial \in [Conns -> Nat]
      /\ Listener \notin Conns /\ Sockets = Conns \cup {Listener} /\ (pc \in Reading => fd \in Conns)
      /\ ReadUnits \in Nat /\ RequestsOK(sq, inflight, cq) /\ ConnsOK
  BY UringTypes, Zenon
<1>1. /\ pc \in {"late", "accept"} /\ phase' = phase /\ fin' = fin /\ sent' = sent
      /\ UNCHANGED <<queue, sink, flags, decoded>>
  BY Zenon DEF LateRead, LateClose, AcceptLate, uring
<1>2. /\ \A c \in Conns : Busy(c) => state[c] = "open"
      /\ phase = "main" => \A s \in In("open") \cup {Listener} : Busy(s)
      /\ pc = "late" => fd \in Conns /\ state[fd] = "late"
  BY <1>0, <1>1 DEF ConnsOK, Between, Reading
<1>3. ASSUME sq' = sq, inflight' = inflight, cq' = cq, pc' \in {"decode", "late", "accept", "stop"},
             DOMAIN state' = Conns, kernel' \in [Conns -> Nat], partial' \in [Conns -> Nat],
             pc' \in {"decode", "late"} => fd' \in Conns /\ state'[fd'] = "late",
             \A c \in Conns : state[c] = "open" <=> state'[c] = "open",
             \A c \in Conns : state[c] = "accepted" => state'[c] = "accepted"
      PROVE  UringInv'
  <2>1. RequestsOK(sq', inflight', cq') /\ Elements(cq)' = Elements(cq) /\ \A s : Busy(s)' <=> Busy(s)
    BY <1>0, <1>3, SameRequests, Zenon
  <2>2. In("open")' = In("open") /\ In("open") \subseteq Conns
    BY <1>3 DEF In
  <2>3. ConnsOK'
    BY <1>0, <1>1, <1>2, <1>3, <2>1, <2>2, Zenon DEF ConnsOK, Between
  <2>4. /\ (pc' \in Reading => fd' \in Conns)
        /\ (pc # "stopped" \/ pc' = "stopped") /\ (pc = "push" <=> pc' = "push")
    BY <1>1, <1>3, Zenon DEF Reading
  <2> QED  BY <1>1, <1>3, <2>1, <2>3, <2>4, UringQuiet, Zenon
<1>4. CASE LateRead
  <2>1. /\ pc = "late" /\ pc' = "decode" /\ fd' = fd /\ state' = state
        /\ sq' = sq /\ inflight' = inflight /\ cq' = cq
    BY <1>4 DEF LateRead, uring
  <2>2. fd \in Conns /\ kernel[fd] \in Nat
    BY <1>0, <1>2, <2>1
  <2>3. PICK r \in Nat : r = Smaller(ReadUnits, kernel[fd])
    BY <1>0, <2>2 DEF Smaller
  <2>4. r <= kernel[fd]
    BY <1>0, <2>2, <2>3 DEF Smaller
  <2>5. kernel' = [kernel EXCEPT ![fd] = @ - r] /\ partial' = [partial EXCEPT ![fd] = @ + r]
    BY <1>4, <2>3 DEF LateRead
  <2>6. kernel' \in [Conns -> Nat] /\ partial' \in [Conns -> Nat]
    BY <1>0, <2>2, <2>4, <2>5
  <2> QED  BY <1>0, <1>2, <1>3, <2>1, <2>6, Zenon
<1>5. CASE LateClose
  <2>1. /\ pc = "late" /\ fd' = fd /\ state' = [state EXCEPT ![fd] = "closed"]
        /\ partial' = [partial EXCEPT ![fd] = 0] /\ kernel' = kernel
    BY <1>5, Zenon DEF LateClose
  <2>2. /\ fd \in Conns /\ DOMAIN state' = Conns /\ kernel' \in [Conns -> Nat] /\ partial' \in [Conns -> Nat]
        /\ \A c \in Conns : state[c] = "open" <=> state'[c] = "open"
        /\ \A c \in Conns : state[c] = "accepted" => state'[c] = "accepted"
    BY <1>0, <1>2, <2>1
  <2>3. CASE phase = "drain"
    <3>1. Seen(cq, sq) /\ RequestsOK(sq, inflight, cq) /\ phase # "main"
      BY <1>0, <1>5, <2>3 DEF LateClose
    <3>2. \A c \in Conns : Requested(sq, inflight, cq, c) => state'[c] = "open"
      BY <1>2, <2>2, Zenon DEF Busy
    <3>3. pc \notin {"stopped", "push", "listen"} /\ Elements(cq) \subseteq Elements(cq)
      BY <2>1, Zenon
    <3> QED  BY <1>1, <2>2, <3>1, <3>2, <3>3, GoesOn, Zenon
  <2>4. CASE phase # "drain"
    <3>1. pc' = "accept" /\ sq' = sq /\ inflight' = inflight /\ cq' = cq
      BY <1>5, <2>4 DEF LateClose
    <3> QED  BY <1>3, <2>2, <3>1, Zenon
  <2> QED  BY <2>3, <2>4, Zenon
<1>6. CASE AcceptLate
  <2>1. /\ pc = "accept" /\ kernel' = kernel /\ partial' = partial
        /\ sq' = sq /\ inflight' = inflight /\ cq' = cq
    BY <1>6, Zenon DEF AcceptLate, uring
  <2>2. CASE In("backlog") = {}
    <3>1. pc' = "stop" /\ state' = state
      BY <1>6, <2>2, Zenon DEF AcceptLate
    <3> QED  BY <1>0, <1>3, <2>1, <3>1, Zenon
  <2>3. CASE In("backlog") # {}
    <3>1. PICK c \in In("backlog") : pc' = "late" /\ fd' = c /\ state' = [state EXCEPT ![c] = "late"]
      BY <1>6, <2>3, Zenon DEF AcceptLate
    <3>2. /\ fd' \in Conns /\ state'[fd'] = "late" /\ DOMAIN state' = Conns
          /\ \A d \in Conns : state[d] = "open" <=> state'[d] = "open"
          /\ \A d \in Conns : state[d] = "accepted" => state'[d] = "accepted"
      BY <1>0, <3>1, Zenon DEF In
    <3> QED  BY <1>0, <1>3, <2>1, <3>1, <3>2, Zenon
  <2> QED  BY <2>2, <2>3, Zenon
<1> QED  BY <1>4, <1>5, <1>6

(* A step that leaves the requests alone, and open connections open.       *)
LEMMA RequestsUntouched ==
  ASSUME UringInv, PipelineInv', UNCHANGED uring, fd' = fd, Between' = Between,
         pc' = "late" => pc = "late", pc' = "check" => pc = "check", pc' = "listen" => pc = "listen",
         \A c \in Conns : state[c] = "open" <=> state'[c] = "open",
         \A c \in Conns : state[c] \in {"accepted", "late"} => state'[c] = state[c]
  PROVE  UringInv'
<1>0. /\ Listener \notin Conns /\ (pc \in Reading => fd \in Conns)
      /\ RequestsOK(sq, inflight, cq) /\ ConnsOK
  BY UringTypes, Zenon
<1>1. sq' = sq /\ inflight' = inflight /\ cq' = cq /\ phase' = phase
  BY Zenon DEF uring
<1>2. RequestsOK(sq', inflight', cq') /\ Elements(cq)' = Elements(cq) /\ \A s : Busy(s)' <=> Busy(s)
  BY <1>0, <1>1, SameRequests, Zenon
<1>3. In("open")' = In("open")
  BY Zenon DEF In
<1>4. (Between => fd \in Conns) /\ (pc = "late" => fd \in Conns)
  BY <1>0 DEF Between, Reading
<1>5. ConnsOK'
  <2>1. \A c \in Conns : Busy(c)' => state'[c] = "open"
    BY <1>0, <1>2, Zenon DEF ConnsOK
  <2>2. \A c \in Conns : Cqe("accept", c, 0) \in Elements(cq)' => state'[c] = "accepted"
    BY <1>0, <1>2, Zenon DEF ConnsOK
  <2>3. /\ Between => ~Busy(fd)' /\ state'[fd] \in {"open", "late"}
        /\ pc' = "late" => state'[fd] = "late"
    BY <1>0, <1>2, <1>4, Zenon DEF ConnsOK
  <2>4. phase = "main" => \A s \in In("open") \cup {Listener} : Busy(s)' \/ (Between /\ s = fd)
    BY <1>0, <1>2, Zenon DEF ConnsOK
  <2>5. /\ pc' = "check" => phase = "main"
        /\ pc' = "listen" => sq = NoRequests /\ inflight = NoRequests /\ cq = << >> /\ In("open") = {}
    BY <1>0, Zenon DEF ConnsOK
  <2>6. \A s : Busy(s)' <=> Requested(sq', inflight', cq', s)
    BY <1>1 DEF Busy, Requested, Completed, Elements
  <2> QED  BY <1>1, <1>3, <2>1, <2>2, <2>3, <2>4, <2>5, <2>6, Zenon DEF ConnsOK
<1> QED  BY <1>2, <1>5, Zenon DEF UringInv

LEMMA UringSurroundings ==
  ASSUME UringInv, Surroundings, UNCHANGED uring
  PROVE  UringInv'
<1>0. PipelineInv /\ DOMAIN state = Conns
  BY UringTypes
<1>1. PipelineInv'
  BY <1>0, SurroundingsStep
<1>2. /\ pc' = pc /\ fd' = fd
      /\ state' = state \/ \E c \in Conns : state[c] = "none" /\ state' = [state EXCEPT ![c] = "backlog"]
  BY Zenon DEF Surroundings, Consume, Exit, Signal, Connect, Send, PeerClose, conns
<1>3. /\ \A c \in Conns : state[c] = "open" <=> state'[c] = "open"
      /\ \A c \in Conns : state[c] \in {"accepted", "late"} => state'[c] = state[c]
  BY <1>0, <1>2
<1>4. Between' = Between
  BY <1>2 DEF Between
<1> QED  BY <1>1, <1>2, <1>3, <1>4, RequestsUntouched

LEMMA UringShared ==
  ASSUME UringInv, ListenFails \/ decode \/ Push \/ Stop, UNCHANGED uring
  PROVE  UringInv'
<1>0. PipelineInv
  BY UringTypes
<1>1. CASE ListenFails \/ Stop
  <2>1. pc \in {"listen", "stop"} /\ Leave(TRUE)
    BY <1>1, Zenon DEF ListenFails, Stop
  <2>2. PipelineInv'
    <3>1. TRUE \in BOOLEAN /\ pc # "push" /\ pc # "stopped"
      BY <2>1
    <3> QED  BY <1>0, <2>1, <3>1, LeaveStep, Zenon
  <2>3. pc' = "stopped" /\ fd' = fd /\ state' = state
    BY <2>1 DEF Leave, conns
  <2>4. Between' = Between
    BY <2>1, <2>3 DEF Between
  <2> QED  BY <2>2, <2>3, <2>4, RequestsUntouched
<1>2. CASE decode
  <2>1. PipelineInv' /\ pc = "decode" /\ pc' = "push" /\ fd' = fd /\ state' = state
    BY <1>0, <1>2, DecodeStep DEF decode
  <2>2. Between' = Between
    BY <2>1 DEF Between
  <2> QED  BY <2>1, <2>2, RequestsUntouched, Zenon
<1>3. CASE Push
  <2>1. PipelineInv'
    BY <1>0, <1>3, PushStep, Zenon
  <2>2. pc = "push" /\ pc' = "decode" /\ fd' = fd /\ state' = state
    BY <1>3 DEF Push, conns
  <2>3. Between' = Between
    BY <2>2 DEF Between
  <2> QED  BY <2>1, <2>2, <2>3, RequestsUntouched
<1> QED  BY <1>1, <1>2, <1>3

LEMMA UringInvariant == UringSpec => []UringInv
<1>1. ASSUME UringInv, [UringNext]_<<pipeline, uring>>
      PROVE  UringInv'
  <2>1. CASE UringNext
    BY <1>1, <2>1, UringSurroundings, KernelStep, UringControl, AcceptCqeStep, AcceptInDrainStep,
       RecvCqeStep, RecvNothingStep, ReadDecodedStep, LateStep, UringShared, Zenon DEF UringNext, UringReader
  <2>2. CASE UNCHANGED <<pipeline, uring>>
    <3>1. UNCHANGED <<pc, fd, state, kernel, partial, sent, fin>>
      BY <2>2 DEF pipeline, conns
    <3>2. UNCHANGED <<queue, sink, flags, decoded>> /\ UNCHANGED uring
      BY <2>2 DEF pipeline, conns
    <3>3. PipelineInv'
      <4>1. /\ DOMAIN state' = Conns /\ fin' \in [Conns -> BOOLEAN] /\ kernel' \in [Conns -> Nat]
            /\ partial' \in [Conns -> Nat] /\ sent' \in [Conns -> Nat]
            /\ (pc' \in Reading => fd' \in Conns) /\ (pc = "push" <=> pc' = "push")
            /\ (pc # "stopped" \/ pc' = "stopped") /\ PipelineInv
        BY <1>1, <3>1, UringTypes
      <4> QED  BY <3>2, <4>1, QuietStep, Zenon
    <3>4. Between' = Between
      BY <3>1 DEF Between
    <3> QED  BY <1>1, <3>1, <3>2, <3>3, <3>4, RequestsUntouched
  <2> QED  BY <1>1, <2>1, <2>2
<1> QED  BY <1>1, InitUring, PTL DEF UringSpec

(* The io_uring handler loses no order it decoded, whatever peers, kernel, *)
(* signal and consumer do.                                                 *)
THEOREM UringLosesNoOrder == UringSpec => []NoOrderLost
<1>1. UringInv => NoOrderLost
  BY Zenon DEF UringInv, PipelineInv
<1> QED  BY <1>1, UringInvariant, PTL

INSTANCE FiniteSetTheorems

(* No socket of the io_uring handler ever has two requests, none outlives  *)
(* its connection, and in the main loop none is missing.                   *)
THEOREM UringKeepsOneRequest == UringSpec => []OneRequestEach
<1>1. UringInv => OneRequestEach
  <2> SUFFICES ASSUME UringInv PROVE OneRequestEach
    OBVIOUS
  <2>0. /\ Sockets = Conns \cup {Listener} /\ Listener \notin Conns /\ RequestsOK(sq, inflight, cq) /\ ConnsOK
    BY UringTypes, Zenon
  <2>1. /\ sq \in [Sockets -> {0, 1}] /\ inflight \in [Sockets -> {0, 1}]
        /\ \A i, j \in DOMAIN cq : SocketOf(cq[i]) = SocketOf(cq[j]) => i = j
        /\ \A s \in Sockets : sq[s] = 0 \/ inflight[s] = 0
        /\ \A s \in Sockets : Completed(cq, s) => sq[s] = 0 /\ inflight[s] = 0
    BY <2>0 DEF RequestsOK
  <2>2. \A s \in Sockets : Outstanding(s) = IF Busy(s) THEN 1 ELSE 0
    <3> TAKE s \in Sockets
    <3> DEFINE T == {i \in DOMAIN cq : SocketOf(cq[i]) = s}
    <3>1. CASE Completed(cq, s)
      <4>1. PICK i \in DOMAIN cq : SocketOf(cq[i]) = s
        BY <3>1, Zenon DEF Completed, Elements
      <4>2. T = {i}
        BY <2>1, <4>1, Zenon
      <4>3. Cardinality(T) = 1
        BY <4>2, FS_Singleton
      <4> QED  BY <2>1, <3>1, <4>3 DEF Outstanding, Busy, Requested
    <3>2. CASE ~Completed(cq, s)
      <4>1. T = {}
        BY <3>2, Zenon DEF Completed, Elements
      <4>2. Cardinality(T) = 0
        BY <4>1, FS_EmptySet
      <4> QED  BY <2>1, <3>2, <4>2 DEF Outstanding, Busy, Requested
    <3> QED  BY <3>1, <3>2, Zenon
  <2>3. In("open") \subseteq Conns
    BY DEF In
  <2> QED  BY <2>0, <2>2, <2>3 DEF OneRequestEach, ConnsOK, Between
<1> QED  BY <1>1, UringInvariant, PTL

=============================================================================
