---------------------------- MODULE FeedPipeline ----------------------------
(***************************************************************************)
(* What the two feed handlers (feed_handler_linux.cpp and                  *)
(* feed_handler_iouring_linux.cpp) have in common, line for line: the      *)
(* reader thread turns the bytes of its connections into orders and pushes *)
(* them into the ring; the consumer thread pops, risk-checks and submits   *)
(* them; a signal stops both.  How the reader talks to the sockets is in   *)
(* FeedHandler and UringHandler.  The ring is the bounded queue that       *)
(* SpscRing implements.                                                    *)
(*                                                                         *)
(* Bytes are counted, in units: a frame is FrameUnits of them, so a read   *)
(* can end inside a frame.  The n-th frame of connection c decodes to the  *)
(* order <<c, n>>.                                                         *)
(***************************************************************************)
EXTENDS Integers, Sequences, FiniteSets

CONSTANTS
    Conns,          \* the connections peers may open
    FrameUnits,     \* kFrameSize
    ReadUnits,      \* sizeof(tmp), kRecvBufSize: the most one read returns
    Capacity,       \* the capacity of the ring
    Rejected,       \* the orders the risk gate refuses
    LoadsInOrder,   \* does the machine keep the consumer's loads in order?
    MaxUnits        \* bound: units a peer sends

ASSUME FeedAssumption ==
    /\ IsFiniteSet(Conns)
    /\ {FrameUnits, ReadUnits, Capacity} \subseteq Nat \ {0}
    /\ MaxUnits \in Nat
    /\ LoadsInOrder \in BOOLEAN

VARIABLES
    g_running, g_reader_done,
    pc,          \* where the reader is
    fd,          \* the connection it reads
    pending,     \* the order it has decoded and not pushed: at most one
    state,       \* of each connection: "none", "backlog", "open", ... "closed"
    kernel,      \* units in the receive buffer of each connection
    fin,         \* has the peer closed its end?
    partial,     \* units in the reassembly buffer
    decoded,     \* frames decoded
    sent,        \* units sent
    ring,        \* the ring
    consumed,    \* what the consumer has popped
    submitted,   \* what of it went to the matching engine
    exited,      \* has the consumer thread ended?
    due          \* frames that had arrived on each connection at the signal

conns    == <<state, kernel, fin, partial, decoded, sent>>
queue    == <<pending, ring>>
sink     == <<consumed, submitted, exited>>
flags    == <<g_running, g_reader_done, due>>
pipeline == <<pc, fd, conns, queue, sink, flags>>

Listener == "listen_fd"

ASSUME ListenerAssumption == Listener \notin Conns

PipelineInit ==
    /\ g_running = TRUE /\ g_reader_done = FALSE
    /\ pc = "listen" /\ fd = Listener
    /\ state = [c \in Conns |-> "none"] /\ fin = [c \in Conns |-> FALSE]
    /\ LET zero == [c \in Conns |-> 0]
       IN  kernel = zero /\ partial = zero /\ decoded = zero /\ sent = zero /\ due = zero
    /\ pending = << >> /\ ring = << >>
    /\ consumed = << >> /\ submitted = << >> /\ exited = FALSE

Smaller(a, b) == IF a <= b THEN a ELSE b

In(s) == {c \in Conns : state[c] = s}

-----------------------------------------------------------------------------
(* The reader thread.                                                      *)
Leave(done) ==
    /\ pc' = "stopped"
    /\ g_running' = FALSE /\ g_reader_done' = done
    /\ UNCHANGED <<fd, conns, queue, sink, due>>

(* No socket or no ring to be had: there is nothing to wait for.           *)
ListenFails == pc = "listen" /\ Leave(TRUE)

(* A frame is whole.                                                       *)
decode ==
    /\ pc = "decode" /\ partial[fd] >= FrameUnits
    /\ decoded' = [decoded EXCEPT ![fd] = @ + 1]
    /\ pending' = << <<fd, decoded[fd] + 1>> >>
    /\ partial' = [partial EXCEPT ![fd] = @ - FrameUnits]
    /\ pc' = "push"
    /\ UNCHANGED <<fd, state, kernel, fin, sent, ring, sink, flags>>

(* Variant: the spin on a full ring ends with g_running.                   *)
PushOrGiveUp ==
    /\ pc = "push"
    /\ \/ Len(ring) < Capacity /\ ring' = Append(ring, pending[1])
       \/ Len(ring) = Capacity /\ ~g_running /\ UNCHANGED ring
    /\ pending' = << >>
    /\ pc' = "decode"
    /\ UNCHANGED <<fd, conns, sink, flags>>

(* A push on a full ring is tried again without end.                       *)
Push ==
    /\ pc = "push"
    /\ Len(ring) < Capacity
    /\ ring' = Append(ring, pending[1])
    /\ pending' = << >>
    /\ pc' = "decode"
    /\ UNCHANGED <<fd, conns, sink, flags>>

(* Variant: the consumer is not told.                                      *)
StopSilently == pc = "stop" /\ Leave(FALSE)

Stop == pc = "stop" /\ Leave(TRUE)

-----------------------------------------------------------------------------
(* The consumer thread.  A pop that fails changes nothing.                 *)
Consume ==
    /\ ~exited
    /\ ring # << >>
    /\ ring' = Tail(ring)
    /\ consumed' = Append(consumed, Head(ring))
    /\ submitted' = IF Head(ring) \in Rejected THEN submitted
                    ELSE Append(submitted, Head(ring))
    /\ UNCHANGED <<exited, pc, fd, conns, pending, flags>>

(* The loop's test: g_reader_done is loaded relaxed, then ring.empty()     *)
(* loads head_.  Only a machine that keeps loads in order guarantees that  *)
(* the second load sees every push made before the flag was set.           *)
Exit ==
    /\ ~exited
    /\ g_reader_done
    /\ LoadsInOrder => ring = << >>
    /\ exited' = TRUE
    /\ UNCHANGED <<consumed, submitted, pc, fd, conns, queue, flags>>

-----------------------------------------------------------------------------
(* The peers and the operator.                                             *)
Reachable(c) == state[c] \notin {"none", "closed"} /\ ~fin[c] /\ pc # "stopped"

Connect(c) ==
    /\ state[c] = "none" /\ pc \notin {"listen", "stopped"}
    /\ state' = [state EXCEPT ![c] = "backlog"]
    /\ UNCHANGED <<pc, fd, kernel, fin, partial, decoded, sent, queue, sink, flags>>

Send(c) ==
    /\ Reachable(c) /\ sent[c] < MaxUnits
    /\ sent' = [sent EXCEPT ![c] = @ + 1]
    /\ kernel' = [kernel EXCEPT ![c] = @ + 1]
    /\ UNCHANGED <<pc, fd, state, fin, partial, decoded, queue, sink, flags>>

PeerClose(c) ==
    /\ Reachable(c)
    /\ fin' = [fin EXCEPT ![c] = TRUE]
    /\ UNCHANGED <<pc, fd, state, kernel, partial, decoded, sent, queue, sink, flags>>

Signal ==
    /\ g_running
    /\ g_running' = FALSE
    /\ due' = [c \in Conns |-> sent[c] \div FrameUnits]
    /\ UNCHANGED <<g_reader_done, pc, fd, conns, queue, sink>>

(* Everything around the reader.                                           *)
Surroundings ==
    \/ Consume \/ Exit \/ Signal
    \/ \E c \in Conns : Connect(c) \/ Send(c) \/ PeerClose(c)

-----------------------------------------------------------------------------
(* The orders, from the first the consumer popped to the one about to be   *)
(* pushed.                                                                 *)
Flow == consumed \o ring \o pending

Elements(seq) == {seq[i] : i \in DOMAIN seq}

(* "an order that has already been decoded must always reach the           *)
(* consumer": what the consumer popped, what is in the ring and what the   *)
(* reader is about to push are, for every connection, its decoded frames,  *)
(* each once and in order; what was submitted is what of the popped was    *)
(* not rejected, in that order; and the consumer leaves nothing behind, if *)
(* loads are kept in order, because the flag it waits for is set after the *)
(* last push and the ring is looked at after the flag.                     *)
NoOrderLost ==
    /\ Elements(Flow) = UNION {{c} \X (1..decoded[c]) : c \in Conns}
    /\ \A i, j \in DOMAIN Flow : i < j /\ Flow[i][1] = Flow[j][1] => Flow[i][2] < Flow[j][2]
    /\ Elements(submitted) = Elements(consumed) \ Rejected
    /\ \A i, j \in DOMAIN submitted : i < j =>
         \E k, l \in DOMAIN consumed :
             k < l /\ consumed[k] = submitted[i] /\ consumed[l] = submitted[j]
    /\ LoadsInOrder /\ exited => ring = << >> /\ pending = << >>

(* Every frame that had arrived when the signal came is decoded.           *)
AllDueDecoded == \A c \in Conns : decoded[c] >= due[c]

(* After the signal, once peers have sent all they will, the process ends: *)
(* the reader gets every order into the ring however full it is, and the   *)
(* consumer leaves.                                                        *)
StopsAfterSignal == ~g_running ~> (pc = "stopped" /\ exited)

=============================================================================
