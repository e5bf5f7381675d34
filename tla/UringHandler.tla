---------------------------- MODULE UringHandler ----------------------------
(***************************************************************************)
(* The reader thread of the io_uring feed handler                          *)
(* (feed_handler_iouring_linux.cpp) and the kernel's side of its ring.  A  *)
(* request is prepared in the submission queue, in flight after the next   *)
(* io_uring_submit, and back in the completion queue when the kernel is    *)
(* done with it.                                                           *)
(***************************************************************************)
EXTENDS FeedPipeline

CONSTANTS
    Faults,      \* may a wait fail other than by its timeout, and a request in vain?
    Prompt       \* does the kernel complete within 50 ms what it can?

ASSUME UringAssumption == {Faults, Prompt} \subseteq BOOLEAN

VARIABLES
    sq,          \* requests prepared: how many for each socket
    inflight,    \* requests submitted
    cq,          \* completions, oldest first
    phase,       \* "setup", "main", "drain" or "backlog"
    misses       \* waits of the drain in a row that timed out

uring == <<sq, inflight, cq, phase, misses>>

Sockets    == Conns \cup {Listener}
NoRequests == [s \in Sockets |-> 0]

(* The completion of an accept (of connection conn, or failed) or of a     *)
(* recv.  Again stands for -EAGAIN and -EINTR.                             *)
Cqe(kind, conn, res) == [kind |-> kind, conn |-> conn, res |-> res]

Again == -1

UringInit ==
    /\ sq = NoRequests /\ inflight = NoRequests /\ cq = << >>
    /\ phase = "setup" /\ misses = 0

Prepare(s) == [sq EXCEPT ![s] = @ + 1]

-----------------------------------------------------------------------------
(* The kernel, until the ring is gone.                                     *)
Completable(s) ==
    /\ inflight[s] > 0
    /\ IF s = Listener THEN In("backlog") # {} ELSE kernel[s] > 0 \/ fin[s]

CompletesWith(s, cqe) ==
    /\ pc # "stopped" /\ inflight[s] > 0
    /\ inflight' = [inflight EXCEPT ![s] = @ - 1]
    /\ cq' = Append(cq, cqe)
    /\ UNCHANGED <<sq, phase, misses, pc, fd, fin, partial, decoded, sent, queue, sink, flags>>

AcceptCompletes ==
    \E c \in In("backlog") :
        /\ CompletesWith(Listener, Cqe("accept", c, 0))
        /\ state' = [state EXCEPT ![c] = "accepted"]
        /\ UNCHANGED kernel

(* A recv takes what there is, or 0 at the end of the stream.              *)
RecvCompletes(c) ==
    LET r == Smaller(ReadUnits, kernel[c])
    IN  /\ Completable(c)
        /\ CompletesWith(c, Cqe("recv", c, r))
        /\ kernel' = [kernel EXCEPT ![c] = @ - r]
        /\ UNCHANGED state

(* A request of either kind may fail for the moment.                       *)
CompletesInVain(s) ==
    /\ Faults
    /\ CompletesWith(s, Cqe(IF s = Listener THEN "accept" ELSE "recv", s, Again))
    /\ UNCHANGED <<state, kernel>>

Kernel ==
    \/ AcceptCompletes
    \/ \E c \in Conns : RecvCompletes(c)
    \/ \E s \in Sockets : CompletesInVain(s)

-----------------------------------------------------------------------------
(* The reader thread.                                                      *)
UringListen ==
    /\ pc = "listen"
    /\ pc' = "check"
    /\ inflight' = [inflight EXCEPT ![Listener] = 1]
    /\ phase' = "main"
    /\ UNCHANGED <<sq, cq, misses, fd, conns, queue, sink, flags>>

(* The test of the main loop, which the final drain follows.               *)
UringCheck ==
    /\ pc = "check"
    /\ pc' = "wait"
    /\ phase' = IF g_running THEN "main" ELSE "drain"
    /\ UNCHANGED <<sq, inflight, cq, misses, fd, conns, queue, sink, flags>>

(* io_uring_wait_cqe_timeout ends without a completion: by its timeout, or *)
(* in the main loop by a signal; or with an error, which ends the main     *)
(* loop or the drain.                                                      *)
WaitTimesOut ==
    /\ pc = "wait" /\ phase = "main" /\ cq = << >>
    /\ pc' = "check"
    /\ UNCHANGED <<uring, fd, conns, queue, sink, flags>>

DrainTimesOut ==
    /\ pc = "wait" /\ phase = "drain" /\ cq = << >>
    /\ Prompt => ~\E s \in Sockets : Completable(s)
    /\ IF misses = 0 THEN misses' = 1 /\ UNCHANGED <<pc, phase>>
       ELSE misses' = 0 /\ phase' = "backlog" /\ pc' = "accept"
    /\ UNCHANGED <<sq, inflight, cq, fd, conns, queue, sink, flags>>

WaitBreaks ==
    /\ Faults
    /\ pc = "wait" /\ cq = << >>
    /\ misses' = 0
    /\ IF phase = "main" THEN phase' = "drain" /\ UNCHANGED pc
       ELSE phase' = "backlog" /\ pc' = "accept"
    /\ UNCHANGED <<sq, inflight, cq, fd, conns, queue, sink, flags>>

(* Variant: the accept is re-armed only after a success.                   *)
RearmOnSuccess(e) == IF e.res < 0 THEN sq ELSE [Prepare(Listener) EXCEPT ![e.conn] = @ + 1]

(* What an accept that completes in the main loop prepares: the next one,  *)
(* whatever became of this one, and the first recv of a new connection.    *)
Rearm(e) == IF e.res < 0 THEN Prepare(Listener) ELSE [Prepare(Listener) EXCEPT ![e.conn] = @ + 1]

(* A completion of the given kind is there, for the wait or for the peek   *)
(* after the one before it.                                                *)
Reaped(kind) == pc \in {"wait", "cqe"} /\ cq # << >> /\ Head(cq).kind = kind

(* The end of a completion, when others are left and these requests are    *)
(* prepared: the next one, or the batch is submitted.                      *)
Seen(others, prepared) ==
    /\ cq' = others /\ misses' = 0
    /\ IF others # << >> THEN pc' = "cqe" /\ sq' = prepared /\ UNCHANGED inflight
       ELSE /\ pc' = IF phase = "main" THEN "check" ELSE "wait"
            /\ sq' = NoRequests
            /\ inflight' = [s \in Sockets |-> inflight[s] + prepared[s]]

AcceptCqe ==
    LET e == Head(cq)
    IN  /\ Reaped("accept") /\ (phase = "main" \/ e.res < 0)
        /\ state' = IF e.res < 0 THEN state ELSE [state EXCEPT ![e.conn] = "open"]
        /\ Seen(Tail(cq), IF phase = "main" THEN Rearm(e) ELSE sq)
        /\ UNCHANGED <<phase, fd, kernel, fin, partial, decoded, sent, queue, sink, flags>>

(* A connection whose accept completes in the drain is read at once.       *)
AcceptInDrain ==
    LET e == Head(cq)
    IN  /\ Reaped("accept") /\ phase = "drain" /\ e.res >= 0
        /\ state' = [state EXCEPT ![e.conn] = "late"]
        /\ cq' = Tail(cq) /\ misses' = 0
        /\ pc' = "late" /\ fd' = e.conn
        /\ UNCHANGED <<sq, inflight, phase, kernel, fin, partial, decoded, sent,
                       queue, sink, flags>>

RecvCqe ==
    LET e == Head(cq)
    IN  /\ Reaped("recv") /\ e.res > 0
        /\ partial' = [partial EXCEPT ![e.conn] = @ + e.res]
        /\ cq' = Tail(cq) /\ misses' = 0
        /\ pc' = "decode" /\ fd' = e.conn
        /\ UNCHANGED <<sq, inflight, phase, state, kernel, fin, decoded, sent,
                       queue, sink, flags>>

(* Nothing read: try again, or the connection is gone; the drain does not  *)
(* care.                                                                   *)
RecvNothing ==
    LET e    == Head(cq)
        gone == phase = "main" /\ e.res # Again
    IN  /\ Reaped("recv") /\ e.res <= 0
        /\ state' = IF gone THEN [state EXCEPT ![e.conn] = "closed"] ELSE state
        /\ partial' = IF gone THEN [partial EXCEPT ![e.conn] = 0] ELSE partial
        /\ Seen(Tail(cq), IF phase = "main" /\ e.res = Again THEN Prepare(e.conn) ELSE sq)
        /\ UNCHANGED <<phase, fd, kernel, fin, decoded, sent, queue, sink, flags>>

(* All frames of a read are out.  Only the main loop prepares another.     *)
ReadDecoded ==
    /\ pc = "decode" /\ partial[fd] < FrameUnits
    /\ IF state[fd] = "late" THEN pc' = "late" /\ UNCHANGED <<sq, inflight, cq, misses>>
       ELSE Seen(cq, IF phase = "main" THEN Prepare(fd) ELSE sq)
    /\ UNCHANGED <<phase, fd, conns, queue, sink, flags>>

(* A late connection is read until it would block, and closed.             *)
LateRead ==
    LET r == Smaller(ReadUnits, kernel[fd])
    IN  /\ pc = "late" /\ kernel[fd] > 0
        /\ kernel' = [kernel EXCEPT ![fd] = @ - r]
        /\ partial' = [partial EXCEPT ![fd] = @ + r]
        /\ pc' = "decode"
        /\ UNCHANGED <<uring, fd, state, fin, decoded, sent, queue, sink, flags>>

LateClose ==
    /\ pc = "late" /\ kernel[fd] = 0
    /\ state' = [state EXCEPT ![fd] = "closed"]
    /\ partial' = [partial EXCEPT ![fd] = 0]
    /\ IF phase = "drain" THEN Seen(cq, sq)
       ELSE pc' = "accept" /\ UNCHANGED <<sq, inflight, cq, misses>>
    /\ UNCHANGED <<phase, fd, kernel, fin, decoded, sent, queue, sink, flags>>

(* The accept backlog after the drain.                                     *)
AcceptLate ==
    /\ pc = "accept"
    /\ IF In("backlog") = {} THEN pc' = "stop" /\ UNCHANGED <<state, fd>>
       ELSE \E c \in In("backlog") :
              pc' = "late" /\ fd' = c /\ state' = [state EXCEPT ![c] = "late"]
    /\ UNCHANGED <<uring, kernel, fin, partial, decoded, sent, queue, sink, flags>>

UringReader ==
    \/ UringListen \/ UringCheck \/ WaitTimesOut \/ DrainTimesOut \/ WaitBreaks
    \/ AcceptCqe \/ AcceptInDrain \/ RecvCqe \/ RecvNothing \/ ReadDecoded
    \/ LateRead \/ LateClose \/ AcceptLate
    \/ (ListenFails \/ decode \/ Push \/ Stop) /\ UNCHANGED uring

UringNext == UringReader \/ Kernel \/ (Surroundings /\ UNCHANGED uring)

UringSpec == PipelineInit /\ UringInit /\ [][UringNext]_<<pipeline, uring>>

-----------------------------------------------------------------------------
(* The socket a completion is about.                                       *)
SocketOf(e) == IF e.kind = "accept" THEN Listener ELSE e.conn

Outstanding(s) ==
    sq[s] + inflight[s] + Cardinality({i \in DOMAIN cq : SocketOf(cq[i]) = s})

(* "One outstanding accept plus one outstanding recv per live connection": *)
(* never more, so two reads never share a buffer and the submission queue  *)
(* needs one place for each; and in the main loop, between two batches,    *)
(* never fewer, so no connection is forgotten.  No request outlives the    *)
(* Conn its buffer is in.                                                  *)
OneRequestEach ==
    /\ \A s \in Sockets : Outstanding(s) <= 1
    /\ \A c \in Conns : Outstanding(c) = 1 => state[c] = "open"
    /\ phase = "main" /\ pc \in {"check", "wait"} =>
         \A s \in In("open") \cup {Listener} : Outstanding(s) = 1

(* "ETIME twice in a row means nothing more is coming": every frame that   *)
(* had arrived when the signal came is decoded when the reader stops.      *)
NothingMoreIsComing == pc = "stopped" /\ phase = "backlog" => AllDueDecoded

=============================================================================
