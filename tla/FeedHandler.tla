---------------------------- MODULE FeedHandler ----------------------------
(***************************************************************************)
(* The reader thread of the epoll feed handler (feed_handler_linux.cpp).   *)
(***************************************************************************)
EXTENDS FeedPipeline

CONSTANT MaxEvents   \* kMaxEvents: the most one epoll_wait returns

ASSUME EpollAssumption == MaxEvents \in Nat \ {0}

VARIABLES
    events,      \* what it still has to serve of the list it works through
    draining     \* is it in the final drain?

epoll == <<events, draining>>

EpollInit == events = {} /\ draining = FALSE

Listen ==
    /\ pc = "listen"
    /\ pc' = "check"
    /\ UNCHANGED <<epoll, fd, conns, queue, sink, flags>>

(* Variant: no look at the backlog after the loop.                         *)
CheckToDrain ==
    /\ pc = "check"
    /\ pc' = IF g_running THEN "wait" ELSE "event"
    /\ draining' = ~g_running
    /\ events' = IF g_running THEN events ELSE In("open")
    /\ UNCHANGED <<fd, conns, queue, sink, flags>>

(* The test of the main loop.                                              *)
Check ==
    /\ pc = "check"
    /\ pc' = IF g_running THEN "wait" ELSE "backlog"
    /\ UNCHANGED <<epoll, fd, conns, queue, sink, flags>>

(* Level-triggered readiness: a connection with bytes or an end of file,   *)
(* the listening socket with a backlog.                                    *)
Readable ==
    {c \in In("open") : kernel[c] > 0 \/ fin[c]}
        \cup (IF In("backlog") # {} THEN {Listener} ELSE {})

(* It returns without events after a timeout or when a signal interrupts.  *)
epoll_wait ==
    /\ pc = "wait"
    /\ events' \in {{}} \cup {S \in SUBSET Readable :
                       Cardinality(S) = Smaller(MaxEvents, Cardinality(Readable))}
    /\ pc' = "event"
    /\ UNCHANGED <<draining, fd, conns, queue, sink, flags>>

(* The next event of the batch, or the next connection of the final drain. *)
NextEvent ==
    /\ pc = "event"
    /\ \/ \E f \in events :
            /\ fd' = f
            /\ events' = events \ {f}
            /\ pc' = IF f = Listener THEN "accept" ELSE "read"
       \/ /\ events = {}
          /\ pc' = IF draining THEN "stop" ELSE "check"
          /\ UNCHANGED <<events, fd>>
    /\ UNCHANGED <<draining, conns, queue, sink, flags>>

(* accept until there is nothing to accept: on an event, and once more for *)
(* the backlog after the main loop, which leads to the final drain.        *)
AcceptOne ==
    /\ pc \in {"accept", "backlog"}
    /\ \E c \in In("backlog") : state' = [state EXCEPT ![c] = "open"]
    /\ UNCHANGED <<epoll, pc, fd, kernel, fin, partial, decoded, sent, queue, sink, flags>>

AcceptNone ==
    /\ pc \in {"accept", "backlog"}
    /\ In("backlog") = {}
    /\ pc' = "event"
    /\ draining' = (pc = "backlog")
    /\ events' = IF pc = "backlog" THEN In("open") ELSE events
    /\ UNCHANGED <<fd, conns, queue, sink, flags>>

ReadSome ==
    /\ pc = "read" /\ kernel[fd] > 0
    /\ LET r == Smaller(ReadUnits, kernel[fd])
       IN /\ kernel' = [kernel EXCEPT ![fd] = @ - r]
          /\ partial' = [partial EXCEPT ![fd] = @ + r]
    /\ pc' = "decode"
    /\ UNCHANGED <<epoll, fd, state, fin, decoded, sent, queue, sink, flags>>

(* Nothing to read: the peer closed, and the connection goes with the rest *)
(* of a frame it may hold; or the read would block.                        *)
ReadNone ==
    /\ pc = "read" /\ kernel[fd] = 0
    /\ IF fin[fd] /\ ~draining
       THEN /\ state' = [state EXCEPT ![fd] = "closed"]
            /\ partial' = [partial EXCEPT ![fd] = 0]
       ELSE UNCHANGED <<state, partial>>
    /\ pc' = "event"
    /\ UNCHANGED <<epoll, fd, kernel, fin, decoded, sent, queue, sink, flags>>

DecodedAll ==
    /\ pc = "decode" /\ partial[fd] < FrameUnits
    /\ pc' = "read"
    /\ UNCHANGED <<epoll, fd, conns, queue, sink, flags>>

EpollReader ==
    \/ Listen \/ Check \/ epoll_wait \/ NextEvent \/ AcceptOne \/ AcceptNone
    \/ ReadSome \/ ReadNone \/ DecodedAll
    \/ (ListenFails \/ decode \/ Push \/ Stop) /\ UNCHANGED epoll

EpollNext == EpollReader \/ (Surroundings /\ UNCHANGED epoll)

EpollSpec == PipelineInit /\ EpollInit /\ [][EpollNext]_<<pipeline, epoll>>

-----------------------------------------------------------------------------
(* The final drain: every frame that had arrived when the signal came, on  *)
(* an accepted connection or one still in the backlog, is decoded by the   *)
(* time the reader stops, whatever part of it was read, in a batch of      *)
(* events or not yet accepted at that moment.                              *)
ArrivedIsRead == pc = "stopped" /\ draining => AllDueDecoded

=============================================================================
