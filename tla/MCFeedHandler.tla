--------------------------- MODULE MCFeedHandler ---------------------------
(***************************************************************************)
(* Both feed handlers, each on its own, with the first order of every      *)
(* connection rejected.                                                    *)
(***************************************************************************)
EXTENDS FeedHandler, UringHandler

CONSTANTS
    Handlers,   \* which of "epoll" and "io_uring"
    Busy        \* the connection whose peer may send MaxUnits

VARIABLE handler

MCRejected == Conns \X {1}

(* Bound: units the other peers send.                                      *)
CalmUnits == [epoll |-> 2, io_uring |-> 1]

vars == <<handler, pipeline, epoll, uring>>

Init == PipelineInit /\ EpollInit /\ UringInit /\ handler \in Handlers

Reader ==
    \/ handler = "epoll" /\ EpollReader /\ UNCHANGED <<handler, uring>>
    \/ handler = "io_uring" /\ UringReader /\ UNCHANGED <<handler, epoll>>

Next ==
    /\ \/ handler = "epoll" /\ EpollNext /\ UNCHANGED <<handler, uring>>
       \/ handler = "io_uring" /\ UringNext /\ UNCHANGED <<handler, epoll>>
    /\ \A c \in Conns \ {Busy} : sent'[c] <= CalmUnits[handler]

Spec == Init /\ [][Next]_vars

(* Both threads are scheduled; kernel, peers and operator owe nothing.     *)
FairSpec ==
    /\ Spec
    /\ WF_vars(Reader)
    /\ WF_vars(Consume /\ UNCHANGED <<handler, epoll, uring>>)
    /\ WF_vars(Exit /\ UNCHANGED <<handler, epoll, uring>>)

=============================================================================
