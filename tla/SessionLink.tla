---------------------------- MODULE SessionLink ----------------------------
(***************************************************************************)
(* The session and its caller connected to a peer that keeps the protocol, *)
(* over a connection that can lose messages: the frame decoder below the   *)
(* session discards a frame whose checksum is wrong, and a connection that *)
(* breaks takes what was in flight with it.                                *)
(*                                                                         *)
(* The peer is not part of the repository.  It numbers what it sends, logs *)
(* on when the session dials, and answers a resend request with its        *)
(* application messages marked poss_dup and one SequenceReset-GapFill for  *)
(* each administrative message.  The heartbeat clock is left out: a        *)
(* connection may break at any moment here, which is all that it can do.   *)
(***************************************************************************)
EXTENDS SessionCaller

CONSTANTS
    MaxSent,     \* bound: messages the peer has sent when it sends no more traffic
    Faults       \* bound: the pairs of frames discarded and connections broken

ASSUME LinkAssumption == MaxSent \in Nat /\ Faults \subseteq Nat \X Nat

VARIABLES
    peer_log,    \* the kinds of the messages the peer sent, by sequence
    peer_up,     \* the peer has logged on in this connection
    wire,        \* messages in flight to the session, oldest first
    requests,    \* resend ranges in flight to the peer
    requested,   \* history: the sequences asked for in this connection
    connected,
    lost,
    broken

peer  == <<peer_log, peer_up>>
link  == <<wire, requests, requested, connected, lost, broken>>
lvars == <<cvars, peer, link>>

LinkInit ==
    /\ CallerInit
    /\ peer_log = << >>
    /\ peer_up = FALSE
    /\ wire = << >>
    /\ requests = << >>
    /\ requested = {}
    /\ connected = FALSE
    /\ lost = 0
    /\ broken = 0

Plain(s, kind) == [seq |-> s, admin |-> kind, poss_dup |-> FALSE, new_seq |-> 0,
                   resend_from |-> 0, resend_to |-> 0]

Replayed(s) ==
    IF peer_log[s] = "None"
    THEN [Plain(s, "None") EXCEPT !.poss_dup = TRUE]
    ELSE [Plain(s, "SequenceReset") EXCEPT !.poss_dup = TRUE, !.new_seq = s + 1]

(* begin_logon over a new connection.                                      *)
Connect ==
    /\ ~connected
    /\ NothingToTake
    /\ begin_logon
    /\ logon_seen' = FALSE
    /\ connected' = TRUE
    /\ peer_up' = FALSE
    /\ wire' = << >>
    /\ requests' = << >>
    /\ requested' = {}
    /\ UNCHANGED <<acted, since_ask, peer_log, lost, broken>>

PeerSends(kind) ==
    /\ peer_log' = Append(peer_log, kind)
    /\ wire' = Append(wire, Plain(Len(peer_log) + 1, kind))
    /\ UNCHANGED <<cvars, requests, requested, connected, lost, broken>>

PeerLogon ==
    /\ connected /\ ~peer_up
    /\ peer_up' = TRUE
    /\ PeerSends("Logon")

PeerTraffic ==
    /\ connected /\ peer_up
    /\ Len(peer_log) < MaxSent
    /\ \E kind \in {"None", "Heartbeat"} : PeerSends(kind)
    /\ UNCHANGED peer_up

PeerReplays ==
    /\ requests # << >>
    /\ LET from == Head(requests)[1]
           to   == Head(requests)[2]
       IN wire' = wire \o [k \in 1..(to - from + 1) |-> Replayed(from + k - 1)]
    /\ requests' = Tail(requests)
    /\ UNCHANGED <<cvars, peer, requested, connected, lost, broken>>

Arrives ==
    /\ wire # << >>
    /\ Deliver(Head(wire))
    /\ wire' = Tail(wire)
    /\ IF "send_resend_request" \in out'.flags
       THEN /\ requests' = Append(requests, out'.resend)
            /\ requested' = requested \cup out'.resend[1]..out'.resend[2]
       ELSE UNCHANGED <<requests, requested>>
    /\ UNCHANGED <<peer, connected, lost, broken>>

Takes ==
    /\ TakeReleased
    /\ UNCHANGED <<peer, link>>

MayFail(l, b) == \E f \in Faults : l <= f[1] /\ b <= f[2]

Loses ==
    /\ wire # << >> /\ MayFail(lost + 1, broken)
    /\ wire' = Tail(wire)
    /\ lost' = lost + 1
    /\ UNCHANGED <<cvars, peer, requests, requested, connected, broken>>

Breaks ==
    /\ connected /\ MayFail(lost, broken + 1)
    /\ connected' = FALSE
    /\ wire' = << >>
    /\ requests' = << >>
    /\ broken' = broken + 1
    /\ UNCHANGED <<cvars, peer, requested, lost>>

LinkNext ==
    \/ Connect
    \/ PeerLogon
    \/ PeerTraffic
    \/ PeerReplays
    \/ Arrives
    \/ Takes
    \/ Loses
    \/ Breaks

(* The caller connects when it has no connection and takes what is         *)
(* released, the connection delivers, and the peer logs on and answers.    *)
LinkFairness ==
    /\ WF_lvars(Connect)
    /\ WF_lvars(PeerLogon)
    /\ WF_lvars(PeerReplays)
    /\ WF_lvars(Arrives)
    /\ WF_lvars(Takes)

LinkSpec == LinkInit /\ [][LinkNext]_lvars /\ LinkFairness

-----------------------------------------------------------------------------
(* Every application message the peer sent that next_in_ has passed was    *)
(* acted on or is in the caller's hands: gaps, gap fills, duplicates and   *)
(* reconnects never make the session step over one.                        *)
PassedIsActed ==
    \A s \in DOMAIN peer_log :
        (s < next_in /\ peer_log[s] = "None")
            => \/ \E i \in DOMAIN acted : acted[i] = s
               \/ s \in SeqsOf(released)

(* Held messages "become deliverable once the gap closes": a session that  *)
(* recovers becomes Active again.                                          *)
RecoveryCompletes == state = "Recovering" ~> state = "Active"

(* "gap detected, resend requested": while the session recovers, the       *)
(* sequence it waits for has been requested in this connection.            *)
RecoveringWasRequested ==
    (connected /\ state = "Recovering") => next_in \in requested

=============================================================================
