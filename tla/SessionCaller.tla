--------------------------- MODULE SessionCaller ---------------------------
(***************************************************************************)
(* The session together with the application that drives it, and a record  *)
(* of what that application did: the sequences it acted on, whether the    *)
(* peer logged on in this connection, and the time since the last test     *)
(* request.  The record is history: no guard reads it.                     *)
(*                                                                         *)
(* The caller follows the protocol of session.hpp as the tests use it: it  *)
(* acts on a delivered message and then on what take_released returns,     *)
(* before it makes the next call, and it logs on again only when it has no *)
(* connection.                                                             *)
(***************************************************************************)
EXTENDS Session

VARIABLES
    acted,        \* the sequences acted on, in order
    logon_seen,   \* a Logon arrived in this connection
    since_ask     \* ticks since the last test request, up to the interval

history == <<acted, logon_seen, since_ask>>
cvars   == <<vars, history>>

CallerInit ==
    /\ Init
    /\ acted = << >>
    /\ logon_seen = FALSE
    /\ since_ask = 0

NothingToTake == released = << >>

NoConnection == state \in {"Disconnected", "LoggedOut"} \/ "disconnect" \in out.flags

Deliver(in) ==
    /\ NothingToTake
    /\ on_message(in)
    /\ acted' = IF "deliver" \in out'.flags THEN Append(acted, in.seq) ELSE acted
    /\ logon_seen' = (logon_seen \/ in.admin = "Logon")
    /\ UNCHANGED since_ask

TakeReleased ==
    /\ ~NothingToTake
    /\ take_released
    /\ acted' = acted \o [i \in DOMAIN released |-> released[i].seq]
    /\ UNCHANGED <<logon_seen, since_ask>>

Dial ==
    /\ NothingToTake /\ NoConnection
    /\ begin_logon
    /\ logon_seen' = FALSE
    /\ UNCHANGED <<acted, since_ask>>

Claim ==
    /\ NothingToTake
    /\ claim_outbound_seq
    /\ UNCHANGED history

Question ==
    /\ NothingToTake
    /\ AskPeer
    /\ since_ask' = 0
    /\ UNCHANGED <<acted, logon_seen>>

Quiet ==
    /\ NothingToTake
    /\ ClockQuiet
    /\ UNCHANGED history

Verdict ==
    /\ NothingToTake
    /\ DeclareDead
    /\ UNCHANGED history

Time ==
    /\ Tick
    /\ since_ask' = IF since_ask < Heartbeat THEN since_ask + 1 ELSE since_ask
    /\ UNCHANGED <<acted, logon_seen>>

Arrival == \E in \in Inputs : Deliver(in)

CallerNext ==
    \/ Arrival
    \/ TakeReleased
    \/ Dial
    \/ Claim
    \/ Question
    \/ Quiet
    \/ Verdict
    \/ Time

CallerSpec == CallerInit /\ [][CallerNext]_cvars

(* Time passes, the caller takes what was released, and it calls on_clock  *)
(* "periodically", as session.hpp asks.                                    *)
CallerFairness ==
    /\ WF_cvars(Time)
    /\ WF_cvars(TakeReleased)
    /\ WF_cvars(Question)
    /\ WF_cvars(Verdict)

FairCallerSpec == CallerSpec /\ CallerFairness

-----------------------------------------------------------------------------
Increasing(s) == \A i \in DOMAIN s : \A j \in 1..(i - 1) : s[j] < s[i]

(* Nothing is acted on twice or out of order, over any number of gaps,     *)
(* duplicates, resets, logouts and reconnects: what the caller acts on is  *)
(* strictly increasing in sequence and stays below next_in_.               *)
ActedInOrder ==
    /\ Increasing(acted)
    /\ \A i \in DOMAIN acted :
         /\ acted[i] < next_in
         /\ \A j \in DOMAIN released : acted[i] < released[j].seq

(* A session is declared dead only when a whole heartbeat interval has     *)
(* passed since the peer was asked: on_clock never asks and disconnects on *)
(* the same silence, however often it is called.                           *)
DeadOnlyAfterInterval == [][Verdict => since_ask >= Heartbeat]_cvars

(* A peer that stays silent is dropped: unless messages keep arriving, the *)
(* session is outside Active, Recovering and LogonSent again and again.    *)
SilentPeerIsDropped == []<><<Arrival>>_cvars \/ []<>(~Watched)

(* "Application traffic before the session is up. Never act on it": the    *)
(* caller acts on a message only if the peer logged on in this connection. *)
ActsOnlyAfterLogon == [][acted' # acted => logon_seen]_cvars

=============================================================================
