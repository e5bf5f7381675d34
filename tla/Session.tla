------------------------------ MODULE Session ------------------------------
(***************************************************************************)
(* The exchange session layer (session.hpp, session.cpp): which inbound    *)
(* message may be acted on, what happens when the stream has a hole, and   *)
(* when a silent peer is declared dead.                                    *)
(*                                                                         *)
(* The class owns no clock, socket or thread: its methods are the actions  *)
(* here, its members the variables.  The clock is the variable silent, the *)
(* time since last_inbound_ms_, which saturates at the heartbeat interval  *)
(* because on_clock only asks whether the interval has been reached.       *)
(* Left out: the counters of Stats, which nothing reads, and the gap_fill  *)
(* flag, which only chooses the counter a SequenceReset increments.        *)
(***************************************************************************)
EXTENDS Integers, Sequences, FiniteSets

CONSTANTS
    NextInboundSeq,    \* Config::next_inbound_seq
    NextOutboundSeq,   \* Config::next_outbound_seq
    HeartbeatMs,       \* Config::heartbeat_ms, in ticks of the clock
    Inputs,            \* the inbound messages the peer may send
    MaxQueued,         \* bound: messages held at once
    MaxOut             \* bound: outbound sequences claimed

Admin == {"None", "Logon", "Logout", "Heartbeat", "TestRequest",
          "ResendRequest", "SequenceReset"}

Inbound == [seq: Nat, admin: Admin, poss_dup: BOOLEAN, new_seq: Nat,
            resend_from: Nat, resend_to: Nat]

ASSUME ConfigAssumption ==
    /\ NextInboundSeq \in Nat
    /\ NextOutboundSeq \in Nat
    /\ HeartbeatMs \in Nat

ASSUME InputsAssumption == Inputs \subseteq Inbound

ASSUME BoundsAssumption == MaxQueued \in Nat /\ MaxOut \in Nat

VARIABLES
    state,                      \* state_
    next_in,                    \* next_in_
    next_out,                   \* next_out_
    silent,                     \* now_ms - last_inbound_ms_
    test_request_outstanding,   \* test_request_outstanding_
    queued,                     \* queued_: what release_queue reads of it
    released,                   \* released_
    out                         \* the Outcome the last call returned

vars == <<state, next_in, next_out, silent, test_request_outstanding,
          queued, released, out>>

State == {"Disconnected", "LogonSent", "Active", "Recovering", "LoggedOut"}
Live  == {"Active", "Recovering"}

Reject == {"None", "NotLoggedOn", "SequenceTooLow", "LogonSequenceTooLow",
           "ResetBackwards", "AlreadyLoggedOn"}

Flags == {"deliver", "queue", "drop", "send_heartbeat",
          "send_resend_request", "send_resend", "disconnect"}

(* What a held message keeps: the two fields release_queue looks at.       *)
Held == [seq: Nat, admin: Admin]

(* Outcome: the flags that are true, the reject, the range of our resend   *)
(* request and the range the peer wants replayed.                          *)
Outcome == [flags: SUBSET Flags, reject: Reject,
            resend: Nat \X Nat, replay: Nat \X Nat]

Result(flags, reject) == [flags |-> flags, reject |-> reject,
                          resend |-> <<0, 0>>, replay |-> <<0, 0>>]

Ranged(flags, resend, replay) == [flags |-> flags, reject |-> "None",
                                  resend |-> resend, replay |-> replay]

NoOutcome == Result({}, "None")
Drop      == Result({"drop"}, "None")

OrDefault(value, default) == IF value = 0 THEN default ELSE value

Heartbeat == OrDefault(HeartbeatMs, 30000)

Init ==
    /\ state = "Disconnected"
    /\ next_in = OrDefault(NextInboundSeq, 1)
    /\ next_out = OrDefault(NextOutboundSeq, 1)
    /\ silent \in 0..Heartbeat
    /\ test_request_outstanding = FALSE
    /\ queued = << >>
    /\ released = << >>
    /\ out = NoOutcome

-----------------------------------------------------------------------------
(* Positions I of the sequence s, in order: SelectSeq by position, without *)
(* recursion.                                                              *)
Rank(I, i) == Cardinality({j \in I : j <= i})

Pick(s, I) ==
    [k \in 1..Cardinality(I) |-> s[CHOOSE i \in I : Rank(I, i) = k]]

SeqsOf(q) == {q[i].seq : i \in DOMAIN q}

(* next_in_ when the loop of release_queue ends: the first sequence from n *)
(* on that no held message has.                                            *)
RunEnd(q, n) ==
    CHOOSE m \in n..(n + Len(q)) : /\ m \notin SeqsOf(q)
                                  /\ n..(m - 1) \subseteq SeqsOf(q)

(* The position the inner loop stops at for a sequence: its oldest copy.   *)
IsFirstCopy(q, i) == \A j \in 1..(i - 1) : q[j].seq # q[i].seq

FirstCopy(q, s) == CHOOSE i \in DOMAIN q : q[i].seq = s /\ IsFirstCopy(q, i)

(* Variant: one pass over the queue, in the order the messages arrived.    *)
TakenAsArrived(q, n) ==
    Pick(q, {i \in DOMAIN q : q[i].seq \in n..(RunEnd(q, n) - 1) /\ IsFirstCopy(q, i)})

(* The held messages the loop takes out, in the order it takes them, and   *)
(* the positions it leaves behind.                                         *)
Taken(q, n) == [k \in 1..(RunEnd(q, n) - n) |-> q[FirstCopy(q, n + k - 1)]]

Kept(q, n) == {i \in DOMAIN q :
                 ~(q[i].seq \in n..(RunEnd(q, n) - 1) /\ IsFirstCopy(q, i))}

AppPositions(s) == {k \in DOMAIN s : s[k].admin = "None"}

(* Variant: the loop ends without looking whether the queue is empty.      *)
ReleaseWithoutResuming(n) ==
    /\ next_in' = RunEnd(queued, n)
    /\ queued' = Pick(queued, Kept(queued, n))
    /\ released' = released \o Pick(Taken(queued, n),
                                    AppPositions(Taken(queued, n)))
    /\ UNCHANGED state

(* A queued administrative message is taken out without any effect.        *)
release_queue(n) ==
    /\ next_in' = RunEnd(queued, n)
    /\ queued' = Pick(queued, Kept(queued, n))
    /\ released' = released \o Pick(Taken(queued, n),
                                    AppPositions(Taken(queued, n)))
    /\ state' = IF queued' = << >> THEN "Active" ELSE "Recovering"

(* The tail of accept_in_sequence, with state st and next_in_ n.           *)
Settle(st, n) ==
    IF st = "Recovering"
    THEN release_queue(n)
    ELSE /\ state' = st
         /\ next_in' = n
         /\ UNCHANGED <<queued, released>>

-----------------------------------------------------------------------------
(* accept_in_sequence, one action per case of its switch.                  *)

InSequence(in, kind) ==
    /\ in.admin = kind
    /\ in.seq = next_in \/ (kind = "SequenceReset" /\ in.seq > next_in)
    /\ silent' = 0
    /\ test_request_outstanding' = FALSE
    /\ UNCHANGED next_out

(* Variant: a reset may also move next_in_ back.                           *)
AcceptAnyReset(in) ==
    /\ InSequence(in, "SequenceReset")
    /\ out' = Drop
    /\ Settle(state, in.new_seq)

AcceptReset(in) ==
    /\ InSequence(in, "SequenceReset")
    /\ in.new_seq > next_in
    /\ out' = Drop
    /\ Settle(state, in.new_seq)

RefuseReset(in) ==
    /\ InSequence(in, "SequenceReset")
    /\ in.new_seq <= next_in
    /\ out' = Result({"drop"}, "ResetBackwards")
    /\ UNCHANGED <<state, next_in, queued, released>>

AcceptTestRequest(in) ==
    /\ InSequence(in, "TestRequest")
    /\ out' = Result({"drop", "send_heartbeat"}, "None")
    /\ Settle(state, next_in + 1)

AcceptResendRequest(in) ==
    /\ InSequence(in, "ResendRequest")
    /\ out' = Ranged({"drop", "send_resend"}, <<0, 0>>,
                     <<in.resend_from, OrDefault(in.resend_to, next_out - 1)>>)
    /\ Settle(state, next_in + 1)

AcceptLogout(in) ==
    /\ InSequence(in, "Logout")
    /\ out' = Result({"drop", "disconnect"}, "None")
    /\ Settle("LoggedOut", next_in + 1)

AcceptHeartbeat(in) ==
    /\ InSequence(in, "Heartbeat")
    /\ out' = Drop
    /\ Settle(state, next_in + 1)

AcceptLogon(in) ==
    /\ InSequence(in, "Logon")
    /\ state \notin Live
    /\ out' = Drop
    /\ Settle("Active", next_in + 1)

(* A second logon takes its sequence but returns before the release.       *)
RefuseSecondLogon(in) ==
    /\ InSequence(in, "Logon")
    /\ state \in Live
    /\ out' = Result({"drop", "disconnect"}, "AlreadyLoggedOn")
    /\ next_in' = next_in + 1
    /\ UNCHANGED <<state, queued, released>>

AcceptApplication(in) ==
    /\ InSequence(in, "None")
    /\ state \in Live
    /\ out' = Result({"deliver"}, "None")
    /\ Settle(state, next_in + 1)

RefuseApplication(in) ==
    /\ InSequence(in, "None")
    /\ state \notin Live
    /\ out' = Result({"drop"}, "NotLoggedOn")
    /\ UNCHANGED <<state, next_in, queued, released>>

accept_in_sequence(in) ==
    \/ AcceptReset(in)
    \/ RefuseReset(in)
    \/ AcceptTestRequest(in)
    \/ AcceptResendRequest(in)
    \/ AcceptLogout(in)
    \/ AcceptHeartbeat(in)
    \/ AcceptLogon(in)
    \/ RefuseSecondLogon(in)
    \/ AcceptApplication(in)
    \/ RefuseApplication(in)

-----------------------------------------------------------------------------
(* on_message: the checks in front of accept_in_sequence.                  *)

NotLoggedOn(in) == state = "Disconnected" /\ in.admin # "Logon"

LogonBehind(in) == in.admin = "Logon" /\ in.seq < next_in /\ ~in.poss_dup

RefuseTraffic(in) ==
    /\ NotLoggedOn(in)
    /\ out' = Result({"drop"}, "NotLoggedOn")
    /\ UNCHANGED <<state, next_in, next_out, silent,
                   test_request_outstanding, queued, released>>

RefuseLogonBehind(in) ==
    /\ LogonBehind(in)
    /\ out' = Result({"drop", "disconnect"}, "LogonSequenceTooLow")
    /\ UNCHANGED <<state, next_in, next_out, silent,
                   test_request_outstanding, queued, released>>

(* Already processed: a marked duplicate is dropped, an unmarked one is a  *)
(* broken peer.  Neither clears test_request_outstanding_.                 *)
DropProcessed(in) ==
    /\ ~NotLoggedOn(in) /\ ~LogonBehind(in)
    /\ in.seq < next_in
    /\ silent' = 0
    /\ out' = IF in.poss_dup THEN Drop
              ELSE Result({"drop", "disconnect"}, "SequenceTooLow")
    /\ UNCHANGED <<state, next_in, next_out, test_request_outstanding,
                   queued, released>>

(* Variants of the gap: next_in_ follows the highest sequence seen; the    *)
(* request starts behind the first missing sequence; no request is sent.   *)
HoldAheadAndAdvance(in) ==
    /\ ~NotLoggedOn(in)
    /\ in.seq > next_in
    /\ in.admin # "SequenceReset"
    /\ Len(queued) < MaxQueued
    /\ silent' = 0
    /\ test_request_outstanding' = FALSE
    /\ state' = "Recovering"
    /\ next_in' = in.seq + 1
    /\ out' = Ranged({"queue", "send_resend_request"}, <<next_in, in.seq - 1>>, <<0, 0>>)
    /\ queued' = Append(queued, [seq |-> in.seq, admin |-> in.admin])
    /\ UNCHANGED <<next_out, released>>

HoldAheadAsking(in, flags, from) ==
    /\ ~NotLoggedOn(in)
    /\ in.seq > next_in
    /\ in.admin # "SequenceReset"
    /\ Len(queued) < MaxQueued
    /\ silent' = 0
    /\ test_request_outstanding' = FALSE
    /\ state' = "Recovering"
    /\ out' = IF state = "Recovering" THEN Result({"queue"}, "None")
              ELSE Ranged(flags, <<from, in.seq - 1>>, <<0, 0>>)
    /\ queued' = Append(queued, [seq |-> in.seq, admin |-> in.admin])
    /\ UNCHANGED <<next_in, next_out, released>>

HoldAheadOffByOne(in) ==
    HoldAheadAsking(in, {"queue", "send_resend_request"}, next_in + 1)

HoldAheadSilently(in) == HoldAheadAsking(in, {"queue"}, next_in)

(* A gap: only the first one asks for a resend.                            *)
HoldAhead(in) ==
    /\ ~NotLoggedOn(in)
    /\ in.seq > next_in
    /\ in.admin # "SequenceReset"
    /\ Len(queued) < MaxQueued
    /\ silent' = 0
    /\ test_request_outstanding' = FALSE
    /\ state' = "Recovering"
    /\ out' = IF state = "Recovering" THEN Result({"queue"}, "None")
              ELSE Ranged({"queue", "send_resend_request"},
                          <<next_in, in.seq - 1>>, <<0, 0>>)
    /\ queued' = Append(queued, [seq |-> in.seq, admin |-> in.admin])
    /\ UNCHANGED <<next_in, next_out, released>>

on_message(in) ==
    \/ RefuseTraffic(in)
    \/ RefuseLogonBehind(in)
    \/ DropProcessed(in)
    \/ HoldAhead(in)
    \/ ~NotLoggedOn(in) /\ accept_in_sequence(in)

-----------------------------------------------------------------------------
(* The other calls, and the clock.                                         *)

(* Variant: a new logon forgets what is held.                              *)
LogonForgettingHeld ==
    /\ next_out < MaxOut
    /\ state' = "LogonSent"
    /\ silent' = 0
    /\ test_request_outstanding' = FALSE
    /\ next_out' = next_out + 1
    /\ out' = NoOutcome
    /\ queued' = << >>
    /\ UNCHANGED <<next_in, released>>

begin_logon ==
    /\ next_out < MaxOut
    /\ state' = "LogonSent"
    /\ silent' = 0
    /\ test_request_outstanding' = FALSE
    /\ next_out' = next_out + 1
    /\ out' = NoOutcome
    /\ UNCHANGED <<next_in, queued, released>>

claim_outbound_seq ==
    /\ next_out < MaxOut
    /\ next_out' = next_out + 1
    /\ UNCHANGED <<state, next_in, silent, test_request_outstanding,
                   queued, released, out>>

take_released ==
    /\ released' = << >>
    /\ UNCHANGED <<state, next_in, next_out, silent,
                   test_request_outstanding, queued, out>>

Watched == state \in Live \cup {"LogonSent"}

ClockQuiet ==
    /\ ~Watched \/ silent < Heartbeat
    /\ out' = NoOutcome
    /\ UNCHANGED <<state, next_in, next_out, silent,
                   test_request_outstanding, queued, released>>

(* Variants: the silence is not restarted, or the question not remembered. *)
AskWithoutRestart ==
    /\ Watched /\ silent >= Heartbeat
    /\ ~test_request_outstanding
    /\ test_request_outstanding' = TRUE
    /\ out' = Result({"send_heartbeat"}, "None")
    /\ UNCHANGED <<state, next_in, next_out, silent, queued, released>>

AskAndForget ==
    /\ Watched /\ silent >= Heartbeat
    /\ ~test_request_outstanding
    /\ silent' = 0
    /\ out' = Result({"send_heartbeat"}, "None")
    /\ UNCHANGED <<state, next_in, next_out, test_request_outstanding,
                   queued, released>>

AskPeer ==
    /\ Watched /\ silent >= Heartbeat
    /\ ~test_request_outstanding
    /\ test_request_outstanding' = TRUE
    /\ silent' = 0
    /\ out' = Result({"send_heartbeat"}, "None")
    /\ UNCHANGED <<state, next_in, next_out, queued, released>>

DeclareDead ==
    /\ Watched /\ silent >= Heartbeat
    /\ test_request_outstanding
    /\ state' = "Disconnected"
    /\ out' = Result({"disconnect"}, "None")
    /\ UNCHANGED <<next_in, next_out, silent, test_request_outstanding,
                   queued, released>>

on_clock == ClockQuiet \/ AskPeer \/ DeclareDead

Tick ==
    /\ silent < Heartbeat
    /\ silent' = silent + 1
    /\ UNCHANGED <<state, next_in, next_out, test_request_outstanding,
                   queued, released, out>>

Receive == \E in \in Inputs : on_message(in)

Next ==
    \/ Receive
    \/ begin_logon
    \/ claim_outbound_seq
    \/ take_released
    \/ on_clock
    \/ Tick

Spec == Init /\ [][Next]_vars

-----------------------------------------------------------------------------
(* Every member has the type its declaration gives it.                     *)
TypeOK ==
    /\ state \in State
    /\ next_in \in Nat
    /\ next_out \in Nat \ {0}
    /\ silent \in 0..Heartbeat
    /\ test_request_outstanding \in BOOLEAN
    /\ queued \in Seq(Held)
    /\ released \in Seq(Held)
    /\ out \in Outcome

(* release_queue hands out application messages only, in sequence order,   *)
(* and only sequences that next_in_ has already passed: whatever gaps,     *)
(* resets and reconnects came before, the vector take_released returns is  *)
(* "oldest first" and nothing in it can be accepted a second time.         *)
ReleasedInOrder ==
    \A i \in DOMAIN released :
        /\ released[i].admin = "None"
        /\ released[i].seq < next_in
        /\ \A j \in 1..(i - 1) : released[j].seq < released[i].seq

(* Delivery is paused only while something is held: the session does not   *)
(* enter or stay in Recovering with an empty queue, so there is always a   *)
(* message whose release would end it.                                     *)
RecoveringHolds == state = "Recovering" => queued # << >>

(* next_in_ never moves back, and it moves past a sequence only because    *)
(* that sequence just arrived, was held, or a SequenceReset skipped it.    *)
SkipsNothing ==
    /\ next_in' >= next_in
    /\ \A s \in (next_in + 1)..(next_in' - 1) :
         \/ s \in SeqsOf(queued)
         \/ \E in \in Inputs : AcceptReset(in) /\ s < in.new_seq

NoSilentSkip == [][SkipsNothing]_vars

AppSeqs(q) == {q[i].seq : i \in AppPositions(q)}

(* A held application message leaves queued_ only by being released to the *)
(* caller: no path of on_message, the clock or a reconnect discards it.    *)
KeepsHeld == AppSeqs(queued) \subseteq AppSeqs(queued') \cup AppSeqs(released')

NothingHeldIsLost == [][KeepsHeld]_vars

=============================================================================
