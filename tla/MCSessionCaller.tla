-------------------------- MODULE MCSessionCaller --------------------------
(* A caller in front of a peer that may send any of the messages below.    *)
EXTENDS SessionCaller

CONSTANT MaxSeq   \* bound: the sequences the peer uses are 1..MaxSeq

Message(s, a) == [seq |-> s, admin |-> a, poss_dup |-> FALSE, new_seq |-> 0,
                  resend_from |-> 0, resend_to |-> 0]

Applications ==
    {[Message(s, "None") EXCEPT !.poss_dup = d] : s \in 1..MaxSeq, d \in BOOLEAN}

(* Forward past themselves, or back to 2.                                  *)
Resets ==
    {[Message(s, "SequenceReset") EXCEPT !.new_seq = n] : s \in 1..MaxSeq, n \in {2}}
    \cup {[Message(s, "SequenceReset") EXCEPT !.new_seq = s + 1] : s \in 1..MaxSeq}

(* Administrative messages; a resend request to 0 has no upper end.        *)
Administrative ==
    {Message(s, a) : s \in 1..MaxSeq, a \in {"Logon", "Heartbeat"}}
    \cup {Message(2, "Logout"), Message(2, "TestRequest"), Message(3, "Logout")}
    \cup {[Message(1, "Logon") EXCEPT !.poss_dup = TRUE]}
    \cup {[Message(2, "ResendRequest") EXCEPT !.resend_from = 1, !.resend_to = t] :
            t \in 0..1}

MCInputs == Applications \cup Resets \cup Administrative

=============================================================================
