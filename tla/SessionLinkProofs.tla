------------------------- MODULE SessionLinkProofs -------------------------
(***************************************************************************)
(* Theorems about the session, its caller and a peer that keeps the        *)
(* protocol, over a link that breaks any number of times or loses a frame: *)
(* nothing is stepped over, and a gap is always asked for.                 *)
(***************************************************************************)
EXTENDS SessionProofs

(* The inductive invariant of the link.  The peer's log begins with a      *)
(* logon and is never behind next_in_.                                     *)
LogOK ==
    /\ peer_log \in Seq(Traffic)
    /\ peer_up = TRUE => peer_log # << >>
    /\ peer_log # << >> => peer_log[1] = "Logon"
    /\ next_in \in 1..(Len(peer_log) + 1)

ConnectionOK ==
    /\ requests \in Seq(Nat \X Nat) /\ lost \in Nat /\ broken \in Nat
    /\ connected \in BOOLEAN /\ peer_up \in BOOLEAN
    /\ connected = FALSE => wire = << >> /\ requests = << >>
    /\ connected = FALSE /\ broken = 0 => next_in = 1

(* What is held was sent, is awaited, is held once, and is older than what *)
(* is still to arrive for the first time.                                  *)
HeldOK ==
    /\ \A k \in DOMAIN queued :
         /\ queued[k].seq \in DOMAIN peer_log /\ queued[k].admin = peer_log[queued[k].seq]
         /\ queued[k].seq > next_in
         /\ \A s \in FreshSeqs(wire) : queued[k].seq < s
         /\ \A j \in DOMAIN queued : queued[j].seq = queued[k].seq => j = k
    /\ state = "Active" => queued = << >>

(* A request starts at a sequence that was awaited and ends within the     *)
(* log; replays reach a session that is up.                                *)
ReplaysOK ==
    /\ \A r \in DOMAIN requests :
         /\ requests[r][1] \in 1..next_in /\ requests[r][2] \in DOMAIN peer_log
         /\ requests[r][1] <= requests[r][2]
    /\ requests # << >> => state \in Live
    /\ \A i \in DOMAIN wire : Marked(wire[i]) => state \in Live

(* Until something fails there is no gap: the wire holds what is awaited,  *)
(* and no replay.                                                          *)
Undisturbed ==
    lost = 0 /\ broken = 0 =>
        /\ requests = << >> /\ state # "Recovering"
        /\ \A i \in DOMAIN wire : Fresh(wire[i])
        /\ \A s \in FreshSeqs(wire) : s >= next_in
        /\ \A s \in next_in..Len(peer_log) : s \in FreshSeqs(wire)
        /\ state \notin Live => next_in = 1

(* While the session recovers, whatever it has not passed was requested,   *)
(* is held, or is to arrive for the first time.                            *)
Asked ==
    connected = TRUE /\ state = "Recovering" =>
        \A s \in next_in..Len(peer_log) :
            s \in requested \/ s \in SeqsOf(queued) \/ s \in FreshSeqs(wire)

LinkInv ==
    /\ CallerInv /\ LogOK /\ ConnectionOK /\ WireOK(wire, next_in, peer_log)
    /\ HeldOK /\ ReplaysOK /\ Undisturbed /\ Asked /\ PassedIsActed

ActedOn(s) == \E i \in DOMAIN acted : acted[i] = s

-----------------------------------------------------------------------------
(* What the arrival of the message at the head of the wire comes to: it is *)
(* skipped, held, or accepted, with nothing held or as the end of a gap.   *)
NoRequest == UNCHANGED <<requests, requested>>

Skipped(m) ==
    /\ UNCHANGED <<state, next_in, queued, released, acted>> /\ NoRequest
    /\ m.seq < next_in \/ (Fresh(m) /\ state \notin Live /\ m.admin # "Logon")

PutAside(m) ==
    /\ Fresh(m) /\ m.seq > next_in
    /\ state' = "Recovering"
    /\ queued' = Append(queued, [seq |-> m.seq, admin |-> m.admin])
    /\ IF state = "Recovering" THEN NoRequest
       ELSE /\ requests' = Append(requests, <<next_in, m.seq - 1>>)
            /\ requested' = requested \cup next_in..(m.seq - 1)
    /\ UNCHANGED <<next_in, released, acted>>

ActsOn(m) ==
    /\ \A s : ActedOn(s) => ActedOn(s)'
    /\ peer_log[m.seq] = "None" => ActedOn(m.seq)'

Accepted(m) ==
    /\ m.seq = next_in /\ ActsOn(m) /\ NoRequest
    /\ queued = << >> /\ state # "Recovering" /\ next_in' = next_in + 1
    /\ IF state \in Live \/ m.admin = "Logon" THEN state' = "Active" ELSE state' = state
    /\ UNCHANGED <<queued, released>>

ClosesGap(m) ==
    /\ m.seq = next_in /\ ActsOn(m) /\ NoRequest
    /\ Marked(m) /\ state = "Recovering"
    /\ release_queue(next_in + 1)

LEMMA HeadEffect ==
  ASSUME LinkInv, Arrives, NEW m, m = Head(wire)
  PROVE  Skipped(m) \/ PutAside(m) \/ Accepted(m) \/ ClosesGap(m)
<1>0. /\ next_in \in Nat /\ peer_log \in Seq(Traffic) /\ wire # << >> /\ Deliver(m)
      /\ WireOK(wire, next_in, peer_log) /\ CallerInv /\ HeldOK /\ ReplaysOK
  BY DEF LinkInv, LogOK, CallerInv, SessionInv, TypeOK, Arrives
<1>1. /\ m \in Inbound /\ Genuine(m, peer_log) /\ (Marked(m) => m.seq <= next_in)
      /\ Fresh(m) => m.seq \in FreshSeqs(wire)
  BY <1>0, WireTail
<1>2. /\ m.seq \in Nat /\ m.seq \in DOMAIN peer_log /\ peer_log[m.seq] \in Traffic
      /\ Fresh(m) \/ Marked(m)
  <2>1. m.seq \in Nat /\ (Fresh(m) \/ Marked(m))
    BY <1>1 DEF Inbound, Fresh, Marked
  <2>2. m.seq \in 1..Len(peer_log)
    BY <1>0, <1>1, LenProperties DEF Genuine
  <2> QED  BY <1>0, <1>1, <2>1, <2>2, ElementOfSeq DEF Genuine
<1>3. /\ Fresh(m) => m.admin = peer_log[m.seq]
      /\ Marked(m) => IF peer_log[m.seq] = "None" THEN m.admin = "None"
                      ELSE m.admin = "SequenceReset" /\ m.new_seq = m.seq + 1
  BY <1>1 DEF Genuine, Fresh, Marked
<1>4. Marked(m) => state \in Live
  <2>1. 1 \in DOMAIN wire /\ m = wire[1]
    <3>1. wire \in Seq(Inbound)
      BY <1>0 DEF WireOK
    <3> QED  BY <1>0, <3>1, EmptySeq, LenProperties
  <2> QED  BY <1>0, <2>1 DEF ReplaysOK
<1>5. Fresh(m) /\ m.seq = next_in => queued = << >>
  <2> SUFFICES ASSUME Fresh(m), m.seq = next_in, queued # << >> PROVE FALSE
    OBVIOUS
  <2>1. queued \in Seq(Held)
    BY <1>0 DEF CallerInv, SessionInv, TypeOK
  <2>2. 1 \in DOMAIN queued
    BY <2>1, EmptySeq, LenProperties
  <2>3. queued[1].seq \in Nat
    <3>1. queued[1] \in Held
      BY <2>1, <2>2, LenProperties, ElementOfSeq
    <3> QED  BY <3>1 DEF Held
  <2> QED  BY <1>0, <1>1, <2>2, <2>3 DEF HeldOK
<1>6. /\ state = "Recovering" => queued # << >>
      /\ state = "Active" => queued = << >>
  BY <1>0 DEF CallerInv, SessionInv, RecoveringHolds, HeldOK
<1>7. acted \in Seq(Nat)
  BY <1>0 DEF CallerInv
<1>8. ASSUME acted' = acted PROVE \A s : ActedOn(s) => ActedOn(s)'
  BY <1>8 DEF ActedOn
<1>9. ASSUME acted' = Append(acted, m.seq)
      PROVE  (\A s : ActedOn(s) => ActedOn(s)') /\ ActedOn(m.seq)'
  <2>1. /\ Len(acted) \in Nat /\ DOMAIN acted = 1..Len(acted)
        /\ DOMAIN acted' = 1..(Len(acted) + 1) /\ acted'[Len(acted) + 1] = m.seq
        /\ \A i \in 1..Len(acted) : acted'[i] = acted[i]
    BY <1>2, <1>7, <1>9, AppendProperties, LenProperties
  <2>2. \A i \in 1..Len(acted) : i \in 1..(Len(acted) + 1)
    BY <2>1
  <2>3. Len(acted) + 1 \in 1..(Len(acted) + 1)
    BY <2>1
  <2> QED  BY <2>1, <2>2, <2>3 DEF ActedOn
<1>10. /\ "deliver" \notin out'.flags => acted' = acted
       /\ "deliver" \in out'.flags => acted' = Append(acted, m.seq)
       /\ "send_resend_request" \notin out'.flags => NoRequest
       /\ "send_resend_request" \in out'.flags =>
            /\ requests' = Append(requests, out'.resend)
            /\ requested' = requested \cup out'.resend[1]..out'.resend[2]
  BY <1>0 DEF Arrives, Deliver, NoRequest
<1>11. on_message(m)
  BY <1>0 DEF Deliver
<1>12. CASE RefuseTraffic(m) \/ RefuseLogonBehind(m) \/ DropProcessed(m)
  <2>1. "deliver" \notin out'.flags /\ "send_resend_request" \notin out'.flags
    BY <1>12 DEF RefuseTraffic, RefuseLogonBehind, DropProcessed, Result, Drop
  <2>2. /\ UNCHANGED <<state, next_in, queued, released>>
        /\ m.seq < next_in \/ (state = "Disconnected" /\ m.admin # "Logon")
    BY <1>12 DEF RefuseTraffic, RefuseLogonBehind, DropProcessed, NotLoggedOn, LogonBehind
  <2>3. state = "Disconnected" => state \notin Live
    BY DEF Live
  <2> QED  BY <1>2, <1>4, <1>10, <2>1, <2>2, <2>3 DEF Skipped
<1>13. CASE HoldAhead(m)
  <2>1. /\ m.seq > next_in /\ state' = "Recovering"
        /\ queued' = Append(queued, [seq |-> m.seq, admin |-> m.admin])
        /\ UNCHANGED <<next_in, released>>
    BY <1>13 DEF HoldAhead
  <2>2. Fresh(m)
    BY <1>0, <1>1, <1>2, <2>1
  <2>3. CASE state = "Recovering"
    <3>1. "deliver" \notin out'.flags /\ "send_resend_request" \notin out'.flags
      BY <1>13, <2>3 DEF HoldAhead, Result
    <3> QED  BY <1>10, <2>1, <2>2, <2>3, <3>1 DEF PutAside
  <2>4. CASE state # "Recovering"
    <3>1. /\ "deliver" \notin out'.flags /\ "send_resend_request" \in out'.flags
          /\ out'.resend = <<next_in, m.seq - 1>>
      BY <1>13, <2>4 DEF HoldAhead, Ranged
    <3> QED  BY <1>10, <2>1, <2>2, <2>4, <3>1 DEF PutAside
  <2> QED  BY <2>3, <2>4
<1>14. CASE accept_in_sequence(m) /\ ~NotLoggedOn(m)
  <2>1. m.admin \in {"None", "Heartbeat", "Logon", "SequenceReset"}
    BY <1>2, <1>3 DEF Traffic
  <2>2. /\ m.admin = "SequenceReset" => Marked(m) /\ peer_log[m.seq] # "None"
        /\ m.admin \in {"Heartbeat", "Logon"} => Fresh(m) /\ peer_log[m.seq] # "None"
    BY <1>2, <1>3 DEF Traffic
  <2>3. ASSUME m.seq = next_in, state \in Live, Settle(state, next_in + 1), ActsOn(m),
               NoRequest
        PROVE  Accepted(m) \/ ClosesGap(m)
    <3>1. CASE state = "Recovering"
      BY <1>2, <1>5, <1>6, <2>3, <3>1 DEF Settle, ClosesGap
    <3>2. CASE state = "Active"
      BY <1>6, <2>3, <3>2 DEF Settle, Accepted
    <3> QED  BY <2>3, <3>1, <3>2 DEF Live
  <2>4. CASE AcceptReset(m)
    <3>1. m.admin = "SequenceReset" /\ m.seq >= next_in /\ Settle(state, m.new_seq)
          /\ "deliver" \notin out'.flags /\ "send_resend_request" \notin out'.flags
      BY <1>0, <1>2, <2>4 DEF AcceptReset, InSequence, Drop, Result
    <3>2. m.seq = next_in /\ m.new_seq = next_in + 1 /\ state \in Live
      BY <1>0, <1>1, <1>2, <1>3, <1>4, <2>2, <3>1
    <3>3. ActsOn(m) /\ NoRequest
      BY <1>8, <1>10, <2>2, <3>1 DEF ActsOn
    <3> QED  BY <2>3, <3>1, <3>2, <3>3
  <2>5. CASE RefuseReset(m)
    <3>1. m.admin = "SequenceReset" /\ m.seq >= next_in /\ m.new_seq <= next_in
      BY <1>0, <1>2, <2>5 DEF RefuseReset, InSequence
    <3> QED  BY <1>0, <1>2, <1>3, <2>2, <3>1, MarkedIsNotFresh
  <2>6. CASE AcceptHeartbeat(m)
    <3>1. m.admin = "Heartbeat" /\ m.seq = next_in /\ Settle(state, next_in + 1)
          /\ "deliver" \notin out'.flags /\ "send_resend_request" \notin out'.flags
      BY <2>6 DEF AcceptHeartbeat, InSequence, Drop, Result
    <3>2. ActsOn(m) /\ NoRequest
      BY <1>8, <1>10, <2>2, <3>1 DEF ActsOn
    <3>3. queued = << >> /\ state # "Recovering"
      BY <1>5, <1>6, <2>2, <3>1
    <3> QED  BY <2>3, <3>1, <3>2, <3>3 DEF Settle, Accepted
  <2>7. CASE AcceptLogon(m)
    <3>1. m.admin = "Logon" /\ m.seq = next_in /\ Settle("Active", next_in + 1)
          /\ "deliver" \notin out'.flags /\ "send_resend_request" \notin out'.flags
      BY <2>7 DEF AcceptLogon, InSequence, Drop, Result
    <3>2. ActsOn(m) /\ NoRequest
      BY <1>8, <1>10, <2>2, <3>1 DEF ActsOn
    <3>3. queued = << >> /\ state # "Recovering"
      BY <1>5, <1>6, <2>2, <3>1
    <3> QED  BY <3>1, <3>2, <3>3 DEF Settle, Accepted
  <2>8. CASE RefuseSecondLogon(m)
    <3>1. /\ m.admin = "Logon" /\ m.seq = next_in /\ state \in Live
          /\ next_in' = next_in + 1 /\ UNCHANGED <<state, queued, released>>
          /\ "deliver" \notin out'.flags /\ "send_resend_request" \notin out'.flags
      BY <2>8 DEF RefuseSecondLogon, InSequence, Result
    <3>2. ActsOn(m) /\ NoRequest
      BY <1>8, <1>10, <2>2, <3>1 DEF ActsOn
    <3>3. queued = << >> /\ state # "Recovering" /\ state = "Active"
      BY <1>5, <1>6, <2>2, <3>1 DEF Live
    <3> QED  BY <3>1, <3>2, <3>3 DEF Accepted
  <2>9. CASE AcceptApplication(m)
    <3>1. m.seq = next_in /\ state \in Live /\ Settle(state, next_in + 1)
          /\ "deliver" \in out'.flags /\ "send_resend_request" \notin out'.flags
      BY <2>9 DEF AcceptApplication, InSequence, Result
    <3>2. ActsOn(m) /\ NoRequest
      BY <1>9, <1>10, <3>1 DEF ActsOn
    <3> QED  BY <2>3, <3>1, <3>2
  <2>10. CASE RefuseApplication(m)
    <3>1. /\ m.admin = "None" /\ state \notin Live
          /\ UNCHANGED <<state, next_in, queued, released>>
          /\ "deliver" \notin out'.flags /\ "send_resend_request" \notin out'.flags
      BY <2>10 DEF RefuseApplication, InSequence, Result
    <3> QED  BY <1>2, <1>4, <1>10, <3>1 DEF Skipped
  <2>11. ~(AcceptTestRequest(m) \/ AcceptResendRequest(m) \/ AcceptLogout(m))
    BY <2>1 DEF AcceptTestRequest, AcceptResendRequest, AcceptLogout, InSequence
  <2> QED  BY <1>14, <2>4, <2>5, <2>6, <2>7, <2>8, <2>9, <2>10, <2>11 DEF accept_in_sequence
<1> QED  BY <1>11, <1>12, <1>13, <1>14 DEF on_message

(* What release_queue keeps, when nothing is held twice or behind n: the   *)
(* messages behind the end of the run.                                     *)
LEMMA ReleaseOnce ==
  ASSUME NEW q \in Seq(Held), NEW n \in Nat,
         \A j, k \in DOMAIN q : q[j].seq = q[k].seq => j = k,
         \A k \in DOMAIN q : q[k].seq >= n
  PROVE  LET p == Pick(q, Kept(q, n))
         IN /\ \A k \in DOMAIN p : /\ \E i \in DOMAIN q : p[k] = q[i]
                                   /\ p[k].seq > RunEnd(q, n)
                                   /\ \A j \in DOMAIN p : p[j].seq = p[k].seq => j = k
            /\ \A s \in SeqsOf(q) : s \in SeqsOf(p) \/ s \in n..(RunEnd(q, n) - 1)
<1> DEFINE K == Kept(q, n)
           p == Pick(q, K)
           e == RunEnd(q, n)
           C == Cardinality(K)
<1>1. /\ Len(q) \in Nat /\ DOMAIN q = 1..Len(q) /\ K \in SUBSET DOMAIN q
      /\ \A k \in DOMAIN q : q[k].seq \in Nat
  <2>1. \A k \in DOMAIN q : q[k] \in Held
    BY LenProperties, ElementOfSeq
  <2> QED  BY <2>1, LenProperties DEF Kept, Held
<1>2. /\ e \in Nat /\ e >= n /\ e \notin SeqsOf(q)
  BY <1>1, RunEndProps
<1>3. /\ p \in Seq(Held) /\ Len(p) = C /\ C \in Nat /\ ListsInOrder(p, q, K)
      /\ \A i \in K : \E k \in 1..C : p[k] = q[i]
  <2>1. K \in SUBSET DOMAIN q
    BY <1>1
  <2> HIDE DEF K
  <2> QED  BY <2>1, PickProps
<1>4. DOMAIN p = 1..C
  BY <1>3, LenProperties
<1>5. PICK f \in [1..C -> K] : /\ \A k \in 1..C : p[k] = q[f[k]]
                               /\ \A k, l \in 1..C : k < l => f[k] < f[l]
  BY <1>3, Zenon DEF ListsInOrder
<1>6. \A i \in DOMAIN q : IsFirstCopy(q, i)
  BY <1>1 DEF IsFirstCopy
<1>7. \A i \in DOMAIN q : i \in K <=> q[i].seq \notin n..(e - 1)
  BY <1>6 DEF Kept
<1>8. \A i \in K : i \in DOMAIN q /\ q[i].seq > e
  <2> SUFFICES ASSUME NEW i \in K PROVE q[i].seq > e
    BY <1>1
  <2>1. i \in DOMAIN q /\ q[i].seq \in Nat /\ q[i].seq >= n /\ q[i].seq \notin n..(e - 1)
    BY <1>1, <1>7
  <2>2. q[i].seq # e
    BY <1>2, <2>1 DEF SeqsOf
  <2> HIDE DEF K, e
  <2> QED  BY <1>2, <2>1, <2>2
<1> HIDE DEF p, K, C, e
<1>9. ASSUME NEW k \in 1..C, NEW j \in 1..C, p[j].seq = p[k].seq PROVE j = k
  <2>1. f[j] \in DOMAIN q /\ f[k] \in DOMAIN q /\ f[j] = f[k]
    BY <1>5, <1>8, <1>9
  <2>2. ~(j < k) /\ ~(k < j)
    BY <1>1, <1>5, <2>1
  <2> QED  BY <1>3, <2>2
<1>10. ASSUME NEW s \in SeqsOf(q), s \notin n..(e - 1) PROVE s \in SeqsOf(p)
  <2>1. PICK i \in DOMAIN q : q[i].seq = s
    BY DEF SeqsOf
  <2>2. PICK k \in 1..C : p[k] = q[i]
    BY <1>3, <1>7, <1>10, <2>1, Zenon
  <2> QED  BY <1>4, <2>1, <2>2 DEF SeqsOf
<1>11. \A k \in DOMAIN p : (\E i \in DOMAIN q : p[k] = q[i]) /\ p[k].seq > e
  BY <1>4, <1>5, <1>8
<1>12. /\ \A k \in DOMAIN p : /\ \E i \in DOMAIN q : p[k] = q[i]
                              /\ p[k].seq > e
                              /\ \A j \in DOMAIN p : p[j].seq = p[k].seq => j = k
       /\ \A s \in SeqsOf(q) : s \in SeqsOf(p) \/ s \in n..(e - 1)
  BY <1>4, <1>9, <1>10, <1>11
<1> QED  BY <1>12 DEF p, e, K

(* What every arrival has in common.                                       *)
LEMMA ArrivalFacts ==
  ASSUME LinkInv, Arrives, NEW m, m = Head(wire)
  PROVE  /\ CallerInv' /\ m \in Inbound /\ Genuine(m, peer_log)
         /\ m.seq \in 1..Len(peer_log) /\ Len(peer_log) \in Nat /\ next_in \in Nat
         /\ DOMAIN peer_log = 1..Len(peer_log)
         /\ next_in' \in Nat /\ next_in' >= next_in
         /\ AppSeqs(queued) \subseteq AppSeqs(queued') \cup AppSeqs(released')
         /\ Fresh(m) =>
              /\ m.seq \in FreshSeqs(wire)
              /\ FreshSeqs(wire') = FreshSeqs(wire) \ {m.seq}
              /\ \A s \in FreshSeqs(wire) : s >= m.seq
         /\ Marked(m) => FreshSeqs(wire') = FreshSeqs(wire)
         /\ \A i \in DOMAIN wire' : i + 1 \in DOMAIN wire /\ wire'[i] = wire[i + 1]
         /\ WireOK(wire', next_in', peer_log)
         /\ UNCHANGED <<peer_log, peer_up, connected, lost, broken>>
<1>1. /\ CallerInv /\ SessionInv /\ WireOK(wire, next_in, peer_log) /\ wire # << >>
      /\ wire' = Tail(wire) /\ Deliver(m) /\ peer_log \in Seq(Traffic) /\ next_in \in Nat
      /\ UNCHANGED <<peer_log, peer_up, connected, lost, broken>>
  BY DEF LinkInv, LogOK, CallerInv, SessionInv, TypeOK, Arrives, peer
<1>2. m \in Inbound /\ Genuine(m, peer_log) /\ (Marked(m) => m.seq <= next_in)
  BY <1>1, WireTail
<1>3. CallerInv' /\ SessionInv' /\ MessageEffect(m)
  BY <1>1, <1>2, DeliverInv, MessageInv DEF Deliver
<1>4. next_in' \in Nat /\ next_in' >= next_in
  BY <1>3 DEF MessageEffect, SessionInv, TypeOK
<1>5. Marked(m) /\ m.seq = next_in => next_in' > next_in
  <2>1. Skipped(m) \/ PutAside(m) \/ Accepted(m) \/ ClosesGap(m)
    BY HeadEffect
  <2>2. ASSUME ClosesGap(m) PROVE next_in' > next_in
    <3>1. queued \in Seq(Held) /\ next_in + 1 \in Nat /\ Len(queued) \in Nat
      BY <1>1, LenProperties DEF SessionInv, TypeOK
    <3>2. RunEnd(queued, next_in + 1) \in (next_in + 1)..(next_in + 1 + Len(queued))
      BY <3>1, RunEndProps
    <3>3. next_in' = RunEnd(queued, next_in + 1)
      BY <2>2 DEF ClosesGap, release_queue
    <3> QED  BY <1>1, <3>1, <3>2, <3>3
  <2>3. Accepted(m) => next_in' > next_in
    BY <1>1 DEF Accepted
  <2>4. Marked(m) /\ m.seq = next_in => ~Skipped(m) /\ ~PutAside(m)
    BY <1>1, MarkedIsNotFresh DEF Skipped, PutAside
  <2> QED  BY <2>1, <2>2, <2>3, <2>4
<1>6. /\ Fresh(m) => /\ m.seq \in FreshSeqs(wire)
                     /\ FreshSeqs(wire') = FreshSeqs(wire) \ {m.seq}
                     /\ \A s \in FreshSeqs(wire) : s >= m.seq
      /\ Marked(m) => FreshSeqs(wire') = FreshSeqs(wire)
      /\ WireOK(wire', next_in', peer_log)
  BY <1>1, <1>4, <1>5, WireTail
<1>7. /\ Len(peer_log) \in Nat /\ DOMAIN peer_log = 1..Len(peer_log)
      /\ m.seq \in 1..Len(peer_log)
  BY <1>1, <1>2, LenProperties DEF Genuine
<1>8. \A i \in DOMAIN wire' : i + 1 \in DOMAIN wire /\ wire'[i] = wire[i + 1]
  <2>1. /\ wire \in Seq(Inbound) /\ wire' \in Seq(Inbound) /\ Len(wire') = Len(wire) - 1
        /\ \A i \in 1..Len(wire') : wire'[i] = wire[i + 1]
    BY <1>1, HeadTailProperties DEF WireOK
  <2>2. DOMAIN wire = 1..Len(wire) /\ DOMAIN wire' = 1..Len(wire') /\ Len(wire) \in Nat
    BY <2>1, LenProperties
  <2> QED  BY <2>1, <2>2
<1>9. AppSeqs(queued) \subseteq AppSeqs(queued') \cup AppSeqs(released')
  BY <1>3 DEF MessageEffect
<1> QED  BY <1>1, <1>2, <1>3, <1>4, <1>6, <1>7, <1>8, <1>9

(* Before anything fails, the message that arrives is the awaited one.     *)
LEMMA UndisturbedHead ==
  ASSUME LinkInv, Arrives, NEW m, m = Head(wire), lost = 0, broken = 0
  PROVE  /\ Fresh(m) /\ m.seq = next_in /\ state # "Recovering"
         /\ state \notin Live => m.admin = "Logon"
<1>1. /\ m \in Inbound /\ Genuine(m, peer_log) /\ m.seq \in 1..Len(peer_log)
      /\ Len(peer_log) \in Nat /\ next_in \in Nat /\ peer_log \in Seq(Traffic)
      /\ Fresh(m) => /\ m.seq \in FreshSeqs(wire)
                     /\ \A s \in FreshSeqs(wire) : s >= m.seq
  BY ArrivalFacts, Zenon DEF LinkInv, LogOK
<1>2. /\ state # "Recovering" /\ \A i \in DOMAIN wire : Fresh(wire[i])
      /\ \A s \in FreshSeqs(wire) : s >= next_in
      /\ \A s \in next_in..Len(peer_log) : s \in FreshSeqs(wire)
      /\ state \notin Live => next_in = 1
  BY DEF LinkInv, Undisturbed
<1>3. 1 \in DOMAIN wire /\ m = wire[1]
  <2>1. wire \in Seq(Inbound) /\ wire # << >>
    BY DEF LinkInv, WireOK, Arrives
  <2> QED  BY <2>1, EmptySeq, LenProperties
<1>4. Fresh(m)
  BY <1>2, <1>3
<1>5. m.seq >= next_in
  BY <1>1, <1>2, <1>4
<1>6. next_in \in FreshSeqs(wire)
  BY <1>1, <1>2, <1>5
<1>7. m.seq = next_in
  BY <1>1, <1>4, <1>5, <1>6
<1>8. ASSUME state \notin Live PROVE m.admin = "Logon"
  <2>1. m.seq = 1 /\ peer_log # << >>
    BY <1>1, <1>2, <1>7, <1>8, EmptySeq
  <2>2. peer_log[1] = "Logon"
    BY <2>1 DEF LinkInv, LogOK
  <2> QED  BY <1>1, <1>4, <2>1, <2>2 DEF Genuine, Fresh
<1> QED  BY <1>2, <1>4, <1>7, <1>8

(* Each effect keeps the rest of the invariant.                            *)
LinkRest == LogOK /\ ConnectionOK /\ HeldOK /\ ReplaysOK /\ Undisturbed /\ Asked /\ PassedIsActed

LEMMA SkippedInv ==
  ASSUME LinkInv, Arrives, NEW m, m = Head(wire), Skipped(m)
  PROVE  LinkRest'
<1>1. /\ m.seq \in 1..Len(peer_log) /\ Len(peer_log) \in Nat /\ next_in \in Nat
      /\ Fresh(m) => FreshSeqs(wire') = FreshSeqs(wire) \ {m.seq}
      /\ Marked(m) => FreshSeqs(wire') = FreshSeqs(wire)
      /\ \A i \in DOMAIN wire' : i + 1 \in DOMAIN wire /\ wire'[i] = wire[i + 1]
      /\ UNCHANGED <<peer_log, peer_up, connected, lost, broken>> /\ m \in Inbound
  BY ArrivalFacts
<1>2. Fresh(m) \/ Marked(m)
  BY <1>1 DEF Inbound, Fresh, Marked
<1>3. /\ UNCHANGED <<state, next_in, queued, released, acted, requests, requested>>
      /\ m.seq < next_in \/ (state \notin Live /\ m.admin # "Logon")
  BY DEF Skipped, NoRequest
<1>4. /\ FreshSeqs(wire') \subseteq FreshSeqs(wire)
      /\ \A s \in FreshSeqs(wire) : s # m.seq => s \in FreshSeqs(wire')
  BY <1>1, <1>2
<1>5. LogOK'
  BY <1>1, <1>3 DEF LinkInv, LogOK
<1>6. ConnectionOK'
  BY <1>1, <1>3 DEF LinkInv, ConnectionOK, Arrives
<1>7. HeldOK'
  BY <1>1, <1>3, <1>4 DEF LinkInv, HeldOK
<1>8. ReplaysOK'
  BY <1>1, <1>3 DEF LinkInv, ReplaysOK
<1>9. Undisturbed'
  <2> SUFFICES ASSUME lost = 0, broken = 0 PROVE FALSE
    BY <1>1 DEF Undisturbed
  <2>1. m.seq = next_in /\ (state \notin Live => m.admin = "Logon")
    BY UndisturbedHead
  <2> QED  BY <1>1, <1>3, <2>1
<1>10. Asked'
  <2> SUFFICES ASSUME connected = TRUE, state = "Recovering", NEW s \in next_in..Len(peer_log)
               PROVE  s \in requested \/ s \in SeqsOf(queued) \/ s \in FreshSeqs(wire')
    BY <1>1, <1>3 DEF Asked
  <2>1. s \in requested \/ s \in SeqsOf(queued) \/ s \in FreshSeqs(wire)
    BY DEF LinkInv, Asked
  <2>2. s # m.seq
    BY <1>1, <1>3 DEF Live
  <2> QED  BY <1>4, <2>1, <2>2
<1>11. PassedIsActed'
  BY <1>1, <1>3 DEF LinkInv, PassedIsActed
<1> QED  BY <1>5, <1>6, <1>7, <1>8, <1>9, <1>10, <1>11 DEF LinkRest

LEMMA PutAsideInv ==
  ASSUME LinkInv, Arrives, NEW m, m = Head(wire), PutAside(m)
  PROVE  LinkRest'
<1>1. /\ m.seq \in 1..Len(peer_log) /\ Len(peer_log) \in Nat /\ next_in \in Nat
      /\ DOMAIN peer_log = 1..Len(peer_log)
      /\ Fresh(m) => /\ m.seq \in FreshSeqs(wire)
                     /\ FreshSeqs(wire') = FreshSeqs(wire) \ {m.seq}
                     /\ \A s \in FreshSeqs(wire) : s >= m.seq
      /\ UNCHANGED <<peer_log, peer_up, connected, lost, broken>>
      /\ m \in Inbound /\ Genuine(m, peer_log)
  BY ArrivalFacts
<1>2. /\ Fresh(m) /\ m.seq > next_in /\ state' = "Recovering"
      /\ queued' = Append(queued, [seq |-> m.seq, admin |-> m.admin])
      /\ state = "Recovering" => UNCHANGED <<requests, requested>>
      /\ state # "Recovering" => /\ requests' = Append(requests, <<next_in, m.seq - 1>>)
                                 /\ requested' = requested \cup next_in..(m.seq - 1)
      /\ UNCHANGED <<next_in, released, acted>>
  BY DEF PutAside, NoRequest
<1>3. m.admin = peer_log[m.seq] /\ m.admin \in Admin
  BY <1>1, <1>2 DEF Genuine, Inbound
<1>4. next_in >= 1 /\ m.seq - 1 \in Nat /\ m.seq - 1 \in 1..Len(peer_log) /\ next_in <= m.seq - 1
  <2>1. next_in >= 1
    BY DEF LinkInv, LogOK
  <2> QED  BY <1>1, <1>2, <2>1
<1> DEFINE x == [seq |-> m.seq, admin |-> m.admin]
           L == Len(queued)
<1>5. /\ L \in Nat /\ DOMAIN queued = 1..L /\ DOMAIN queued' = 1..(L + 1)
      /\ queued'[L + 1] = x /\ \A k \in 1..L : queued'[k] = queued[k]
      /\ \A k \in 1..L : queued[k].seq \in Nat
  <2>1. queued \in Seq(Held)
    BY DEF LinkInv, CallerInv, SessionInv, TypeOK
  <2>2. x \in Held
    BY <1>1, <1>3 DEF Held
  <2>3. \A k \in 1..L : queued[k] \in Held
    BY <2>1, ElementOfSeq
  <2>4. /\ L \in Nat /\ DOMAIN queued = 1..L
        /\ queued' \in Seq(Held) /\ Len(queued') = L + 1
        /\ queued'[L + 1] = x /\ \A k \in 1..L : queued'[k] = queued[k]
    BY <1>2, <2>1, <2>2, AppendProperties, LenProperties
  <2>5. DOMAIN queued' = 1..(L + 1)
    BY <2>4, LenProperties
  <2> QED  BY <2>3, <2>4, <2>5 DEF Held
<1>6. x.seq = m.seq /\ x.admin = m.admin
  OBVIOUS
<1> HIDE DEF x, L
<1>7. /\ \A k \in 1..(L + 1) : k \in 1..L \/ k = L + 1
      /\ \A k \in 1..L : k \in 1..(L + 1)
      /\ L + 1 \in 1..(L + 1)
  BY <1>5
<1>8. /\ SeqsOf(queued) \subseteq SeqsOf(queued') /\ m.seq \in SeqsOf(queued')
  BY <1>5, <1>6, <1>7 DEF SeqsOf
<1>9. LogOK'
  BY <1>1, <1>2 DEF LinkInv, LogOK
<1>10. \A k \in 1..L : /\ queued[k].seq \in DOMAIN peer_log
                       /\ queued[k].admin = peer_log[queued[k].seq]
                       /\ queued[k].seq > next_in
                       /\ \A s \in FreshSeqs(wire) : queued[k].seq < s
                       /\ \A j \in 1..L : queued[j].seq = queued[k].seq => j = k
  BY <1>5 DEF LinkInv, HeldOK
<1>11. \A k \in 1..L : queued[k].seq < m.seq /\ queued[k].seq # m.seq
  BY <1>1, <1>2, <1>5, <1>10
<1>12. \A s \in FreshSeqs(wire') : m.seq < s /\ s \in FreshSeqs(wire)
  <2>1. FreshSeqs(wire) \subseteq Nat
    <3>1. wire \in Seq(Inbound)
      BY DEF LinkInv, WireOK
    <3>2. \A i \in DOMAIN wire : wire[i] \in Inbound
      BY <3>1, LenProperties, ElementOfSeq
    <3> QED  BY <3>2 DEF FreshSeqs, Inbound
  <2> QED  BY <1>1, <1>2, <2>1
<1>13. HeldOK'
  <2> SUFFICES ASSUME NEW k \in 1..(L + 1)
               PROVE  /\ queued'[k].seq \in DOMAIN peer_log
                      /\ queued'[k].admin = peer_log[queued'[k].seq]
                      /\ queued'[k].seq > next_in
                      /\ \A s \in FreshSeqs(wire') : queued'[k].seq < s
                      /\ \A j \in 1..(L + 1) : queued'[j].seq = queued'[k].seq => j = k
    BY <1>1, <1>2, <1>5 DEF HeldOK
  <2>1. CASE k \in 1..L
    BY <1>5, <1>6, <1>7, <1>10, <1>11, <1>12, <2>1
  <2>2. CASE k = L + 1
    BY <1>1, <1>2, <1>3, <1>5, <1>6, <1>7, <1>11, <1>12, <2>2
  <2> QED  BY <1>7, <2>1, <2>2
<1>14. ASSUME state = "Recovering" PROVE ConnectionOK' /\ ReplaysOK' /\ Asked'
  <2>1. ConnectionOK'
    BY <1>1, <1>2, <1>14, Zenon DEF LinkInv, ConnectionOK, Arrives
  <2>2. ReplaysOK'
    BY <1>1, <1>2, <1>14 DEF LinkInv, ReplaysOK, Live
  <2>3. Asked'
    <3> SUFFICES ASSUME connected = TRUE, NEW s \in next_in..Len(peer_log)
                 PROVE  s \in requested \/ s \in SeqsOf(queued') \/ s \in FreshSeqs(wire')
      BY <1>1, <1>2, <1>14 DEF Asked
    <3>1. s \in requested \/ s \in SeqsOf(queued) \/ s \in FreshSeqs(wire)
      BY <1>14 DEF LinkInv, Asked
    <3> QED  BY <1>1, <1>2, <1>8, <3>1
  <2> QED  BY <2>1, <2>2, <2>3
<1>15. ASSUME state # "Recovering" PROVE ConnectionOK' /\ ReplaysOK' /\ Asked'
  <2> DEFINE r == <<next_in, m.seq - 1>>
             R == Len(requests)
  <2>1. requests \in Seq(Nat \X Nat) /\ r \in Nat \X Nat
    BY <1>1, <1>4 DEF LinkInv, ConnectionOK
  <2>2. /\ requests' \in Seq(Nat \X Nat) /\ Len(requests') = R + 1
        /\ R \in Nat /\ DOMAIN requests = 1..R
        /\ requests'[R + 1] = r /\ \A k \in 1..R : requests'[k] = requests[k]
    <3>1. requests' = Append(requests, r)
      BY <1>2, <1>15
    <3> HIDE DEF r
    <3> QED  BY <2>1, <3>1, AppendProperties, LenProperties
  <2>3. DOMAIN requests' = 1..(R + 1)
    BY <2>2, LenProperties
  <2>4. ConnectionOK'
    BY <1>1, <2>2 DEF LinkInv, ConnectionOK, Arrives
  <2>5. r[1] = next_in /\ r[2] = m.seq - 1
    OBVIOUS
  <2> HIDE DEF r, R
  <2>6. ReplaysOK'
    <3> SUFFICES ASSUME NEW k \in 1..(R + 1)
                 PROVE  /\ requests'[k][1] \in 1..next_in /\ requests'[k][2] \in DOMAIN peer_log
                        /\ requests'[k][1] <= requests'[k][2]
      BY <1>1, <1>2, <2>3 DEF ReplaysOK, Live
    <3>1. CASE k \in 1..R
      BY <2>2, <3>1 DEF LinkInv, ReplaysOK
    <3>2. CASE k = R + 1
      BY <1>1, <1>4, <2>2, <2>5, <3>2
    <3> QED  BY <2>2, <3>1, <3>2
  <2>7. Asked'
    <3> SUFFICES ASSUME NEW s \in next_in..Len(peer_log)
                 PROVE  s \in requested' \/ s \in SeqsOf(queued') \/ s \in FreshSeqs(wire')
      BY <1>1, <1>2 DEF Asked
    <3>1. CASE s < m.seq
      BY <1>1, <1>2, <1>15, <3>1
    <3>2. CASE s = m.seq
      BY <1>8, <3>2
    <3>3. CASE s > m.seq
      <4>1. s \in (m.seq + 1)..Len(peer_log)
        BY <1>1, <3>3
      <4>2. s \in FreshSeqs(wire)
        BY <1>1, <1>2, <4>1 DEF LinkInv, WireOK, FreshReach
      <4> QED  BY <1>1, <1>2, <3>3, <4>2
    <3> QED  BY <1>1, <3>1, <3>2, <3>3
  <2> QED  BY <2>4, <2>6, <2>7
<1>16. Undisturbed'
  <2> SUFFICES ASSUME lost = 0, broken = 0 PROVE FALSE
    BY <1>1 DEF Undisturbed
  <2>1. m.seq = next_in
    BY UndisturbedHead
  <2> QED  BY <1>1, <1>2, <2>1
<1>17. PassedIsActed'
  BY <1>1, <1>2 DEF LinkInv, PassedIsActed
<1> QED  BY <1>9, <1>13, <1>14, <1>15, <1>16, <1>17 DEF LinkRest

LEMMA AcceptedInv ==
  ASSUME LinkInv, Arrives, NEW m, m = Head(wire), Accepted(m)
  PROVE  LinkRest'
<1>1. /\ m.seq \in 1..Len(peer_log) /\ Len(peer_log) \in Nat /\ next_in \in Nat
      /\ DOMAIN peer_log = 1..Len(peer_log)
      /\ Fresh(m) => FreshSeqs(wire') = FreshSeqs(wire) \ {m.seq}
      /\ \A i \in DOMAIN wire' : i + 1 \in DOMAIN wire /\ wire'[i] = wire[i + 1]
      /\ UNCHANGED <<peer_log, peer_up, connected, lost, broken>>
  BY ArrivalFacts
<1>2. /\ m.seq = next_in /\ queued = << >> /\ state # "Recovering" /\ next_in' = next_in + 1
      /\ state \in Live \/ m.admin = "Logon" => state' = "Active"
      /\ ~(state \in Live \/ m.admin = "Logon") => state' = state
      /\ UNCHANGED <<queued, released, requests, requested>>
      /\ \A s : ActedOn(s) => ActedOn(s)'
      /\ peer_log[m.seq] = "None" => ActedOn(m.seq)'
  BY DEF Accepted, ActsOn, NoRequest
<1>3. LogOK'
  BY <1>1, <1>2 DEF LinkInv, LogOK
<1>4. ConnectionOK'
  BY <1>1, <1>2 DEF LinkInv, ConnectionOK, Arrives
<1>5. HeldOK'
  BY <1>2 DEF HeldOK
<1>6. ReplaysOK'
  <2>1. state \in Live => state' \in Live
    BY <1>2 DEF Live
  <2>2. \A k \in 1..next_in : k \in 1..next_in'
    BY <1>1, <1>2
  <2> QED  BY <1>1, <1>2, <2>1, <2>2 DEF LinkInv, ReplaysOK
<1>7. Undisturbed'
  <2> SUFFICES ASSUME lost = 0, broken = 0
               PROVE  /\ requests = << >> /\ state' # "Recovering"
                      /\ \A i \in DOMAIN wire' : Fresh(wire'[i])
                      /\ \A s \in FreshSeqs(wire') : s >= next_in'
                      /\ \A s \in next_in'..Len(peer_log) : s \in FreshSeqs(wire')
                      /\ state' \notin Live => next_in' = 1
    BY <1>1, <1>2 DEF Undisturbed
  <2>1. Fresh(m) /\ (state \notin Live => m.admin = "Logon")
    BY UndisturbedHead
  <2>2. state' = "Active"
    BY <1>2, <2>1
  <2>3. /\ requests = << >> /\ \A i \in DOMAIN wire : Fresh(wire[i])
        /\ \A s \in FreshSeqs(wire) : s >= next_in
        /\ \A s \in next_in..Len(peer_log) : s \in FreshSeqs(wire)
    BY DEF LinkInv, Undisturbed
  <2>4. FreshSeqs(wire) \subseteq Nat
    <3>1. wire \in Seq(Inbound)
      BY DEF LinkInv, WireOK
    <3>2. \A i \in DOMAIN wire : wire[i] \in Inbound
      BY <3>1, LenProperties, ElementOfSeq
    <3> QED  BY <3>2 DEF FreshSeqs, Inbound
  <2>5. \A s \in FreshSeqs(wire') : s >= next_in'
    BY <1>1, <1>2, <2>1, <2>3, <2>4
  <2>6. \A s \in next_in'..Len(peer_log) : s \in FreshSeqs(wire')
    BY <1>1, <1>2, <2>1, <2>3
  <2> QED  BY <1>1, <2>2, <2>3, <2>5, <2>6 DEF Live
<1>8. Asked'
  BY <1>2 DEF Asked
<1>9. PassedIsActed'
  <2> SUFFICES ASSUME NEW s \in 1..Len(peer_log), s < next_in', peer_log[s] = "None"
               PROVE  ActedOn(s)' \/ s \in SeqsOf(released')
    BY <1>1 DEF PassedIsActed, ActedOn
  <2>1. CASE s = next_in
    BY <1>2, <2>1
  <2>2. CASE s < next_in
    <3>1. ActedOn(s) \/ s \in SeqsOf(released)
      BY <1>1, <2>2 DEF LinkInv, PassedIsActed, ActedOn
    <3> QED  BY <1>2, <3>1
  <2> QED  BY <1>1, <1>2, <2>1, <2>2
<1> QED  BY <1>3, <1>4, <1>5, <1>6, <1>7, <1>8, <1>9 DEF LinkRest

LEMMA RunBounds ==
  ASSUME NEW a \in Nat, NEW b \in Nat, b >= a
  PROVE  /\ b > a + 1 => b - 1 \in (a + 1)..(b - 1)
         /\ \A s \in Int : s > a /\ s < b => s \in (a + 1)..(b - 1)
         /\ \A n \in Nat : \A s \in b..n : s \in a..n /\ s \notin (a + 1)..(b - 1)
  OBVIOUS

LEMMA ClosesGapInv ==
  ASSUME LinkInv, Arrives, NEW m, m = Head(wire), ClosesGap(m)
  PROVE  LinkRest'
<1>1. /\ m.seq \in 1..Len(peer_log) /\ Len(peer_log) \in Nat /\ next_in \in Nat
      /\ next_in' \in Nat /\ next_in' >= next_in
      /\ DOMAIN peer_log = 1..Len(peer_log)
      /\ AppSeqs(queued) \subseteq AppSeqs(queued') \cup AppSeqs(released')
      /\ Marked(m) => FreshSeqs(wire') = FreshSeqs(wire)
      /\ \A i \in DOMAIN wire' : i + 1 \in DOMAIN wire /\ wire'[i] = wire[i + 1]
      /\ UNCHANGED <<peer_log, peer_up, connected, lost, broken>>
  BY ArrivalFacts
<1>a. next_in \in Nat /\ next_in' \in Nat /\ next_in' >= next_in /\ Len(peer_log) \in Nat
  BY <1>1, Zenon
<1>2. /\ m.seq = next_in /\ Marked(m) /\ state = "Recovering"
      /\ next_in' = RunEnd(queued, next_in + 1)
      /\ queued' = Pick(queued, Kept(queued, next_in + 1))
      /\ state' = IF queued' = << >> THEN "Active" ELSE "Recovering"
      /\ UNCHANGED <<requests, requested>>
      /\ \A s : ActedOn(s) => ActedOn(s)'
      /\ peer_log[m.seq] = "None" => ActedOn(m.seq)'
  BY DEF ClosesGap, ActsOn, NoRequest, release_queue
<1>3. FreshSeqs(wire') = FreshSeqs(wire)
  BY <1>1, <1>2
<1>4. queued \in Seq(Held) /\ next_in + 1 \in Nat /\ \A k \in DOMAIN queued : queued[k].seq \in Nat
  <2>1. queued \in Seq(Held) /\ next_in + 1 \in Nat
    BY <1>1 DEF LinkInv, CallerInv, SessionInv, TypeOK
  <2>2. \A k \in DOMAIN queued : queued[k] \in Held
    BY <2>1, LenProperties, ElementOfSeq
  <2> QED  BY <2>1, <2>2 DEF Held
<1>5. \A k \in DOMAIN queued :
        /\ queued[k].seq \in DOMAIN peer_log /\ queued[k].admin = peer_log[queued[k].seq]
        /\ queued[k].seq > next_in
        /\ \A s \in FreshSeqs(wire) : queued[k].seq < s
        /\ \A j \in DOMAIN queued : queued[j].seq = queued[k].seq => j = k
  BY DEF LinkInv, HeldOK
<1>6. \A k \in DOMAIN queued : queued[k].seq >= next_in + 1
  BY <1>1, <1>4, <1>5
<1>7. /\ \A k \in DOMAIN queued' : /\ \E i \in DOMAIN queued : queued'[k] = queued[i]
                                   /\ queued'[k].seq > next_in'
                                   /\ \A j \in DOMAIN queued' :
                                        queued'[j].seq = queued'[k].seq => j = k
      /\ \A s \in SeqsOf(queued) :
           s \in SeqsOf(queued') \/ s \in (next_in + 1)..(next_in' - 1)
  BY <1>2, <1>4, <1>5, <1>6, ReleaseOnce
<1>8. (next_in + 1)..(next_in' - 1) \subseteq SeqsOf(queued)
  BY <1>2, <1>4, RunEndProps
<1>9. next_in' \in 1..(Len(peer_log) + 1) /\ next_in >= 1
  <2>1. next_in >= 1
    BY DEF LinkInv, LogOK
  <2>2. CASE next_in' <= next_in + 1
    BY <1>1, <1>2, <2>1, <2>2
  <2>3. CASE next_in' > next_in + 1
    <3>1. next_in' - 1 \in (next_in + 1)..(next_in' - 1)
      BY <1>a, <2>3, RunBounds, Zenon
    <3>2. next_in' - 1 \in SeqsOf(queued)
      BY <1>8, <3>1
    <3>3. next_in' - 1 \in 1..Len(peer_log)
      BY <1>1, <1>5, <3>2, Zenon DEF SeqsOf
    <3> QED  BY <1>1, <2>1, <3>3
  <2> QED  BY <1>1, <2>1, <2>2, <2>3
<1>10. state' \in Live
  BY <1>2 DEF Live
<1>11. LogOK'
  BY <1>1, <1>9 DEF LinkInv, LogOK
<1>12. ConnectionOK'
  BY <1>1, <1>2 DEF LinkInv, ConnectionOK, Arrives
<1>13. HeldOK'
  <2>1. state' = "Active" => queued' = << >>
    BY <1>2
  <2>2. ASSUME NEW k \in DOMAIN queued'
        PROVE  /\ queued'[k].seq \in DOMAIN peer_log
               /\ queued'[k].admin = peer_log[queued'[k].seq]
               /\ \A s \in FreshSeqs(wire) : queued'[k].seq < s
    BY <1>5, <1>7
  <2> QED  BY <1>1, <1>3, <1>7, <2>1, <2>2 DEF HeldOK
<1>14. ReplaysOK'
  <2>1. \A k \in 1..next_in : k \in 1..next_in'
    BY <1>1
  <2> QED  BY <1>1, <1>2, <1>10, <2>1 DEF LinkInv, ReplaysOK
<1>15. Undisturbed'
  BY <1>1, <1>2 DEF LinkInv, Undisturbed
<1>16. Asked'
  <2> SUFFICES ASSUME connected = TRUE, NEW s \in next_in'..Len(peer_log)
               PROVE  s \in requested \/ s \in SeqsOf(queued') \/ s \in FreshSeqs(wire')
    BY <1>1, <1>2 DEF Asked
  <2>1. s \in next_in..Len(peer_log) /\ s \notin (next_in + 1)..(next_in' - 1)
    BY <1>a, RunBounds, Zenon
  <2>2. s \in requested \/ s \in SeqsOf(queued) \/ s \in FreshSeqs(wire)
    BY <1>2, <2>1 DEF LinkInv, Asked
  <2> QED  BY <1>3, <1>7, <2>1, <2>2
<1>17. PassedIsActed'
  <2> SUFFICES ASSUME NEW s \in 1..Len(peer_log), s < next_in', peer_log[s] = "None"
               PROVE  ActedOn(s)' \/ s \in SeqsOf(released')
    BY <1>1 DEF PassedIsActed, ActedOn
  <2>1. CASE s = next_in
    BY <1>2, <2>1
  <2>2. CASE s < next_in
    <3>1. ActedOn(s) \/ s \in SeqsOf(released)
      BY <1>1, <2>2 DEF LinkInv, PassedIsActed, ActedOn
    <3>2. released = << >>
      BY DEF Arrives, Deliver, NothingToTake
    <3>3. s \notin SeqsOf(released)
      BY <3>2 DEF SeqsOf
    <3> QED  BY <1>2, <3>1, <3>3
  <2>3. CASE s > next_in
    <3>0. s \in Int
      OBVIOUS
    <3>1. s \in (next_in + 1)..(next_in' - 1)
      BY <1>a, <2>3, <3>0, RunBounds, Zenon
    <3>2. PICK k \in DOMAIN queued : queued[k].seq = s
      BY <1>8, <3>1 DEF SeqsOf
    <3>3. queued[k].admin = "None"
      BY <1>5, <3>2
    <3>4. s \in AppSeqs(queued)
      BY <3>2, <3>3 DEF AppSeqs, AppPositions
    <3>5. s \notin AppSeqs(queued')
      <4>1. \A j \in DOMAIN queued' : queued'[j].seq # s
        BY <1>1, <1>7
      <4> QED  BY <4>1 DEF AppSeqs, AppPositions
    <3>6. s \in AppSeqs(released')
      BY <1>1, <3>4, <3>5
    <3> QED  BY <3>6 DEF AppSeqs, AppPositions, SeqsOf
  <2> QED  BY <1>1, <2>1, <2>2, <2>3
<1> QED  BY <1>11, <1>12, <1>13, <1>14, <1>15, <1>16, <1>17 DEF LinkRest

LEMMA ArrivesInv ==
  ASSUME LinkInv, Arrives
  PROVE  LinkInv'
<1> DEFINE m == Head(wire)
<1>1. CallerInv' /\ WireOK(wire', next_in', peer_log) /\ peer_log' = peer_log
  BY ArrivalFacts, Zenon
<1>2. LinkRest'
  BY HeadEffect, SkippedInv, PutAsideInv, AcceptedInv, ClosesGapInv, Zenon
<1> QED  BY <1>1, <1>2, Zenon DEF LinkInv, LinkRest

-----------------------------------------------------------------------------
(* The other steps of the link.                                            *)
LEMMA WireEmpty == \A n, log : WireOK(<< >>, n, log) /\ FreshSeqs(<< >>) = {}
  BY EmptySeq DEF WireOK, FreshSeqs, FreshInOrder, FreshReach, ReplaysInOrder

LEMMA SameSession ==
  ASSUME LinkInv, UNCHANGED cvars
  PROVE  CallerInv' /\ UNCHANGED <<state, next_in, queued, released, acted>>
<1>1. UNCHANGED vars /\ UNCHANGED <<state, next_in, queued, released, acted>>
  BY DEF cvars, vars, history
<1>2. SessionInv'
  BY <1>1, OtherInv DEF LinkInv, CallerInv
<1> QED  BY <1>1, <1>2 DEF LinkInv, CallerInv, ActedInOrder, Increasing

LEMMA ConnectInv ==
  ASSUME LinkInv, Connect
  PROVE  LinkInv'
<1>1. /\ connected = FALSE /\ wire = << >> /\ requests = << >>
      /\ wire' = << >> /\ requests' = << >> /\ connected' = TRUE /\ peer_up' = FALSE
      /\ state' = "LogonSent"
      /\ UNCHANGED <<next_in, queued, released, acted, peer_log, lost, broken>>
  BY DEF LinkInv, ConnectionOK, Connect, begin_logon
<1>2. CallerInv'
  <2>1. SessionInv'
    BY OtherInv DEF LinkInv, CallerInv, Connect, Elsewhere
  <2> QED  BY <1>1, <2>1 DEF LinkInv, CallerInv, ActedInOrder, Increasing
<1>3. DOMAIN wire' = {} /\ DOMAIN requests' = {} /\ FreshSeqs(wire') = {} /\ FreshSeqs(wire) = {}
      /\ WireOK(wire', next_in', peer_log')
  BY <1>1, WireEmpty
<1>4. LogOK'
  BY <1>1 DEF LinkInv, LogOK
<1>5. ConnectionOK'
  BY <1>1, Zenon DEF LinkInv, ConnectionOK
<1>6. HeldOK'
  BY <1>1, <1>3 DEF LinkInv, HeldOK
<1>7. ReplaysOK'
  BY <1>1, <1>3 DEF ReplaysOK
<1>8. Undisturbed'
  BY <1>1, <1>3 DEF LinkInv, Undisturbed, ConnectionOK, Live
<1>9. Asked'
  BY <1>1 DEF Asked
<1>10. PassedIsActed'
  BY <1>1 DEF LinkInv, PassedIsActed
<1> QED  BY <1>2, <1>3, <1>4, <1>5, <1>6, <1>7, <1>8, <1>9, <1>10 DEF LinkInv

LEMMA PeerSendsInv ==
  ASSUME LinkInv, NEW kind \in Traffic, PeerSends(kind), connected = TRUE,
         peer_up' \in BOOLEAN, peer_log = << >> => kind = "Logon"
  PROVE  LinkInv'
<1>1. /\ UNCHANGED cvars /\ UNCHANGED <<requests, requested, connected, lost, broken>>
      /\ peer_log' = Append(peer_log, kind)
      /\ wire' = Append(wire, Plain(Len(peer_log) + 1, kind))
  BY DEF PeerSends
<1>2. CallerInv' /\ UNCHANGED <<state, next_in, queued, released, acted>>
  BY <1>1, SameSession
<1>3. /\ peer_log \in Seq(Traffic) /\ next_in \in Nat /\ next_in \in 1..(Len(peer_log) + 1)
      /\ WireOK(wire, next_in, peer_log)
  BY DEF LinkInv, LogOK, CallerInv, SessionInv, TypeOK
<1> DEFINE K == Len(peer_log)
<1>4. /\ FreshSeqs(wire') = FreshSeqs(wire) \cup {K + 1}
      /\ WireOK(wire', next_in', peer_log')
  BY <1>1, <1>2, <1>3, WireSend
<1>5. /\ K \in Nat /\ DOMAIN peer_log = 1..K /\ peer_log' \in Seq(Traffic)
      /\ Len(peer_log') = K + 1 /\ DOMAIN peer_log' = 1..(K + 1) /\ peer_log'[K + 1] = kind
      /\ \A s \in 1..K : peer_log'[s] = peer_log[s]
  BY <1>1, <1>3, AppendProperties, LenProperties
<1>6. ASSUME NEW i \in DOMAIN wire'
      PROVE  Fresh(wire'[i]) \/ (i \in DOMAIN wire /\ wire'[i] = wire[i])
  <2> DEFINE m == Plain(Len(peer_log) + 1, kind)
  <2>1. wire \in Seq(Inbound) /\ wire' \in Seq(Inbound)
    BY <1>3, <1>4 DEF WireOK
  <2>2. Fresh(m)
    BY DEF Plain, Fresh
  <2>3. wire' = Append(wire, m)
    BY <1>1
  <2> HIDE DEF m
  <2>4. /\ Len(wire) \in Nat /\ DOMAIN wire = 1..Len(wire) /\ DOMAIN wire' = 1..(Len(wire) + 1)
        /\ \A j \in 1..Len(wire) : wire'[j] = wire[j]
        /\ wire'[Len(wire) + 1] = m
    BY <2>1, <2>3, AppendProperties, LenProperties
  <2> QED  BY <2>2, <2>4
<1> HIDE DEF K
<1>7. LogOK'
  <2>1. K = 0 => peer_log = << >>
    BY <1>3, EmptySeq DEF K
  <2>2. peer_log' # << >>
    BY <1>5
  <2>3. peer_log'[1] = "Logon"
    BY <1>5, <2>1 DEF LinkInv, LogOK
  <2> QED  BY <1>2, <1>3, <1>5, <2>2, <2>3 DEF LogOK, K
<1>8. ConnectionOK'
  BY <1>1, <1>2 DEF LinkInv, ConnectionOK
<1>9. HeldOK'
  <2> SUFFICES ASSUME NEW k \in DOMAIN queued
               PROVE  /\ queued[k].seq \in DOMAIN peer_log'
                      /\ queued[k].admin = peer_log'[queued[k].seq]
                      /\ queued[k].seq < K + 1
    BY <1>2, <1>4 DEF LinkInv, HeldOK
  <2> QED  BY <1>5 DEF LinkInv, HeldOK
<1>10. ReplaysOK'
  <2>1. \A i \in DOMAIN wire' : Marked(wire'[i]) => state \in Live
    BY <1>6, MarkedIsNotFresh, Zenon DEF LinkInv, ReplaysOK
  <2>2. \A s \in DOMAIN peer_log : s \in DOMAIN peer_log'
    BY <1>5
  <2> QED  BY <1>1, <1>2, <2>1, <2>2, Zenon DEF LinkInv, ReplaysOK
<1>11. Undisturbed'
  <2> SUFFICES ASSUME lost = 0, broken = 0
               PROVE  /\ requests = << >> /\ state # "Recovering"
                      /\ \A i \in DOMAIN wire' : Fresh(wire'[i])
                      /\ \A s \in FreshSeqs(wire') : s >= next_in
                      /\ \A s \in next_in..(K + 1) : s \in FreshSeqs(wire')
                      /\ state \notin Live => next_in = 1
    BY <1>1, <1>2, <1>5 DEF Undisturbed
  <2>1. /\ requests = << >> /\ state # "Recovering"
        /\ \A i \in DOMAIN wire : Fresh(wire[i])
        /\ \A s \in FreshSeqs(wire) : s >= next_in
        /\ \A s \in next_in..K : s \in FreshSeqs(wire)
        /\ state \notin Live => next_in = 1
    BY DEF LinkInv, Undisturbed, K
  <2>2. \A i \in DOMAIN wire' : Fresh(wire'[i])
    BY <1>6, <2>1
  <2>3. K + 1 >= next_in
    BY <1>3 DEF K
  <2>4. \A s \in next_in..(K + 1) : s \in next_in..K \/ s = K + 1
    BY <1>3, <1>5
  <2> QED  BY <1>4, <2>1, <2>2, <2>3, <2>4
<1>12. Asked'
  <2> SUFFICES ASSUME state = "Recovering", NEW s \in next_in..(K + 1)
               PROVE  s \in requested \/ s \in SeqsOf(queued) \/ s \in FreshSeqs(wire')
    BY <1>1, <1>2, <1>5 DEF Asked
  <2>1. s \in next_in..K \/ s = K + 1
    BY <1>3, <1>5
  <2> QED  BY <1>4, <2>1 DEF LinkInv, Asked, K
<1>13. PassedIsActed'
  <2> SUFFICES ASSUME NEW s \in 1..(K + 1), s < next_in, peer_log'[s] = "None"
               PROVE  ActedOn(s) \/ s \in SeqsOf(released)
    BY <1>2, <1>5 DEF PassedIsActed, ActedOn
  <2>1. s \in 1..K
    BY <1>3, <1>5 DEF K
  <2> QED  BY <1>5, <2>1 DEF LinkInv, PassedIsActed, ActedOn
<1> QED  BY <1>2, <1>4, <1>7, <1>8, <1>9, <1>10, <1>11, <1>12, <1>13 DEF LinkInv

LEMMA PeerReplaysInv ==
  ASSUME LinkInv, PeerReplays
  PROVE  LinkInv'
<1>1. /\ requests # << >> /\ requests' = Tail(requests)
      /\ wire' = wire \o Replays(Head(requests)[1], Head(requests)[2])
      /\ UNCHANGED cvars
      /\ UNCHANGED <<peer_log, peer_up, requested, connected, lost, broken>>
  BY DEF PeerReplays, Replays, peer
<1>2. CallerInv' /\ UNCHANGED <<state, next_in, queued, released, acted>>
  BY <1>1, SameSession
<1>3. /\ requests \in Seq(Nat \X Nat) /\ peer_log \in Seq(Traffic) /\ next_in \in Nat
      /\ WireOK(wire, next_in, peer_log) /\ state \in Live
      /\ \A r \in DOMAIN requests :
           /\ requests[r][1] \in 1..next_in /\ requests[r][2] \in DOMAIN peer_log
           /\ requests[r][1] <= requests[r][2]
  BY <1>1 DEF LinkInv, LogOK, CallerInv, SessionInv, TypeOK, ConnectionOK, ReplaysOK
<1>4. /\ Tail(requests) \in Seq(Nat \X Nat) /\ 1 \in DOMAIN requests
      /\ Head(requests) = requests[1]
      /\ \A r \in DOMAIN Tail(requests) : r + 1 \in DOMAIN requests /\ Tail(requests)[r] = requests[r + 1]
  BY <1>1, <1>3, HeadTailProperties, LenProperties, EmptySeq
<1>5. /\ FreshSeqs(wire') = FreshSeqs(wire)
      /\ WireOK(wire', next_in', peer_log')
  <2>1. /\ Head(requests)[1] \in 1..next_in /\ Head(requests)[2] \in DOMAIN peer_log
        /\ Head(requests)[1] <= Head(requests)[2]
    BY <1>3, <1>4, Zenon
  <2>2. /\ FreshSeqs(wire \o Replays(Head(requests)[1], Head(requests)[2])) = FreshSeqs(wire)
        /\ WireOK(wire \o Replays(Head(requests)[1], Head(requests)[2]), next_in, peer_log)
    BY <1>3, <2>1, WireReplay, Zenon
  <2> QED  BY <1>1, <1>2, <2>2, Zenon
<1>6. LogOK'
  BY <1>1, <1>2 DEF LinkInv, LogOK
<1>7. ConnectionOK'
  BY <1>1, <1>2, <1>4 DEF LinkInv, ConnectionOK
<1>8. HeldOK'
  BY <1>1, <1>2, <1>5 DEF LinkInv, HeldOK
<1>9. ReplaysOK'
  BY <1>1, <1>2, <1>3, <1>4 DEF ReplaysOK
<1>10. Undisturbed'
  BY <1>1 DEF LinkInv, Undisturbed
<1>11. Asked'
  BY <1>1, <1>2, <1>5 DEF LinkInv, Asked
<1>12. PassedIsActed'
  BY <1>1, <1>2 DEF LinkInv, PassedIsActed
<1> QED  BY <1>2, <1>5, <1>6, <1>7, <1>8, <1>9, <1>10, <1>11, <1>12 DEF LinkInv

LEMMA TakesInv ==
  ASSUME LinkInv, Takes
  PROVE  LinkInv'
<1>1. /\ UNCHANGED <<state, next_in, queued>>
      /\ UNCHANGED <<peer_log, peer_up, wire, requests, requested, connected, lost, broken>>
      /\ CallerInv'
  BY TakeInv DEF LinkInv, Takes, TakeReleased, take_released, peer, link
<1> DEFINE t == [i \in DOMAIN released |-> released[i].seq]
<1>2. acted' = acted \o t
  BY DEF Takes, TakeReleased
<1>3. acted \in Seq(Nat) /\ released \in Seq(Held)
  BY DEF LinkInv, CallerInv, SessionInv, TypeOK
<1>4. t \in Seq(Nat) /\ DOMAIN t = DOMAIN released /\ \A i \in DOMAIN released : t[i] = released[i].seq
  <2>1. Len(released) \in Nat /\ DOMAIN released = 1..Len(released)
    BY <1>3, LenProperties
  <2>2. \A i \in 1..Len(released) : released[i] \in Held
    BY <1>3, ElementOfSeq
  <2>3. \A i \in DOMAIN released : released[i].seq \in Nat
    BY <2>1, <2>2 DEF Held
  <2> QED  BY <2>1, <2>3, IsASeq
<1> HIDE DEF t
<1>5. /\ \A i \in DOMAIN acted : i \in DOMAIN acted' /\ acted'[i] = acted[i]
      /\ \A i \in DOMAIN t : Len(acted) + i \in DOMAIN acted' /\ acted'[Len(acted) + i] = t[i]
  <2>1. /\ Len(acted) \in Nat /\ Len(t) \in Nat /\ DOMAIN acted = 1..Len(acted)
        /\ DOMAIN t = 1..Len(t)
    BY <1>3, <1>4, LenProperties
  <2>2. /\ Len(acted \o t) = Len(acted) + Len(t) /\ acted \o t \in Seq(Nat)
        /\ \A i \in 1..(Len(acted) + Len(t)) :
             (acted \o t)[i] = IF i <= Len(acted) THEN acted[i] ELSE t[i - Len(acted)]
    BY <1>3, <1>4, ConcatProperties, Zenon
  <2>3. DOMAIN acted' = 1..(Len(acted) + Len(t))
    BY <1>2, <2>2, LenProperties
  <2> QED  BY <1>2, <2>1, <2>2, <2>3
<1>6. PassedIsActed'
  <2> SUFFICES ASSUME NEW s \in DOMAIN peer_log, s < next_in, peer_log[s] = "None"
               PROVE  ActedOn(s)'
    BY <1>1 DEF PassedIsActed, ActedOn
  <2>1. CASE ActedOn(s)
    BY <1>5, <2>1, Zenon DEF ActedOn
  <2>2. CASE s \in SeqsOf(released)
    BY <1>4, <1>5, <2>2, Zenon DEF ActedOn, SeqsOf
  <2> QED  BY <2>1, <2>2 DEF LinkInv, PassedIsActed, ActedOn
<1>7. LogOK' /\ ConnectionOK' /\ HeldOK' /\ ReplaysOK'
  BY <1>1 DEF LinkInv, LogOK, ConnectionOK, HeldOK, ReplaysOK
<1>8. Undisturbed' /\ Asked' /\ WireOK(wire', next_in', peer_log')
  BY <1>1 DEF LinkInv, Undisturbed, Asked
<1> QED  BY <1>1, <1>6, <1>7, <1>8 DEF LinkInv

-----------------------------------------------------------------------------
(* The faults the link stands: any number of broken connections, or one    *)
(* lost frame and no broken connection.                                    *)
OneKindOfFault == \A f \in Faults : f[1] = 0 \/ (f[1] = 1 /\ f[2] = 0)

LEMMA LosesInv ==
  ASSUME LinkInv, Loses, OneKindOfFault
  PROVE  LinkInv'
<1>1. /\ wire # << >> /\ wire' = Tail(wire) /\ lost' = lost + 1 /\ MayFail(lost + 1, broken)
      /\ UNCHANGED cvars
      /\ UNCHANGED <<peer_log, peer_up, requests, requested, connected, broken>>
  BY DEF Loses, peer
<1>2. CallerInv' /\ UNCHANGED <<state, next_in, queued, released, acted>>
  BY <1>1, SameSession
<1>3. lost = 0 /\ broken = 0
  <2>1. PICK f \in Faults : lost + 1 <= f[1] /\ broken <= f[2]
    BY <1>1 DEF MayFail
  <2>2. f[1] = 0 \/ (f[1] = 1 /\ f[2] = 0)
    BY <2>1 DEF OneKindOfFault
  <2>3. lost \in Nat /\ broken \in Nat
    BY DEF LinkInv, ConnectionOK
  <2> QED  BY <2>1, <2>2, <2>3
<1>4. /\ requests = << >> /\ state # "Recovering" /\ \A i \in DOMAIN wire : Fresh(wire[i])
  BY <1>3 DEF LinkInv, Undisturbed
<1>5. /\ wire \in Seq(Inbound) /\ peer_log \in Seq(Traffic) /\ next_in \in Nat
      /\ WireOK(wire, next_in, peer_log)
  BY DEF LinkInv, LogOK, CallerInv, SessionInv, TypeOK, WireOK
<1>6. /\ 1 \in DOMAIN wire /\ Head(wire) = wire[1]
      /\ \A i \in DOMAIN wire' : i + 1 \in DOMAIN wire /\ wire'[i] = wire[i + 1]
  BY <1>1, <1>5, HeadTailProperties, LenProperties, EmptySeq
<1>7. Fresh(Head(wire)) /\ ~Marked(Head(wire))
  BY <1>4, <1>6, MarkedIsNotFresh
<1>8. /\ FreshSeqs(wire') = FreshSeqs(wire) \ {Head(wire).seq}
      /\ WireOK(wire', next_in', peer_log')
  <2>1. next_in >= next_in
    BY <1>5
  <2> QED  BY <1>1, <1>2, <1>5, <1>7, <2>1, WireTail
<1>9. LogOK'
  BY <1>1, <1>2 DEF LinkInv, LogOK
<1>10. ConnectionOK'
  BY <1>1, <1>2, <1>3 DEF LinkInv, ConnectionOK
<1>11. HeldOK'
  BY <1>1, <1>2, <1>8 DEF LinkInv, HeldOK
<1>12. ReplaysOK'
  BY <1>1, <1>2, <1>4, <1>6, MarkedIsNotFresh DEF LinkInv, ReplaysOK
<1>13. Undisturbed' /\ Asked'
  BY <1>1, <1>2, <1>3, <1>4 DEF Undisturbed, Asked
<1>14. PassedIsActed'
  BY <1>1, <1>2 DEF LinkInv, PassedIsActed
<1> QED  BY <1>2, <1>8, <1>9, <1>10, <1>11, <1>12, <1>13, <1>14 DEF LinkInv

LEMMA BreaksInv ==
  ASSUME LinkInv, Breaks
  PROVE  LinkInv'
<1>1. /\ connected' = FALSE /\ wire' = << >> /\ requests' = << >> /\ broken' = broken + 1
      /\ UNCHANGED cvars /\ UNCHANGED <<peer_log, peer_up, requested, lost>>
  BY DEF Breaks, peer
<1>2. CallerInv' /\ UNCHANGED <<state, next_in, queued, released, acted>>
  BY <1>1, SameSession
<1>3. DOMAIN wire' = {} /\ DOMAIN requests' = {} /\ FreshSeqs(wire') = {}
      /\ WireOK(wire', next_in', peer_log')
  BY <1>1, WireEmpty
<1>4. broken' \in Nat /\ broken' # 0
  BY <1>1 DEF LinkInv, ConnectionOK
<1>5. LogOK'
  BY <1>1, <1>2 DEF LinkInv, LogOK
<1>6. ConnectionOK'
  BY <1>1, <1>4, EmptySeq, Zenon DEF LinkInv, ConnectionOK
<1>7. HeldOK'
  BY <1>1, <1>2, <1>3 DEF LinkInv, HeldOK
<1>8. ReplaysOK'
  BY <1>1, <1>3, Zenon DEF ReplaysOK
<1>9. Undisturbed' /\ Asked'
  BY <1>1, <1>4 DEF Undisturbed, Asked
<1>10. PassedIsActed'
  BY <1>1, <1>2 DEF LinkInv, PassedIsActed
<1> QED  BY <1>2, <1>3, <1>5, <1>6, <1>7, <1>8, <1>9, <1>10 DEF LinkInv

LEMMA LinkStep ==
  ASSUME LinkInv, [LinkNext]_lvars, OneKindOfFault
  PROVE  LinkInv'
<1>1. CASE PeerLogon
  <2>1. "Logon" \in Traffic /\ PeerSends("Logon") /\ connected = TRUE /\ peer_up' \in BOOLEAN
    BY <1>1 DEF PeerLogon, Traffic, LinkInv, ConnectionOK
  <2> QED  BY <2>1, PeerSendsInv
<1>2. CASE PeerTraffic
  <2>1. PICK kind \in {"None", "Heartbeat"} : PeerSends(kind)
    BY <1>2 DEF PeerTraffic
  <2>2. kind \in Traffic /\ connected = TRUE /\ peer_up' \in BOOLEAN /\ peer_log # << >>
    BY <1>2 DEF PeerTraffic, Traffic, LinkInv, ConnectionOK, LogOK
  <2> QED  BY <2>1, <2>2, PeerSendsInv
<1>3. CASE UNCHANGED lvars
  <2>1. UNCHANGED cvars
        /\ UNCHANGED <<peer_log, peer_up, wire, requests, requested, connected, lost, broken>>
    BY <1>3 DEF lvars, peer, link
  <2>2. CallerInv' /\ UNCHANGED <<state, next_in, queued, released, acted>>
    BY <2>1, SameSession
  <2>3. LogOK' /\ ConnectionOK' /\ HeldOK' /\ ReplaysOK'
    BY <2>1, <2>2, Zenon DEF LinkInv, LogOK, ConnectionOK, HeldOK, ReplaysOK
  <2>4. Undisturbed' /\ Asked' /\ PassedIsActed' /\ WireOK(wire', next_in', peer_log')
    BY <2>1, <2>2 DEF LinkInv, Undisturbed, Asked, PassedIsActed
  <2> QED  BY <2>2, <2>3, <2>4 DEF LinkInv
<1> QED  BY <1>1, <1>2, <1>3, ConnectInv, PeerReplaysInv, ArrivesInv, TakesInv, LosesInv,
            BreaksInv DEF LinkNext

LEMMA LinkInitInv ==
  ASSUME LinkInit, NextInboundSeq \in {0, 1}
  PROVE  LinkInv
<1>1. CallerInv
  BY InitInv, EmptySeq DEF LinkInit, CallerInit, CallerInv, ActedInOrder, Increasing
<1>2. next_in = 1 /\ queued = << >> /\ state = "Disconnected"
  BY DEF LinkInit, CallerInit, Init, OrDefault
<1>3. /\ peer_log = << >> /\ wire = << >> /\ requests = << >> /\ connected = FALSE
      /\ peer_up = FALSE /\ lost = 0 /\ broken = 0
  BY DEF LinkInit
<1>4. WireOK(wire, next_in, peer_log) /\ FreshSeqs(wire) = {} /\ Len(peer_log) = 0
  BY <1>3, WireEmpty, EmptySeq
<1>5. LogOK /\ ConnectionOK
  <2>1. peer_log \in Seq(Traffic) /\ requests \in Seq(Nat \X Nat)
    BY <1>3, EmptySeq, Zenon
  <2>2. next_in \in 1..(Len(peer_log) + 1) /\ lost \in Nat /\ broken \in Nat
    BY <1>2, <1>3, <1>4
  <2>3. LogOK
    BY <1>3, <2>1, <2>2, Zenon DEF LogOK
  <2> QED  BY <1>2, <1>3, <2>1, <2>2, <2>3, Zenon DEF ConnectionOK
<1>6. HeldOK /\ ReplaysOK /\ Asked /\ PassedIsActed
  <2>1. DOMAIN queued = {} /\ DOMAIN requests = {} /\ DOMAIN wire = {} /\ DOMAIN peer_log = {}
    BY <1>2, <1>3
  <2>2. HeldOK
    BY <1>2, <2>1, Zenon DEF HeldOK
  <2>3. ReplaysOK
    BY <1>3, <2>1, Zenon DEF ReplaysOK
  <2>4. Asked
    BY <1>2 DEF Asked
  <2>5. PassedIsActed
    BY <2>1, Zenon DEF PassedIsActed
  <2> QED  BY <2>2, <2>3, <2>4, <2>5
<1>7. Undisturbed
  BY <1>2, <1>3, <1>4 DEF Undisturbed
<1> QED  BY <1>1, <1>4, <1>5, <1>6, <1>7 DEF LinkInv

LEMMA GapWasRequested ==
  ASSUME LinkInv, connected, state = "Recovering"
  PROVE  next_in \in requested
<1>1. /\ connected = TRUE /\ queued # << >> /\ next_in \in Nat /\ queued \in Seq(Held)
      /\ peer_log \in Seq(Traffic)
  BY DEF LinkInv, ConnectionOK, CallerInv, SessionInv, TypeOK, RecoveringHolds, LogOK
<1>2. 1 \in DOMAIN queued
  BY <1>1, LenProperties, EmptySeq
<1>3. Len(peer_log) \in Nat /\ DOMAIN peer_log = 1..Len(peer_log)
  BY <1>1, LenProperties
<1>4. /\ queued[1].seq \in 1..Len(peer_log) /\ queued[1].seq > next_in
      /\ \A s \in FreshSeqs(wire) : queued[1].seq < s
      /\ \A k \in DOMAIN queued : queued[k].seq > next_in
  BY <1>2, <1>3 DEF LinkInv, HeldOK
<1>5. next_in \in next_in..Len(peer_log)
  BY <1>1, <1>3, <1>4
<1>6. next_in \notin SeqsOf(queued)
  <2>1. \A k \in DOMAIN queued : queued[k].seq # next_in
    BY <1>1, <1>4
  <2> QED  BY <2>1, Zenon DEF SeqsOf
<1>7. next_in \notin FreshSeqs(wire)
  <2> SUFFICES ASSUME next_in \in FreshSeqs(wire) PROVE FALSE
    OBVIOUS
  <2>1. queued[1].seq < next_in
    BY <1>4
  <2> QED  BY <1>1, <1>3, <1>4, <2>1
<1> QED  BY <1>1, <1>5, <1>6, <1>7 DEF LinkInv, Asked

LEMMA LinkSafety ==
  ASSUME OneKindOfFault, NextInboundSeq \in {0, 1}
  PROVE  LinkSpec => []LinkInv
<1>1. LinkInit => LinkInv
  BY LinkInitInv
<1>2. LinkInv /\ [LinkNext]_lvars => LinkInv'
  BY LinkStep
<1> QED  BY <1>1, <1>2, PTL DEF LinkSpec

(* Over a link that breaks any number of times, or that loses one frame,   *)
(* to a peer that keeps the protocol and numbers from one, next_in_ never  *)
(* passes an application message that the caller has not acted on or been  *)
(* handed by release_queue.                                                *)
THEOREM LinkPassesNothing ==
  ASSUME OneKindOfFault, NextInboundSeq \in {0, 1}
  PROVE  LinkSpec => []PassedIsActed
<1>1. LinkInv => PassedIsActed
  BY DEF LinkInv
<1> QED  BY <1>1, LinkSafety, PTL

(* Over the same links, while delivery is paused the sequence the session  *)
(* waits for has been requested in the present connection.                 *)
THEOREM LinkRequestsGap ==
  ASSUME OneKindOfFault, NextInboundSeq \in {0, 1}
  PROVE  LinkSpec => []RecoveringWasRequested
<1>1. LinkInv => RecoveringWasRequested
  BY GapWasRequested DEF RecoveringWasRequested
<1> QED  BY <1>1, LinkSafety, PTL

=============================================================================
