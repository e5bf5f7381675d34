--------------------------- MODULE SessionProofs ----------------------------
(***************************************************************************)
(* Theorems about the session and about the session with its caller, for   *)
(* every configuration and every set of inbound messages.  First come the  *)
(* lemmas about what may be on the wire between the peer and the session,  *)
(* which SessionLinkProofs uses, and the lemmas about the operators on     *)
(* held messages: which of them a call of release_queue takes, in which    *)
(* order, and what stays.                                                  *)
(***************************************************************************)
EXTENDS SessionLink, FiniteSetTheorems, SequenceTheorems, TLAPS

(* What may be on the wire.  A message is either sent for the first time   *)
(* or marked as a replay.                                                  *)
Traffic == {"None", "Heartbeat", "Logon"}

Fresh(m)  == m.poss_dup = FALSE
Marked(m) == m.poss_dup = TRUE

Genuine(m, log) ==
    /\ m.seq \in DOMAIN log
    /\ Fresh(m) => m.admin = log[m.seq]
    /\ Marked(m) => IF log[m.seq] = "None" THEN m.admin = "None"
                            ELSE m.admin = "SequenceReset" /\ m.new_seq = m.seq + 1

FreshSeqs(w) == {w[i].seq : i \in {j \in DOMAIN w : Fresh(w[j])}}

FreshInOrder(w) ==
    \A i, j \in DOMAIN w :
        i < j /\ Fresh(w[i]) /\ Fresh(w[j]) => w[i].seq < w[j].seq

FreshReach(w, last) == \A s \in FreshSeqs(w) : \A t \in (s + 1)..last : t \in FreshSeqs(w)

(* A replay is not ahead of what is awaited, n, unless the replay of the   *)
(* sequence in front of it comes before it.                                *)
ReplaysInOrder(w, n) ==
    \A i \in DOMAIN w : Marked(w[i]) =>
        \/ w[i].seq <= n
        \/ \E j \in 1..(i - 1) : Marked(w[j]) /\ w[j].seq = w[i].seq - 1

WireOK(w, n, log) ==
    /\ w \in Seq(Inbound)
    /\ \A i \in DOMAIN w : Genuine(w[i], log)
    /\ FreshInOrder(w)
    /\ FreshReach(w, Len(log))
    /\ ReplaysInOrder(w, n)

LEMMA MarkedIsNotFresh == \A m : ~(Fresh(m) /\ Marked(m))
BY DEF Fresh, Marked

(* The head of the wire leaves it.                                         *)
LEMMA WireTail ==
  ASSUME NEW log \in Seq(Traffic), NEW w, NEW n \in Nat, NEW m \in Nat,
         WireOK(w, n, log), w # << >>, m >= n,
         Marked(Head(w)) /\ Head(w).seq = n => m > n
  PROVE  /\ Head(w) \in Inbound /\ Genuine(Head(w), log)
         /\ Marked(Head(w)) => Head(w).seq <= n
         /\ Fresh(Head(w)) =>
              /\ Head(w).seq \in FreshSeqs(w)
              /\ FreshSeqs(Tail(w)) = FreshSeqs(w) \ {Head(w).seq}
              /\ \A s \in FreshSeqs(w) : s >= Head(w).seq
         /\ Marked(Head(w)) => FreshSeqs(Tail(w)) = FreshSeqs(w)
         /\ WireOK(Tail(w), m, log)
<1> DEFINE h == Head(w)
           u == Tail(w)
           L == Len(w)
<1>1. /\ w \in Seq(Inbound) /\ L \in Nat \ {0} /\ DOMAIN w = 1..L
      /\ \A i \in 1..L : w[i] \in Inbound
  BY LenProperties, ElementOfSeq, EmptySeq DEF WireOK
<1>2. /\ h = w[1] /\ u \in Seq(Inbound) /\ DOMAIN u = 1..(L - 1)
      /\ \A i \in 1..(L - 1) : u[i] = w[i + 1]
  BY <1>1, HeadTailProperties, LenProperties
<1>3. \A i \in 1..L : w[i].seq \in Nat /\ (Fresh(w[i]) \/ Marked(w[i]))
  BY <1>1 DEF Inbound, Fresh, Marked
<1>3a. Marked(h) /\ h.seq = n => m > n
  OBVIOUS
<1> HIDE DEF h, u, L
<1>4. h \in Inbound /\ Genuine(h, log) /\ 1 \in 1..L
  <2>1. 1 \in 1..L
    BY <1>1
  <2> QED  BY <1>1, <1>2, <2>1 DEF WireOK
<1>5. Marked(h) => h.seq <= n
  <2>1. Marked(h) =>
          h.seq <= n \/ \E j \in 1..(1 - 1) : Marked(w[j]) /\ w[j].seq = h.seq - 1
    BY <1>1, <1>2, <1>4 DEF WireOK, ReplaysInOrder
  <2>2. 1..(1 - 1) = {}
    OBVIOUS
  <2> QED  BY <2>1, <2>2
<1>6. \A s : s \in FreshSeqs(w) <=> \E i \in 1..L : Fresh(w[i]) /\ w[i].seq = s
  BY <1>1 DEF FreshSeqs
<1>7. \A s : s \in FreshSeqs(u) <=>
             \E i \in 1..(L - 1) : Fresh(w[i + 1]) /\ w[i + 1].seq = s
  BY <1>2 DEF FreshSeqs
<1>8. \A i \in 2..L : i - 1 \in 1..(L - 1) /\ (i - 1) + 1 = i
  BY <1>1
<1>9. \A i \in 1..(L - 1) : i + 1 \in 2..L /\ i + 1 \in 1..L /\ 1 < i + 1
  BY <1>1
<1>10. \A s : s \in FreshSeqs(u) <=> \E i \in 2..L : Fresh(w[i]) /\ w[i].seq = s
  BY <1>7, <1>8, <1>9
<1>11. \A i \in 1..L : i = 1 \/ i \in 2..L
  BY <1>1
<1>12. \A i \in 2..L : i \in 1..L /\ 1 < i
  BY <1>1
<1>13. FreshInOrder(w) /\ FreshReach(w, Len(log)) /\ ReplaysInOrder(w, n)
  BY DEF WireOK
<1>14. ASSUME Fresh(h)
       PROVE  /\ h.seq \in FreshSeqs(w)
              /\ FreshSeqs(u) = FreshSeqs(w) \ {h.seq}
              /\ \A s \in FreshSeqs(w) : s >= h.seq
  <2>1. \A i \in 2..L : Fresh(w[i]) => h.seq < w[i].seq
    BY <1>1, <1>2, <1>4, <1>12, <1>13, <1>14 DEF FreshInOrder
  <2>2. h.seq \in FreshSeqs(w)
    BY <1>2, <1>4, <1>6, <1>14
  <2>3. \A i \in 2..L : Fresh(w[i]) => w[i].seq # h.seq /\ w[i].seq >= h.seq
    BY <1>2, <1>3, <1>4, <1>12, <2>1
  <2>4. FreshSeqs(u) = FreshSeqs(w) \ {h.seq}
    BY <1>2, <1>6, <1>10, <1>11, <1>12, <2>3
  <2>5. \A s \in FreshSeqs(w) : s >= h.seq
    BY <1>2, <1>3, <1>4, <1>6, <1>11, <2>3
  <2> QED  BY <2>2, <2>4, <2>5
<1>15. Marked(h) => FreshSeqs(u) = FreshSeqs(w)
  <2> SUFFICES ASSUME Marked(h) PROVE FreshSeqs(u) = FreshSeqs(w)
    OBVIOUS
  <2>1. \A s : s \in FreshSeqs(w) => s \in FreshSeqs(u)
    BY <1>2, <1>6, <1>10, <1>11, MarkedIsNotFresh
  <2>2. \A s : s \in FreshSeqs(u) => s \in FreshSeqs(w)
    BY <1>6, <1>10, <1>12
  <2> QED  BY <2>1, <2>2, Zenon
<1>16. FreshSeqs(w) \subseteq Nat /\ h.seq \in Nat /\ (Fresh(h) \/ Marked(h))
  BY <1>2, <1>3, <1>4, <1>6
<1>17. \A i \in DOMAIN u : Genuine(u[i], log)
  BY <1>1, <1>2, <1>9 DEF WireOK
<1>18. FreshInOrder(u)
  <2>1. \A i, j \in 1..(L - 1) : i < j => i + 1 < j + 1
    BY <1>1
  <2> QED  BY <1>1, <1>2, <1>9, <1>13, <2>1, Zenon DEF FreshInOrder
<1>19. FreshReach(u, Len(log))
  <2> SUFFICES ASSUME NEW s \in FreshSeqs(u), NEW t \in (s + 1)..Len(log)
               PROVE  t \in FreshSeqs(u)
    BY DEF FreshReach
  <2>0. Len(log) \in Nat
    BY LenProperties
  <2>1. s \in FreshSeqs(w) /\ t \in FreshSeqs(w)
    BY <1>13, <1>14, <1>15, <1>16 DEF FreshReach
  <2>2. CASE Fresh(h)
    <3>1. h.seq <= s /\ FreshSeqs(u) = FreshSeqs(w) \ {h.seq}
      BY <1>14, <1>16, <2>1, <2>2
    <3>2. t # h.seq
      BY <1>16, <2>0, <2>1, <3>1
    <3> QED  BY <2>1, <3>1, <3>2
  <2> QED  BY <1>15, <1>16, <2>1, <2>2
<1>20. ReplaysInOrder(u, m)
  <2> SUFFICES ASSUME NEW i \in 1..(L - 1), Marked(u[i]), ~(u[i].seq <= m)
               PROVE  \E j \in 1..(i - 1) : Marked(u[j]) /\ u[j].seq = u[i].seq - 1
    BY <1>2 DEF ReplaysInOrder
  <2>1. i + 1 \in 1..L /\ u[i] = w[i + 1] /\ u[i].seq \in Nat
    BY <1>2, <1>3, <1>9
  <2>2. ~(w[i + 1].seq <= n)
    BY <2>1
  <2>3. PICK j \in 1..((i + 1) - 1) : Marked(w[j]) /\ w[j].seq = w[i + 1].seq - 1
    BY <1>1, <1>13, <2>1, <2>2 DEF ReplaysInOrder
  <2>4. j # 1
    <3>1. ASSUME j = 1 PROVE FALSE
      <4>1. Marked(h) /\ h.seq = u[i].seq - 1
        BY <1>2, <2>1, <2>3, <3>1
      <4> QED  BY <1>3a, <1>5, <1>16, <2>1, <4>1
    <3> QED  BY <3>1
  <2>5. j - 1 \in 1..(i - 1) /\ j - 1 \in 1..(L - 1) /\ (j - 1) + 1 = j
    BY <1>1, <2>3, <2>4
  <2> QED  BY <1>2, <2>1, <2>3, <2>5
<1>21. WireOK(u, m, log)
  BY <1>2, <1>17, <1>18, <1>19, <1>20 DEF WireOK
<1> QED  BY <1>4, <1>5, <1>14, <1>15, <1>21 DEF h, u

(* The peer sends a message for the first time.                            *)
LEMMA WireSend ==
  ASSUME NEW log \in Seq(Traffic), NEW w, NEW n \in Nat, NEW kind \in Traffic,
         WireOK(w, n, log)
  PROVE  /\ FreshSeqs(Append(w, Plain(Len(log) + 1, kind))) = FreshSeqs(w) \cup {Len(log) + 1}
         /\ WireOK(Append(w, Plain(Len(log) + 1, kind)), n, Append(log, kind))
<1> DEFINE K == Len(log)
           m == Plain(K + 1, kind)
           u == Append(w, m)
           L == Len(w)
           g == Append(log, kind)
<1>1. /\ w \in Seq(Inbound) /\ L \in Nat /\ DOMAIN w = 1..L
      /\ \A i \in 1..L : w[i] \in Inbound
  BY LenProperties, ElementOfSeq DEF WireOK
<1>2. /\ K \in Nat /\ DOMAIN log = 1..K /\ DOMAIN g = 1..(K + 1) /\ g \in Seq(Traffic)
      /\ Len(g) = K + 1 /\ g[K + 1] = kind /\ \A s \in 1..K : g[s] = log[s]
  BY LenProperties, AppendProperties
<1>3. /\ m \in Inbound /\ m.seq = K + 1 /\ m.admin = kind /\ Fresh(m)
  BY <1>2 DEF Plain, Inbound, Traffic, Admin, Fresh
<1> HIDE DEF m
<1>4. /\ u \in Seq(Inbound) /\ DOMAIN u = 1..(L + 1) /\ u[L + 1] = m
      /\ \A i \in 1..L : u[i] = w[i]
  BY <1>1, <1>3, LenProperties, AppendProperties
<1>5. \A i \in 1..L : w[i].seq \in 1..K
  BY <1>1, <1>2 DEF WireOK, Genuine
<1> HIDE DEF u, L, K, g
<1>6. /\ \A i \in 1..(L + 1) : i \in 1..L \/ i = L + 1
      /\ \A i \in 1..L : i \in 1..(L + 1) /\ i < L + 1 /\ ~(L + 1 < i)
      /\ L + 1 \in 1..(L + 1) /\ ~(L + 1 < L + 1)
  BY <1>1
<1>7. \A s : s \in FreshSeqs(w) <=> \E i \in 1..L : Fresh(w[i]) /\ w[i].seq = s
  BY <1>1 DEF FreshSeqs
<1>8. \A s : s \in FreshSeqs(u) <=> \E i \in 1..(L + 1) : Fresh(u[i]) /\ u[i].seq = s
  BY <1>4 DEF FreshSeqs
<1>9. \A s : s \in FreshSeqs(u) <=> s \in FreshSeqs(w) \/ s = K + 1
  <2>1. ASSUME NEW s \in FreshSeqs(u) PROVE s \in FreshSeqs(w) \/ s = K + 1
    <3>1. PICK i \in 1..(L + 1) : Fresh(u[i]) /\ u[i].seq = s
      BY <1>8
    <3> QED  BY <1>3, <1>4, <1>6, <1>7, <3>1
  <2>2. ASSUME NEW s \in FreshSeqs(w) PROVE s \in FreshSeqs(u)
    <3>1. PICK i \in 1..L : Fresh(w[i]) /\ w[i].seq = s
      BY <1>7
    <3> QED  BY <1>4, <1>6, <1>8, <3>1
  <2>3. K + 1 \in FreshSeqs(u)
    BY <1>3, <1>4, <1>6, <1>8
  <2> QED  BY <2>1, <2>2, <2>3
<1>10. FreshSeqs(u) = FreshSeqs(w) \cup {K + 1}
  BY <1>9
<1>11. \A i \in DOMAIN u : Genuine(u[i], g)
  <2>1. ASSUME NEW i \in 1..L PROVE Genuine(u[i], g)
    <3>1. Genuine(w[i], log) /\ w[i].seq \in 1..K
      BY <1>1, <1>5 DEF WireOK
    <3>2. w[i].seq \in DOMAIN g /\ g[w[i].seq] = log[w[i].seq] /\ u[i] = w[i]
      BY <1>2, <1>4, <3>1
    <3> QED  BY <3>1, <3>2 DEF Genuine
  <2>2. Genuine(m, g)
    <3>1. K + 1 \in DOMAIN g
      BY <1>2
    <3> QED  BY <1>2, <1>3, <3>1, MarkedIsNotFresh DEF Genuine
  <2> QED  BY <1>4, <1>6, <2>1, <2>2
<1>12. FreshInOrder(u)
  <2>1. \A i \in 1..L : w[i].seq < K + 1
    BY <1>2, <1>5
  <2>2. FreshInOrder(w)
    BY DEF WireOK
  <2> QED  BY <1>1, <1>3, <1>4, <1>6, <2>1, <2>2 DEF FreshInOrder
<1>13. FreshReach(u, K + 1)
  <2> SUFFICES ASSUME NEW s \in FreshSeqs(u), NEW t \in (s + 1)..(K + 1), t # K + 1
               PROVE  t \in FreshSeqs(w)
    BY <1>9 DEF FreshReach
  <2>1. FreshSeqs(w) \subseteq 1..K
    BY <1>5, <1>7
  <2>2. s \in FreshSeqs(w)
    BY <1>2, <1>9
  <2>3. t \in (s + 1)..K
    BY <1>2, <2>1, <2>2
  <2>4. FreshReach(w, K)
    BY DEF WireOK, K
  <2> QED  BY <2>2, <2>3, <2>4 DEF FreshReach
<1>14. ReplaysInOrder(u, n)
  <2> SUFFICES ASSUME NEW i \in 1..L, Marked(w[i]), ~(w[i].seq <= n)
               PROVE  \E j \in 1..(i - 1) : Marked(u[j]) /\ u[j].seq = w[i].seq - 1
    BY <1>3, <1>4, <1>6, MarkedIsNotFresh DEF ReplaysInOrder
  <2>1. PICK j \in 1..(i - 1) : Marked(w[j]) /\ w[j].seq = w[i].seq - 1
    BY <1>1 DEF ReplaysInOrder, WireOK
  <2>2. j \in 1..L
    BY <1>1, <2>1
  <2> QED  BY <1>4, <2>1, <2>2
<1>15. WireOK(u, n, g)
  BY <1>2, <1>4, <1>11, <1>12, <1>13, <1>14 DEF WireOK
<1> QED  BY <1>10, <1>15 DEF u, m, K, g

(* What the peer sends in answer to a request: the replays from one        *)
(* sequence to another.                                                    *)
Replays(from, to) == [k \in 1..(to - from + 1) |-> Replayed(from + k - 1)]

LEMMA WireReplay ==
  ASSUME NEW w, NEW n \in Nat, WireOK(w, n, peer_log), peer_log \in Seq(Traffic),
         NEW from \in 1..n, NEW to \in DOMAIN peer_log, from <= to
  PROVE  /\ FreshSeqs(w \o Replays(from, to)) = FreshSeqs(w)
         /\ WireOK(w \o Replays(from, to), n, peer_log)
<1> DEFINE r == Replays(from, to)
           u == w \o r
           L == Len(w)
           M == to - from + 1
<1>1. /\ w \in Seq(Inbound) /\ L \in Nat /\ DOMAIN w = 1..L
      /\ \A i \in 1..L : w[i] \in Inbound
  BY LenProperties, ElementOfSeq DEF WireOK
<1>2. to \in 1..Len(peer_log) /\ Len(peer_log) \in Nat /\ DOMAIN peer_log = 1..Len(peer_log)
  BY LenProperties
<1>3. M \in Nat /\ from \in Nat /\ to \in Nat
  BY <1>2
<1>4. \A k \in 1..M : /\ from + k - 1 \in Nat /\ from + k - 1 \in DOMAIN peer_log
                      /\ r[k] = Replayed(from + k - 1)
  BY <1>2, <1>3 DEF Replays
<1>5. ASSUME NEW s \in Nat, s \in DOMAIN peer_log
      PROVE  LET m == Replayed(s)
             IN m \in Inbound /\ m.seq = s /\ Marked(m) /\ Genuine(m, peer_log)
  <2>1. s + 1 \in Nat
    OBVIOUS
  <2>2. CASE peer_log[s] = "None"
    <3>1. Replayed(s) = [seq |-> s, admin |-> "None", poss_dup |-> TRUE, new_seq |-> 0,
                         resend_from |-> 0, resend_to |-> 0]
      BY <2>2, Zenon DEF Replayed, Plain
    <3>2. /\ Replayed(s) \in Inbound /\ Replayed(s).seq = s /\ Marked(Replayed(s))
          /\ Replayed(s).admin = "None"
      BY <3>1 DEF Inbound, Admin, Marked
    <3> QED  BY <1>5, <2>2, <3>2, MarkedIsNotFresh DEF Genuine
  <2>3. CASE peer_log[s] # "None"
    <3>1. Replayed(s) = [seq |-> s, admin |-> "SequenceReset", poss_dup |-> TRUE,
                         new_seq |-> s + 1, resend_from |-> 0, resend_to |-> 0]
      BY <2>3, Zenon DEF Replayed, Plain
    <3>2. /\ Replayed(s) \in Inbound /\ Replayed(s).seq = s /\ Marked(Replayed(s))
          /\ Replayed(s).admin = "SequenceReset" /\ Replayed(s).new_seq = s + 1
      BY <2>1, <3>1 DEF Inbound, Admin, Marked
    <3> QED  BY <1>5, <2>3, <3>2, MarkedIsNotFresh DEF Genuine
  <2> QED  BY <2>2, <2>3
<1>6. \A k \in 1..M : /\ r[k] \in Inbound /\ r[k].seq = from + k - 1 /\ Marked(r[k])
                      /\ Genuine(r[k], peer_log)
  BY <1>4, <1>5, Zenon
<1>7. r \in Seq(Inbound) /\ Len(r) = M
  <2>1. r \in [1..M -> Inbound]
    BY <1>6 DEF Replays
  <2>2. r \in Seq(Inbound)
    BY <1>3, <2>1
  <2> QED  BY <1>3, <2>1, <2>2, LenProperties
<1> HIDE DEF r
<1>8. /\ u \in Seq(Inbound) /\ DOMAIN u = 1..(L + M) /\ \A i \in 1..L : u[i] = w[i]
      /\ \A k \in 1..M : u[L + k] = r[k]
  <2>1. /\ u \in Seq(Inbound) /\ Len(u) = L + M
        /\ \A i \in 1..(L + M) : u[i] = IF i <= L THEN w[i] ELSE r[i - L]
    <3>1. /\ w \o r \in Seq(Inbound) /\ Len(w \o r) = Len(w) + Len(r)
          /\ \A i \in 1..(Len(w) + Len(r)) :
               (w \o r)[i] = IF i <= Len(w) THEN w[i] ELSE r[i - Len(w)]
      BY <1>1, <1>7, ConcatProperties, Zenon
    <3> QED  BY <1>7, <3>1, Zenon
  <2>2. DOMAIN u = 1..(L + M)
    BY <2>1, LenProperties
  <2> HIDE DEF u, L, M
  <2>3. ASSUME NEW i \in 1..L PROVE u[i] = w[i]
    BY <1>1, <1>3, <2>1
  <2>4. ASSUME NEW k \in 1..M PROVE u[L + k] = r[k]
    <3>1. L + k \in 1..(L + M) /\ ~(L + k <= L) /\ (L + k) - L = k
      BY <1>1, <1>3
    <3> QED  BY <2>1, <3>1
  <2> QED  BY <2>1, <2>2, <2>3, <2>4
<1> HIDE DEF u, L, M
<1>9. \A i \in 1..(L + M) : i \in 1..L \/ \E k \in 1..M : i = L + k
  <2> SUFFICES ASSUME NEW i \in 1..(L + M), ~(i \in 1..L) PROVE \E k \in 1..M : i = L + k
    OBVIOUS
  <2>1. i - L \in 1..M /\ i = L + (i - L)
    BY <1>1, <1>3
  <2> QED  BY <2>1
<1>10. \A i \in 1..L : i \in 1..(L + M)
  BY <1>1, <1>3
<1>11. \A k \in 1..M : ~Fresh(u[L + k])
  BY <1>6, <1>8, MarkedIsNotFresh
<1>12. FreshSeqs(u) = FreshSeqs(w)
  <2>1. \A s : s \in FreshSeqs(w) <=> \E i \in 1..L : Fresh(w[i]) /\ w[i].seq = s
    BY <1>1 DEF FreshSeqs
  <2>2. \A s : s \in FreshSeqs(u) <=> \E i \in 1..(L + M) : Fresh(u[i]) /\ u[i].seq = s
    BY <1>8 DEF FreshSeqs
  <2>3. \A s : s \in FreshSeqs(u) => s \in FreshSeqs(w)
    BY <1>8, <1>9, <1>11, <2>1, <2>2
  <2>4. \A s : s \in FreshSeqs(w) => s \in FreshSeqs(u)
    BY <1>8, <1>10, <2>1, <2>2
  <2> QED  BY <2>3, <2>4, Zenon
<1>13. \A i \in DOMAIN u : Genuine(u[i], peer_log)
  BY <1>1, <1>6, <1>8, <1>9 DEF WireOK
<1>14. FreshInOrder(u)
  <2>1. FreshInOrder(w)
    BY DEF WireOK
  <2> QED  BY <1>1, <1>8, <1>9, <1>11, <2>1 DEF FreshInOrder
<1>15. FreshReach(u, Len(peer_log))
  BY <1>12 DEF FreshReach, WireOK
<1>16. ReplaysInOrder(u, n)
  <2>1. ASSUME NEW i \in 1..L, Marked(u[i])
        PROVE  \/ u[i].seq <= n
               \/ \E j \in 1..(i - 1) : Marked(u[j]) /\ u[j].seq = u[i].seq - 1
    <3>1. \A j \in 1..(i - 1) : j \in 1..L
      BY <1>1
    <3> QED  BY <1>1, <1>8, <2>1, <3>1, Zenon DEF WireOK, ReplaysInOrder
  <2>2. ASSUME NEW i \in 1..(L + M), NEW k \in 1..M, i = L + k
        PROVE  \/ u[i].seq <= n
               \/ \E j \in 1..(i - 1) : Marked(u[j]) /\ u[j].seq = u[i].seq - 1
    <3>1. u[i].seq = from + k - 1
      BY <1>6, <1>8, <2>2
    <3>2. CASE k = 1
      BY <3>1, <3>2
    <3>3. CASE k # 1
      <4>1. k - 1 \in 1..M /\ L + (k - 1) \in 1..(i - 1)
        BY <1>1, <1>3, <2>2, <3>3
      <4>2. Marked(u[L + (k - 1)]) /\ u[L + (k - 1)].seq = from + (k - 1) - 1
        BY <1>6, <1>8, <4>1
      <4>3. from + (k - 1) - 1 = u[i].seq - 1
        BY <1>3, <3>1
      <4> QED  BY <4>1, <4>2, <4>3
    <3> QED  BY <3>2, <3>3
  <2> QED  BY <1>8, <1>9, <2>1, <2>2, Zenon DEF ReplaysInOrder
<1>17. WireOK(u, n, peer_log)
  BY <1>8, <1>13, <1>14, <1>15, <1>16 DEF WireOK
<1> QED  BY <1>12, <1>17 DEF u, r

-----------------------------------------------------------------------------
(* A non-empty set of naturals has a least element.                        *)
LEMMA LeastNatural ==
  ASSUME NEW T \in SUBSET Nat, T # {}
  PROVE  \E x \in T : \A y \in T : x <= y
<1>1. PICK x \in T : \A y \in T : ~ (<<y, x>> \in OpToRel(<, Nat))
  BY NatLessThanWellFounded, WFMin, Zenon
<1>2. \A y \in T : ~(y < x)
  BY <1>1, Zenon DEF OpToRel
<1>. QED  BY <1>2

LEMMA IsInjection ==
  ASSUME NEW S, NEW T, NEW f \in [S -> T], \A a, b \in S : f[a] = f[b] => a = b
  PROVE  f \in Injection(S, T)
  BY DEF Injection, IsInjective

(* Rank numbers the members of a set of positions 1, 2, ... in order.      *)
LEMMA RankProps ==
  ASSUME NEW n \in Nat, NEW I \in SUBSET (1..n)
  PROVE  /\ IsFiniteSet(I)
         /\ Cardinality(I) \in Nat
         /\ \A i, j \in I : i < j => Rank(I, i) < Rank(I, j)
         /\ \A i \in I : Rank(I, i) \in 1..Cardinality(I)
         /\ \A k \in 1..Cardinality(I) : \E i \in I : Rank(I, i) = k
<1> DEFINE Upto(i) == {j \in I : j <= i}
<1>1. IsFiniteSet(I) /\ Cardinality(I) \in Nat
  <2>1. IsFiniteSet(1..n)
    BY FS_Interval
  <2> QED  BY <2>1, FS_Subset, FS_CardinalityType, Zenon
<1>2. \A i \in I : /\ IsFiniteSet(Upto(i))
                   /\ Cardinality(Upto(i)) \in Nat
                   /\ Cardinality(Upto(i)) <= Cardinality(I)
  BY <1>1, FS_Subset, FS_CardinalityType
<1>3. ASSUME NEW i \in I, NEW j \in I, i < j
      PROVE  Rank(I, i) < Rank(I, j)
  <2>1. Upto(i) \in SUBSET Upto(j) /\ j \in Upto(j) /\ j \notin Upto(i)
    <3>1. \A x \in I : x \in Int
      OBVIOUS
    <3>2. \A x \in Upto(i) : x \in Upto(j)
      BY <1>3, <3>1
    <3>3. j \in Upto(j) /\ j \notin Upto(i)
      BY <1>3, <3>1
    <3> HIDE DEF Upto
    <3> QED  BY <3>2, <3>3
  <2>2. Cardinality(Upto(i)) <= Cardinality(Upto(j))
    BY <1>2, <2>1, FS_Subset
  <2>3. Cardinality(Upto(i)) # Cardinality(Upto(j))
    BY <1>2, <2>1, FS_Subset
  <2> QED  BY <1>2, <2>2, <2>3 DEF Rank
<1>4. ASSUME NEW i \in I PROVE Rank(I, i) \in 1..Cardinality(I)
  <2>1. i \in Upto(i)
    OBVIOUS
  <2>2. Cardinality(Upto(i)) # 0
    BY <1>2, <2>1, FS_EmptySet
  <2> QED  BY <1>1, <1>2, <2>2 DEF Rank
<1>5. ASSUME NEW k \in 1..Cardinality(I) PROVE \E i \in I : Rank(I, i) = k
  <2> DEFINE f == [i \in I |-> Rank(I, i)]
             N == 1..Cardinality(I)
  <2>1. f \in [I -> N]
    BY <1>4
  <2>2. \A a, b \in I : f[a] = f[b] => a = b
    <3> SUFFICES ASSUME NEW a \in I, NEW b \in I, Rank(I, a) = Rank(I, b), a # b
                 PROVE  FALSE
      OBVIOUS
    <3>1. CASE a < b
      BY <3>1, <1>3, <1>4
    <3>2. CASE b < a
      BY <3>2, <1>3, <1>4
    <3> QED  BY <3>1, <3>2
  <2>3. f \in Injection(I, N)
    BY <2>1, <2>2, IsInjection, Zenon
  <2>4. IsFiniteSet(N) /\ Cardinality(N) = Cardinality(I)
    BY <1>1, FS_Interval
  <2>5. f \in Surjection(I, N)
    BY <2>3, <2>4, FS_Injection
  <2>6. \E i \in I : f[i] = k
    <3> HIDE DEF f, N
    <3>1. \A t \in N : \E i \in I : f[i] = t
      BY <2>5, Zenon DEF Surjection
    <3> QED  BY <3>1 DEF N
  <2> QED  BY <2>6
<1> QED  BY <1>1, <1>3, <1>4, <1>5

(* p lists the positions I of s, in order.                                 *)
ListsInOrder(p, s, I) ==
    \E f \in [1..Cardinality(I) -> I] :
        /\ \A k \in 1..Cardinality(I) : p[k] = s[f[k]]
        /\ \A k, l \in 1..Cardinality(I) : k < l => f[k] < f[l]

(* Pick lists the chosen positions of a sequence: every element comes from *)
(* a chosen position, every chosen position is listed, in order.           *)
LEMMA PickProps ==
  ASSUME NEW T, NEW s \in Seq(T), NEW I \in SUBSET DOMAIN s
  PROVE  /\ Pick(s, I) \in Seq(T)
         /\ Len(Pick(s, I)) = Cardinality(I)
         /\ Cardinality(I) \in Nat
         /\ ListsInOrder(Pick(s, I), s, I)
         /\ \A i \in I : \E k \in 1..Cardinality(I) : Pick(s, I)[k] = s[i]
<1> DEFINE C == Cardinality(I)
           f == [k \in 1..C |-> CHOOSE i \in I : Rank(I, i) = k]
<1>0. Len(s) \in Nat /\ I \in SUBSET (1..Len(s))
  BY LenProperties
<1>1. /\ C \in Nat
      /\ \A i, j \in I : i < j => Rank(I, i) < Rank(I, j)
      /\ \A i \in I : Rank(I, i) \in 1..C
      /\ \A k \in 1..C : \E i \in I : Rank(I, i) = k
  BY <1>0, RankProps, Zenon
<1>2. \A k \in 1..C : f[k] \in I /\ Rank(I, f[k]) = k
  BY <1>1
<1>3. \A k \in 1..C : Pick(s, I)[k] = s[f[k]]
  BY DEF Pick
<1>4. \A k \in 1..C : s[f[k]] \in T
  BY <1>0, <1>2, ElementOfSeq
<1>5. Pick(s, I) \in [1..C -> T]
  BY <1>3, <1>4 DEF Pick
<1>6. Pick(s, I) \in Seq(T) /\ Len(Pick(s, I)) = C
  BY <1>1, <1>5
<1>7. ASSUME NEW k \in 1..C, NEW l \in 1..C, k < l PROVE f[k] < f[l]
  <2>1. f[k] \in I /\ f[l] \in I /\ Rank(I, f[k]) = k /\ Rank(I, f[l]) = l
    BY <1>2
  <2>2. ~(f[l] < f[k]) /\ f[l] # f[k]
    BY <2>1, <1>1, <1>7
  <2>3. f[k] \in Nat /\ f[l] \in Nat
    BY <2>1, <1>0
  <2> HIDE DEF f
  <2> QED  BY <2>2, <2>3
<1>8. ASSUME NEW i \in I PROVE \E k \in 1..C : Pick(s, I)[k] = s[i]
  <2> DEFINE k == Rank(I, i)
  <2>1. k \in 1..C
    BY <1>1
  <2>2. f[k] \in I /\ Rank(I, f[k]) = Rank(I, i)
    BY <1>2, <2>1
  <2>3. ~(f[k] < i) /\ ~(i < f[k])
    <3>1. f[k] < i => Rank(I, f[k]) < Rank(I, i)
      BY <1>1, <2>2
    <3>2. i < f[k] => Rank(I, i) < Rank(I, f[k])
      BY <1>1, <2>2
    <3> QED  BY <3>1, <3>2, <2>1, <2>2
  <2>4. f[k] \in Nat /\ i \in Nat
    BY <2>2, <1>0
  <2>5. f[k] = i
    <3> HIDE DEF f, k
    <3> QED  BY <2>3, <2>4
  <2> QED  BY <2>1, <2>5, <1>3
<1>9. f \in [1..C -> I]
  BY <1>2
<1>10. ListsInOrder(Pick(s, I), s, I)
  BY <1>3, <1>7, <1>9, Zenon DEF ListsInOrder
<1> QED  BY <1>1, <1>6, <1>8, <1>10

-----------------------------------------------------------------------------
(* The loop of release_queue stops: among Len(q) + 1 sequences one is not  *)
(* held, and the first such sequence is RunEnd.                            *)
LEMMA RunEndProps ==
  ASSUME NEW q \in Seq(Held), NEW n \in Nat
  PROVE  /\ RunEnd(q, n) \in n..(n + Len(q))
         /\ RunEnd(q, n) \notin SeqsOf(q)
         /\ n..(RunEnd(q, n) - 1) \subseteq SeqsOf(q)
<1> DEFINE R == n..(n + Len(q))
           T == {m \in R : m \notin SeqsOf(q)}
<1>0. Len(q) \in Nat /\ DOMAIN q = 1..Len(q)
  BY LenProperties
<1>1. T # {}
  <2> SUFFICES ASSUME T = {} PROVE FALSE
    OBVIOUS
  <2> DEFINE D == 1..Len(q)
             g == [m \in R |-> CHOOSE i \in D : q[i].seq = m]
  <2>1. \A m \in R : \E i \in D : q[i].seq = m
    BY <1>0 DEF SeqsOf
  <2>2. \A m \in R : g[m] \in D /\ q[g[m]].seq = m
    BY <2>1
  <2>3. g \in [R -> D]
    BY <2>2
  <2>4. \A a, b \in R : g[a] = g[b] => a = b
    BY <2>2
  <2>5. g \in Injection(R, D)
    BY <2>3, <2>4, IsInjection, Zenon
  <2>6. /\ IsFiniteSet(D) /\ Cardinality(D) = Len(q)
        /\ Cardinality(R) = Len(q) + 1
    <3>1. 1 \in Int /\ Len(q) \in Int /\ n \in Int /\ n + Len(q) \in Int
      BY <1>0
    <3>2. IsFiniteSet(D) /\ Cardinality(D) = IF 1 > Len(q) THEN 0 ELSE Len(q) - 1 + 1
      BY <3>1, FS_Interval
    <3>3. Cardinality(R) = IF n > n + Len(q) THEN 0 ELSE (n + Len(q)) - n + 1
      BY <3>1, FS_Interval
    <3> QED  BY <1>0, <3>2, <3>3
  <2>7. Cardinality(R) <= Cardinality(D)
    BY <2>5, <2>6, FS_Injection
  <2> QED  BY <1>0, <2>6, <2>7
<1>2. PICK m \in T : \A y \in T : m <= y
  <2>1. T \in SUBSET Nat
    BY <1>0
  <2> QED  BY <1>1, <2>1, LeastNatural, Zenon
<1>3. n..(m - 1) \subseteq SeqsOf(q)
  <2> SUFFICES ASSUME NEW s \in n..(m - 1), s \notin SeqsOf(q) PROVE FALSE
    OBVIOUS
  <2>1. m \in n..(n + Len(q))
    OBVIOUS
  <2>2. s \in T
    BY <2>1, <1>0
  <2> QED  BY <1>0, <1>2, <2>1, <2>2
<1>4. m \in n..(n + Len(q)) /\ m \notin SeqsOf(q)
  OBVIOUS
<1> QED  BY <1>3, <1>4 DEF RunEnd

(* A held sequence has an oldest copy.                                     *)
LEMMA FirstCopyProps ==
  ASSUME NEW q \in Seq(Held), NEW s \in SeqsOf(q)
  PROVE  /\ FirstCopy(q, s) \in DOMAIN q
         /\ q[FirstCopy(q, s)].seq = s
         /\ IsFirstCopy(q, FirstCopy(q, s))
<1> DEFINE T == {i \in DOMAIN q : q[i].seq = s}
<1>0. Len(q) \in Nat /\ DOMAIN q = 1..Len(q)
  BY LenProperties
<1>1. T # {} /\ T \in SUBSET Nat
  BY <1>0 DEF SeqsOf
<1>2. PICK i \in T : \A j \in T : i <= j
  BY <1>1, LeastNatural, Zenon
<1>3. IsFirstCopy(q, i)
  <2> SUFFICES ASSUME NEW j \in 1..(i - 1), q[j].seq = q[i].seq PROVE FALSE
    BY DEF IsFirstCopy
  <2>1. i \in 1..Len(q) /\ q[i].seq = s
    BY <1>0
  <2>2. j \in T
    BY <1>0, <2>1
  <2> QED  BY <1>0, <1>2, <2>1, <2>2
<1>4. i \in DOMAIN q /\ q[i].seq = s
  OBVIOUS
<1> QED  BY <1>3, <1>4 DEF FirstCopy

(* The messages the loop takes out carry the sequences n, n + 1, ...       *)
LEMMA TakenProps ==
  ASSUME NEW q \in Seq(Held), NEW n \in Nat
  PROVE  /\ Taken(q, n) \in Seq(Held)
         /\ Len(Taken(q, n)) = RunEnd(q, n) - n
         /\ DOMAIN Taken(q, n) = 1..(RunEnd(q, n) - n)
         /\ \A k \in 1..(RunEnd(q, n) - n) :
               /\ Taken(q, n)[k] = q[FirstCopy(q, n + k - 1)]
               /\ Taken(q, n)[k].seq = n + k - 1
<1> DEFINE L == RunEnd(q, n) - n
<1>1. RunEnd(q, n) \in Nat /\ L \in Nat
  <2>1. Len(q) \in Nat /\ RunEnd(q, n) \in n..(n + Len(q))
    BY RunEndProps, LenProperties, Zenon
  <2> QED  BY <2>1
<1>2. ASSUME NEW k \in 1..L
      PROVE  q[FirstCopy(q, n + k - 1)] \in Held /\ q[FirstCopy(q, n + k - 1)].seq = n + k - 1
  <2>1. n + k - 1 \in n..(RunEnd(q, n) - 1)
    BY <1>1
  <2>2. n + k - 1 \in SeqsOf(q)
    BY <2>1, RunEndProps, Zenon
  <2>3. FirstCopy(q, n + k - 1) \in 1..Len(q)
    BY <2>2, FirstCopyProps, LenProperties
  <2> QED  BY <2>2, <2>3, FirstCopyProps, ElementOfSeq
<1>3. Taken(q, n) \in [1..L -> Held]
  BY <1>2 DEF Taken
<1>4. Taken(q, n) \in Seq(Held) /\ Len(Taken(q, n)) = L /\ DOMAIN Taken(q, n) = 1..L
  <2> HIDE DEF L
  <2> QED  BY <1>1, <1>3
<1>5. \A k \in 1..L : Taken(q, n)[k] = q[FirstCopy(q, n + k - 1)]
  BY DEF Taken
<1> QED  BY <1>2, <1>4, <1>5

(* What one call may append to released_: application messages with        *)
(* sequences from lo to hi - 1, in increasing order.                       *)
Batch(b, lo, hi) ==
    /\ b \in Seq(Held)
    /\ \A i \in DOMAIN b :
         /\ b[i].admin = "None"
         /\ lo <= b[i].seq
         /\ b[i].seq < hi
         /\ \A j \in 1..(i - 1) : b[j].seq < b[i].seq

Released(q, n) == Pick(Taken(q, n), AppPositions(Taken(q, n)))

(* release_queue appends such a batch.                                     *)
LEMMA ReleasedIsBatch ==
  ASSUME NEW q \in Seq(Held), NEW n \in Nat
  PROVE  Batch(Released(q, n), n, RunEnd(q, n))
<1> DEFINE t == Taken(q, n)
           I == AppPositions(t)
           L == RunEnd(q, n) - n
           b == Released(q, n)
           C == Cardinality(I)
<1>1. /\ t \in Seq(Held)
      /\ DOMAIN t = 1..L
      /\ \A k \in 1..L : t[k].seq = n + k - 1
  BY TakenProps, Zenon
<1>2. RunEnd(q, n) \in Nat /\ L \in Nat
  <2>1. Len(q) \in Nat /\ RunEnd(q, n) \in n..(n + Len(q))
    BY RunEndProps, LenProperties, Zenon
  <2> QED  BY <2>1
<1>3. I \in SUBSET DOMAIN t /\ \A k \in I : t[k].admin = "None"
  BY DEF AppPositions
<1> HIDE DEF t, I, L
<1>4. b = Pick(t, I)
  BY DEF Released, t, I
<1> HIDE DEF b
<1>5. b \in Seq(Held) /\ Len(b) = C /\ C \in Nat
  <2>1. Pick(t, I) \in Seq(Held) /\ Len(Pick(t, I)) = C /\ C \in Nat
    BY <1>1, <1>3, PickProps, Zenon
  <2> QED  BY <1>4, <2>1
<1>6. PICK f \in [1..C -> I] :
        /\ \A k \in 1..C : b[k] = t[f[k]]
        /\ \A k, l \in 1..C : k < l => f[k] < f[l]
  <2>1. ListsInOrder(b, t, I)
    BY <1>1, <1>3, <1>4, PickProps, Zenon
  <2> QED  BY <2>1, Zenon DEF ListsInOrder
<1> HIDE DEF C
<1>7. DOMAIN b = 1..C
  BY <1>5, LenProperties
<1>8. ASSUME NEW i \in 1..C
      PROVE  /\ b[i].admin = "None"
             /\ f[i] \in 1..L
             /\ b[i].seq = n + f[i] - 1
  BY <1>1, <1>3, <1>6
<1>9. ASSUME NEW i \in 1..C, NEW j \in 1..(i - 1)
      PROVE  b[j].seq < b[i].seq
  <2>1. j \in 1..C /\ j < i
    BY <1>5
  <2>2. f[j] < f[i]
    BY <1>6, <2>1
  <2> QED  BY <1>2, <1>8, <2>1, <2>2
<1>10. \A i \in 1..C : n <= b[i].seq /\ b[i].seq < RunEnd(q, n)
  BY <1>2, <1>8 DEF L
<1>11. b \in Seq(Held) /\ \A i \in 1..C : b[i].admin = "None"
  BY <1>5, <1>8
<1>12. Batch(b, n, RunEnd(q, n))
  BY <1>7, <1>9, <1>10, <1>11 DEF Batch
<1> QED  BY <1>12 DEF b

(* Every application message the queue held is still there or released.    *)
LEMMA ReleaseKeeps ==
  ASSUME NEW q \in Seq(Held), NEW n \in Nat
  PROVE  AppSeqs(q) \subseteq AppSeqs(Pick(q, Kept(q, n))) \cup AppSeqs(Released(q, n))
<1> DEFINE t == Taken(q, n)
           K == Kept(q, n)
           I == AppPositions(t)
<1> SUFFICES ASSUME NEW i \in DOMAIN q, q[i].admin = "None"
             PROVE  q[i].seq \in AppSeqs(Pick(q, K)) \cup AppSeqs(Released(q, n))
  BY DEF AppSeqs, AppPositions
<1>0. /\ Len(q) \in Nat /\ DOMAIN q = 1..Len(q)
      /\ RunEnd(q, n) \in n..(n + Len(q))
  BY LenProperties, RunEndProps, Zenon
<1>1. CASE i \in K
  <2>1. K \in SUBSET DOMAIN q
    BY DEF Kept
  <2> HIDE DEF K
  <2>2. PICK k \in 1..Cardinality(K) : Pick(q, K)[k] = q[i]
    BY <1>1, <2>1, PickProps, Zenon
  <2>3. k \in DOMAIN Pick(q, K)
    BY DEF Pick
  <2> QED  BY <2>2, <2>3 DEF AppSeqs, AppPositions
<1>2. CASE i \notin K
  <2>1. q[i].seq \in n..(RunEnd(q, n) - 1) /\ IsFirstCopy(q, i)
    BY <1>2 DEF Kept
  <2> DEFINE f == FirstCopy(q, q[i].seq)
             k == q[i].seq - n + 1
  <2>2. f \in DOMAIN q /\ q[f].seq = q[i].seq /\ IsFirstCopy(q, f)
    <3>1. q[i].seq \in SeqsOf(q)
      BY DEF SeqsOf
    <3> QED  BY <3>1, FirstCopyProps
  <2>3. f = i
    <3> HIDE DEF f
    <3>1. ~(f < i)
      BY <1>0, <2>1, <2>2 DEF IsFirstCopy
    <3>2. ~(i < f)
      BY <1>0, <2>1, <2>2 DEF IsFirstCopy
    <3> QED  BY <1>0, <2>2, <3>1, <3>2
  <2>4. k \in 1..(RunEnd(q, n) - n) /\ n + k - 1 = q[i].seq
    BY <1>0, <2>1
  <2>5. t[k] = q[i] /\ k \in DOMAIN t
    <3>1. t[k] = q[FirstCopy(q, n + k - 1)] /\ DOMAIN t = 1..(RunEnd(q, n) - n)
      BY <2>4, TakenProps
    <3>2. FirstCopy(q, n + k - 1) = i
      BY <2>3, <2>4
    <3> QED  BY <2>4, <3>1, <3>2
  <2>6. t \in Seq(Held)
    BY TakenProps
  <2> HIDE DEF t, k, f
  <2>7. k \in I /\ I \in SUBSET DOMAIN t
    BY <2>5 DEF AppPositions
  <2> HIDE DEF I
  <2>8. PICK l \in 1..Cardinality(I) : Pick(t, I)[l] = t[k]
    BY <2>6, <2>7, PickProps
  <2>9. l \in DOMAIN Pick(t, I)
    BY DEF Pick
  <2>10. q[i].seq \in AppSeqs(Pick(t, I))
    BY <2>5, <2>8, <2>9 DEF AppSeqs, AppPositions
  <2> QED  BY <2>10 DEF Released, I, t
<1> QED  BY <1>1, <1>2

(* The tail of accept_in_sequence.                                         *)
LEMMA SettleProps ==
  ASSUME TypeOK, NEW st \in State, NEW n \in Nat, Settle(st, n),
         st = "Recovering" => st = state
  PROVE  /\ state' \in State
         /\ next_in' \in Nat
         /\ next_in' >= n
         /\ queued' \in Seq(Held)
         /\ \E b : released' = released \o b /\ Batch(b, n, next_in')
         /\ state' = "Recovering" => queued' # << >>
         /\ n..(next_in' - 1) \subseteq SeqsOf(queued)
         /\ AppSeqs(queued) \subseteq AppSeqs(queued') \cup AppSeqs(released')
<1>0. queued \in Seq(Held) /\ released \in Seq(Held)
  BY DEF TypeOK
<1>1. CASE st = "Recovering"
  <2> DEFINE b == Released(queued, n)
  <2>1. /\ next_in' = RunEnd(queued, n)
        /\ queued' = Pick(queued, Kept(queued, n))
        /\ released' = released \o b
        /\ state' = IF queued' = << >> THEN "Active" ELSE "Recovering"
    BY <1>1 DEF Settle, release_queue, Released
  <2>2. Batch(b, n, next_in')
    BY <1>0, <2>1, ReleasedIsBatch
  <2>3. next_in' \in n..(n + Len(queued)) /\ n..(next_in' - 1) \subseteq SeqsOf(queued)
    BY <1>0, <2>1, RunEndProps
  <2>4. Len(queued) \in Nat
    BY <1>0, LenProperties
  <2>5. queued' \in Seq(Held)
    <3>1. Kept(queued, n) \in SUBSET DOMAIN queued
      BY DEF Kept
    <3> QED  BY <1>0, <2>1, <3>1, PickProps
  <2>6. AppSeqs(queued) \subseteq AppSeqs(queued') \cup AppSeqs(b)
    BY <1>0, <2>1, ReleaseKeeps
  <2>7. AppSeqs(b) \subseteq AppSeqs(released')
    <3> SUFFICES ASSUME NEW i \in DOMAIN b, b[i].admin = "None"
                 PROVE  b[i].seq \in AppSeqs(released')
      BY DEF AppSeqs, AppPositions
    <3>1. b \in Seq(Held)
      BY <2>2 DEF Batch
    <3> HIDE DEF b
    <3>2. /\ Len(released) \in Nat /\ Len(b) \in Nat /\ i \in 1..Len(b)
          /\ released' \in Seq(Held) /\ Len(released') = Len(released) + Len(b)
          /\ released'[Len(released) + i] = b[i]
      BY <1>0, <2>1, <3>1, ConcatProperties, LenProperties
    <3>3. Len(released) + i \in DOMAIN released'
      BY <3>2, LenProperties
    <3> QED  BY <3>2, <3>3 DEF AppSeqs, AppPositions
  <2> QED  BY <2>1, <2>2, <2>3, <2>4, <2>5, <2>6, <2>7 DEF State
<1>2. CASE st # "Recovering"
  <2>1. /\ state' = st /\ next_in' = n
        /\ queued' = queued /\ released' = released
    BY <1>2 DEF Settle
  <2>2. released' = released \o << >> /\ Batch(<< >>, n, next_in')
    BY <1>0, <2>1, ConcatEmptySeq, EmptySeq DEF Batch
  <2>3. n..(next_in' - 1) = {}
    BY <2>1
  <2> QED  BY <1>0, <1>2, <2>1, <2>2, <2>3
<1> QED  BY <1>1, <1>2, Zenon

(* u is s followed by t, in terms of their lengths L and M.                 *)
Parts(s, t, u, L, M) ==
    /\ DOMAIN s = 1..L /\ DOMAIN t = 1..M /\ DOMAIN u = 1..(L + M)
    /\ \A i \in 1..L : u[i] = s[i]
    /\ \A i \in (L + 1)..(L + M) : u[i] = t[i - L]

(* Where the elements of a concatenation come from.                        *)
LEMMA ConcatParts ==
  ASSUME NEW S, NEW s \in Seq(S), NEW t \in Seq(S)
  PROVE  \E L \in Nat, M \in Nat : Parts(s, t, s \o t, L, M)
<1> DEFINE u == s \o t
           L == Len(s)
           M == Len(t)
<1>1. L \in Nat /\ M \in Nat /\ DOMAIN s = 1..L /\ DOMAIN t = 1..M
  BY LenProperties
<1>2. /\ u \in Seq(S) /\ Len(u) = L + M
      /\ \A i \in 1..(L + M) : u[i] = IF i <= L THEN s[i] ELSE t[i - L]
  BY ConcatProperties, Zenon
<1>3. DOMAIN u = 1..(L + M)
  BY <1>2, LenProperties
<1> HIDE DEF L, M, u
<1>4. ASSUME NEW i \in 1..L PROVE u[i] = s[i]
  BY <1>1, <1>2, <1>4
<1>5. ASSUME NEW i \in (L + 1)..(L + M) PROVE u[i] = t[i - L]
  BY <1>1, <1>2, <1>5
<1>6. Parts(s, t, u, L, M)
  BY <1>1, <1>3, <1>4, <1>5, Zenon DEF Parts
<1> QED  BY <1>1, <1>6, Zenon DEF u

(* The first L messages of s are application messages of ascending         *)
(* sequences from lo up to hi - 1.                                         *)
Ordered(s, L, lo, hi) ==
    \A i \in 1..L : /\ s[i].admin = "None" /\ s[i].seq \in lo..(hi - 1)
                    /\ \A j \in 1..(i - 1) : s[j].seq < s[i].seq

(* Two ordered lists, the second from where the first ends, are ordered    *)
(* one after the other.                                                    *)
LEMMA PartsInOrder ==
  ASSUME NEW r, NEW b, NEW u, NEW L \in Nat, NEW M \in Nat,
         NEW n \in Nat, NEW hi \in Nat, n <= hi,
         Parts(r, b, u, L, M), Ordered(r, L, 0, n), Ordered(b, M, n, hi)
  PROVE  Ordered(u, L + M, 0, hi)
<1> USE DEF Parts, Ordered
<1> SUFFICES ASSUME NEW i \in 1..(L + M)
             PROVE  /\ u[i].admin = "None" /\ u[i].seq \in 0..(hi - 1)
                    /\ \A j \in 1..(i - 1) : u[j].seq < u[i].seq
  OBVIOUS
<1>1. CASE i \in 1..L
  <2>1. \A j \in 1..(i - 1) : j \in 1..L
    BY <1>1
  <2> QED  BY <1>1, <2>1
<1>2. CASE i \in (L + 1)..(L + M)
  <2>1. i - L \in 1..M /\ u[i] = b[i - L]
    BY <1>2
  <2>2. u[i].admin = "None" /\ u[i].seq \in n..(hi - 1)
    BY <2>1
  <2>3. ASSUME NEW j \in 1..(i - 1) PROVE u[j].seq < u[i].seq
    <3>1. CASE j \in 1..L
      <4>1. u[j].seq \in 0..(n - 1)
        BY <3>1
      <4> QED  BY <2>2, <4>1
    <3>2. CASE j \in (L + 1)..(L + M)
      <4>1. j - L \in 1..((i - L) - 1) /\ u[j] = b[j - L]
        BY <3>2, <2>1
      <4> QED  BY <2>1, <4>1
    <3> QED  BY <1>2, <3>1, <3>2
  <2> QED  BY <2>2, <2>3
<1> QED  BY <1>1, <1>2

-----------------------------------------------------------------------------
(* What on_message(in) does to the members the properties are about.       *)
Delivers == "deliver" \in out'.flags

FirstReleased == IF Delivers THEN next_in + 1 ELSE next_in

MessageEffect(in) ==
    /\ next_in' >= next_in
    /\ state' = "Recovering" => queued' # << >>
    /\ \E b : released' = released \o b /\ Batch(b, FirstReleased, next_in')
    /\ Delivers => in.seq = next_in /\ next_in' > next_in
    /\ \A s \in (next_in + 1)..(next_in' - 1) :
         s \in SeqsOf(queued) \/ (AcceptReset(in) /\ s < in.new_seq)
    /\ AppSeqs(queued) \subseteq AppSeqs(queued') \cup AppSeqs(released')

(* The Outcome of every path is an Outcome.                                *)
LEMMA ResultType ==
  ASSUME NEW f \in SUBSET Flags, NEW r \in Reject
  PROVE  Result(f, r) \in Outcome /\ Result(f, r).flags = f
BY DEF Result, Outcome

LEMMA RangeType ==
  ASSUME NEW f \in SUBSET Flags, NEW x \in Nat \X Nat, NEW y \in Nat \X Nat
  PROVE  Ranged(f, x, y) \in Outcome /\ Ranged(f, x, y).flags = f
BY DEF Ranged, Outcome, Reject

(* A path that leaves queued_ and released_ alone.                         *)
LEMMA NothingReleased ==
  ASSUME TypeOK, UNCHANGED <<queued, released>>, NEW lo, NEW hi
  PROVE  /\ \E b : released' = released \o b /\ Batch(b, lo, hi)
         /\ AppSeqs(queued) \subseteq AppSeqs(queued') \cup AppSeqs(released')
<1>1. released' = released \o << >>
  BY ConcatEmptySeq DEF TypeOK
<1>2. Batch(<< >>, lo, hi)
  BY EmptySeq DEF Batch
<1> QED  BY <1>1, <1>2, Zenon

(* A path that ends in Settle, for a message that takes one sequence.      *)
LEMMA SettledEffect ==
  ASSUME TypeOK, NEW in \in Inbound, NEW st \in State, NEW n \in Nat,
         Settle(st, n), st = "Recovering" => st = state,
         n > next_in,
         n = next_in + 1 \/ (AcceptReset(in) /\ n = in.new_seq),
         Delivers => in.seq = next_in /\ n = next_in + 1
  PROVE  MessageEffect(in)
<1>0. next_in \in Nat
  BY DEF TypeOK
<1>1. /\ next_in' \in Nat /\ next_in' >= n
      /\ state' = "Recovering" => queued' # << >>
      /\ n..(next_in' - 1) \subseteq SeqsOf(queued)
      /\ AppSeqs(queued) \subseteq AppSeqs(queued') \cup AppSeqs(released')
  BY SettleProps
<1>2. PICK b : released' = released \o b /\ Batch(b, n, next_in')
  BY SettleProps
<1>3. Batch(b, FirstReleased, next_in')
  <2>1. FirstReleased \in Nat /\ FirstReleased <= n
    BY <1>0 DEF FirstReleased
  <2>2. \A i \in DOMAIN b : b[i].seq \in Nat
    <3>1. b \in Seq(Held) /\ DOMAIN b = 1..Len(b)
      BY <1>2, LenProperties DEF Batch
    <3>2. \A i \in DOMAIN b : b[i] \in Held
      BY <3>1, ElementOfSeq
    <3> QED  BY <3>2 DEF Held
  <2> QED  BY <1>2, <2>1, <2>2 DEF Batch
<1>4. \A s \in (next_in + 1)..(next_in' - 1) :
        s \in SeqsOf(queued) \/ (AcceptReset(in) /\ s < in.new_seq)
  <2>1. PICK m \in Nat : m = next_in'
    BY <1>1
  <2>2. ASSUME NEW s \in (next_in + 1)..(m - 1)
        PROVE  s \in SeqsOf(queued) \/ (AcceptReset(in) /\ s < in.new_seq)
    <3>1. CASE s >= n
      <4>1. s \in n..(m - 1)
        BY <1>0, <3>1
      <4> QED  BY <1>1, <2>1, <4>1, Zenon
    <3>2. CASE s < n
      BY <1>0, <3>2
    <3> QED  BY <1>0, <3>1, <3>2
  <2> QED  BY <2>1, <2>2, Zenon
<1>5. next_in' >= next_in /\ (Delivers => in.seq = next_in /\ next_in' > next_in)
  BY <1>0, <1>1
<1> QED  BY <1>1, <1>2, <1>3, <1>4, <1>5, Zenon DEF MessageEffect

(* Every call of on_message keeps the types and has that effect.           *)
LEMMA MessageStep ==
  ASSUME TypeOK, RecoveringHolds, NEW in \in Inbound, on_message(in)
  PROVE  TypeOK' /\ MessageEffect(in)
<1> USE DEF Live
<1>0. /\ next_in \in Nat /\ state \in State /\ silent' \in 0..Heartbeat
      /\ in.seq \in Nat /\ in.new_seq \in Nat /\ in.admin \in Admin
      /\ in.resend_from \in Nat /\ in.resend_to \in Nat /\ in.poss_dup \in BOOLEAN
  <2>1. 0 \in 0..Heartbeat
    BY ConfigAssumption DEF Heartbeat, OrDefault
  <2>2. silent' \in {0, silent}
    BY DEF on_message, RefuseTraffic, RefuseLogonBehind, DropProcessed, HoldAhead,
           accept_in_sequence, AcceptReset, RefuseReset, AcceptTestRequest,
           AcceptResendRequest, AcceptLogout, AcceptHeartbeat, AcceptLogon,
           RefuseSecondLogon, AcceptApplication, RefuseApplication, InSequence
  <2> QED  BY <2>1, <2>2 DEF TypeOK, Inbound
<1>up. next_in + 1 \in Nat /\ next_in + 1 > next_in
  BY <1>0
<1>1. ASSUME UNCHANGED <<state, next_in, next_out, queued, released>>,
             test_request_outstanding' \in BOOLEAN,
             NEW f \in SUBSET (Flags \ {"deliver"}), NEW r \in Reject, out' = Result(f, r)
      PROVE  TypeOK' /\ MessageEffect(in)
  <2>1. out' \in Outcome /\ ~Delivers
    BY <1>1, ResultType DEF Delivers
  <2>2. TypeOK'
    BY <1>0, <1>1, <2>1 DEF TypeOK
  <2>3. (next_in + 1)..(next_in' - 1) = {}
    BY <1>0, <1>1
  <2>4. state' = "Recovering" => queued' # << >>
    BY <1>1 DEF RecoveringHolds
  <2>5. next_in' >= next_in
    BY <1>0, <1>1
  <2>6. /\ \E b : released' = released \o b /\ Batch(b, FirstReleased, next_in')
        /\ AppSeqs(queued) \subseteq AppSeqs(queued') \cup AppSeqs(released')
    <3> HIDE DEF Live
    <3> QED  BY <1>1, NothingReleased, Zenon
  <2> QED  BY <2>1, <2>2, <2>3, <2>4, <2>5, <2>6 DEF MessageEffect
<1>2. ASSUME NEW st \in State, NEW n \in Nat, Settle(st, n),
             st = "Recovering" => st = state, n > next_in,
             n = next_in + 1 \/ (AcceptReset(in) /\ n = in.new_seq),
             Delivers => in.seq = next_in /\ n = next_in + 1,
             test_request_outstanding' \in BOOLEAN, next_out' = next_out,
             out' \in Outcome
      PROVE  TypeOK' /\ MessageEffect(in)
  <2>1. /\ state' \in State /\ next_in' \in Nat /\ queued' \in Seq(Held)
        /\ \E b : released' = released \o b /\ Batch(b, n, next_in')
    BY <1>2, SettleProps
  <2>2. released' \in Seq(Held)
    <3>1. PICK b : released' = released \o b /\ Batch(b, n, next_in')
      BY <2>1, Zenon
    <3>2. released \in Seq(Held) /\ b \in Seq(Held)
      BY <3>1 DEF TypeOK, Batch
    <3> QED  BY <3>1, <3>2, ConcatProperties, Zenon
  <2>3. TypeOK'
    BY <1>0, <1>2, <2>1, <2>2 DEF TypeOK
  <2> QED  BY <1>2, <2>3, SettledEffect
<1>3. CASE RefuseTraffic(in)
  BY <1>1, <1>3 DEF RefuseTraffic, Flags, Reject, TypeOK
<1>4. CASE RefuseLogonBehind(in)
  BY <1>1, <1>4 DEF RefuseLogonBehind, Flags, Reject, TypeOK
<1>5. CASE DropProcessed(in)
  BY <1>1, <1>5 DEF DropProcessed, Drop, Flags, Reject, TypeOK
<1>6. CASE HoldAhead(in)
  <2>1. /\ queued' \in Seq(Held) /\ queued' # << >>
        /\ AppSeqs(queued) \subseteq AppSeqs(queued')
    <3>1. PICK h \in Held : queued' = Append(queued, h)
      BY <1>0, <1>6 DEF HoldAhead, Held
    <3>2. queued \in Seq(Held)
      BY DEF TypeOK
    <3>3. /\ queued' \in Seq(Held) /\ Len(queued) \in Nat /\ Len(queued') = Len(queued) + 1
          /\ \A i \in 1..Len(queued) : queued'[i] = queued[i]
      BY <3>1, <3>2, AppendProperties, LenProperties
    <3>4. DOMAIN queued = 1..Len(queued) /\ DOMAIN queued' = 1..(Len(queued) + 1)
      BY <3>2, <3>3, LenProperties
    <3>5. queued' # << >>
      BY <3>3, <3>4
    <3>6. \A i \in AppPositions(queued) : i \in AppPositions(queued') /\ queued'[i] = queued[i]
      BY <3>3, <3>4 DEF AppPositions
    <3> QED  BY <3>3, <3>5, <3>6 DEF AppSeqs
  <2>2. out' \in Outcome /\ ~Delivers
    <3>1. {"queue"} \in SUBSET Flags /\ {"queue", "send_resend_request"} \in SUBSET Flags
          /\ "None" \in Reject /\ in.seq - 1 \in Nat
      BY <1>0, <1>6 DEF Flags, Reject, HoldAhead
    <3>2. CASE state = "Recovering"
      BY <1>6, <3>1, <3>2, ResultType DEF HoldAhead, Delivers
    <3>3. CASE state # "Recovering"
      <4>1. out' = Ranged({"queue", "send_resend_request"}, <<next_in, in.seq - 1>>, <<0, 0>>)
        BY <1>6, <3>3 DEF HoldAhead
      <4>2. <<next_in, in.seq - 1>> \in Nat \X Nat /\ <<0, 0>> \in Nat \X Nat
        BY <1>0, <3>1
      <4>3. out' \in Outcome /\ out'.flags = {"queue", "send_resend_request"}
        BY <3>1, <4>1, <4>2, RangeType
      <4> QED  BY <4>3 DEF Delivers
    <3> QED  BY <3>2, <3>3
  <2>3. TypeOK'
    BY <1>0, <1>6, <2>1, <2>2, Zenon DEF HoldAhead, TypeOK, State
  <2>4. next_in' = next_in /\ (next_in + 1)..(next_in' - 1) = {}
    BY <1>0, <1>6 DEF HoldAhead
  <2>5. \E b : released' = released \o b /\ Batch(b, FirstReleased, next_in')
    <3>1. released' = released \o << >> /\ Batch(<< >>, FirstReleased, next_in')
      BY <1>6, ConcatEmptySeq, EmptySeq DEF HoldAhead, TypeOK, Batch
    <3> QED  BY <3>1, Zenon
  <2>6. next_in' >= next_in
    BY <1>0, <2>4
  <2> QED  BY <2>1, <2>2, <2>3, <2>4, <2>5, <2>6, Zenon DEF MessageEffect
<1>7. CASE AcceptReset(in)
  <2>1. out' \in Outcome /\ ~Delivers
    BY <1>0, <1>7, ResultType DEF AcceptReset, Flags, Reject, Delivers, Drop
  <2>2. /\ Settle(state, in.new_seq) /\ in.new_seq > next_in
        /\ test_request_outstanding' \in BOOLEAN /\ next_out' = next_out
    BY <1>0, <1>7, Zenon DEF AcceptReset, InSequence
  <2> QED  BY <1>0, <1>2, <1>7, <2>1, <2>2
<1>8. CASE RefuseReset(in)
  BY <1>1, <1>8, Zenon DEF RefuseReset, InSequence, Flags, Reject
<1>9. CASE AcceptTestRequest(in)
  <2>1. out' \in Outcome /\ ~Delivers
    BY <1>0, <1>9, ResultType DEF AcceptTestRequest, Flags, Reject, Delivers
  <2>2. /\ Settle(state, next_in + 1)
        /\ test_request_outstanding' \in BOOLEAN /\ next_out' = next_out
    BY <1>0, <1>9, Zenon DEF AcceptTestRequest, InSequence
  <2> QED  BY <1>0, <1>up, <1>2, <2>1, <2>2
<1>10. CASE AcceptResendRequest(in)
  <2>1. out' \in Outcome /\ ~Delivers
    <3>1. {"drop", "send_resend"} \in SUBSET Flags /\ "None" \in Reject
          /\ OrDefault(in.resend_to, next_out - 1) \in Nat
      BY <1>0 DEF Flags, Reject, OrDefault, TypeOK
    <3>2. out' = Ranged({"drop", "send_resend"}, <<0, 0>>,
                        <<in.resend_from, OrDefault(in.resend_to, next_out - 1)>>)
      BY <1>10 DEF AcceptResendRequest
    <3>3. /\ <<in.resend_from, OrDefault(in.resend_to, next_out - 1)>> \in Nat \X Nat
          /\ <<0, 0>> \in Nat \X Nat
      BY <1>0, <3>1
    <3>4. out' \in Outcome /\ out'.flags = {"drop", "send_resend"}
      BY <3>1, <3>2, <3>3, RangeType
    <3> QED  BY <3>4 DEF Delivers
  <2>2. /\ Settle(state, next_in + 1)
        /\ test_request_outstanding' \in BOOLEAN /\ next_out' = next_out
    BY <1>0, <1>10, Zenon DEF AcceptResendRequest, InSequence
  <2> QED  BY <1>0, <1>up, <1>2, <2>1, <2>2
<1>11. CASE AcceptLogout(in)
  <2>1. out' \in Outcome /\ ~Delivers
    BY <1>0, <1>11, ResultType DEF AcceptLogout, Flags, Reject, Delivers
  <2>2. /\ Settle("LoggedOut", next_in + 1)
        /\ test_request_outstanding' \in BOOLEAN /\ next_out' = next_out
    BY <1>0, <1>11, Zenon DEF AcceptLogout, InSequence
  <2> QED  BY <1>0, <1>up, <1>2, <2>1, <2>2 DEF State
<1>12. CASE AcceptHeartbeat(in)
  <2>1. out' \in Outcome /\ ~Delivers
    BY <1>0, <1>12, ResultType DEF AcceptHeartbeat, Flags, Reject, Delivers, Drop
  <2>2. /\ Settle(state, next_in + 1)
        /\ test_request_outstanding' \in BOOLEAN /\ next_out' = next_out
    BY <1>0, <1>12, Zenon DEF AcceptHeartbeat, InSequence
  <2> QED  BY <1>0, <1>up, <1>2, <2>1, <2>2
<1>13. CASE AcceptLogon(in)
  <2>1. out' \in Outcome /\ ~Delivers
    BY <1>0, <1>13, ResultType DEF AcceptLogon, Flags, Reject, Delivers, Drop
  <2>2. /\ Settle("Active", next_in + 1)
        /\ test_request_outstanding' \in BOOLEAN /\ next_out' = next_out
    BY <1>0, <1>13, Zenon DEF AcceptLogon, InSequence
  <2> QED  BY <1>0, <1>up, <1>2, <2>1, <2>2 DEF State
<1>14. CASE RefuseSecondLogon(in)
  <2>1. out' \in Outcome /\ ~Delivers
    BY <1>14, ResultType DEF RefuseSecondLogon, Flags, Reject, Delivers
  <2>2. next_in' = next_in + 1 /\ next_in' \in Nat /\ (next_in + 1)..(next_in' - 1) = {}
    BY <1>0, <1>14 DEF RefuseSecondLogon
  <2>3. TypeOK'
    <3>1. /\ UNCHANGED <<state, next_out, queued, released>>
          /\ test_request_outstanding' \in BOOLEAN
      BY <1>14, Zenon DEF RefuseSecondLogon, InSequence
    <3> QED  BY <1>0, <2>1, <2>2, <3>1 DEF TypeOK
  <2>4. /\ \E b : released' = released \o b /\ Batch(b, FirstReleased, next_in')
        /\ AppSeqs(queued) \subseteq AppSeqs(queued') \cup AppSeqs(released')
    <3>1. UNCHANGED <<queued, released>>
      BY <1>14 DEF RefuseSecondLogon
    <3> HIDE DEF Live
    <3> QED  BY <3>1, NothingReleased
  <2>5. state' = "Recovering" => queued' # << >>
    BY <1>14 DEF RefuseSecondLogon, RecoveringHolds
  <2>6. next_in' >= next_in
    BY <1>0, <2>2
  <2> QED  BY <2>1, <2>2, <2>3, <2>4, <2>5, <2>6 DEF MessageEffect
<1>15. CASE AcceptApplication(in)
  <2>1. out' \in Outcome /\ (Delivers => in.seq = next_in)
    BY <1>0, <1>15, ResultType DEF AcceptApplication, InSequence, Flags, Reject, Delivers
  <2>2. /\ Settle(state, next_in + 1)
        /\ test_request_outstanding' \in BOOLEAN /\ next_out' = next_out
    BY <1>0, <1>15, Zenon DEF AcceptApplication, InSequence
  <2> QED  BY <1>0, <1>up, <1>2, <2>1, <2>2
<1>16. CASE RefuseApplication(in)
  BY <1>1, <1>16, Zenon DEF RefuseApplication, InSequence, Flags, Reject
<1> QED  BY <1>3, <1>4, <1>5, <1>6, <1>7, <1>8, <1>9, <1>10, <1>11, <1>12, <1>13,
            <1>14, <1>15, <1>16 DEF on_message, accept_in_sequence

-----------------------------------------------------------------------------
(* The inductive invariant of the session.  ReleasedInOrder needs the      *)
(* typing, and RecoveringHolds of its own case RefuseSecondLogon.          *)
SessionInv == TypeOK /\ ReleasedInOrder /\ RecoveringHolds

(* A batch from next_in_ on keeps released_ in order.                      *)
LEMMA BatchKeepsOrder ==
  ASSUME TypeOK, ReleasedInOrder, NEW b, released' = released \o b,
         next_in' \in Nat, next_in' >= next_in,
         Batch(b, FirstReleased, next_in')
  PROVE  ReleasedInOrder'
<1>1. next_in \in Nat /\ released \in Seq(Held) /\ b \in Seq(Held)
  BY DEF TypeOK, Batch
<1>2. \A i \in DOMAIN b : b[i].seq \in Nat
  <2>1. \A i \in 1..Len(b) : b[i] \in Held
    BY <1>1, ElementOfSeq
  <2> QED  BY <1>1, <2>1, LenProperties, Zenon DEF Held
<1>3. \A i \in DOMAIN released : released[i].seq \in Nat
  <2>1. \A i \in 1..Len(released) : released[i] \in Held
    BY <1>1, ElementOfSeq
  <2> QED  BY <1>1, <2>1, LenProperties, Zenon DEF Held
<1>4. \A i \in DOMAIN b : b[i].seq >= next_in
  <2>1. FirstReleased \in Nat /\ next_in <= FirstReleased
    BY <1>1 DEF FirstReleased
  <2>2. \A i \in DOMAIN b : FirstReleased <= b[i].seq
    BY Zenon DEF Batch
  <2> QED  BY <1>1, <1>2, <2>1, <2>2
<1>5. PICK L \in Nat, M \in Nat : Parts(released, b, released \o b, L, M)
  BY <1>1, ConcatParts, Zenon
<1>6. Parts(released, b, released', L, M)
  BY <1>5, Zenon
<1>7. DOMAIN released = 1..L /\ DOMAIN b = 1..M /\ DOMAIN released' = 1..(L + M)
  BY <1>6, Zenon DEF Parts
<1>8. \A x, lo, hi \in Nat : x \in lo..(hi - 1) <=> lo <= x /\ x < hi
  OBVIOUS
<1>9. Ordered(released, L, 0, next_in)
  <2>1. \A i \in DOMAIN released : released[i].seq >= 0
    BY <1>3
  <2> QED  BY <1>1, <1>3, <1>7, <1>8, <2>1, Zenon DEF ReleasedInOrder, Ordered
<1>10. Ordered(b, M, next_in, next_in')
  BY <1>1, <1>2, <1>4, <1>7, <1>8, Zenon DEF Batch, Ordered
<1>11. Ordered(released', L + M, 0, next_in')
  BY <1>1, <1>6, <1>9, <1>10, PartsInOrder
<1>12. \A n \in Nat : \A x \in 0..(n - 1) : x < n
  OBVIOUS
<1> QED  BY <1>7, <1>11, <1>12, Zenon DEF ReleasedInOrder, Ordered

(* on_message preserves the invariant.                                     *)
LEMMA MessageInv ==
  ASSUME SessionInv, NEW in \in Inbound, on_message(in)
  PROVE  SessionInv' /\ MessageEffect(in)
<1>1. TypeOK' /\ MessageEffect(in)
  BY MessageStep DEF SessionInv
<1>2. PICK b : released' = released \o b /\ Batch(b, FirstReleased, next_in')
  BY <1>1 DEF MessageEffect
<1>3. next_in' \in Nat /\ next_in' >= next_in
  BY <1>1 DEF TypeOK, MessageEffect
<1>4. ReleasedInOrder'
  BY <1>2, <1>3, BatchKeepsOrder DEF SessionInv
<1> QED  BY <1>1, <1>4 DEF SessionInv, RecoveringHolds, MessageEffect

(* So does every other call, and the clock; none moves next_in_ or takes   *)
(* anything out of queued_.                                                *)
Elsewhere == begin_logon \/ claim_outbound_seq \/ take_released \/ on_clock \/ Tick

LEMMA OtherInv ==
  ASSUME SessionInv, Elsewhere \/ UNCHANGED vars
  PROVE  SessionInv' /\ next_in' = next_in /\ queued' = queued
<1>0. 0 \in 0..Heartbeat /\ Heartbeat \in Nat
  BY ConfigAssumption DEF Heartbeat, OrDefault
<1>1. NoOutcome \in Outcome
  BY ResultType DEF NoOutcome, Flags, Reject
<1>2. CASE begin_logon
  <2>1. TypeOK'
    <3>1. next_out' \in Nat \ {0}
      BY <1>2 DEF begin_logon, SessionInv, TypeOK
    <3> QED  BY <1>0, <1>1, <1>2, <3>1, Zenon DEF begin_logon, SessionInv, TypeOK, State
  <2> QED  BY <1>2, <2>1 DEF begin_logon, SessionInv, ReleasedInOrder, RecoveringHolds
<1>3. CASE claim_outbound_seq
  <2>1. TypeOK'
    BY <1>3 DEF claim_outbound_seq, SessionInv, TypeOK
  <2> QED  BY <1>3, <2>1 DEF claim_outbound_seq, SessionInv, ReleasedInOrder, RecoveringHolds
<1>4. CASE take_released
  <2>1. TypeOK'
    BY <1>4, EmptySeq DEF take_released, SessionInv, TypeOK
  <2>2. ReleasedInOrder'
    BY <1>4 DEF take_released, ReleasedInOrder
  <2> QED  BY <1>4, <2>1, <2>2 DEF take_released, SessionInv, RecoveringHolds
<1>5. CASE ClockQuiet
  <2>1. TypeOK'
    BY <1>1, <1>5 DEF ClockQuiet, SessionInv, TypeOK
  <2> QED  BY <1>5, <2>1 DEF ClockQuiet, SessionInv, ReleasedInOrder, RecoveringHolds
<1>6. CASE AskPeer
  <2>1. out' \in Outcome
    BY <1>6, ResultType DEF AskPeer, Flags, Reject
  <2>2. TypeOK'
    BY <1>0, <1>6, <2>1 DEF AskPeer, SessionInv, TypeOK
  <2> QED  BY <1>6, <2>2 DEF AskPeer, SessionInv, ReleasedInOrder, RecoveringHolds
<1>7. CASE DeclareDead
  <2>1. out' \in Outcome
    BY <1>7, ResultType DEF DeclareDead, Flags, Reject
  <2>2. TypeOK'
    BY <1>7, <2>1 DEF DeclareDead, SessionInv, TypeOK, State
  <2> QED  BY <1>7, <2>2 DEF DeclareDead, SessionInv, ReleasedInOrder, RecoveringHolds
<1>8. CASE Tick
  <2>1. TypeOK'
    BY <1>0, <1>8 DEF Tick, SessionInv, TypeOK
  <2> QED  BY <1>8, <2>1 DEF Tick, SessionInv, ReleasedInOrder, RecoveringHolds
<1>9. CASE UNCHANGED vars
  BY <1>9 DEF vars, SessionInv, TypeOK, ReleasedInOrder, RecoveringHolds
<1> QED  BY <1>2, <1>3, <1>4, <1>5, <1>6, <1>7, <1>8, <1>9 DEF Elsewhere, on_clock

LEMMA InitInv == Init => SessionInv
<1> SUFFICES ASSUME Init PROVE SessionInv
  OBVIOUS
<1>1. NoOutcome \in Outcome
  BY ResultType DEF NoOutcome, Flags, Reject
<1>2. TypeOK
  <2>1. next_in \in Nat /\ next_out \in Nat \ {0}
    BY ConfigAssumption DEF Init, OrDefault
  <2> QED  BY <1>1, <2>1, EmptySeq, Zenon DEF Init, TypeOK, State
<1> QED  BY <1>2 DEF Init, SessionInv, ReleasedInOrder, RecoveringHolds

-----------------------------------------------------------------------------
(* Every step of Next keeps the invariant, skips nothing and loses nothing *)
(* that is held.                                                           *)
LEMMA NextInv ==
  ASSUME SessionInv, [Next]_vars
  PROVE  SessionInv' /\ SkipsNothing /\ KeepsHeld
<1>0. next_in \in Nat
  BY DEF SessionInv, TypeOK
<1>1. ASSUME NEW in \in Inputs, on_message(in)
      PROVE  SessionInv' /\ SkipsNothing /\ KeepsHeld
  <2>1. in \in Inbound
    BY InputsAssumption
  <2>2. SessionInv' /\ MessageEffect(in)
    BY <1>1, <2>1, MessageInv
  <2> QED  BY <2>2 DEF MessageEffect, SkipsNothing, KeepsHeld
<1>2. CASE Elsewhere \/ UNCHANGED vars
  <2>1. SessionInv' /\ next_in' = next_in /\ queued' = queued
    BY <1>2, OtherInv
  <2>2. next_in' >= next_in /\ (next_in + 1)..(next_in' - 1) = {}
    BY <1>0, <2>1
  <2> QED  BY <2>1, <2>2 DEF SkipsNothing, KeepsHeld
<1> QED  BY <1>1, <1>2 DEF Next, Receive, Elsewhere

(* Whatever the peer sends and however the calls interleave, every member  *)
(* keeps its type, released_ is in order and delivery is paused only while *)
(* a message is held.                                                      *)
THEOREM SessionSafety == Spec => [](TypeOK /\ ReleasedInOrder /\ RecoveringHolds)
<1>1. SessionInv /\ [Next]_vars => SessionInv'
  BY NextInv
<1>2. SessionInv => TypeOK /\ ReleasedInOrder /\ RecoveringHolds
  BY DEF SessionInv
<1> QED  BY InitInv, <1>1, <1>2, PTL DEF Spec

(* In particular, Recovering is never left with nothing to wait for.       *)
THEOREM SessionRecoversHolding == Spec => []RecoveringHolds
BY SessionSafety, PTL

(* next_in_ never passes a sequence that neither arrived, was held nor was *)
(* covered by a SequenceReset.                                             *)
THEOREM SessionSkipsNothing == Spec => NoSilentSkip
<1>1. SessionInv /\ [Next]_vars => SessionInv' /\ SkipsNothing
  BY NextInv
<1> QED  BY InitInv, <1>1, PTL DEF Spec, NoSilentSkip

(* A held application message leaves queued_ only into released_.          *)
THEOREM SessionLosesNothing == Spec => NothingHeldIsLost
<1>1. SessionInv /\ [Next]_vars => SessionInv' /\ KeepsHeld
  BY NextInv
<1> QED  BY InitInv, <1>1, PTL DEF Spec, NothingHeldIsLost

-----------------------------------------------------------------------------
(* The session with its caller.                                            *)

(* The inductive invariant of the session with its caller.                 *)
CallerInv == SessionInv /\ acted \in Seq(Nat) /\ ActedInOrder

(* Appending larger sequences keeps an increasing sequence increasing.     *)
LEMMA ConcatIncreasing ==
  ASSUME NEW s \in Seq(Nat), NEW t \in Seq(Nat), Increasing(s), Increasing(t),
         \A i \in DOMAIN s, j \in DOMAIN t : s[i] < t[j]
  PROVE  /\ s \o t \in Seq(Nat)
         /\ Increasing(s \o t)
         /\ \A k \in DOMAIN (s \o t) : \/ \E i \in DOMAIN s : (s \o t)[k] = s[i]
                                       \/ \E j \in DOMAIN t : (s \o t)[k] = t[j]
<1> DEFINE u == s \o t
<1>0. PICK L \in Nat, M \in Nat : Parts(s, t, s \o t, L, M)
  BY ConcatParts, Zenon
<1>1. /\ DOMAIN s = 1..L /\ DOMAIN t = 1..M /\ DOMAIN u = 1..(L + M)
      /\ \A i \in 1..L : u[i] = s[i]
      /\ \A i \in (L + 1)..(L + M) : u[i] = t[i - L]
  BY <1>0, Zenon DEF Parts
<1>2. u \in Seq(Nat)
  BY ConcatProperties
<1> HIDE DEF u
<1>3. ASSUME NEW k \in 1..(L + M), NEW j \in 1..(k - 1)
      PROVE  u[j] < u[k]
  <2>1. CASE k \in 1..L
    <3>1. j \in 1..L
      BY <1>1, <2>1
    <3> QED  BY <1>1, <2>1, <3>1, Zenon DEF Increasing
  <2>2. CASE k \in (L + 1)..(L + M) /\ j \in 1..L
    <3>1. k - L \in 1..M
      BY <1>1, <2>2
    <3> QED  BY <1>1, <2>2, <3>1, Zenon
  <2>3. CASE k \in (L + 1)..(L + M) /\ j \in (L + 1)..(L + M)
    <3>1. k - L \in 1..M /\ j - L \in 1..((k - L) - 1)
      BY <1>1, <2>3
    <3> QED  BY <1>1, <2>3, <3>1, Zenon DEF Increasing
  <2> QED  BY <1>1, <2>1, <2>2, <2>3
<1>4. Increasing(u)
  BY <1>1, <1>3 DEF Increasing
<1>5. ASSUME NEW k \in 1..(L + M)
      PROVE  (\E i \in DOMAIN s : u[k] = s[i]) \/ (\E j \in DOMAIN t : u[k] = t[j])
  <2>1. CASE k \in 1..L
    BY <1>1, <2>1, Zenon
  <2>2. CASE k \in (L + 1)..(L + M)
    <3>1. k - L \in 1..M
      BY <1>1, <2>2
    <3> QED  BY <1>1, <2>2, <3>1, Zenon
  <2> QED  BY <1>1, <2>1, <2>2
<1> QED  BY <1>1, <1>2, <1>4, <1>5, Zenon DEF u

(* What the caller acts on in one step: sequences above all the earlier    *)
(* ones, below next_in_ and below what is still to be taken.               *)
LEMMA ActedGrows ==
  ASSUME acted \in Seq(Nat), ActedInOrder, NEW t \in Seq(Nat), Increasing(t),
         acted' = acted \o t,
         \A i \in DOMAIN acted : \A j \in DOMAIN t : acted[i] < t[j],
         \A i \in DOMAIN acted : /\ acted[i] < next_in'
                                 /\ \A j \in DOMAIN released' : acted[i] < released'[j].seq,
         \A i \in DOMAIN t : /\ t[i] < next_in'
                             /\ \A j \in DOMAIN released' : t[i] < released'[j].seq
  PROVE  acted' \in Seq(Nat) /\ ActedInOrder'
<1>1. Increasing(acted)
  BY DEF ActedInOrder
<1>2. /\ acted' \in Seq(Nat) /\ Increasing(acted')
      /\ \A k \in DOMAIN acted' : \/ \E i \in DOMAIN acted : acted'[k] = acted[i]
                                  \/ \E j \in DOMAIN t : acted'[k] = t[j]
  BY <1>1, ConcatIncreasing
<1> QED  BY <1>2, Zenon DEF ActedInOrder, Increasing

LEMMA DeliverInv ==
  ASSUME CallerInv, NEW in \in Inbound, Deliver(in)
  PROVE  CallerInv'
<1>0. /\ SessionInv /\ acted \in Seq(Nat) /\ ActedInOrder
      /\ next_in \in Nat /\ released = << >> /\ in.seq \in Nat
  BY DEF CallerInv, SessionInv, TypeOK, Deliver, NothingToTake, Inbound
<1>1. SessionInv' /\ MessageEffect(in)
  BY <1>0, MessageInv DEF Deliver
<1>2. next_in' \in Nat /\ next_in' >= next_in
  BY <1>1 DEF SessionInv, TypeOK, MessageEffect
<1>3. PICK b : released' = released \o b /\ Batch(b, FirstReleased, next_in')
  BY <1>1 DEF MessageEffect
<1>4. b \in Seq(Held) /\ released' = b
  BY <1>0, <1>3, ConcatEmptySeq DEF Batch
<1>5. \A j \in DOMAIN b : b[j].seq \in Nat
  <2>1. \A j \in 1..Len(b) : b[j] \in Held
    BY <1>4, ElementOfSeq
  <2> QED  BY <1>4, <2>1, LenProperties DEF Held
<1>6. \A i \in DOMAIN acted : acted[i] \in Nat /\ acted[i] < next_in
  <2>1. \A i \in 1..Len(acted) : acted[i] \in Nat
    BY <1>0, ElementOfSeq
  <2> QED  BY <1>0, <2>1, LenProperties DEF ActedInOrder
<1>7. \A j \in DOMAIN b : b[j].seq >= FirstReleased
  <2>1. FirstReleased \in Nat
    BY <1>0 DEF FirstReleased
  <2> QED  BY <1>3, <1>5, <2>1 DEF Batch
<1>8. \A i \in DOMAIN acted : /\ acted[i] < next_in'
                              /\ \A j \in DOMAIN released' : acted[i] < released'[j].seq
  BY <1>0, <1>2, <1>4, <1>5, <1>6, <1>7 DEF FirstReleased
<1>9. CASE Delivers
  <2>1. in.seq = next_in /\ next_in' > next_in
    BY <1>1, <1>9 DEF MessageEffect
  <2> DEFINE t == <<in.seq>>
  <2>2. t \in Seq(Nat) /\ DOMAIN t = {1} /\ t[1] = next_in
    BY <1>0, <2>1
  <2>3. acted' = acted \o t
    BY <1>0, <1>9, AppendIsConcat DEF Deliver, Delivers
  <2>4. Increasing(t)
    BY <2>2 DEF Increasing
  <2>5. \A j \in DOMAIN b : b[j].seq > next_in
    BY <1>0, <1>5, <1>7, <1>9 DEF FirstReleased
  <2> HIDE DEF t
  <2>6. \A i \in DOMAIN t : /\ t[i] < next_in'
                            /\ \A j \in DOMAIN released' : t[i] < released'[j].seq
    BY <1>0, <1>2, <1>4, <1>5, <2>1, <2>2, <2>5
  <2>7. \A i \in DOMAIN acted : \A j \in DOMAIN t : acted[i] < t[j]
    BY <1>6, <2>2
  <2>8. acted' \in Seq(Nat) /\ ActedInOrder'
    BY <1>0, <1>8, <2>2, <2>3, <2>4, <2>6, <2>7, ActedGrows, Zenon
  <2> QED  BY <1>1, <2>8 DEF CallerInv
<1>10. CASE ~Delivers
  <2>1. acted' = acted
    BY <1>10 DEF Deliver, Delivers
  <2> QED  BY <1>0, <1>1, <1>8, <2>1 DEF CallerInv, ActedInOrder, Increasing
<1> QED  BY <1>9, <1>10

LEMMA TakeInv ==
  ASSUME CallerInv, TakeReleased
  PROVE  CallerInv'
<1>0. /\ SessionInv /\ acted \in Seq(Nat) /\ ActedInOrder
      /\ released \in Seq(Held) /\ ReleasedInOrder
  BY DEF CallerInv, SessionInv, TypeOK
<1>1. SessionInv' /\ next_in' = next_in /\ released' = << >>
  BY <1>0, OtherInv DEF TakeReleased, take_released, Elsewhere
<1> DEFINE t == [i \in DOMAIN released |-> released[i].seq]
<1>2. \A i \in DOMAIN released : released[i].seq \in Nat
  <2>1. \A i \in 1..Len(released) : released[i] \in Held
    BY <1>0, ElementOfSeq
  <2> QED  BY <1>0, <2>1, LenProperties DEF Held
<1>3. t \in Seq(Nat) /\ DOMAIN t = DOMAIN released /\ \A i \in DOMAIN released : t[i] = released[i].seq
  <2>1. Len(released) \in Nat /\ DOMAIN released = 1..Len(released)
    BY <1>0, LenProperties
  <2> QED  BY <1>2, <2>1, IsASeq
<1>4. acted' = acted \o t
  BY DEF TakeReleased
<1> HIDE DEF t
<1>5. Increasing(t)
  <2> SUFFICES ASSUME NEW i \in DOMAIN t, NEW j \in 1..(i - 1)
               PROVE  t[j] < t[i]
    BY DEF Increasing
  <2>1. i \in 1..Len(released) /\ Len(released) \in Nat /\ DOMAIN released = 1..Len(released)
    BY <1>0, <1>3, LenProperties
  <2>2. j \in 1..Len(released)
    BY <2>1
  <2> QED  BY <1>0, <1>3, <2>1, <2>2, Zenon DEF ReleasedInOrder
<1>6. /\ \A i \in DOMAIN acted : acted[i] < next_in' /\ \A j \in DOMAIN t : acted[i] < t[j]
      /\ \A i \in DOMAIN t : t[i] < next_in'
  BY <1>0, <1>1, <1>3, Zenon DEF ActedInOrder, ReleasedInOrder
<1>7. DOMAIN released' = {}
  BY <1>1
<1>8. acted' \in Seq(Nat) /\ ActedInOrder'
  BY <1>0, <1>3, <1>4, <1>5, <1>6, <1>7, ActedGrows, Zenon
<1> QED  BY <1>1, <1>8 DEF CallerInv

(* The caller never acts on a message twice or out of order, through any   *)
(* gaps, duplicates, resets, logouts, timeouts and reconnects.             *)
THEOREM CallerActsInOrder == CallerSpec => []ActedInOrder
<1>1. CallerInit => CallerInv
  BY InitInv, EmptySeq DEF CallerInit, CallerInv, ActedInOrder, Increasing
<1>2. ASSUME CallerInv, [CallerNext]_cvars
      PROVE  CallerInv'
  <2>1. ASSUME NEW in \in Inputs, Deliver(in) PROVE CallerInv'
    BY <1>2, <2>1, InputsAssumption, DeliverInv
  <2>2. CASE TakeReleased
    BY <1>2, <2>2, TakeInv
  <2>3. CASE Dial \/ Claim \/ Question \/ Quiet \/ Verdict \/ Time \/ UNCHANGED cvars
    <3>1. Elsewhere \/ UNCHANGED vars
      BY <2>3 DEF Dial, Claim, Question, Quiet, Verdict, Time, cvars, Elsewhere, on_clock
    <3>2. SessionInv' /\ next_in' = next_in
      BY <1>2, <3>1, OtherInv DEF CallerInv
    <3>3. acted' = acted /\ released' = released
      BY <2>3 DEF Dial, Claim, Question, Quiet, Verdict, Time, cvars, vars, history, begin_logon,
                  claim_outbound_seq, AskPeer, ClockQuiet, DeclareDead, Tick
    <3> QED  BY <1>2, <3>2, <3>3 DEF CallerInv, ActedInOrder, Increasing
  <2> QED  BY <1>2, <2>1, <2>2, <2>3 DEF CallerNext, Arrival
<1>3. CallerInv => ActedInOrder
  BY DEF CallerInv
<1> QED  BY <1>1, <1>2, <1>3, PTL DEF CallerSpec

(* After a question the silence of the peer is counted anew, so it is no   *)
(* longer than the time since that question.                               *)
AskedSince ==
    /\ since_ask \in 0..Heartbeat
    /\ test_request_outstanding => silent <= since_ask

(* on_clock never asks and disconnects on the same silence, however often  *)
(* it is called and whatever arrives in between.                           *)
THEOREM CallerWaitsForAnswer == CallerSpec => DeadOnlyAfterInterval
<1> DEFINE I == SessionInv /\ AskedSince
<1>0. Heartbeat \in Nat
  BY ConfigAssumption DEF Heartbeat, OrDefault
<1>1. CallerInit => I
  BY <1>0, InitInv DEF CallerInit, Init, AskedSince
<1> HIDE DEF I
<1>2. ASSUME I, [CallerNext]_cvars
      PROVE  I' /\ (Verdict => since_ask >= Heartbeat)
  <2>0. /\ SessionInv /\ silent \in 0..Heartbeat /\ since_ask \in 0..Heartbeat
        /\ test_request_outstanding \in BOOLEAN
        /\ test_request_outstanding => silent <= since_ask
    BY <1>2 DEF I, SessionInv, TypeOK, AskedSince
  <2>1. ASSUME NEW in \in Inputs, Deliver(in) PROVE I'
    <3>1. SessionInv'
      BY <2>0, <2>1, InputsAssumption, MessageInv DEF Deliver
    <3>2. /\ silent' \in {0, silent} /\ since_ask' = since_ask
          /\ test_request_outstanding' => test_request_outstanding
      <4> SUFFICES silent' \in {0, silent} /\ (test_request_outstanding' => test_request_outstanding)
        BY <2>1, Zenon DEF Deliver
      <4>1. CASE RefuseTraffic(in) \/ RefuseLogonBehind(in) \/ DropProcessed(in)
        <5>1. /\ silent' = 0 \/ silent' = silent
              /\ test_request_outstanding' = test_request_outstanding
          BY <4>1, ZenonT(30) DEF RefuseTraffic, RefuseLogonBehind, DropProcessed
        <5> QED  BY <5>1
      <4>2. CASE HoldAhead(in)
        BY <4>2, Zenon DEF HoldAhead
      <4>3. CASE accept_in_sequence(in)
        <5>1. \E kind \in Admin : InSequence(in, kind)
          BY <4>3 DEF accept_in_sequence, AcceptReset, RefuseReset, AcceptTestRequest,
             AcceptResendRequest, AcceptLogout, AcceptHeartbeat, AcceptLogon,
             RefuseSecondLogon, AcceptApplication, RefuseApplication, Admin
        <5> QED  BY <5>1, Zenon DEF InSequence
      <4> QED  BY <2>1, <4>1, <4>2, <4>3, Zenon DEF Deliver, on_message
    <3> QED  BY <1>0, <2>0, <3>1, <3>2 DEF I, AskedSince
  <2>2. ASSUME \/ TakeReleased \/ Dial \/ Claim \/ Question \/ Quiet \/ Verdict \/ Time
               \/ UNCHANGED cvars
        PROVE  I'
    <3>1. Elsewhere \/ UNCHANGED vars
      BY <2>2 DEF TakeReleased, Dial, Claim, Question, Quiet, Verdict, Time, cvars, Elsewhere,
                  on_clock
    <3>2. SessionInv'
      BY <2>0, <3>1, OtherInv
    <3>3. AskedSince'
      BY <1>0, <2>0, <2>2 DEF AskedSince, TakeReleased, take_released, Dial, begin_logon, Claim,
         claim_outbound_seq, Question, AskPeer, Quiet, ClockQuiet, Verdict, DeclareDead, Time,
         Tick, cvars, vars, history
    <3> QED  BY <3>2, <3>3 DEF I
  <2>3. Verdict => since_ask >= Heartbeat
    BY <1>0, <2>0 DEF Verdict, DeclareDead
  <2>4. I'
    BY <1>2, <2>1, <2>2, Zenon DEF CallerNext, Arrival
  <2> QED  BY <2>3, <2>4
<1> QED  BY <1>1, <1>2, PTL DEF CallerSpec, DeadOnlyAfterInterval

=============================================================================
