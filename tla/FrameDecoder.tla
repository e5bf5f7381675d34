---------------------------- MODULE FrameDecoder ----------------------------
(***************************************************************************)
(* The incremental decoder of the wire format (class FrameDecoder of       *)
(* wire.hpp, wire.cpp), fed a stream of frames, some of it damaged, in     *)
(* pieces of any size.  A call of next() takes one step for each pass of   *)
(* its loop.  Of the statistics, those that count bytes and missing        *)
(* messages are kept.                                                      *)
(***************************************************************************)
EXTENDS Wire, FiniteSets

CONSTANTS
    Streams,     \* what a peer may send: see Stream
    MaxBody,     \* max_body_
    CompactAt,   \* 4096: a dead prefix this long is always reclaimed
    SeqLimit,    \* 2^64
    MaxResets    \* bound: calls of reset()

(* The frames as the peer sent them, with their offsets, the units as they *)
(* arrive, and the offsets at which those are not what was sent.           *)
Stream == [sent: Seq([type: Nat, seq: Nat, at: Nat, body: Seq(Nat)]),
           units: Seq(Nat), damaged: SUBSET Nat]

Size(f) == kHeaderSize + Len(f.body)

(* The frames of a stream are encoded messages of acceptable length, one   *)
(* after the other and numbered without a gap, and their units arrive as   *)
(* they were sent but for the damage.                                      *)
AsSent(s) ==
    \A i \in DOMAIN s.sent :
        LET f == s.sent[i]
        IN  /\ f.seq < SeqLimit /\ f.at + Size(f) <= Len(s.units)
            /\ Len(f.body) <= MaxBody
            /\ f.type \in DOMAIN BodySizes => Len(f.body) = BodySizes[f.type]
            /\ \A k \in 1..Size(f) :
                 f.at + k - 1 \notin s.damaged
                   => s.units[f.at + k] = encode(f.type, f.seq, f.body)[k]
            /\ \A j \in (i + 1)..Len(s.sent) :
                 s.sent[j].at >= f.at + Size(f) /\ s.sent[j].seq = f.seq + (j - i)

ASSUME DecoderAssumption ==
    /\ Streams \subseteq Stream
    /\ MaxBody \in Nat /\ CompactAt \in Nat \ {0} /\ MaxResets \in Nat
    /\ SeqLimit \in Nat \ {0}
    /\ \A s \in Streams : AsSent(s)

VARIABLES
    buf, rpos, next_seq, pending_gap, have_seq,
    bytes_consumed, bytes_discarded, seq_missing,
    delivered,   \* the messages next() returned, with their offsets
    calling,     \* is a call of next() under way?
    drained,     \* did the last call find too few bytes, with none fed since?
    stream,      \* what the peer sent
    fed,         \* how much of it was fed
    origin,      \* how much of it before the last reset
    decoded,     \* offsets of the frames decoded since
    resets

counts == <<bytes_consumed, bytes_discarded, seq_missing>>
gaps   == <<next_seq, pending_gap, have_seq>>
source == <<stream, fed, origin, resets>>
vars   == <<buf, rpos, gaps, counts, delivered, calling, drained, source, decoded>>

Init ==
    /\ buf = << >> /\ rpos = 0
    /\ next_seq = 0 /\ pending_gap = 0 /\ have_seq = FALSE
    /\ bytes_consumed = 0 /\ bytes_discarded = 0 /\ seq_missing = 0
    /\ delivered = << >> /\ calling = FALSE /\ drained = FALSE
    /\ stream \in Streams /\ fed = 0 /\ origin = 0 /\ decoded = << >>
    /\ resets = 0

(* How many units are buffered.                                            *)
Buffered == Len(buf) - rpos

(* Where rpos stands in the stream.                                        *)
Offset == fed - Buffered

-----------------------------------------------------------------------------
(* rpos moves to r, the dead prefix is reclaimed when it is worth it, and  *)
(* then tail is appended.                                                  *)
compact(r, tail) ==
    IF r # 0 /\ (r >= CompactAt \/ r * 2 >= Len(buf))
    THEN buf' = SubSeq(buf, r + 1, Len(buf)) \o tail /\ rpos' = 0
    ELSE buf' = buf \o tail /\ rpos' = r

feed(n) ==
    /\ ~calling
    /\ n \in 1..(Len(stream.units) - fed)
    /\ compact(rpos, SubSeq(stream.units, fed + 1, fed + n))
    /\ fed' = fed + n /\ drained' = FALSE
    /\ UNCHANGED <<gaps, counts, delivered, calling, stream, origin, resets, decoded>>

Call ==
    /\ ~calling
    /\ calling' = TRUE /\ drained' = FALSE
    /\ UNCHANGED <<buf, rpos, gaps, counts, delivered, source, decoded>>

(* The i-th unit of the header at rpos, from 0 as in the code.             *)
Field(i) == buf[rpos + 1 + i]

Known   == Field(3) \in DOMAIN BodySizes
BodyLen == Field(4)

(* Magic, version and length hold.                                         *)
Plausible ==
    /\ <<Field(0), Field(1)>> = kMagic
    /\ Field(2) = kVersion
    /\ BodyLen <= MaxBody
    /\ Known => BodyLen = BodySizes[Field(3)]

Body     == SubSeq(buf, rpos + kHeaderSize + 1, rpos + kHeaderSize + BodyLen)
FrameLen == kHeaderSize + BodyLen

(* The call returns false: more bytes are needed.                          *)
Wait ==
    /\ calling
    /\ \/ Buffered < kHeaderSize
       \/ Buffered >= kHeaderSize /\ Plausible /\ Buffered < FrameLen
    /\ calling' = FALSE /\ drained' = TRUE
    /\ UNCHANGED <<buf, rpos, gaps, counts, delivered, source, decoded>>

First(positions) == CHOOSE p \in positions : \A q \in positions : p <= q

(* Where a magic starts after position r.                                  *)
MagicsAfter(r) == {p \in (r + 1)..(Len(buf) - 2) : <<buf[p + 1], buf[p + 2]>> = kMagic}

(* Variants: the hunt starts where it stands; it steps over the frame by   *)
(* the length that was just found wanting; it keeps nothing.               *)
HuntInPlace   == IF MagicsAfter(rpos - 1) # {} THEN First(MagicsAfter(rpos - 1)) ELSE Len(buf) - 1
HuntByLength  == IF FrameLen < Buffered THEN rpos + FrameLen ELSE Len(buf) - 1
HuntToTheEnd  == IF MagicsAfter(rpos) # {} THEN First(MagicsAfter(rpos)) ELSE Len(buf)

(* The next magic, or the final byte: a magic can straddle two reads.      *)
Hunt == IF MagicsAfter(rpos) # {} THEN First(MagicsAfter(rpos)) ELSE Len(buf) - 1

(* Bytes are discarded up to the next magic; without one the call returns. *)
resync ==
    /\ calling
    /\ Buffered >= kHeaderSize
    /\ \/ ~Plausible
       \/ Buffered >= FrameLen /\ fletcher16(Body) # Field(6)
    /\ bytes_discarded' = bytes_discarded + (Hunt - rpos)
    /\ compact(Hunt, << >>)
    /\ calling' = (MagicsAfter(rpos) # {})
    /\ drained' = (MagicsAfter(rpos) = {})
    /\ UNCHANGED <<gaps, bytes_consumed, seq_missing, delivered, source, decoded>>

(* A frame that holds is consumed, whatever its type.                      *)
Consume ==
    /\ calling
    /\ Buffered >= kHeaderSize /\ Plausible
    /\ Buffered >= FrameLen /\ fletcher16(Body) = Field(6)
    /\ compact(rpos + FrameLen, << >>)
    /\ bytes_consumed' = bytes_consumed + FrameLen
    /\ decoded' = Append(decoded, Offset)
    /\ UNCHANGED <<bytes_discarded, source>>

(* How many sequence numbers are missing before seq.                       *)
Missing(seq) == IF have_seq /\ seq > next_seq THEN seq - next_seq ELSE 0

Successor(seq) == (seq + 1) % SeqLimit

Account(seq) ==
    /\ have_seq' = TRUE
    /\ next_seq' = IF have_seq /\ seq < next_seq THEN next_seq ELSE Successor(seq)
    /\ seq_missing' = seq_missing + Missing(seq)

(* A frame of a known type is returned; it carries the gap before it.      *)
Deliver ==
    /\ Consume /\ Known
    /\ Account(Field(5))
    /\ delivered' = Append(delivered,
           [type |-> Field(3), seq |-> Field(5), at |-> Offset,
            gap_before |-> pending_gap + Missing(Field(5))])
    /\ pending_gap' = 0
    /\ calling' = FALSE /\ UNCHANGED drained

(* Variant: the gap stays with the frame that is not delivered.            *)
SkipUnknownForgetting ==
    /\ Consume /\ ~Known
    /\ Account(Field(5))
    /\ UNCHANGED <<pending_gap, delivered, calling, drained>>

(* A frame of an unknown type is skipped by its length; its gap is kept.   *)
SkipUnknown ==
    /\ Consume /\ ~Known
    /\ Account(Field(5))
    /\ pending_gap' = pending_gap + Missing(Field(5))
    /\ UNCHANGED <<delivered, calling, drained>>

next == Wait \/ resync \/ Deliver \/ SkipUnknown

reset ==
    /\ ~calling /\ resets < MaxResets
    /\ buf' = << >> /\ rpos' = 0
    /\ next_seq' = 0 /\ pending_gap' = 0 /\ have_seq' = FALSE
    /\ bytes_consumed' = 0 /\ bytes_discarded' = 0 /\ seq_missing' = 0
    /\ delivered' = << >> /\ drained' = FALSE /\ decoded' = << >>
    /\ origin' = fed /\ resets' = resets + 1
    /\ UNCHANGED <<calling, stream, fed>>

Next == (\E n \in 1..Len(stream.units) : feed(n)) \/ Call \/ next \/ reset

Spec == Init /\ [][Next]_vars

(* A call of next() that has begun runs to its end.                        *)
FairSpec == Spec /\ WF_vars(next)

-----------------------------------------------------------------------------
(* Reference: a frame, or a header whose frame is still incomplete, at     *)
(* offset p of the units s.                                                *)
HeaderAt(s, p) ==
    /\ p + kHeaderSize <= Len(s)
    /\ <<s[p + 1], s[p + 2]>> = kMagic /\ s[p + 3] = kVersion
    /\ s[p + 5] <= MaxBody
    /\ s[p + 4] \in DOMAIN BodySizes => s[p + 5] = BodySizes[s[p + 4]]

EndAt(s, p)    == p + kHeaderSize + s[p + 5]
StallsAt(s, p) == HeaderAt(s, p) /\ EndAt(s, p) > Len(s)
FrameAt(s, p)  ==
    /\ HeaderAt(s, p) /\ EndAt(s, p) <= Len(s)
    /\ fletcher16(SubSeq(s, p + kHeaderSize + 1, EndAt(s, p))) = s[p + 7]

(* Reference: ps are the frames of s from offset lo on, each the first at  *)
(* or after the end of the one before, up to a header whose frame is       *)
(* incomplete.                                                             *)
AreFrames(ps, s, lo) ==
    LET End(i)        == IF i = 0 THEN lo ELSE EndAt(s, ps[i])
        Candidates(p) == {q \in p..(Len(s) - 1) : FrameAt(s, q) \/ StallsAt(s, q)}
    IN  /\ \A i \in DOMAIN ps :
             /\ FrameAt(s, ps[i])
             /\ ps[i] = First(Candidates(End(i - 1)))
        /\ \/ Candidates(End(Len(ps))) = {}
           \/ StallsAt(s, First(Candidates(End(Len(ps)))))

(* Whatever the pieces the stream is fed in, and wherever the buffer was   *)
(* compacted or a hunt for the magic ended, the frames decoded once next() *)
(* asks for more are those of the bytes fed so far taken as a whole.       *)
SplitsDoNotMatter ==
    drained => AreFrames(decoded, SubSeq(stream.units, 1, fed), origin)

(* No damage makes a frame of what was not sent as one.                    *)
DamageIsSeen ==
    \A s \in Streams : \A q \in 0..(Len(s.units) - 1) :
        FrameAt(s.units, q) =>
            \E i \in DOMAIN s.sent :
                s.sent[i].at = q /\ EndAt(s.units, q) = q + Size(s.sent[i])

Intact(f) == stream.damaged \cap (f.at)..(f.at + Size(f) - 1) = {}

(* Damage costs the frames it hits and no other: resync() never discards   *)
(* a frame that arrived whole.                                             *)
IntactAreDecoded ==
    \A i \in DOMAIN stream.sent :
        LET f == stream.sent[i]
        IN  Intact(f) /\ f.at >= origin /\ f.at + Size(f) <= Offset
                => \E j \in DOMAIN decoded : decoded[j] = f.at

Between(f, i) == delivered[i].at < f.at /\ f.at < delivered[i + 1].at

(* The checksum covers the body: type and seq, at 3 and 5, are believed.   *)
HeadersHold ==
    \A i \in DOMAIN stream.sent :
        stream.damaged \cap {stream.sent[i].at + 3, stream.sent[i].at + 5} = {}

(* "Every message reports how many preceded it": unless a type or a seq is *)
(* damaged, the gap next() reports with a message counts every message     *)
(* lost since the one it returned before, and nothing that was not sent.   *)
(* And every byte fed since the last reset is in a frame that was          *)
(* consumed, counted as discarded or still buffered, however the buffer    *)
(* was moved.                                                              *)
NoSilentLoss ==
    /\ bytes_consumed + bytes_discarded + Buffered = fed - origin
    /\ HeadersHold =>
         \A i \in 1..(Len(delivered) - 1) :
           LET skipped == {j \in DOMAIN stream.sent : Between(stream.sent[j], i)}
               lost    == {j \in skipped : stream.sent[j].type \in DOMAIN BodySizes}
           IN  delivered[i].at >= origin
                 => delivered[i + 1].gap_before \in Cardinality(lost)..Cardinality(skipped)

(* A call of next() returns: its loop makes progress on any stream.        *)
NextReturns == calling ~> ~calling

=============================================================================
