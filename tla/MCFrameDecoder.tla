--------------------------- MODULE MCFrameDecoder ---------------------------
(* Streams of a heartbeat, a message with a body and a frame of a type the *)
(* decoder does not know, in any order, with one unit damaged.             *)
EXTENDS FrameDecoder

CONSTANTS
    MaxFrames,   \* bound: frames of a stream
    Damage,      \* the values a damaged unit takes
    Hit          \* the header fields that damage may hit; 7 is the body

MCBodySizes == [t \in {0, 1} |-> 2 * t]

(* The body of a message holds the magic.                                  *)
BodyOf(t) == CASE t = 0 -> << >> [] t = 1 -> kMagic [] OTHER -> <<9>>

(* The last one lets a gap be found on a frame that is not delivered.      *)
Types == UNION {[1..n -> {0, 1, 5}] : n \in 1..MaxFrames} \cup {<<0, 1, 5, 0>>}

Starts(ts) ==
    LET At[i \in 1..Len(ts)] ==
          IF i = 1 THEN 0 ELSE At[i - 1] + kHeaderSize + Len(BodyOf(ts[i - 1]))
    IN  At

Sent(ts) ==
    [i \in 1..Len(ts) |->
        [type |-> ts[i], seq |-> i, at |-> Starts(ts)[i], body |-> BodyOf(ts[i])]]

Units(ts) ==
    LET Upto[i \in 0..Len(ts)] ==
          IF i = 0 THEN << >> ELSE Upto[i - 1] \o encode(ts[i], i, BodyOf(ts[i]))
    IN  Upto[Len(ts)]

(* The offsets of the fields in Hit.                                       *)
Exposed(ts) ==
    {p \in 1..Len(Units(ts)) :
        \E i \in DOMAIN ts : \E f \in Hit :
            LET at == Starts(ts)[i]
            IN  p = at + f + 1 \/ (f = 7 /\ p \in (at + 8)..(at + Size(Sent(ts)[i])))}

Whole(ts) == [sent |-> Sent(ts), units |-> Units(ts), damaged |-> {}]

MCStreams ==
    {Whole(ts) : ts \in Types}
    \cup UNION {{[sent |-> Sent(ts), units |-> [Units(ts) EXCEPT ![p] = v], damaged |-> {p - 1}] :
                   p \in Exposed(ts), v \in Damage} : ts \in Types}

(* The checksum tells the damage of these streams.                         *)
ASSUME DamageAssumption == DamageIsSeen

=============================================================================
