------------------------------- MODULE ShmIpc -------------------------------
(***************************************************************************)
(* The two processes of shm_ipc_posix.cpp: the writer streams messages to  *)
(* the child it forked, the child reports what it saw, and then the two    *)
(* play ping-pong.  They talk through two rings, the bounded queues that   *)
(* ShmRing implements.  Either may be killed at any moment, and any wait   *)
(* for a ring may end at its deadline, which is tested only after a push   *)
(* or pop that failed.                                                     *)
(***************************************************************************)
EXTENDS Integers, Sequences

CONSTANTS
    Depth,          \* the capacity of each ring
    stream_count,
    warmup,
    rtt_iters

ASSUME IpcAssumption ==
    /\ Depth \in Nat /\ Depth >= 2
    /\ stream_count \in Nat
    /\ warmup \in Nat \ {0} /\ rtt_iters \in Nat \ {0}

VARIABLES
    to_reader, to_writer,   \* the rings
    parent_pc,                   \* where the parent is
    p_i,                    \* the counter of its loop
    p_rc,                   \* its exit code
    alarm,                  \* did it report data loss or a mismatch?
    child_pc,                   \* where the child is
    c_held,                 \* the message it has popped
    count, checksum,        \* what it saw of the stream
    c_rc                    \* its exit code

rings    == <<to_reader, to_writer>>
parent   == <<parent_pc, p_i, p_rc, alarm>>
child    == <<child_pc, c_held, count, checksum, c_rc>>
demovars == <<rings, parent, child>>

(* A message.  The checksum is an exclusive or: the set of what it saw an  *)
(* odd number of times.                                                    *)
Msg(seq, payload) == [seq |-> seq, payload |-> payload]

kSentinel == -1
Sentinel  == Msg(kSentinel, {})

Xor(a, b) == (a \ b) \cup (b \ a)

DemoInit ==
    /\ to_reader = << >> /\ to_writer = << >>
    /\ parent_pc = "setup" /\ p_i = 0 /\ p_rc = "running" /\ alarm = FALSE
    /\ child_pc = "none" /\ c_held = Sentinel /\ count = 0 /\ checksum = {} /\ c_rc = "running"

-----------------------------------------------------------------------------
(* The parent.                                                             *)
ParentEnds(rc) == parent_pc' = "ended" /\ p_rc' = rc /\ UNCHANGED p_i

(* The segment, the rings in it and the child, if all can be had.          *)
Setup ==
    /\ parent_pc = "setup"
    /\ \/ parent_pc' = "stream" /\ child_pc' = "open" /\ UNCHANGED <<p_i, p_rc>>
       \/ ParentEnds("1") /\ UNCHANGED child_pc
    /\ UNCHANGED <<rings, alarm, c_held, count, checksum, c_rc>>

ParentPushes(m) ==
    /\ Len(to_reader) < Depth
    /\ to_reader' = Append(to_reader, m)
    /\ UNCHANGED <<to_writer, p_rc, alarm, child>>

ParentPops ==
    /\ to_writer # << >>
    /\ to_writer' = Tail(to_writer)
    /\ UNCHANGED to_reader

Stream ==
    /\ parent_pc = "stream" /\ p_i < stream_count
    /\ ParentPushes(Msg(p_i, {p_i}))
    /\ p_i' = p_i + 1 /\ UNCHANGED parent_pc

StreamSentinel ==
    /\ parent_pc = "stream" /\ p_i = stream_count
    /\ ParentPushes(Sentinel)
    /\ parent_pc' = "ack" /\ p_i' = 0

StreamOk(ack) == ack = Msg(stream_count, 0..(stream_count - 1))

(* A wrong report: the child is killed and waited for.                     *)
TakeAck ==
    /\ parent_pc = "ack"
    /\ ParentPops
    /\ IF StreamOk(Head(to_writer))
       THEN parent_pc' = "warmup" /\ UNCHANGED <<p_i, p_rc, alarm, child>>
       ELSE /\ ParentEnds("1") /\ alarm' = TRUE
            /\ child_pc' = "ended" /\ c_rc' = IF child_pc = "ended" THEN c_rc ELSE "killed"
            /\ UNCHANGED <<c_held, count, checksum>>

Ping ==
    /\ parent_pc \in {"warmup", "ping"}
    /\ ParentPushes(Msg(p_i, {}))
    /\ parent_pc' = IF parent_pc = "warmup" THEN "warmup echo" ELSE "pong"
    /\ UNCHANGED p_i

TakeEcho ==
    /\ parent_pc = "warmup echo"
    /\ ParentPops
    /\ IF p_i + 1 < warmup THEN parent_pc' = "warmup" /\ p_i' = p_i + 1
       ELSE parent_pc' = "ping" /\ p_i' = 0
    /\ UNCHANGED <<p_rc, alarm, child>>

TakePong ==
    /\ parent_pc = "pong"
    /\ ParentPops
    /\ IF Head(to_writer).seq # p_i THEN ParentEnds("1") /\ alarm' = TRUE
       ELSE /\ IF p_i + 1 < rtt_iters THEN parent_pc' = "ping" /\ p_i' = p_i + 1
               ELSE parent_pc' = "stop" /\ p_i' = 0
            /\ UNCHANGED <<p_rc, alarm>>
    /\ UNCHANGED child

SendStop ==
    /\ parent_pc = "stop"
    /\ ParentPushes(Sentinel)
    /\ parent_pc' = "waitpid" /\ UNCHANGED p_i

(* Variant: how the child ended does not matter.                           *)
WaitOnly ==
    /\ parent_pc = "waitpid" /\ child_pc = "ended"
    /\ ParentEnds("0")
    /\ UNCHANGED <<rings, alarm, child>>

waitpid ==
    /\ parent_pc = "waitpid" /\ child_pc = "ended"
    /\ ParentEnds(IF c_rc = "0" THEN "0" ELSE "1")
    /\ UNCHANGED <<rings, alarm, child>>

PushFails == parent_pc \in {"stream", "warmup", "ping", "stop"} /\ Len(to_reader) = Depth
PopFails  == parent_pc \in {"ack", "warmup echo", "pong"} /\ to_writer = << >>

(* Variant: no deadline for a pop.                                         *)
ParentPopsForEver ==
    /\ PushFails
    /\ IF parent_pc = "stop" THEN parent_pc' = "waitpid" /\ UNCHANGED <<p_i, p_rc>> ELSE ParentEnds("1")
    /\ UNCHANGED <<rings, alarm, child>>

(* Variant: a warm-up echo that is late is not waited for.                 *)
WarmupGoesOn ==
    /\ PushFails \/ PopFails
    /\ IF parent_pc = "stop" THEN parent_pc' = "waitpid" /\ UNCHANGED <<p_i, p_rc>>
       ELSE IF parent_pc = "warmup echo" THEN parent_pc' = "ping" /\ p_i' = 0 /\ UNCHANGED p_rc
       ELSE ParentEnds("1")
    /\ UNCHANGED <<rings, alarm, child>>

(* The deadline.  That of the last push is ignored.                        *)
ParentTimesOut ==
    /\ PushFails \/ PopFails
    /\ IF parent_pc = "stop" THEN parent_pc' = "waitpid" /\ UNCHANGED <<p_i, p_rc>> ELSE ParentEnds("1")
    /\ UNCHANGED <<rings, alarm, child>>

Parent ==
    \/ Setup \/ Stream \/ StreamSentinel \/ TakeAck \/ Ping \/ TakeEcho \/ TakePong
    \/ SendStop \/ waitpid \/ ParentTimesOut

-----------------------------------------------------------------------------
(* The child: run_reader.                                                  *)
ChildEnds(rc) == child_pc' = "ended" /\ c_rc' = rc

(* open_existing and the two attaches; the name may be gone by now.        *)
OpenSegment ==
    /\ child_pc = "open"
    /\ \/ child_pc' = "stream" /\ UNCHANGED c_rc
       \/ ChildEnds("2")
    /\ UNCHANGED <<rings, parent, c_held, count, checksum>>

ChildPops ==
    /\ to_reader # << >>
    /\ to_reader' = Tail(to_reader)
    /\ UNCHANGED <<to_writer, parent>>

ChildPushes(m) ==
    /\ Len(to_writer) < Depth
    /\ to_writer' = Append(to_writer, m)
    /\ UNCHANGED <<to_reader, parent, c_held, count, checksum, c_rc>>

DrainStream ==
    /\ child_pc = "stream"
    /\ ChildPops
    /\ IF Head(to_reader).seq = kSentinel
       THEN child_pc' = "report" /\ UNCHANGED <<count, checksum>>
       ELSE /\ count' = count + 1
            /\ checksum' = Xor(checksum, Head(to_reader).payload)
            /\ UNCHANGED child_pc
    /\ UNCHANGED <<c_held, c_rc>>

Report ==
    /\ child_pc = "report"
    /\ ChildPushes(Msg(count, checksum))
    /\ child_pc' = "ping"

TakePing ==
    /\ child_pc = "ping"
    /\ ChildPops
    /\ c_held' = Head(to_reader)
    /\ IF Head(to_reader).seq = kSentinel THEN ChildEnds("0") ELSE child_pc' = "echo" /\ UNCHANGED c_rc
    /\ UNCHANGED <<count, checksum>>

Echo ==
    /\ child_pc = "echo"
    /\ ChildPushes(c_held)
    /\ child_pc' = "ping"

ChildTimesOut ==
    /\ \/ child_pc \in {"stream", "ping"} /\ to_reader = << >>
       \/ child_pc \in {"report", "echo"} /\ Len(to_writer) = Depth
    /\ ChildEnds("3")
    /\ UNCHANGED <<rings, parent, c_held, count, checksum>>

Child == OpenSegment \/ DrainStream \/ Report \/ TakePing \/ Echo \/ ChildTimesOut

-----------------------------------------------------------------------------
Killed ==
    \/ /\ parent_pc # "ended" /\ ParentEnds("killed")
       /\ UNCHANGED <<rings, alarm, child>>
    \/ /\ child_pc \notin {"none", "ended"} /\ ChildEnds("killed")
       /\ UNCHANGED <<rings, parent, c_held, count, checksum>>

DemoNext == Parent \/ Child \/ Killed

DemoSpec == DemoInit /\ [][DemoNext]_demovars

(* Both processes run until they end; nobody has to kill them.             *)
DemoFairSpec == DemoSpec /\ WF_demovars(Parent) /\ WF_demovars(Child)

-----------------------------------------------------------------------------
(* The verdict is true.  Exit code 0 is earned: the child saw the whole    *)
(* stream, and ended with 0 itself, after it had answered every ping.  And *)
(* "cross-process data loss detected" or "ping-pong mismatch" are never    *)
(* said of rings that lose nothing, though the echoes of the warm-up are   *)
(* not compared, and whoever times out or is killed wherever.              *)
VerdictIsTrue ==
    /\ ~alarm
    /\ p_rc = "0" =>
        /\ c_rc = "0"
        /\ count = stream_count /\ checksum = 0..(stream_count - 1)
        /\ to_reader = << >> /\ to_writer = << >>

(* "Queue depth is 1": from the warm-up on one message is under way at     *)
(* most, between the rings and the hands of the child.                     *)
DepthIsOne ==
    parent_pc \in {"warmup", "warmup echo", "ping", "pong", "stop"} =>
        Len(to_reader) + Len(to_writer) + (IF child_pc = "echo" THEN 1 ELSE 0) <= 1

(* "a dead counterparty turns into a wedged process": it does not.  Once   *)
(* the child is started both processes end, whichever of them is killed,   *)
(* and whenever.                                                           *)
BothEnd == parent_pc = "stream" ~> (parent_pc = "ended" /\ child_pc = "ended")

=============================================================================
