------------------------------ MODULE PosixShm ------------------------------
(***************************************************************************)
(* Shared-memory segments by name (posix_shm.hpp, posix_shm.cpp), as used  *)
(* by processes like those of shm_ipc_posix.cpp, which crash, restart and  *)
(* fork.  One name; a segment is the number of the shm_open that made it.  *)
(* The system calls of create() and open_existing() are steps of their     *)
(* own, because other processes run between them.                          *)
(***************************************************************************)
EXTENDS Integers, Sequences, FiniteSets

CONSTANTS
    Procs,
    Slots,         \* the PosixSharedMemory objects of a process
    Sizes,         \* the sizes it asks for
    Considerate,   \* is a name cleared only when nobody is using it?
    MaxSegments    \* bound: segments made

ASSUME ShmAssumption ==
    /\ Sizes \subseteq Nat
    /\ Considerate \in BOOLEAN
    /\ MaxSegments \in Nat

VARIABLES
    name,      \* the segment the name stands for, or 0
    sizes,     \* the size of each segment
    objects,   \* the objects of each process
    process,   \* of each process: "up", "forked" or "down"
    crashed    \* has a process that was not forked ended without close()?

segmentvars == <<name, sizes, objects, process, crashed>>

(* An object: its mapping and that mapping's size, its descriptor, whether *)
(* it removes the name, and, while it is being made, the next system call  *)
(* and the size asked for.                                                 *)
Empty == [addr |-> 0, size |-> 0, fd |-> 0, owner |-> FALSE, next |-> "none", bytes |-> 0]

SegmentsInit ==
    /\ name = 0 /\ sizes = << >>
    /\ objects = [p \in Procs |-> [s \in Slots |-> Empty]]
    /\ process = [p \in Procs |-> "down"]
    /\ crashed = FALSE

Set(p, s, o) == objects' = [objects EXCEPT ![p][s] = o]

(* Object s of process p, which is making the call.                        *)
At(p, s, call) == process[p] # "down" /\ objects[p][s].next = call

-----------------------------------------------------------------------------
(* create()                                                                *)
CreateOpen(p, s, bytes) ==
    /\ process[p] = "up" /\ objects[p][s] = Empty
    /\ bytes # 0
    /\ name = 0 /\ Len(sizes) < MaxSegments
    /\ name' = Len(sizes) + 1
    /\ sizes' = Append(sizes, 0)
    /\ Set(p, s, [Empty EXCEPT !.fd = Len(sizes) + 1, !.next = "ftruncate", !.bytes = bytes])
    /\ UNCHANGED <<process, crashed>>

(* ftruncate or mmap fails: the name goes.                                 *)
CreateFails(p, s, call) ==
    /\ At(p, s, call)
    /\ Set(p, s, Empty)
    /\ name' = 0
    /\ UNCHANGED <<sizes, process, crashed>>

CreateTruncate(p, s) ==
    LET o == objects[p][s]
    IN  /\ At(p, s, "ftruncate")
        /\ sizes' = [sizes EXCEPT ![o.fd] = o.bytes]
        /\ Set(p, s, [o EXCEPT !.next = "mmap"])
        /\ UNCHANGED <<name, process, crashed>>

CreateMap(p, s) ==
    LET o == objects[p][s]
    IN  /\ At(p, s, "mmap")
        /\ Set(p, s, [Empty EXCEPT !.addr = o.fd, !.size = o.bytes, !.fd = o.fd, !.owner = TRUE])
        /\ UNCHANGED <<name, sizes, process, crashed>>

create(p, s) ==
    \/ \E bytes \in Sizes : CreateOpen(p, s, bytes)
    \/ CreateTruncate(p, s) \/ CreateFails(p, s, "ftruncate")
    \/ CreateMap(p, s) \/ CreateFails(p, s, "mmap")

(* open_existing()                                                         *)
Open(p, s, bytes) ==
    /\ process[p] # "down" /\ objects[p][s] = Empty
    /\ bytes # 0 /\ name # 0
    /\ Set(p, s, [Empty EXCEPT !.fd = name, !.next = "fstat", !.bytes = bytes])
    /\ UNCHANGED <<name, sizes, process, crashed>>

(* Variant: the size of the segment is not looked at.                      *)
StatUnchecked(p, s) ==
    /\ At(p, s, "fstat")
    /\ Set(p, s, [objects[p][s] EXCEPT !.next = "map"])
    /\ UNCHANGED <<name, sizes, process, crashed>>

OpenStat(p, s) ==
    LET o == objects[p][s]
    IN  /\ At(p, s, "fstat")
        /\ o.bytes <= sizes[o.fd]
        /\ Set(p, s, [o EXCEPT !.next = "map"])
        /\ UNCHANGED <<name, sizes, process, crashed>>

OpenMap(p, s) ==
    LET o == objects[p][s]
    IN  /\ At(p, s, "map")
        /\ Set(p, s, [Empty EXCEPT !.addr = o.fd, !.size = o.bytes, !.fd = o.fd])
        /\ UNCHANGED <<name, sizes, process, crashed>>

(* The segment is too small, or a call fails.                              *)
OpenFails(p, s) ==
    /\ At(p, s, "fstat") \/ At(p, s, "map")
    /\ Set(p, s, Empty)
    /\ UNCHANGED <<name, sizes, process, crashed>>

open_existing(p, s) ==
    \/ \E bytes \in Sizes : Open(p, s, bytes)
    \/ OpenStat(p, s) \/ OpenMap(p, s) \/ OpenFails(p, s)

-----------------------------------------------------------------------------
(* What close() does to the name: the owner removes it, whatever segment   *)
(* it stands for.                                                          *)
NameAfter(o) == IF o.owner THEN 0 ELSE name

(* close(), and the destructor.                                            *)
close(p, s) ==
    /\ process[p] = "up" /\ objects[p][s].next = "none"
    /\ name' = NameAfter(objects[p][s])
    /\ Set(p, s, Empty)
    /\ UNCHANGED <<sizes, process, crashed>>

(* Object t is closed and takes over what object s holds.                  *)
move(p, s, t) ==
    /\ process[p] = "up" /\ s # t
    /\ objects[p][s].next = "none" /\ objects[p][t].next = "none"
    /\ name' = NameAfter(objects[p][t])
    /\ objects' = [objects EXCEPT ![p][t] = objects[p][s], ![p][s] = Empty]
    /\ UNCHANGED <<sizes, process, crashed>>

(* The object made, or is making, the segment it holds.                    *)
Made(o) == o.owner \/ o.next \in {"ftruncate", "mmap"}

InUse == \E p \in Procs, s \in Slots : process[p] = "up" /\ Made(objects[p][s])

(* unlink(): a process about to create clears a leftover name.             *)
unlink(p) ==
    /\ process[p] = "up"
    /\ Considerate => ~InUse
    /\ name' = 0
    /\ UNCHANGED <<sizes, objects, process, crashed>>

-----------------------------------------------------------------------------
Start(p) ==
    /\ process[p] = "down"
    /\ process' = [process EXCEPT ![p] = "up"]
    /\ UNCHANGED <<name, sizes, objects, crashed>>

(* A child starts with a copy of its parent's objects.                     *)
Fork(p, c) ==
    /\ process[p] = "up" /\ process[c] = "down"
    /\ \A s \in Slots : objects[p][s].next = "none"
    /\ process' = [process EXCEPT ![c] = "forked"]
    /\ objects' = [objects EXCEPT ![c] = objects[p]]
    /\ UNCHANGED <<name, sizes, crashed>>

(* Variant: the child returns, and its copies are destroyed.               *)
ReturnFromChild(p) ==
    /\ process[p] = "forked"
    /\ process' = [process EXCEPT ![p] = "down"]
    /\ name' = IF \E s \in Slots : objects[p][s].owner THEN 0 ELSE name
    /\ objects' = [objects EXCEPT ![p] = [s \in Slots |-> Empty]]
    /\ UNCHANGED <<sizes, crashed>>

(* A child ends with _exit(): no destructor runs.                          *)
ExitChild(p) ==
    /\ process[p] = "forked"
    /\ process' = [process EXCEPT ![p] = "down"]
    /\ objects' = [objects EXCEPT ![p] = [s \in Slots |-> Empty]]
    /\ UNCHANGED <<name, sizes, crashed>>

(* A process is killed: the system unmaps and closes, the name stays.      *)
Crash(p) ==
    /\ process[p] = "up"
    /\ process' = [process EXCEPT ![p] = "down"]
    /\ objects' = [objects EXCEPT ![p] = [s \in Slots |-> Empty]]
    /\ crashed' = TRUE
    /\ UNCHANGED <<name, sizes>>

SegmentsNext ==
    \/ \E p \in Procs :
        \/ \E s \in Slots : create(p, s) \/ open_existing(p, s) \/ close(p, s)
        \/ \E s, t \in Slots : move(p, s, t)
        \/ \E c \in Procs : Fork(p, c)
        \/ unlink(p) \/ Start(p) \/ ExitChild(p) \/ Crash(p)

SegmentsSpec == SegmentsInit /\ [][SegmentsNext]_segmentvars

-----------------------------------------------------------------------------
SegmentsTypeOK ==
    /\ sizes \in Seq(Sizes \cup {0}) /\ Len(sizes) <= MaxSegments
    /\ name \in 0..Len(sizes)
    /\ process \in [Procs -> {"up", "forked", "down"}] /\ crashed \in BOOLEAN
    /\ objects \in [Procs -> [Slots ->
           [addr: 0..Len(sizes), size: Sizes \cup {0}, fd: 0..Len(sizes), owner: BOOLEAN,
            next: {"none", "ftruncate", "mmap", "fstat", "map"}, bytes: Sizes \cup {0}]]]

(* A mapping never extends past its segment, though an attacher can open   *)
(* the name between the creator's shm_open and its ftruncate.              *)
MappingFits ==
    \A p \in Procs, s \in Slots :
        LET o == objects[p][s] IN o.addr # 0 => o.size <= sizes[o.addr]

(* While the creator of a segment lives, the name leads to its segment:    *)
(* attachers, forked children, moved-from objects and second calls of      *)
(* close() never remove it, if nobody clears a name that is in use.  And   *)
(* the name outlives no process that ended in order: unless one was        *)
(* killed, it leads to a segment whose creator lives.                      *)
NameMeansCreator ==
  Considerate =>
    /\ \A p \in Procs, s \in Slots :
         process[p] = "up" /\ Made(objects[p][s]) => name = objects[p][s].fd
    /\ name # 0 /\ ~crashed => InUse

=============================================================================
