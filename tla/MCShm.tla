------------------------------- MODULE MCShm -------------------------------
(***************************************************************************)
(* The three layers of the shared-memory transport, each on its own:       *)
(* segments by name, the ring in a segment, and the demo on two rings.     *)
(***************************************************************************)
EXTENDS PosixShm, ShmRing, ShmIpc

VARIABLE layer

MCInit ==
    /\ SegmentsInit /\ RingInit /\ DemoInit
    /\ layer \in {"segments", "ring", "demo"}
    /\ layer # "ring" => head = 0 /\ tail = 0

SegmentsStep == layer = "segments" /\ SegmentsNext /\ UNCHANGED <<layer, ringvars, demovars>>
RingStep     == layer = "ring" /\ RingNext /\ UNCHANGED <<layer, segmentvars, demovars>>
ParentStep   == layer = "demo" /\ Parent /\ UNCHANGED <<layer, segmentvars, ringvars>>
ChildStep    == layer = "demo" /\ Child /\ UNCHANGED <<layer, segmentvars, ringvars>>
KilledStep   == layer = "demo" /\ Killed /\ UNCHANGED <<layer, segmentvars, ringvars>>

allvars == <<layer, segmentvars, ringvars, demovars>>

MCNext == SegmentsStep \/ RingStep \/ ParentStep \/ ChildStep \/ KilledStep

(* The fairness of the demo, which is the only one that is to end.         *)
MCSpec == MCInit /\ [][MCNext]_allvars /\ WF_allvars(ParentStep) /\ WF_allvars(ChildStep)

=============================================================================
