------------------------------ MODULE MCParsers ------------------------------
(* The two machines that read bytes one by one, each on its own: the chord *)
(* parser on keys typed, or the floor adapter on output.                   *)
EXTENDS ChordReads, FloorLines

MCInit == ReadsInit /\ LinesInit

MCNext ==
  \/ bytes = <<>> /\ ~ended /\ ReadsNext /\ UNCHANGED machine
  \/ input = <<>> /\ LinesNext /\ UNCHANGED reads

MCSpec == MCInit /\ [][MCNext]_<<reads, machine>>
=============================================================================
