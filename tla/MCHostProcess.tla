---------------------------- MODULE MCHostProcess ----------------------------
(* A small host process: three frame contexts, two formats of video. *)
EXTENDS HostProcess

MCFormats == {[codec |-> "H264", size |-> 1], [codec |-> "H265", size |-> 2]}
MCNoFormat == [codec |-> "none", size |-> 0]
=============================================================================
