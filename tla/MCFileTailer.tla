---------------------------- MODULE MCFileTailer ----------------------------
(***************************************************************************)
(* Values of Kind for the runs of FileTailer: what the lines of the log    *)
(* are to the line buffer.                                                 *)
(***************************************************************************)
EXTENDS FileTailer

(* A multi-line entry that the next header ends.                           *)
HeaderEnds == <<"single", "multi", "text", "single">>

(* A multi-line entry that its own last line ends, and one that the next   *)
(* header ends.                                                            *)
BothEnds == <<"multi", "text", "closing", "multi", "single">>
=============================================================================
