---------------------------- MODULE MCTranscript ----------------------------
(***************************************************************************)
(* TLC instance of Transcript: lines of two and of four cells, windows of  *)
(* three, six and eight, so that a window begins within a line, at a line  *)
(* and at the file, and the last one leaves lines out.                     *)
(***************************************************************************)
EXTENDS Transcript

MCSize == [k \in Kinds |-> IF k = "noise" THEN 3 ELSE 1]
MCStarts == BoundedSeq(Kinds, 3)
=============================================================================
