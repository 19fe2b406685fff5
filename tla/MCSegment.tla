----------------------------- MODULE MCSegment -----------------------------
(* Two threads of a process, two administrators, three creations.          *)
EXTENDS Segment
=============================================================================
