---------------------------- MODULE MCTraceRing -----------------------------
(* An instance of TraceRing small enough for TLC.                          *)
EXTENDS TraceRing

MCNrArgs == <<1, 2, 4>>
=============================================================================
