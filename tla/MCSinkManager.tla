--------------------------- MODULE MCSinkManager ---------------------------
(***************************************************************************)
(* SinkManager for TLC: two threads create, get and drop sinks of two ids. *)
(* There are tokens enough: for the entry of an id, for a sink that is     *)
(* being destroyed, and for the next.                                      *)
(***************************************************************************)
EXTENDS SinkManager

CONSTANTS t1, t2, a, b

MCThreads == {t1, t2}
MCIds == {a, b}
=============================================================================
