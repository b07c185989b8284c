-------------------------- MODULE MCCallSiteLatency -------------------------
(***************************************************************************)
(* Three rounds: none, one and three threads.  Two messages per iteration  *)
(* leave the third thread without any.                                     *)
(***************************************************************************)
EXTENDS CallSiteLatency

SmallThreadCounts == <<0, 1, 3>>
=============================================================================
