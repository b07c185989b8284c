------------------------- MODULE MCBoundedSPSCQueue -------------------------
(***************************************************************************)
(* BoundedSPSCQueue on a ring of four bytes whose positions wrap after     *)
(* two laps.  The batch is three bytes, so the reader really holds back    *)
(* space, and the sizes include one that can never fit.                    *)
(***************************************************************************)
EXTENDS BoundedSPSCQueue
=============================================================================
