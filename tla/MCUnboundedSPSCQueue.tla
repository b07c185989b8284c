------------------------ MODULE MCUnboundedSPSCQueue ------------------------
(***************************************************************************)
(* UnboundedSPSCQueue with room for three nodes at a time.  Nodes have two *)
(* to eight bytes and messages one to nine, so the producer grows by one   *)
(* and by more doublings, blocks at the maximum, shrinks and asks for more *)
(* than any node can hold.                                                 *)
(***************************************************************************)
EXTENDS UnboundedSPSCQueue

=============================================================================
