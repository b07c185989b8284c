----------------------- MODULE MCThreadContextManager -----------------------
(***************************************************************************)
(* ThreadContextManager with two threads that each log, drop and end.      *)
(***************************************************************************)
EXTENDS ThreadContextManager

=============================================================================
