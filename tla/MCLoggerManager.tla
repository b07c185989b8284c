-------------------------- MODULE MCLoggerManager --------------------------
(***************************************************************************)
(* LoggerManager for TLC: two threads and two names, of which one is used  *)
(* a second time, with a sink that the loggers share.                      *)
(***************************************************************************)
EXTENDS LoggerManager

CONSTANTS t1, t2, n1, n2, s1

MCThreads == {t1, t2}
MCNames == {n1, n2}
MCSinks == {s1}
MCMaxGen == [n \in MCNames |-> IF n = n1 THEN 2 ELSE 1]
=============================================================================
