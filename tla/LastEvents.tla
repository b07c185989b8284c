----------------------------- MODULE LastEvents -----------------------------
(***************************************************************************)
(* What a logger's backtrace promises: it remembers the last n events, and *)
(* hands out those, oldest first and once, when it is flushed.  A failing  *)
(* flush loses the rest; a new n forgets everything.                       *)
(***************************************************************************)
EXTENDS Integers, Sequences

CONSTANT Event

VARIABLES n, recent, output

Init == n = 0 /\ recent = <<>> /\ output = <<>>

LastOf(s, k) == IF Len(s) <= k THEN s ELSE SubSeq(s, Len(s) - k + 1, Len(s))

Remember(e) == /\ n > 0
               /\ recent' = LastOf(Append(recent, e), n)
               /\ UNCHANGED <<n, output>>

Flush(k) == /\ output' = output \o SubSeq(recent, 1, k)
            /\ recent' = <<>>
            /\ UNCHANGED n

Resize == n' > 0 /\ n' # n /\ recent' = <<>> /\ UNCHANGED output

Next == \/ \E e \in Event : Remember(e)
        \/ \E k \in 0..Len(recent) : Flush(k)
        \/ Resize

Spec == Init /\ [][Next]_<<n, recent, output>>
=============================================================================
