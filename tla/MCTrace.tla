------------------------------ MODULE MCTrace -------------------------------
(* Small instances of Trace: programs of two and three operations.           *)
EXTENDS Trace

Machs == 1 .. 16
Nobody == 0
Op(op, tos) == {[op |-> op, to |-> t] : t \in tos}
Plain(n) == Op("nop", {0}) \cup Op("halt", {0}) \cup Op("jump", 0 .. n) \cup Op("fork", 0 .. n)

\* Programs may overwrite an operation by another one, or by none.
Steady == [0 .. 2 -> Plain(2) \cup Op("skip", 0 .. 2)]
Spoiling == [0 .. 1 -> Plain(1) \cup Op("skip", 0 .. 1) \cup Op("spoil", 0 .. 1) \cup {Bad}]
TheProgs == Steady \cup Spoiling
=============================================================================
