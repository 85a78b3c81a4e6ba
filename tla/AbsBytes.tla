------------------------------ MODULE AbsBytes ------------------------------
(* What a machine's memory promises: a byte for every address, 0 at first. *)
EXTENDS Integers

CONSTANTS
  Addr,   \* where texts are stored
  Text,   \* what is stored at a time: sequences of bytes
  Top     \* bound on the addresses that are looked at

VARIABLE mem

Init == mem = [a \in 0 .. Top |-> 0]

Write(addr, text) ==
  mem' = [a \in 0 .. Top |-> IF a - addr + 1 \in DOMAIN text THEN text[a - addr + 1] ELSE mem[a]]

Next == \E addr \in Addr, text \in Text : Write(addr, text)

Spec == Init /\ [][Next]_mem
=============================================================================
