------------------------------ MODULE MCBytes ------------------------------
(* Small instances of Bytes: pages of eight bytes. *)
EXTENDS Bytes

Texts == {<<>>, <<7>>, <<2, 0, 0, 0, 1, 2>>, <<3, 4, 5, 6, 3, 4, 5, 6, 3, 4>>}
=============================================================================
