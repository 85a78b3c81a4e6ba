----------------------------- MODULE MCEncoder -----------------------------
(* Small instances of Encoder. *)
EXTENDS Encoder

Tok(kind, size) == [kind |-> kind, arg |-> 0, size |-> size]

\* A label of one letter.
Labels == {Tok("label", 2)}

Opts == {Tok("opt", 0)}
\* An operation, and data that makes references as long as an argument of a byte
\* can, and longer.
Prog == {Tok("offset", 0), Tok("addr", 0), Tok("fixed", 1), Tok("fixed", 126)}
=============================================================================
