----------------------------- MODULE MCScanner -----------------------------
(* Small instances of Scanner.                                               *)
EXTENDS Scanner

\* Functions, called before or after they are defined, and inputs that include others.
Calls == [items |-> {"label", "call", "ret", "spanOpen", "include"}, max |-> 7]
\* The same in one input.
OneInput == [items |-> {"label", "call", "ret", "spanOpen"}, max |-> 7]
\* The same with spans that directives close, and an entry that opens one.
Marks == [items |-> {"label", "call", "jump", "ret", "op", "spanOpen", "spanClose", "entry"}, max |-> 5]
\* Regions of data, the entry and an option.
Regioned ==
  [items |-> {"label", "entry", "in", "out", "data", "text", "word", "alloc", "op", "stackSize"}, max |-> 7]
\* Options, and spans that are options too.
Limits == [items |-> {"label", "call", "stackSize", "queueSize", "maxOps", "maxCopies"}, max |-> 5]
TheInputs == {Calls, OneInput, Marks, Regioned, Limits}

EntrySpan == {<<"entry", "spanOpen">>}
=============================================================================
