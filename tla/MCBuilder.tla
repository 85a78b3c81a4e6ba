----------------------------- MODULE MCBuilder -----------------------------
(* Small instances of Builder: pages of sixteen bytes, a program with two    *)
(* regions of a word and of two, each with its name behind it.               *)
EXTENDS Builder

Small(n) == <<n, 0, 0, 0>>
Plain == {<<5, 6, 7>>}
Named == {Small(0) \o Small(1) \o <<97>> \o Small(3) \o Small(0) \o Small(1) \o <<98>>}
Use(options, sizes, progs, maxOpts, maxCalls) ==
  [options |-> options, sizes |-> sizes, progs |-> progs, maxOpts |-> maxOpts, maxCalls |-> maxCalls]

\* Sizes, limits and the entry; marks and labels; inputs; outputs.
TheUses ==
  {Use({"version", "stackSize", "queueSize", "maxOps", "maxCopies", "entry", "handler"},
       {0, 8, 16, 18}, Plain, 4, 0),
   Use({"addrLabels", "spanOpen", "spanClose"}, {}, Plain, 4, 0),
   Use({"stackSize", "input"}, {8}, Named, 3, 2),
   Use({"stackSize", "input", "output", "run"}, {8, 16}, Named, 3, 1)}

TheRegions == {[from |-> 8, to |-> 12, name |-> 12], [from |-> 17, to |-> 25, name |-> 25],
               [from |-> 17, to |-> 25, name |-> NoName], [from |-> 12, to |-> 8, name |-> 12]}
TheVals == {<<>>, <<Small(9)>>, <<Small(9), Small(1)>>}
TheNames == {<<97>>, <<98>>}
TheResults == {<<>>, <<Small(8)>>, <<Small(8), Small(12)>>, <<Small(12), Small(8)>>}
TheLabels == {<<<<0, "f">>>>, <<<<4, "g">>, <<0, "h">>>>}
=============================================================================
