------------------------------ MODULE RunLoop -------------------------------
(***************************************************************************)
(* run(), in vm.go, with machines that are values: nothing is allocated,   *)
(* freed or reported.  Trace.tla implements this specification.            *)
(***************************************************************************)
EXTENDS Program

VARIABLES
  running,   \* the machine that runs, or that was handled last
  pending,   \* the copies that wait, the last one to be run first
  cos,       \* the decode cache that they share
  done       \* whether run() has returned

vars == <<running, pending, cos, done>>

Init ==
  /\ \E mem \in Progs : running = Loaded(mem) /\ cos = NoneCached(mem)
  /\ pending = <<>> /\ done = FALSE

Steps == ~done /\ running.err = "nil"
Ends(e) == running' = Closed([running EXCEPT !.err = e]) /\ UNCHANGED <<pending, cos, done>>

Limited == Steps /\ OverLimit(running) /\ Ends("limit")

\* What does not decode is counted like any operation, before the machine ends.
DecodeFails ==
  /\ Steps /\ ~OverLimit(running) /\ Stepped(running, cos) = Bad
  /\ Ends("decode")

Step ==
  LET o == Stepped(running, cos)  g == Effect(Counted(running), o) IN
  /\ Steps /\ ~OverLimit(running) /\ o # Bad
  /\ cos' = Remembered(cos, running.ip, o)
  /\ IF o.op # "fork" THEN running' = Closed(g) /\ UNCHANGED pending
     ELSE IF Len(pending) >= QueueCap THEN running' = Closed([g EXCEPT !.err = "qfull"]) /\ UNCHANGED pending
     ELSE running' = g /\ pending' = Append(pending, Forked(g, o))
  /\ UNCHANGED done

\* The handler accepts the machine, and another one is pending.
Resume ==
  /\ ~done /\ running.err # "nil" /\ pending # <<>>
  /\ running' = Last(pending) /\ pending' = Front(pending)
  /\ UNCHANGED <<cos, done>>

\* The handler refuses it, or none is pending.
Return ==
  /\ ~done /\ running.err # "nil"
  /\ done' = TRUE
  /\ UNCHANGED <<running, pending, cos>>

\* run() is called on the machine that it returned.
Again == done /\ done' = FALSE /\ UNCHANGED <<running, pending, cos>>

Next == Limited \/ DecodeFails \/ Step \/ Resume \/ Return \/ Again
Spec == Init /\ [][Next]_vars
=============================================================================
