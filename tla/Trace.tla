------------------------------- MODULE Trace --------------------------------
(***************************************************************************)
(* Running a machine under a tracer (api.go, x/tracer): Trace(), its calls *)
(* of the tracer, and the tracers that number machines, count operations   *)
(* and log.  Tracers know a machine by the address of its struct, and the  *)
(* run recycles structs: Mach are addresses, and a machine is in what its  *)
(* struct holds, regs.                                                     *)
(*                                                                         *)
(* The tracers are called in the order of x/test.go: numbers, counts, log. *)
(***************************************************************************)
EXTENDS Program, FiniteSets

CONSTANTS
  Mach, Root,   \* addresses of Mach structs, and the one of the machine that Trace is called on
  NoMach,
  MaxCalls,     \* bound on the calls of Trace() and Run()
  Refusals      \* may the handler refuse a machine?  A set of booleans.

ASSUME TraceAssumption == Root \in Mach /\ NoMach \notin Mach /\ MaxCalls \in Nat

VARIABLES
  pc,         \* "call", "begin", "loop", "step", "after", "end", "handle", "next" or "done"
  mode,       \* "trace" or "run"
  calls,      \* how many calls were made
  cur,        \* m in Trace() and run()
  queue, freeMachs, \* as in Machines
  lost,       \* ghost: copies that were not queued
  born,       \* ghost: machines that were queued, and the one of the caller
  accepted,   \* ghost: those that the handler accepted, in order
  recycled,   \* ghost: the caller's struct was in use or free when a call returned early
  regs, cos,  \* of each machine what Program has, and the cache that they share
  traced,     \* of each machine, the m of the machTracer in its context, if it has one
  read,       \* the operation that is told of
  answer,     \* what the handler returned: TRUE stands for nil
  nextID, ids, counts,   \* of idTracer and countTracer
  log         \* the notes of the log tracer

vars == <<pc, mode, calls, cur, queue, freeMachs, lost, born, accepted, recycled, regs, cos, traced,
          read, answer, nextID, ids, counts, log>>
runVars == <<mode, calls, queue, freeMachs, lost, born, accepted, recycled>>
ghosts == <<lost, born, accepted, recycled>>
tracers == <<nextID, ids, counts, log>>

NoID == <<0, 0, 0>>
Known(f, m, default) == IF m \in DOMAIN f THEN f[m] ELSE default
With(f, m, v) == [x \in DOMAIN f \cup {m} |-> IF x = m THEN v ELSE f[x]]
Without(f, m) == [x \in DOMAIN f \ {m} |-> f[x]]

\* A note of machine m, with what numbers and counts tell the log tracer at that time.
Note(what, m, idsNow, countsNow, o, child) ==
  [what |-> what, life |-> regs[m].life, id |-> Known(idsNow, m, NoID), count |-> Known(countsNow, m, 0),
   ran |-> regs[m].ran, op |-> o, child |-> child]
Notes(note) == log' = Append(log, note)

Init ==
  /\ pc = "call" /\ mode = "trace" /\ calls = 0
  /\ cur = Root /\ queue = <<>> /\ freeMachs = <<>> /\ lost = {}
  /\ born = {<<>>} /\ accepted = <<>> /\ recycled = FALSE
  /\ \E mem \in Progs : regs = [m \in Mach |-> Loaded(mem)] /\ cos = NoneCached(mem)
  /\ traced = [m \in Mach |-> NoMach]
  /\ read = NotCached /\ answer = TRUE
  /\ nextID = 0 /\ ids = [m \in {} |-> NoID] /\ counts = [m \in {} |-> 0] /\ log = <<>>

-----------------------------------------------------------------------------
(* Trace(), and Run() *)

\* Slip: a copy keeps the tracer of its original.
FixTracerNot(m, context) == traced' = [traced EXCEPT ![m] = context]

\* fixTracer(), for a machine whose context was copied from another one.
FixTracer(m, context) == traced' = [traced EXCEPT ![m] = m]

CallTrace ==
  /\ pc = "call"
  /\ mode' = "trace" /\ calls' = calls + 1 /\ cur' = Root
  /\ FixTracer(Root, Root)
  /\ pc' = "begin"
  /\ UNCHANGED <<queue, freeMachs, ghosts, regs, cos, read, answer, tracers>>

CallRun ==
  /\ pc = "call"
  /\ mode' = "run" /\ calls' = calls + 1 /\ cur' = Root
  /\ pc' = "loop"
  /\ UNCHANGED <<queue, freeMachs, ghosts, regs, cos, traced, read, answer, tracers>>

Begin ==
  /\ pc = "begin" /\ pc' = "loop"
  /\ IF cur \in DOMAIN ids THEN UNCHANGED <<nextID, ids>>
     ELSE nextID' = nextID + 1 /\ ids' = With(ids, cur, <<nextID', 0, nextID'>>)
  /\ UNCHANGED counts
  /\ Notes(Note("begin", cur, ids', counts', NotCached, NoID))
  /\ UNCHANGED <<runVars, cur, regs, cos, traced, read, answer>>

\* A traced machine is decoded by Trace(), from memory.
Before ==
  LET o == OpAt(regs[cur].mem, regs[cur].ip) IN
  /\ pc = "loop" /\ mode = "trace" /\ regs[cur].err = "nil"
  /\ IF o = Bad
     THEN /\ regs' = [regs EXCEPT ![cur].err = "decode"]
          /\ pc' = "end" /\ UNCHANGED <<read, tracers>>
     ELSE /\ read' = o
          /\ counts' = With(counts, cur, Known(counts, cur, 0) + 1)
          /\ Notes(Note("before", cur, ids, counts', o, NoID))
          /\ pc' = "step" /\ UNCHANGED <<regs, nextID, ids>>
  /\ UNCHANGED <<runVars, cur, cos, traced, answer>>

\* The end of a loop.
Ended ==
  /\ pc = "loop" /\ regs[cur].err # "nil"
  /\ pc' = IF mode = "trace" THEN "end" ELSE "handle"
  /\ UNCHANGED <<runVars, cur, regs, cos, traced, read, answer, tracers>>

Stepping == pc = IF mode = "trace" THEN "step" ELSE "loop"

\* After step(): what failed is not told of by After().
Goes(err) == pc' = CASE mode = "run" -> "loop" [] mode = "trace" /\ err = "nil" -> "after" [] OTHER -> "end"

StepFails(g) ==
  /\ regs' = [regs EXCEPT ![cur] = g]
  /\ Goes(g.err)
  /\ UNCHANGED <<queue, freeMachs, lost, born, cos, traced, tracers>>

Waiting == Range(queue)
FreshMachs == Mach \ ({cur, Root} \cup Waiting \cup lost \cup Range(freeMachs))
AllocMach == IF freeMachs # <<>> THEN Last(freeMachs) ELSE CHOOSE m \in FreshMachs : TRUE

\* The bound on the structs that are made: there is always one to be had.
InBound == freeMachs # <<>> \/ FreshMachs # {}

\* idTracer.Queue()
QueueID(m, n) ==
  IF m \in DOMAIN ids
  THEN /\ nextID' = nextID + 1
       /\ ids' = With(ids, n, <<ids[m][1], ids[m][3], nextID'>>)
  ELSE ids' = Without(ids, n) /\ UNCHANGED nextID

\* Slip: a copy starts counting anew.
QueueCountsAnew(m, n) == counts' = With(counts, n, 0)

\* countTracer.Queue(): ct[n] = ct[m]
QueueCount(m, n) == counts' = With(counts, n, Known(counts, m, 0))

\* (*machTracer).Enqueue(), for copy n by the running machine, that op left as g: the tracers
\* are told before the queue is asked.
TracedEnqueue(g, n) ==
  LET m == traced[cur] IN
  IF m = NoMach THEN UNCHANGED <<traced, tracers>>
  ELSE /\ QueueID(m, n) /\ QueueCount(m, n)
       /\ Notes([Note("queue", m, ids', counts', NotCached, Known(ids', n, NoID)) EXCEPT !.ran = g.ran])
       /\ FixTracer(n, traced[cur])

StepForks(g, o) ==
  LET n == AllocMach  full == Len(queue) >= QueueCap
      h == IF full THEN [g EXCEPT !.err = "qfull"] ELSE g
  IN
  /\ InBound
  /\ freeMachs' = IF freeMachs = <<>> THEN freeMachs ELSE Front(freeMachs)
  /\ regs' = [regs EXCEPT ![cur] = h, ![n] = Forked(g, o)]
  /\ IF traced[cur] = NoMach THEN traced' = [traced EXCEPT ![n] = NoMach] /\ UNCHANGED tracers
     ELSE TracedEnqueue(g, n)
  /\ IF full THEN lost' = lost \cup {n} /\ UNCHANGED <<queue, born>>
     ELSE queue' = Append(queue, n) /\ born' = born \cup {Forked(g, o).life} /\ UNCHANGED lost
  /\ Goes(h.err)

Step ==
  LET g == regs[cur]  o == Stepped(g, cos)  h == Effect(Counted(g), o) IN
  /\ Stepping /\ g.err = "nil"
  /\ IF OverLimit(g) THEN StepFails([g EXCEPT !.err = "limit"])
     ELSE IF o = Bad THEN StepFails([Counted(g) EXCEPT !.err = "decode"])
     ELSE /\ cos' = Remembered(cos, g.ip, o)
          /\ IF o.op = "fork" THEN StepForks(h, o)
             ELSE /\ regs' = [regs EXCEPT ![cur] = h]
                  /\ Goes(h.err)
                  /\ UNCHANGED <<queue, freeMachs, lost, born, traced, tracers>>
  /\ UNCHANGED <<mode, calls, cur, read, answer, accepted, recycled>>

After ==
  /\ pc = "after" /\ pc' = "loop"
  /\ Notes(Note("after", cur, ids, counts, read, NoID))
  /\ UNCHANGED <<runVars, cur, regs, cos, traced, read, answer, nextID, ids, counts>>

End ==
  /\ pc = "end" /\ pc' = "handle"
  /\ Notes(Note("end", cur, ids, counts, NotCached, NoID))
  /\ UNCHANGED <<runVars, cur, regs, cos, traced, read, answer, nextID, ids, counts>>

\* Slip: Handle is told of in the order of the other calls.
HandleNoteForward == Note("handle", cur, Without(ids, cur), Without(counts, cur), NotCached, NoID)

\* The log tracer is told first: Multi() propagates Handle() in reverse order.
HandleNote == Note("handle", cur, ids, counts, NotCached, NoID)

\* Slip: the entry of a machine stays.
HandledNot(entries) == entries

\* Handle() of the tracers with entries of machines.
Handled(entries) == Without(entries, cur)

\* The handler, and what it returns.
Handle ==
  /\ pc = "handle" /\ pc' = "next"
  /\ \E refuse \in Refusals :
       /\ answer' = ~refuse
       /\ accepted' = IF refuse THEN accepted ELSE Append(accepted, regs[cur].life)
  /\ IF mode = "run" THEN UNCHANGED tracers
     ELSE /\ Notes(HandleNote)
          /\ ids' = Handled(ids) /\ counts' = Handled(counts)
          /\ UNCHANGED nextID
  /\ UNCHANGED <<mode, calls, queue, freeMachs, lost, born, recycled, cur, regs, cos, traced, read>>

\* Slip: the machine that was dequeued is freed.
FreedNext == Last(queue)

\* What free() gives back.
Freed == cur

Resume ==
  /\ pc = "next" /\ answer /\ queue # <<>>
  /\ freeMachs' = Append(freeMachs, Freed)
  /\ cur' = Last(queue) /\ queue' = Front(queue)
  /\ pc' = IF mode = "trace" THEN "begin" ELSE "loop"
  /\ UNCHANGED <<mode, calls, ghosts, regs, cos, traced, read, answer, tracers>>

\* *orig = *m
Return ==
  /\ pc = "next" /\ (~answer \/ queue = <<>>)
  /\ regs' = [regs EXCEPT ![Root] = regs[cur]]
  /\ traced' = [traced EXCEPT ![Root] = traced[cur]]
  /\ pc' = IF calls < MaxCalls THEN "call" ELSE "done"
  /\ recycled' = (recycled \/ (~answer /\ Root \in Waiting \cup Range(freeMachs)))
  /\ UNCHANGED <<mode, calls, queue, freeMachs, lost, born, accepted, cur, cos, read, answer, tracers>>

Next ==
  \/ CallTrace \/ CallRun \/ Begin \/ Before \/ Ended \/ Step \/ After \/ End \/ Handle \/ Resume \/ Return

Spec == Init /\ [][Next]_vars
-----------------------------------------------------------------------------
(* Properties *)

Earlier == Front(log)

\* Numbers are names of machines, as long as they are traced by one call: a note has the number
\* that the machine had in all notes before, and no other machine ever had it, although structs
\* are reused.  And they tell descent: of the operation by which a machine was made there is a
\* note of its parent, which names it as it will be named, in the tree of the parent.
Named ==
  log # <<>> /\ calls = 1 =>
    LET note == Last(log) IN
    /\ note.id # NoID
    /\ \A k \in DOMAIN Earlier : Earlier[k].id = note.id <=> Earlier[k].life = note.life
    /\ note.what = "queue" => note.child[1] = note.id[1] /\ note.child[2] = note.id[3]
    /\ note.what = "begin" /\ note.life # <<>> =>
         \E k \in DOMAIN Earlier :
           /\ Earlier[k].what = "queue" /\ Earlier[k].child = note.id
           /\ note.life = Append(Earlier[k].life, Earlier[k].ran)

\* The count of a note is the operations that the machine and its ancestors executed, the one
\* included that a note is told before.
CountsRan ==
  log # <<>> /\ calls = 1 =>
    LET note == Last(log) IN
    /\ note.what \in {"begin", "queue", "after"} => note.count = note.ran
    /\ note.what = "before" => note.count = note.ran + 1

\* Tracers know of machines that run, or wait, or that could not be queued, and of no other, as
\* long as no Run() ends machines without telling them.
EntriesOwned ==
  calls = 1 => DOMAIN ids \cup DOMAIN counts \subseteq
    Waiting \cup lost \cup (IF pc \in {"call", "next", "done"} THEN {} ELSE {cur})

\* Trace() and Run() are run() to everyone but the tracer, and so are calls that follow a refusal,
\* unless a copy has got the caller's struct; but that Trace() reads ahead: what does not decode
\* ends a machine even though run() would not decode it.
Seen(m) == Closed(regs[m])
ReadsAhead ==
  /\ pc = "loop" /\ mode = "trace" /\ regs[cur].err = "nil" /\ OpAt(regs[cur].mem, regs[cur].ip) = Bad
  /\ OverLimit(regs[cur]) \/ Stepped(regs[cur], cos) # Bad
Loop == INSTANCE RunLoop WITH
  running <- Seen(cur),
  pending <- [k \in DOMAIN queue |-> Seen(queue[k])],
  done <- pc \in {"call", "done"} /\ calls > 0
TraceIsRun ==
  Loop!Init /\ [][~recycled' /\ ~ReadsAhead => [Loop!Next]_(Loop!vars)]_vars

\* Calls after a handler's refusal, traced and not, go on where it stopped: unless a copy has got
\* the caller's struct, the handler accepts no machine twice before it accepted all of them, and
\* a call that it lets end has left none.
AllAccepted ==
  ~recycled =>
    /\ Len(accepted) <= Cardinality(born) => IsInjective(accepted)
    /\ pc \in {"call", "done"} /\ calls > 0 /\ answer => Range(accepted) = born
=============================================================================
