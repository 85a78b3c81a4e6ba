------------------------------ MODULE Program -------------------------------
(***************************************************************************)
(* What a step does to a machine (vm.go, step()), as far as the run loop   *)
(* and a tracer tell operations apart: those that go on, jump, copy the    *)
(* machine, overwrite an operation, or end it.  A program is followed by   *)
(* data, so that all of its operations are in the decode cache's array     *)
(* that New() makes and copies share; OpCache.tla has caches that grow.    *)
(***************************************************************************)
EXTENDS Integers, SequencesExt

CONSTANTS
  Limit,     \* the max ops option; 0 when it is not set
  QueueCap,  \* the capacity of the run queue
  Progs      \* programs: functions from addresses 0 .. n to operations

\* Operations are [op, to]: to is where a jump or a copy goes, or what is overwritten.
Bad == [op |-> "bad", to |-> 0]       \* does not decode
Crash == [op |-> "crash", to |-> 0]   \* the operation of memory that is 0
NotCached == [op |-> "none", to |-> 0]
Operations == {Bad} \cup [op : {"nop", "jump", "fork", "spoil", "skip", "halt", "crash"}, to : Nat]

ASSUME ProgramAssumption ==
  /\ Limit \in Nat /\ QueueCap \in Nat
  /\ \A mem \in Progs : DOMAIN mem \subseteq Nat /\ mem \in [DOMAIN mem -> Operations]

NoneCached(mem) == [ip \in DOMAIN mem |-> NotCached]

OpAt(mem, ip) == IF ip \in DOMAIN mem THEN mem[ip] ELSE Crash
CachedOp(cos, ip) == IF ip \in DOMAIN cos THEN cos[ip] ELSE NotCached
Remembered(cos, ip, o) == IF ip \in DOMAIN cos THEN [cos EXCEPT ![ip] = o] ELSE cos

\* A machine as New() leaves it.  life names a machine of the run: the numbers of the
\* operations that made it and its ancestors.  ran counts what these executed.
Loaded(mem) == [ip |-> 0, mem |-> mem, count |-> 0, err |-> "nil", life |-> <<>>, ran |-> 0]

OverLimit(g) == Limit # 0 /\ g.count >= Limit
Counted(g) == [g EXCEPT !.count = IF Limit = 0 THEN @ ELSE @ + 1, !.ran = @ + 1]

\* The operation that step() executes: it decodes what is not cached.
Stepped(g, cos) ==
  IF CachedOp(cos, g.ip) = NotCached THEN OpAt(g.mem, g.ip) ELSE CachedOp(cos, g.ip)

\* The machine after an operation.
Effect(g, o) ==
  LET h == [g EXCEPT !.ip = @ + 1] IN
  CASE o.op \in {"nop", "fork"} -> h
    [] o.op = "jump" -> [g EXCEPT !.ip = o.to]
    [] o.op = "spoil" -> [h EXCEPT !.mem[o.to] = Bad]
    [] o.op = "skip" -> [h EXCEPT !.mem[o.to] = [op |-> "nop", to |-> 0]]
    [] o.op = "halt" -> [h EXCEPT !.err = "halt"]
    [] o.op = "crash" -> [h EXCEPT !.err = "crash"]

\* What is left to see of a machine: those that ended count no more.
Closed(g) == IF g.err = "nil" THEN g ELSE [g EXCEPT !.count = 0, !.ran = 0]

\* The copy that fork() makes.
Forked(g, o) == [g EXCEPT !.ip = o.to, !.life = Append(@, g.ran)]
=============================================================================
