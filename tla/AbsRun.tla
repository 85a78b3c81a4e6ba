------------------------------- MODULE AbsRun -------------------------------
(***************************************************************************)
(* What a run of a machine promises, with no paging, no reference counts   *)
(* and no pooling: a running machine that owns its whole memory, a LIFO of *)
(* pending machines that own theirs, and a handler that is told of every   *)
(* machine that terminates.  Machines.tla implements this specification.   *)
(*                                                                         *)
(* A machine is a record:                                                  *)
(*   mem    its memory, a value for each page index and offset             *)
(*   ip     the code it executes                                           *)
(*   ctl    the depth of its control stack                                 *)
(*   err    "nil" while it is live, then why it terminated                 *)
(*   count  the operations it executed, those of its ancestors included    *)
(***************************************************************************)
EXTENDS Integers, SequencesExt

CONSTANTS
  NPages,     \* page indices a program may address: 0 .. NPages - 1
  Off,        \* the words of a page
  Val,        \* the values of a word
  Zero,       \* the value of a word never written
  Code,       \* the addresses a jump may go to
  InStack,    \* an address within the stacks: jumping there is a segfault
  CtlCap,     \* the most words the control stack may hold
  QueueCap,   \* the capacity of the run queue; 0 when there is no handler
  MaxCopies,  \* bound on the copies made in one run; 0 for no bound
  Limit       \* bound on the operations of a machine; 0 for no bound

VARIABLES
  running,    \* the machine that executes, or that was handled last
  pending,    \* the copies that wait, the last one to be resumed first
  copies,     \* the copies made so far
  done,       \* whether the run has returned
  result      \* what the caller finds in its machine, once the run returned

vars == <<running, pending, copies, done, result>>

Idx == 0 .. NPages - 1
Target == Code \cup {InStack}
Errors == {"nil", "halt", "limit", "crash", "segv", "under", "over",
           "copies", "qfull"}
NoResult == [returned |-> FALSE]

Memory == [Idx -> [Off -> Val]]
Machine == [mem : Memory, ip : Code, ctl : 0 .. CtlCap,
            err : Errors, count : 0 .. Limit]

-----------------------------------------------------------------------------
Init ==
  /\ \E mem \in Memory, ip \in Code :
       running = [mem |-> mem, ip |-> ip, ctl |-> 0, err |-> "nil", count |-> 0]
  /\ pending = <<>>
  /\ copies = 0
  /\ done = FALSE
  /\ result = NoResult

Live == ~done /\ running.err = "nil"
InLimit == Limit = 0 \/ running.count < Limit

\* The machine that is about to execute an operation: the operation is counted.
Counted == [running EXCEPT !.count = IF Limit = 0 THEN @ ELSE @ + 1]

\* A machine after one assignment: a word, a push or a pop, a jump, an error.
Stored(m, i, o, v) == [m EXCEPT !.mem[i][o] = v]
Pushed(m) == [m EXCEPT !.ctl = @ + 1]
Popped(m) == [m EXCEPT !.ctl = @ - 1]
Jumped(m, t) == [m EXCEPT !.ip = t]
Failed(m, e) == [m EXCEPT !.err = e]

Runs(m) == /\ running' = m
           /\ UNCHANGED <<done, result>>

Fails(e) == Runs(Failed(Counted, e))

LimitHit == /\ Live
            /\ ~InLimit
            /\ Runs(Failed(running, "limit"))
            /\ UNCHANGED <<pending, copies>>

\* Halting, crashing, and an operation that fails without touching anything.
Stop == /\ Live /\ InLimit
        /\ \E e \in {"halt", "crash"} : Fails(e)
        /\ UNCHANGED <<pending, copies>>

\* An operation that fails may have assigned to a word the value it has.
Store == /\ Live /\ InLimit
         /\ \E i \in Idx, o \in Off, v \in Val, e \in {"nil", "crash"} :
              Runs(Failed(Stored(Counted, i, o, v), e))
         /\ UNCHANGED <<pending, copies>>

Jump == /\ Live /\ InLimit
        /\ \/ \E t \in Code : Runs(Jumped(Counted, t))
           \/ Fails("segv")
        /\ UNCHANGED <<pending, copies>>

Call == /\ Live /\ InLimit
        /\ \/ /\ running.ctl < CtlCap
              /\ \E t \in Code, i \in Idx, o \in Off, v \in Val :
                   Runs(Jumped(Pushed(Stored(Counted, i, o, v)), t))
           \/ Fails("over")
           \/ Fails("segv")
        /\ UNCHANGED <<pending, copies>>

CPush == /\ Live /\ InLimit
         /\ \/ /\ running.ctl < CtlCap
               /\ \E i \in Idx, o \in Off, v \in Val :
                    Runs(Pushed(Stored(Counted, i, o, v)))
            \/ Fails("over")
         /\ UNCHANGED <<pending, copies>>

\* What was popped may be pushed on the other stack, which stores a word or fails.
CPop == /\ Live /\ InLimit
        /\ \/ running.ctl = 0 /\ Fails("under")
           \/ /\ running.ctl > 0
              /\ \/ \E e \in {"nil", "crash"} : Runs(Failed(Popped(Counted), e))
                 \/ \E i \in Idx, o \in Off, v \in Val :
                      Runs(Popped(Stored(Counted, i, o, v)))
        /\ UNCHANGED <<pending, copies>>

Ret == /\ Live /\ InLimit
       /\ \/ running.ctl = 0 /\ Fails("under")
          \/ /\ running.ctl > 0
             /\ \E t \in Code : Runs(Jumped(Popped(Counted), t))
          \/ /\ running.ctl > 0
             /\ Runs(Failed(Popped(Counted), "segv"))
       /\ UNCHANGED <<pending, copies>>

-----------------------------------------------------------------------------
\* Copying: original and copy are the machine before the operation, except for
\* the one of them that jumps.

CanCopy == MaxCopies = 0 \/ copies < MaxCopies
CopyCounted == copies' = IF MaxCopies = 0 THEN copies ELSE copies + 1

CopyRefused == /\ ~CanCopy
               /\ Fails("copies")
               /\ UNCHANGED <<pending, copies>>

Queued(orig, n) ==
  \/ /\ Len(pending) < QueueCap
     /\ Runs(orig)
     /\ pending' = Append(pending, n)
  \/ /\ Len(pending) >= QueueCap
     /\ Runs(Failed(orig, "qfull"))
     /\ UNCHANGED pending

Fork == /\ Live /\ InLimit
        /\ \/ /\ Fails("segv")
              /\ UNCHANGED <<pending, copies>>
           \/ CopyRefused
           \/ /\ CanCopy /\ CopyCounted
              /\ \E t \in Code : Queued(Counted, Jumped(Counted, t))

Branch == /\ Live /\ InLimit
          /\ \/ /\ Fails("segv")
                /\ UNCHANGED <<pending, copies>>
             \/ CopyRefused
             \/ /\ CanCopy /\ CopyCounted
                /\ \E t \in Code : Queued(Jumped(Counted, t), Counted)

\* The copy pops its jump target from its own control stack.
CFork == /\ Live /\ InLimit
         /\ \/ CopyRefused
            \/ /\ CanCopy /\ CopyCounted
               /\ \/ /\ Fails(IF running.ctl = 0 THEN "under" ELSE "segv")
                     /\ UNCHANGED pending
                  \/ /\ running.ctl > 0
                     /\ \E t \in Code :
                          Queued(Counted, Jumped(Popped(Counted), t))

\* The original pops its jump target, the copy keeps it.
CBranch == /\ Live /\ InLimit
           /\ \/ CopyRefused
              \/ /\ CanCopy /\ CopyCounted
                 /\ \/ /\ running.ctl = 0
                       /\ Fails("under")
                       /\ UNCHANGED pending
                    \/ /\ running.ctl > 0
                       /\ \/ /\ Len(pending) < QueueCap
                             /\ \/ \E t \in Code : Runs(Jumped(Popped(Counted), t))
                                \/ Runs(Failed(Popped(Counted), "segv"))
                             /\ pending' = Append(pending, Counted)
                          \/ /\ Len(pending) >= QueueCap
                             /\ Runs(Failed(Popped(Counted), "qfull"))
                             /\ UNCHANGED pending

-----------------------------------------------------------------------------
\* The handler accepts a terminated machine and a pending one takes its place.
Resume == /\ ~done /\ running.err # "nil"
          /\ pending # <<>>
          /\ running' = Last(pending)
          /\ pending' = Front(pending)
          /\ UNCHANGED <<copies, done, result>>

\* The handler refuses a terminated machine, or none is pending: the caller
\* gets the machine that was handled last.
Return == /\ ~done /\ running.err # "nil"
          /\ done' = TRUE
          /\ result' = running
          /\ pending' = <<>>
          /\ UNCHANGED <<running, copies>>

Next == \/ LimitHit \/ Stop \/ Store \/ Jump \/ Call \/ CPush \/ CPop \/ Ret
        \/ Fork \/ Branch \/ CFork \/ CBranch
        \/ Resume \/ Return

Spec == Init /\ [][Next]_vars
=============================================================================
