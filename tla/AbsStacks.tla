----------------------------- MODULE AbsStacks -----------------------------
(***************************************************************************)
(* What the two stacks of a machine promise: sequences that share Size     *)
(* words.  Stacks.tla implements this specification.                       *)
(*                                                                         *)
(* The promise has a hole, overrun, because the check for room on the      *)
(* control stack has one: see Overrun.  Nothing is promised behind it.     *)
(***************************************************************************)
EXTENDS Integers, SequencesExt

CONSTANTS
  Val,    \* the values of a word
  Size    \* the words of the stack space

VARIABLES
  ps,       \* the parameter stack, its head last
  cs,       \* the control stack, its head last
  err,      \* "nil", or the stack range error that stopped the machine
  overrun   \* whether the control stack ran over the stack space

vars == <<ps, cs, err, overrun>>

Room == Len(ps) + Len(cs) < Size
Live == err = "nil" /\ ~overrun

Init == ps = <<>> /\ cs = <<>> /\ err = "nil" /\ overrun = FALSE

Becomes(p, c) == ps' = p /\ cs' = c /\ UNCHANGED <<err, overrun>>
FailsAt(p, c, e) == ps' = p /\ cs' = c /\ err' = e /\ UNCHANGED overrun
Fails(e) == FailsAt(ps, cs, e)

\* A full space is reported as an overflow, or as an underflow when there is
\* nothing on the control stack.
PushFails(p, c) == \E e \in {"pover", "punder"} : FailsAt(p, c, e)

Push(v) == /\ Live
           /\ \/ Room /\ Becomes(Append(ps, v), cs)
              \/ ~Room /\ PushFails(ps, cs)

Drop == /\ Live
        /\ \/ ps # <<>> /\ Becomes(Front(ps), cs)
           \/ ps = <<>> /\ Fails("punder")

\* The head is replaced; on an empty stack, nothing that can be seen happens.
Put(v) == /\ Live
          /\ Becomes(IF ps = <<>> THEN ps ELSE Append(Front(ps), v), cs)

\* The i-th word from the head is pushed.
Dup(i) == /\ Live
          /\ i \in 1 .. Len(ps)
          /\ Push(ps[Len(ps) + 1 - i])

\* The i-th word from the head and the head change places.
Swap(i) == /\ Live
           /\ i \in 1 .. Len(ps)
           /\ Becomes([ps EXCEPT ![Len(ps) + 1 - i] = Last(ps), ![Len(ps)] = ps[Len(ps) + 1 - i]],
                      cs)

\* A reference below the bottom of the stack.
NoSuchWord == Live /\ Fails("punder")

CPush(v) == /\ Live
            /\ \/ Room /\ Becomes(ps, Append(cs, v))
               \/ ~Room /\ Fails("cover")

CPop == /\ Live
        /\ \/ cs # <<>> /\ Becomes(ps, Front(cs))
           \/ cs = <<>> /\ Fails("cunder")

P2C == /\ Live
       /\ \/ ps # <<>> /\ Becomes(Front(ps), Append(cs, Last(ps)))
          \/ ps = <<>> /\ Fails("punder")

C2P == /\ Live
       /\ \/ cs # <<>> /\ Becomes(Append(ps, Last(cs)), Front(cs))
          \/ cs = <<>> /\ Fails("cunder")

\* A push on the control stack is not checked when the parameter stack fills the
\* space alone, nor when the control stack is down to the last word.
Overrun == /\ Live
           /\ Len(ps) >= Size \/ Len(cs) >= Size - 1
           /\ overrun' = TRUE
           /\ ps' = <<>> /\ cs' = <<>> /\ UNCHANGED err

\* What follows is not specified.
Unspecified == /\ overrun
               /\ err' \in {"nil", "pover", "punder", "cover", "cunder"}
               /\ UNCHANGED <<ps, cs, overrun>>

Next == \/ \E v \in Val : Push(v) \/ Put(v) \/ CPush(v)
        \/ \E i \in 1 .. Size : Dup(i) \/ Swap(i)
        \/ Drop \/ NoSuchWord \/ CPop \/ P2C \/ C2P
        \/ Overrun \/ Unspecified

Spec == Init /\ [][Next]_vars
=============================================================================
