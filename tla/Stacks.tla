------------------------------- MODULE Stacks -------------------------------
(***************************************************************************)
(* The parameter stack and the control stack of a machine (vm.go): two     *)
(* regions of memory that grow towards each other, with the head of the    *)
(* parameter stack in the register pa.                                     *)
(*                                                                         *)
(* Every stack address is a multiple of 4, so an address is counted here   *)
(* in words: the code's 2^32 bytes are Words = 2^30, and the arithmetic    *)
(* wraps as the code's does.  pbp is 0, as New leaves it.  The stack space *)
(* has Size words; a machine built without a stack size has cbp = 0, which *)
(* is Size = 1.                                                            *)
(*                                                                         *)
(* The operations are functions on a record s with the fields of Mach that *)
(* they use: psp, pa, csp, mem and err.                                    *)
(***************************************************************************)
EXTENDS Integers, SequencesExt

CONSTANTS
  Words,  \* the words of the address space
  Size,   \* the words of the stack space
  Val     \* the values of a word

ASSUME SizeAssumption == Size \in Nat \ {0} /\ Words \in Nat /\ Words > 2 * Size
ASSUME ValAssumption == 0 \in Val

VARIABLES
  mach,   \* the machine
  passed  \* ghost: whether psp and csp ever passed each other

vars == <<mach, passed>>

Addr == 0 .. Words - 1
Empty == Words - 1    \* _pspInit: the psp of an empty parameter stack
Cbp == Size - 1

\* The result of unsigned arithmetic that leaves the range by less than 2^32.
Wrap(a) == IF a < 0 THEN a + Words ELSE IF a >= Words THEN a - Words ELSE a
Up(a) == Wrap(a + 1)
Down(a) == Wrap(a - 1)

Fail(m, e) == [m EXCEPT !.err = e]

-----------------------------------------------------------------------------
(* The parameter stack *)

\* Slip: only the control stack bounds the parameter stack.
PushUnbounded(m, val) ==
  LET p == Up(m.psp) IN
  IF p < Empty /\ p > m.csp
  THEN Fail(m, "pover")
  ELSE [m EXCEPT !.mem = IF p > 0 THEN [@ EXCEPT ![m.psp] = m.pa] ELSE @,
                 !.pa = val, !.psp = p]

\* Slip: off by one, the head may reach a word of the control stack.
PushTouching(m, val) ==
  LET p == Up(m.psp) IN
  CASE p < Empty /\ p > Cbp -> Fail(m, "punder")
    [] p < Empty /\ p <= Cbp /\ p > m.csp + 1 -> Fail(m, "pover")
    [] OTHER -> [m EXCEPT !.mem = IF p > 0 THEN [@ EXCEPT ![m.psp] = m.pa] ELSE @,
                          !.pa = val, !.psp = p]

\* push(): the old head goes to memory, val becomes the head.
Push(m, val) ==
  LET p == Up(m.psp) IN
  CASE p < Empty /\ p > Cbp -> Fail(m, "punder")
    [] p < Empty /\ p <= Cbp /\ p > m.csp -> Fail(m, "pover")
    [] OTHER -> [m EXCEPT !.mem = IF p > 0 THEN [@ EXCEPT ![m.psp] = m.pa] ELSE @,
                          !.pa = val, !.psp = p]

\* drop(): what is below the head becomes the head.
Drop(m) ==
  LET p == Down(m.psp) IN
  CASE p < Cbp -> [m EXCEPT !.pa = m.mem[p], !.psp = p]
    [] p >= Cbp /\ p < Empty -> Fail(m, "punder")
    [] OTHER -> [m EXCEPT !.psp = p]

\* Slip: off by one, the word below.
RefBelow(m, i) == Wrap(m.psp - i)

\* The address pRef(i) looks at, for i other than 1.
Ref(m, i) == Wrap(m.psp + 1 - i)

\* Does pRef(i) find the word in bounds?
InParams(m, i) == Ref(m, i) <= m.csp

\* dup(i): the i-th word is pushed; dup(1) does not ask whether there is one.
Dup(m, i) ==
  CASE i = 1 -> Push(m, m.pa)
    [] i # 1 /\ InParams(m, i) -> Push(m, m.mem[Ref(m, i)])
    [] OTHER -> Fail(m, "punder")

\* swap(i - 1): the i-th word and the head change places.
Swap(m, i) ==
  CASE m.psp = Empty -> Fail(m, "punder")
    [] m.psp # Empty /\ i = 1 -> m
    [] m.psp # Empty /\ i # 1 /\ InParams(m, i) ->
         [m EXCEPT !.pa = m.mem[Ref(m, i)], !.mem = [@ EXCEPT ![Ref(m, i)] = m.pa]]
    [] OTHER -> Fail(m, "punder")

-----------------------------------------------------------------------------
(* The control stack *)

\* cpush(): val goes to the free word at csp.  There is a check for room only
\* where the parameter stack has words, and does not fill the space.
CPush(m, val) ==
  LET c == Down(m.csp) IN
  IF m.psp < Cbp /\ c < m.psp
  THEN Fail(m, "cover")
  ELSE [m EXCEPT !.mem = [@ EXCEPT ![m.csp] = val], !.csp = c]

\* cpop(): the value it returns is at the new csp.
CPop(m) == IF m.csp >= Cbp THEN Fail(m, "cunder") ELSE [m EXCEPT !.csp = Up(@)]

\* p2c and c2p, of one word.
P2C(m) == LET t == Drop(m) IN IF t.err # "nil" THEN t ELSE CPush(t, m.pa)

C2P(m) == LET t == CPop(m) IN IF t.err # "nil" THEN t ELSE Push(t, m.mem[t.csp])

-----------------------------------------------------------------------------
(* What Stacks() shows of them *)

\* Slip: off by one, a space that is full is refused.
FetchPSTouching(m) ==
  CASE m.psp = Empty -> [err |-> "nil", vals |-> <<>>]
    [] m.psp # Empty /\ m.psp > Cbp -> [err |-> "punder", vals |-> <<>>]
    [] m.psp # 0 /\ m.psp <= Cbp /\ m.psp >= m.csp -> [err |-> "pover", vals |-> <<>>]
    [] OTHER -> [err  |-> "nil",
                 vals |-> [i \in 1 .. m.psp + 1 |-> IF i <= m.psp THEN m.mem[i - 1] ELSE m.pa]]

\* fetchPS()
FetchPS(m) ==
  CASE m.psp = Empty -> [err |-> "nil", vals |-> <<>>]
    [] m.psp # Empty /\ m.psp > Cbp -> [err |-> "punder", vals |-> <<>>]
    [] m.psp # 0 /\ m.psp <= Cbp /\ m.psp > m.csp -> [err |-> "pover", vals |-> <<>>]
    [] OTHER -> [err  |-> "nil",
                 vals |-> [i \in 1 .. m.psp + 1 |-> IF i <= m.psp THEN m.mem[i - 1] ELSE m.pa]]

\* fetchCS()
FetchCS(m) ==
  CASE m.csp = Cbp -> [err |-> "nil", vals |-> <<>>]
    [] m.csp < m.psp /\ m.psp < Cbp -> [err |-> "cover", vals |-> <<>>]
    [] m.csp > Cbp /\ ~(m.csp < m.psp /\ m.psp < Cbp) -> [err |-> "cunder", vals |-> <<>>]
    [] OTHER -> [err |-> "nil", vals |-> [i \in 1 .. Cbp - m.csp |-> m.mem[Cbp + 1 - i]]]

-----------------------------------------------------------------------------
(* A program that does what it likes to its stacks *)

\* The pointers have not passed each other, and the control stack is in the space.
Apart(m) == (m.psp = Empty \/ m.psp <= m.csp) /\ m.csp <= Cbp

Init ==
  /\ mach \in [psp : {Empty}, pa : {0}, csp : {Cbp}, mem : [Addr -> Val], err : {"nil"}]
  /\ passed = FALSE

Becomes(m) == mach.err = "nil" /\ mach' = m /\ passed' = (passed \/ ~Apart(m))

PushOp   == \E v \in Val : Becomes(Push(mach, v))
DropOp   == Becomes(Drop(mach))
\* An operation with one operand, on the head: neg, not, add with an immediate ...
PutOp    == \E v \in Val : Becomes([mach EXCEPT !.pa = v])
DupOp    == \E i \in Addr : Becomes(Dup(mach, i))
SwapOp   == \E i \in Addr : Becomes(Swap(mach, i))
CPushOp  == \E v \in Val : Becomes(CPush(mach, v))
CPopOp   == Becomes(CPop(mach))
P2COp    == Becomes(P2C(mach))
C2POp    == Becomes(C2P(mach))
Stopped  == mach.err # "nil" /\ UNCHANGED vars

Next == \/ PushOp \/ DropOp \/ PutOp \/ DupOp \/ SwapOp
        \/ CPushOp \/ CPopOp \/ P2COp \/ C2POp \/ Stopped

Spec == Init /\ [][Next]_vars
-----------------------------------------------------------------------------
(* Properties *)

Errors == {"nil", "pover", "punder", "cover", "cunder"}

\* push() and drop() keep psp within the stack space, or at the one value that
\* stands for an empty stack; a csp that left the space is a csp that wrapped.
TypeOK ==
  /\ mach \in [psp : {Empty} \cup 0 .. Cbp, pa : Val, csp : Addr,
            mem : [Addr -> Val], err : Errors]
  /\ passed \in BOOLEAN

\* Until the pointers pass each other, the machine's stacks as Stacks() shows
\* them are two sequences that share Size words: pushes and pops of one never
\* show on the other, and what is refused is refused for want of room.
Abs == INSTANCE AbsStacks WITH
  ps <- IF passed THEN <<>> ELSE FetchPS(mach).vals,
  cs <- IF passed THEN <<>> ELSE FetchCS(mach).vals,
  err <- mach.err,
  overrun <- passed
AbsSpec == Abs!Spec

\* Until then Stacks() never refuses to show them.
StacksServed ==
  ~passed => FetchPS(mach).err = "nil" /\ FetchCS(mach).err = "nil"

\* dup and swap get hold of the i-th word of the parameter stack, and below its
\* bottom of none: the address does not wrap into the control stack, nor around.
RefsFindWords ==
  ~passed => \A i \in 2 .. Size :
    LET ps == FetchPS(mach).vals IN
    /\ InParams(mach, i) <=> i <= Len(ps)
    /\ i <= Len(ps) => mach.mem[Ref(mach, i)] = ps[Len(ps) + 1 - i]

\* "if PSP and CSP would touch a stack overflow error occurs" (api.go:86).
NeverPassed == ~passed
=============================================================================
