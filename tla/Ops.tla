--------------------------------- MODULE Ops ---------------------------------
(***************************************************************************)
(* What each operation of the machine does with its operands: the switch   *)
(* of step() (vm.go), on the stacks of module Stacks.                      *)
(*                                                                         *)
(* A word has Bits bits and four bytes of Bits \div 4; the address space   *)
(* has a byte for every value of a word.  Stacks counts addresses in       *)
(* words, the operands here are byte addresses as in the code.             *)
(*                                                                         *)
(* Copies of the machine are module Machines' matter.  Here a machine only *)
(* notes in .reached which control routine an operation reached, and with  *)
(* what operand; and in .lost whether a step of the operation failed and   *)
(* the operation went on without the error.                                *)
(***************************************************************************)
EXTENDS Integers, SequencesExt

CONSTANTS
  Bits,   \* the bits of a word: 32 in the code
  Size,   \* the words of the stack space
  Args,   \* the immediate operands tried
  Deep,   \* the longest parameter stack a run starts with
  MaxOps  \* the operations executed in a run

ASSUME BitsAssumption == Bits \in {8, 16, 32}
ASSUME SizeAssumption == Size \in Nat \ {0} /\ 8 * Size < 2 ^ Bits
ASSUME BoundsAssumption == Deep \in Nat /\ MaxOps \in Nat
ASSUME ArgsAssumption == Args \subseteq 0 .. 2 ^ Bits - 1

VARIABLES
  mach,   \* the machine
  last,   \* the operation executed last
  count   \* the operations executed

vars == <<mach, last, count>>

W == 2 ^ Bits
Val == 0 .. W - 1
Words == W \div 4
S == INSTANCE Stacks WITH passed <- FALSE

CbpByte == 4 * S!Cbp    \* cbp, as an address
Nothing == <<"none", 0>>
Fail(m, e) == [m EXCEPT !.err = e]
Lose(m) == [m EXCEPT !.lost = TRUE]
Reach(m, routine, x) == [m EXCEPT !.reached = <<routine, x>>]

\* The head becomes v, in the width of a word.
Put(m, v) == [m EXCEPT !.pa = v % W]

\* The operations, by what their immediate is: a value, an address, an offset, or nothing they
\* accept.
Kind == [val    |-> {"push", "pop", "dup", "swap", "store", "add", "sub", "mul", "div", "mod",
                     "divmod", "lt", "lte", "gt", "gte", "eq", "neq", "cpush", "cpop", "p2c",
                     "c2p", "bitand", "bitor", "bitxor", "shiftl", "shiftr", "hnz", "hz", "halt"},
         addr   |-> {"fetch", "storeTo", "call", "bitest", "bitset", "bitost", "bitseta", "bitosta"},
         offset |-> {"jump", "jnz", "jz", "fork", "fnz", "fz", "branch", "bnz", "bz"},
         none   |-> {"crash", "nop", "neg", "not", "and", "or", "mark", "ret", "bitnot"}]

\* What validate() lets through: none of the kinds is a required one.
WithImmediate == Kind.val \cup Kind.addr \cup Kind.offset
Op == [name : WithImmediate \cup Kind.none, imm : {FALSE}, arg : {0}]
        \cup [name : WithImmediate, imm : {TRUE}, arg : Args]

\* pop(), and what follows when it succeeds: Then(machine, word popped).
Popping(m, Then(_, _)) ==
  LET t == S!Drop(m) IN IF t.err # "nil" THEN t ELSE Then(t, m.pa)

\* The operand: the immediate, or the head of the parameter stack.
WithOperand(m, op, Then(_, _)) == IF op.imm THEN Then(m, op.arg) ELSE Popping(m, Then)

\* cpop(), and what follows when it succeeds: Then(machine, word popped).
CPopping(m, Then(_, _)) ==
  LET t == S!CPop(m) IN IF t.err # "nil" THEN t ELSE Then(t, t.mem[t.csp])

\* One word popped from a stack, or moved from one to the other.
Once(m, o) ==
  CASE o = "pop"  -> S!Drop(m)
    [] o = "cpop" -> S!CPop(m)
    [] o = "p2c"  -> Popping(m, S!CPush)
    [] o = "c2p"  -> CPopping(m, S!Push)

\* The same n times, until a time fails: one of the first Words does, no stack holds as many.
Repeat(m, o, n) ==
  LET times[k \in 0 .. n] ==
        IF k = 0 THEN m ELSE LET t == times[k - 1] IN IF t.err # "nil" THEN t ELSE Once(t, o)
  IN  times[IF n < Words THEN n ELSE Words]

-----------------------------------------------------------------------------
(* Memory, by byte address *)

ByteBase == 2 ^ (Bits \div 4)

Misaligned(a) == a < CbpByte /\ a % 4 # 0

\* The word read or written through a pointer to byte a: little-endian, and above
\* cbp it may lie across two words.  (One that goes past the end of a page reads what
\* Go happens to keep there: the runs have no operand in the last word of memory.)
Load(m, a) ==
  LET w == a \div 4  low == ByteBase ^ (a % 4)  high == ByteBase ^ (4 - (a % 4)) IN
  IF a % 4 = 0 THEN m.mem[w] ELSE m.mem[w] \div low + (m.mem[S!Up(w)] % low) * high

Write(m, w, v) == [m EXCEPT !.mem = [@ EXCEPT ![w] = v]]

Save(m, a, v) ==
  LET w == a \div 4  low == ByteBase ^ (a % 4)  high == ByteBase ^ (4 - (a % 4))
      t == Write(m, w, (m.mem[w] % low) + (v % high) * low)
      old == t.mem[S!Up(w)] IN
  IF a % 4 = 0 THEN Write(m, w, v) ELSE Write(t, S!Up(w), (old - (old % low)) + v \div high)

Fetch(m, a) == IF Misaligned(a) THEN Fail(m, "align") ELSE S!Push(m, Load(m, a))
Store(m, a, v) == IF Misaligned(a) THEN Fail(m, "align") ELSE Save(m, a, v)

\* Slip: the other form forgets it as well.
FetchForgets(m, op) ==
  WithOperand(m, op, LAMBDA t, a : LET u == Fetch(t, a) IN IF u.err = "nil" THEN u ELSE Lose(t))

\* fetch without an immediate forgets the error of its second half.
FetchOp(m, op) ==
  IF op.imm THEN Fetch(m, op.arg)
  ELSE Popping(m, LAMBDA t, a : LET u == Fetch(t, a) IN IF u.err = "nil" THEN u ELSE Lose(t))

StoreOp(m, op) ==
  WithOperand(m, op, LAMBDA t, v : Popping(t, LAMBDA u, a : Store(u, a, v)))

\* Slip: the operands in the order of store.
StoreToSwapped(m, op) ==
  IF op.imm THEN Popping(m, LAMBDA t, v : Store(t, op.arg, v))
  ELSE Popping(m, LAMBDA t, v : Popping(t, LAMBDA u, a : Store(u, a, v)))

StoreToOp(m, op) ==
  WithOperand(m, op, LAMBDA t, a : Popping(t, LAMBDA u, v : Store(u, a, v)))

-----------------------------------------------------------------------------
(* The parameter stack *)

\* dup i.  The code multiplies i by four: it wraps around the words.
DupOp(m, i) ==
  CASE i = 1 -> S!Push(m, m.pa)
    [] i # 1 /\ S!InParams(m, i % Words) -> S!Push(m, m.mem[S!Ref(m, i % Words)])
    [] OTHER -> Fail(m, "punder")

\* swap i - 1.
SwapOp(m, i) ==
  CASE m.psp = S!Empty -> Fail(m, "punder")
    [] m.psp # S!Empty /\ i = 1 -> m
    [] m.psp # S!Empty /\ i # 1 /\ S!InParams(m, i % Words) ->
         LET a == S!Ref(m, i % Words) IN [m EXCEPT !.pa = m.mem[a], !.mem[a] = m.pa]
    [] OTHER -> Fail(m, "punder")

ParamOp(m, op) ==
  CASE op.name = "push" -> S!Push(m, op.arg)
    [] op.name = "pop"  -> Repeat(m, "pop", IF op.imm THEN op.arg ELSE 1)
    [] op.name = "dup"  -> DupOp(m, IF op.imm THEN op.arg ELSE 1)
    [] op.name = "swap" -> SwapOp(m, IF op.imm THEN (1 + op.arg) % W ELSE 2)

-----------------------------------------------------------------------------
(* Computing *)

Signed(a) == IF a >= W \div 2 THEN a - W ELSE a
Unsigned(a) == a % W
Magnitude(a) == IF a < 0 THEN -a ELSE a
Truth(b) == IF b THEN 1 ELSE 0

HasBit(v, i) == (v \div 2 ^ i) % 2 = 1

Total(c) ==
  LET below[k \in 0 .. Bits] == IF k = 0 THEN 0 ELSE below[k - 1] + c[k - 1]
  IN  below[Bits]

\* The word that has the bits i for which the bits i of a and of b are a pair of kept.
BitByBit(a, b, kept) ==
  Total([i \in 0 .. Bits - 1 |-> Truth(<<HasBit(a, i), HasBit(b, i)>> \in kept) * 2 ^ i])

\* Go's a % b: it has the sign of a.
TruncRem(a, b) == LET r == Magnitude(a) % Magnitude(b) IN IF a < 0 THEN -r ELSE r

\* Slip: the remainder keeps the sign of the dividend.
RemSigned(a, b) == Unsigned(TruncRem(Signed(a), Signed(b)))

\* rem(), on words.
Rem(a, b) ==
  LET x == TruncRem(Signed(a), Signed(b)) IN Unsigned(IF x < 0 THEN x + Signed(b) ELSE x)

Dividing == {"div", "mod"}
Shifting == {"shiftl", "shiftr"}
Combining == {"bitand", "bitor", "bitxor"}
Comparing == {"lt", "lte", "gt", "gte", "eq", "neq"}
Binary == {"add", "sub", "mul"} \cup Dividing \cup Shifting \cup Combining \cup Comparing

\* The head, a, becomes the result of the operation on it and its operand, b.
Result(o, a, b) ==
  CASE o = "add"    -> a + b
    [] o = "sub"    -> a - b
    [] o = "mul"    -> a * b
    [] o = "div"    -> a \div b
    [] o = "mod"    -> Rem(a, b)
    [] o = "shiftl" -> IF b < Bits THEN a * 2 ^ b ELSE 0
    [] o = "shiftr" -> IF b < Bits THEN a \div 2 ^ b ELSE 0
    [] o = "bitand" -> BitByBit(a, b, {<<TRUE, TRUE>>})
    [] o = "bitor"  -> BitByBit(a, b, {<<TRUE, TRUE>>, <<TRUE, FALSE>>, <<FALSE, TRUE>>})
    [] o = "bitxor" -> BitByBit(a, b, {<<TRUE, FALSE>>, <<FALSE, TRUE>>})
    [] o = "lt"     -> Truth(a < b)
    [] o = "lte"    -> Truth(a <= b)
    [] o = "gt"     -> Truth(a > b)
    [] o = "gte"    -> Truth(a >= b)
    [] o = "eq"     -> Truth(a = b)
    [] o = "neq"    -> Truth(a # b)

\* A division by zero is a panic of the program that runs the machine.
Compute(m, o, b) ==
  IF o \in Dividing /\ b = 0 THEN Fail(m, "panic") ELSE Put(m, Result(o, m.pa, b))

\* These three test pop's error the wrong way around: they compute, on a head that
\* is not there, when pop failed, and otherwise leave the head as it is.
ComputeIfFailed(m, r) ==
  LET t == S!Drop(m) IN IF t.err # "nil" THEN Put(t, r) ELSE t

BinaryOp(m, op) ==
  IF op.name = "gte" /\ ~op.imm THEN ComputeIfFailed(m, 1)
  ELSE WithOperand(m, op, LAMBDA t, b : Compute(t, op.name, b))

\* divmod takes both words where they are; with an immediate it pushes the
\* remainder of what it just made the head: the quotient.
DivmodOp(m, op) ==
  IF op.imm
  THEN IF op.arg = 0 THEN Fail(m, "panic")
       ELSE LET q == m.pa \div op.arg IN S!Push(Put(m, q), Rem(q, op.arg))
  ELSE LET a == S!Ref(m, 2)  b == m.mem[a] IN
       CASE ~S!InParams(m, 2) -> Fail(m, "punder")
         [] S!InParams(m, 2) /\ b = 0 -> Fail(m, "panic")
         [] OTHER -> [m EXCEPT !.pa = @ \div b, !.mem[a] = Rem(m.pa, b)]

UnaryOp(m, o) ==
  CASE o = "neg"    -> Put(m, -m.pa)
    [] o = "bitnot" -> Put(m, W - 1 - m.pa)
    [] o = "not"    -> Put(m, Truth(m.pa = 0))
    [] o \in {"and", "or"} -> ComputeIfFailed(m, Truth(m.pa # 0))

-----------------------------------------------------------------------------
(* Bit vectors *)

BitOps == {"bitest", "bitset", "bitost", "bitseta", "bitosta"}

WithBit(v, n) == IF HasBit(v, n) THEN v ELSE v + 2 ^ n

\* Slip: ^= in place of &= ^, a clear bit is set.
Toggled(v, n) == IF HasBit(v, n) THEN v - 2 ^ n ELSE v + 2 ^ n

WithoutBit(v, n) == IF HasBit(v, n) THEN v - 2 ^ n ELSE v

\* The operation on bit n of the word at address a.
BitAt(m, o, a, n) ==
  LET w == Load(m, a) IN
  CASE Misaligned(a) -> Fail(IF o = "bitest" THEN Put(m, 0) ELSE m, "align")
    [] o = "bitest" /\ ~Misaligned(a) -> Put(m, Truth(HasBit(w, n)))
    [] o \in {"bitset", "bitseta"} /\ ~Misaligned(a) ->
         LET s == Save(m, a, WithBit(w, n)) IN
         IF o = "bitset" THEN s ELSE Put(s, Truth(~HasBit(w, n)))
    [] o \in {"bitost", "bitosta"} /\ ~Misaligned(a) ->
         LET s == Save(m, a, WithoutBit(w, n)) IN
         IF o = "bitost" THEN s ELSE Put(s, Truth(HasBit(w, n)))

\* The number of the word is added to an address in bytes.
Bit(m, o, a, n) == BitAt(m, o, (a + n \div Bits) % W, n % Bits)

\* bitset and bitost pop the number of the bit, the others replace it.
BitOp(m, op) ==
  WithOperand(m, op, LAMBDA t, a :
    IF op.name \in {"bitset", "bitost"} THEN Popping(t, LAMBDA u, n : Bit(u, op.name, a, n))
    ELSE Bit(t, op.name, a, t.pa))

-----------------------------------------------------------------------------
(* The control stack, jumps and calls *)

\* jumpTo()
JumpTo(m, routine, ip) ==
  LET r == Reach(m, routine, ip) IN
  IF ip <= CbpByte THEN Fail(r, "segfault") ELSE [r EXCEPT !.ip = ip]

Jump(m, off) == JumpTo(m, "jump", (m.ip + off) % W)

CJump(m) == CPopping(m, LAMBDA t, ip : JumpTo(t, "jump", ip))

Call(m, ip) ==
  LET t == S!CPush(m, m.ip) IN IF t.err # "nil" THEN t ELSE JumpTo(t, "call", ip)

\* There is no cpush without an immediate.
ControlOp(m, op) ==
  LET n == IF op.imm THEN op.arg ELSE 1 IN
  CASE op.name = "mark"  -> S!CPush(m, m.ip)
    [] op.name = "cpush" -> IF op.imm THEN S!CPush(m, op.arg) ELSE Fail(m, "unimplemented")
    [] op.name \in {"cpop", "p2c", "c2p"} -> Repeat(m, op.name, n)
    [] op.name = "ret"   -> CJump(m)
    [] op.name = "call"  -> WithOperand(m, op, Call)

\* fork(), branch() and their conditional forms make a copy: see Machines.
Copying(routine, m, x) == Reach(m, routine, x)

\* Slip: one operation missing from the list.
TakenButHz(op, v) == IF op.name \in {"jz", "fz", "bz"} THEN v = 0 ELSE v # 0

\* The condition of the operation.
Taken(op, v) == IF op.name \in {"jz", "fz", "bz", "hz"} THEN v = 0 ELSE v # 0

\* The conditional operations pop a word and go on when it is zero, or when it is
\* not: to the immediate offset, or to the address on the control stack.
Conditional(m, op, Imm(_, _), Popped(_)) ==
  Popping(m, LAMBDA t, v :
    CASE Taken(op, v) /\ op.imm  -> Imm(t, op.arg)
      [] Taken(op, v) /\ ~op.imm -> Popped(t)
      [] OTHER -> t)

\* jz with an immediate forgets the error of its jump.
JumpKept(op, m, off) ==
  LET t == Jump(m, off) IN
  IF op.name = "jz" /\ t.err # "nil" THEN Lose([t EXCEPT !.err = "nil"]) ELSE t

\* bnz without an immediate branches when pop failed, and forgets that it did.
BnzPopped(m) ==
  LET t == S!Drop(m) IN
  IF t.err # "nil" /\ m.pa # 0 THEN Lose(Reach(m, "cbranch", 0)) ELSE t

JumpOp(m, op) ==
  CASE op.name = "jump" -> WithOperand(m, op, Jump)
    [] op.name \in {"jnz", "jz"} ->
         Conditional(m, op, LAMBDA t, off : JumpKept(op, t, off), CJump)

ForkOp(m, op) ==
  CASE op.name = "fork" -> WithOperand(m, op, LAMBDA t, off : Copying("fork", t, off))
    [] op.name \in {"fnz", "fz"} ->
         Conditional(m, op, LAMBDA t, off : Copying("fork", t, off),
                            LAMBDA t : Copying("cfork", t, 0))

BranchOp(m, op) ==
  CASE op.name = "branch" -> WithOperand(m, op, LAMBDA t, off : Copying("branch", t, off))
    [] op.name = "bnz" /\ ~op.imm -> BnzPopped(m)
    [] op.name = "bz" \/ (op.imm /\ op.name = "bnz") ->
         Conditional(m, op, LAMBDA t, off : Copying("branch", t, off),
                            LAMBDA t : Copying("cbranch", t, 0))

Halted(m, arg) == Reach(Fail(Put(m, arg), "halted"), "halt", arg)

HaltOp(m, op) ==
  IF op.name = "halt" THEN Halted(m, op.arg)
  ELSE Conditional(m, op, Halted, LAMBDA t : Halted(t, 0))

-----------------------------------------------------------------------------
\* The switch of step().
Execute(m, op) ==
  CASE op.name = "nop" -> m
    [] op.name = "crash" -> Fail(m, "crashed")
    [] op.name \in {"push", "pop", "dup", "swap"} -> ParamOp(m, op)
    [] op.name = "fetch"   -> FetchOp(m, op)
    [] op.name = "store"   -> StoreOp(m, op)
    [] op.name = "storeTo" -> StoreToOp(m, op)
    [] op.name \in Binary  -> BinaryOp(m, op)
    [] op.name = "divmod"  -> DivmodOp(m, op)
    [] op.name \in {"neg", "bitnot", "not", "and", "or"} -> UnaryOp(m, op.name)
    [] op.name \in BitOps  -> BitOp(m, op)
    [] op.name \in {"mark", "cpush", "cpop", "p2c", "c2p", "ret", "call"} -> ControlOp(m, op)
    [] op.name \in {"jump", "jnz", "jz"} -> JumpOp(m, op)
    [] op.name \in {"fork", "fnz", "fz"} -> ForkOp(m, op)
    [] op.name \in {"branch", "bnz", "bz"} -> BranchOp(m, op)
    [] op.name \in {"halt", "hz", "hnz"} -> HaltOp(m, op)

\* A machine that pushed ps and marked cs.
Machine(ps, cs) ==
  [psp |-> IF ps = <<>> THEN S!Empty ELSE Len(ps) - 1,
   pa  |-> IF ps = <<>> THEN 0 ELSE Last(ps),
   csp |-> S!Wrap(S!Cbp - Len(cs)),
   mem |-> [a \in S!Addr |-> IF a < Len(ps) - 1 THEN ps[a + 1]
                             ELSE IF S!Cbp - a \in 0 .. Len(cs) - 1 THEN cs[S!Cbp - a + 1] ELSE 0],
   err |-> "nil", ip |-> W \div 2, reached |-> Nothing, lost |-> FALSE]

Init ==
  /\ \E ps \in SeqOf(Args, Deep), cs \in SeqOf({W \div 4}, 1) :
       Len(ps) + Len(cs) <= Size /\ mach = Machine(ps, cs)
  /\ last = [name |-> "nop", imm |-> FALSE, arg |-> 0]
  /\ count = 0

\* One operation.  MaxOps is a bound of the model.
Step == /\ mach.err = "nil" /\ count < MaxOps
        /\ \E op \in Op :
             /\ mach' = Execute([mach EXCEPT !.reached = Nothing, !.lost = FALSE], op)
             /\ last' = op
        /\ count' = count + 1

Stopped == (mach.err # "nil" \/ count = MaxOps) /\ UNCHANGED vars

Next == Step \/ Stopped

Spec == Init /\ [][Next]_vars
-----------------------------------------------------------------------------
(* Properties *)

\* What a machine's program can tell: not the words between the stacks, nor what
\* pa holds when the parameter stack is empty.
Shown(m) ==
  [m EXCEPT !.pa = IF m.psp = S!Empty THEN 0 ELSE @,
            !.mem = [a \in S!Addr |-> IF a <= m.csp /\ (m.psp = S!Empty \/ a >= m.psp)
                                      THEN 0 ELSE @[a]]]

\* The operations that take their immediate in place of a word from the stack.
Alternative == Binary \cup BitOps \cup {"divmod", "fetch", "store", "storeTo",
                                        "jump", "call", "fork", "branch"}
Faulty == {"gte", "divmod"}

\* The word that the operation reads or writes is beyond the stack space, and in memory.
Outside(m, o, x) ==
  LET a == CASE o \in BitOps -> (x + m.pa \div Bits) % W
             [] o = "store"  -> m.pa
             [] OTHER        -> x
  IN  o \in BitOps \cup {"fetch", "store", "storeTo"} => a > CbpByte /\ a + 4 <= W

SameAsPushed(m, o, x) ==
  LET t == S!Push(m, x) IN
  m.err = "nil" /\ m.psp # S!Empty /\ t.err = "nil" /\ Outside(m, o, x) =>
    Shown(Execute(m, [name |-> o, imm |-> TRUE, arg |-> x]))
      = Shown(Execute(t, [name |-> o, imm |-> FALSE, arg |-> 0]))

\* An operation with an immediate does what it does after a push of that operand
\* (api.go:93), but for the two that do not.
ImmAlternative ==
  count = 0 => \A o \in Alternative \ Faulty, x \in Args : SameAsPushed(mach, o, x)

\* Of an operation if zero and its opposite, on a head that is there, exactly one
\* goes anywhere; the other one only pops.
Pairs == {<<"jz", "jnz">>, <<"fz", "fnz">>, <<"bz", "bnz">>, <<"hz", "hnz">>}

OneGoes(pair, imm, x) ==
  LET after == [o \in Range(pair) |-> Execute(mach, [name |-> o, imm |-> imm, arg |-> x])]
      gone  == {o \in Range(pair) : after[o].reached # Nothing}
  IN  Cardinality(gone) = 1 /\ \A o \in Range(pair) \ gone : after[o] = S!Drop(mach)

HasWords == count = 0 /\ mach.psp # S!Empty /\ mach.csp < S!Cbp

ZeroOrNot ==
  HasWords => \A pair \in Pairs :
    /\ \A x \in Args : OneGoes(pair, TRUE, x)
    /\ pair[2] # "bnz" => OneGoes(pair, FALSE, 0)

\* "BZ/BNZ are branch if (non-)zero" (README.md:19).
BranchIfNonZero == HasWords => OneGoes(<<"bz", "bnz">>, FALSE, 0)

\* A failure of any part of an operation stops the machine, but for the failed
\* address of a fetch, the failed jump of a jz and the failed pop of a bnz.
FailuresStop ==
  mach.lost => \/ last.name = "fetch" /\ ~last.imm
               \/ last.name = "jz" /\ last.imm
               \/ last.name = "bnz" /\ ~last.imm

\* What divmod leaves is a quotient and its remainder, for operands without a sign
\* bit; and mod of any dividend by such a divisor is the Euclidean remainder.
Divides ==
  (count = 0 /\ mach.psp \in 1 .. S!Cbp) =>
    LET d == Execute(mach, [name |-> "divmod", imm |-> FALSE, arg |-> 0])
        r == Execute(mach, [name |-> "mod", imm |-> FALSE, arg |-> 0])
        b == mach.mem[mach.psp - 1]
    IN  /\ d.err = "nil" /\ mach.pa < W \div 2 /\ b < W \div 2 =>
             d.pa * b + d.mem[d.psp - 1] = mach.pa /\ d.mem[d.psp - 1] < b
        /\ r.err = "nil" /\ mach.pa < W \div 2 =>
             r.pa < mach.pa /\ (Signed(b) - r.pa) % mach.pa = 0

\* The bit numbered n of the vector at address a, for a number below Bits, and
\* what an operation on it makes of the word and of every other word.
BitWord(a) == a \div 4
OnOneBit(m, o, a, n) ==
  LET t == Bit(m, o, a, n)  w == m.mem[BitWord(a)]  v == t.mem[BitWord(a)] IN
  /\ \A x \in S!Addr \ {BitWord(a)} : t.mem[x] = m.mem[x]
  /\ \A i \in 0 .. Bits - 1 : i # n => (HasBit(v, i) <=> HasBit(w, i))
  /\ HasBit(v, n) <=> CASE o \in {"bitset", "bitseta"} -> TRUE
                        [] o \in {"bitost", "bitosta"} -> FALSE
                        [] o = "bitest" -> HasBit(w, n)
  /\ o \in {"bitseta", "bitosta"} => (t.pa = 1 <=> (HasBit(v, n) # HasBit(w, n)))
  /\ o = "bitest" => (t.pa = 1 <=> HasBit(w, n))

\* The operations on the bits of one word see and change the bit they name.
BitsOfAWord ==
  mach.err = "nil" => \A o \in BitOps, n \in 0 .. Bits - 1 : OnOneBit(mach, o, W \div 2, n)

\* What an operation computes is what its operands, one pushed after the other, stand for: in
\* the order of division, with the signs that % has, on the bit that is named.
Computes == Divides /\ BitsOfAWord
=============================================================================
