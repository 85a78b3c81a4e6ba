------------------------------ MODULE OpsProof ------------------------------
(***************************************************************************)
(* Proofs about Ops, for every value of its constants.                     *)
(***************************************************************************)
EXTENDS Ops, FiniteSetTheorems, WellFoundedInduction, TLAPS

-----------------------------------------------------------------------------
(* Words and addresses *)

\* Words are as many as bytes; four make one of the stacks' words.
LEMMA Sizes ==
  /\ W \in Nat /\ Words \in Nat /\ W = 4 * Words /\ W >= 256
  /\ Bits \in Nat /\ Bits >= 8 /\ Bits <= 32
  /\ S!Cbp \in Nat /\ S!Cbp = Size - 1 /\ S!Empty = Words - 1 /\ Words > 2 * Size /\ Size \in Nat \ {0}
  /\ CbpByte = 4 * S!Cbp
<1>1. 2 ^ 8 = 256 /\ 2 ^ 16 = 65536 /\ 2 ^ 32 = 4294967296
  OBVIOUS
<1>2. /\ Bits \in Nat /\ Bits >= 8 /\ Bits <= 32
      /\ W \in {256, 65536, 4294967296}
  <2>1. CASE Bits = 8
    BY <1>1, <2>1 DEF W
  <2>2. CASE Bits = 16
    BY <1>1, <2>2 DEF W
  <2>3. CASE Bits = 32
    BY <1>1, <2>3 DEF W
  <2> QED
    BY <2>1, <2>2, <2>3, BitsAssumption
<1>3. W \in Nat /\ Words \in Nat /\ W = 4 * Words /\ W >= 256
  BY <1>2 DEF Words
<1>4. Size \in Nat \ {0} /\ 8 * Size < W
  BY SizeAssumption DEF W
<1> QED
  BY <1>2, <1>3, <1>4 DEF S!Cbp, S!Empty, CbpByte

\* What holds of 0, and of the number behind each of which it holds, holds of all: stated of sets.
LEMMA ByInduction ==
  ASSUME NEW Holds, 0 \in Holds, \A n \in Nat : n \in Holds => n + 1 \in Holds
  PROVE  Nat \subseteq Holds
<1> SUFFICES ASSUME Nat \ Holds # {} PROVE FALSE
  OBVIOUS
<1>1. PICK T \in SUBSET Nat : T = Nat \ Holds
  OBVIOUS
<1>2. PICK n \in T : \A m \in T : <<m, n>> \notin OpToRel(<, Nat)
  BY <1>1, NatLessThanWellFounded, WFMin
<1>3. \A m \in Nat : m < n => m \in Holds
  BY <1>1, <1>2 DEF OpToRel
<1>4. n # 0 /\ n - 1 \in Nat /\ (n - 1) + 1 = n /\ n - 1 < n
  BY <1>1
<1> QED
  BY <1>1, <1>3, <1>4

\* A machine whose pointers are where push() and drop() leave them.
Shaped(m) == m = [psp |-> m.psp, pa |-> m.pa, csp |-> m.csp, mem |-> m.mem, err |-> m.err,
                  ip |-> m.ip, reached |-> m.reached, lost |-> m.lost]
Sound(m) ==
  /\ Shaped(m)
  /\ m.psp \in {S!Empty} \cup 0 .. S!Cbp
  /\ m.csp \in S!Addr
  /\ m.mem = [a \in S!Addr |-> m.mem[a]]
  /\ m.pa \in Val

LEMMA MachineSound ==
  ASSUME NEW ps, NEW cs, ps \in SeqOf(Args, Deep), cs \in SeqOf({W \div 4}, 1), Len(ps) + Len(cs) <= Size
  PROVE  LET m == Machine(ps, cs) IN
         /\ Sound(m)
         /\ m.err = "nil" /\ m.reached = Nothing /\ m.lost = FALSE
<1>1. PICK n \in Nat : ps \in [1 .. n -> Args]
  BY BoundsAssumption DEF SeqOf
<1>2. Len(ps) = n
  BY <1>1
<1>3. PICK k \in 0 .. 1 : cs \in [1 .. k -> {W \div 4}] 
  BY DEF SeqOf
<1>4. Len(cs) = k
  BY <1>3
<1>5. n + k <= Size
  BY <1>2, <1>4
<1>6. ps = <<>> <=> n = 0
  BY <1>1
<1>7. n > 0 => Last(ps) \in Val
  <2>1. n > 0 => ps[n] \in Args
    BY <1>1
  <2>2. Args \subseteq Val
    BY ArgsAssumption DEF Val, W
  <2> QED
    BY <1>2, <2>1, <2>2 DEF Last
<1>8. PICK m : m = Machine(ps, cs)
  OBVIOUS
<1>9. m.psp = IF n = 0 THEN S!Empty ELSE n - 1
  BY <1>2, <1>6, <1>8 DEF Machine
<1>10. m.psp \in {S!Empty} \cup 0 .. S!Cbp
  BY <1>5, <1>9, Sizes
<1>11. m.csp = S!Wrap(S!Cbp - k)
  BY <1>4, <1>8 DEF Machine
<1>12. m.csp \in S!Addr
  BY <1>11, Sizes DEF S!Addr, S!Wrap
<1>13. m.pa \in Val
  <2>1. m.pa = IF ps = <<>> THEN 0 ELSE Last(ps)
    BY <1>8 DEF Machine
  <2>2. 0 \in Val
    BY Sizes DEF Val
  <2> QED
    BY <1>6, <1>7, <2>1, <2>2
<1>14. m.err = "nil" /\ m.reached = Nothing /\ m.lost = FALSE /\ m.mem = [a \in S!Addr |-> m.mem[a]]
  BY <1>8 DEF Machine
<1>15. Shaped(m)
  BY <1>8 DEF Machine, Shaped
<1> QED
  BY <1>8, <1>10, <1>12, <1>13, <1>14, <1>15 DEF Sound

-----------------------------------------------------------------------------
(* Zero or not *)

\* What drop() leaves of a parameter stack that has a word.
LEMMA DropServed ==
  ASSUME NEW m, Sound(m), m.psp # S!Empty
  PROVE  LET t == S!Drop(m) IN
         /\ Shaped(t)
         /\ t.err = m.err /\ t.csp = m.csp /\ t.mem = m.mem /\ t.reached = m.reached /\ t.lost = m.lost
         /\ t.ip = m.ip
         /\ t.psp = IF m.psp = 0 THEN S!Empty ELSE m.psp - 1
         /\ t.pa = IF m.psp = 0 THEN m.pa ELSE m.mem[m.psp - 1]
<1>1. PICK p : p = S!Down(m.psp)
  OBVIOUS
<1>2. p = IF m.psp = 0 THEN S!Empty ELSE m.psp - 1
  BY <1>1, Sizes DEF Sound, S!Down, S!Wrap
<1>3. m.psp # 0 => p < S!Cbp /\ ~(p >= S!Cbp)
  BY <1>2, Sizes DEF Sound
<1>4. m.psp = 0 => ~(p < S!Cbp) /\ ~(p >= S!Cbp /\ p < S!Empty)
  BY <1>2, Sizes
<1>5. Shaped(m)
  BY DEF Sound
<1>6. CASE m.psp = 0
  <2>1. PICK t : t = [m EXCEPT !.psp = p]
    OBVIOUS
  <2>2. S!Drop(m) = t
    BY <1>1, <1>4, <1>6, <2>1 DEF S!Drop
  <2>3. Shaped(t) /\ t.psp = p
    BY <1>5, <2>1 DEF Shaped
  <2> QED
    BY <1>2, <1>6, <2>1, <2>2, <2>3
<1>7. CASE m.psp # 0
  <2>1. PICK v : v = m.mem[p]
    OBVIOUS
  <2>2. PICK t : t = [m EXCEPT !.pa = v, !.psp = p]
    OBVIOUS
  <2>3. S!Drop(m) = t
    BY <1>1, <1>3, <1>7, <2>1, <2>2 DEF S!Drop
  <2>4. Shaped(t) /\ t.psp = p /\ t.pa = v
    BY <1>5, <2>2 DEF Shaped
  <2>5. /\ t.err = m.err /\ t.csp = m.csp /\ t.mem = m.mem /\ t.reached = m.reached /\ t.lost = m.lost
        /\ t.ip = m.ip
    BY <2>2
  <2>6. p = m.psp - 1
    BY <1>2, <1>7
  <2> QED
    BY <1>7, <2>1, <2>3, <2>4, <2>5, <2>6
<1> QED
  BY <1>6, <1>7

\* Every routine notes that it was reached.
Goes(m) == m.reached # Nothing

LEMMA JumpGoes ==
  ASSUME NEW m, Shaped(m)
  PROVE  /\ \A op, off : Goes(JumpKept(op, m, off))
         /\ \A off : Goes(Halted(m, off))
         /\ \A routine \in {"fork", "cfork", "branch", "cbranch"} : \A off : Goes(Copying(routine, m, off))
         /\ m.err = "nil" /\ m.csp \in S!Addr /\ m.csp < S!Cbp => Goes(CJump(m))
<1>1. ASSUME NEW t, Shaped(t), NEW routine, routine # "none", NEW x
      PROVE  /\ Shaped(Reach(t, routine, x)) /\ Goes(Reach(t, routine, x))
  BY <1>1 DEF Shaped, Reach, Goes, Nothing
<1>2. ASSUME NEW t, Shaped(t), NEW e
      PROVE  /\ Shaped(Fail(t, e)) /\ Fail(t, e).reached = t.reached
  BY <1>2 DEF Shaped, Fail
<1>3. ASSUME NEW t, Shaped(t), NEW routine, routine # "none", NEW x
      PROVE  Goes(JumpTo(t, routine, x)) /\ Shaped(JumpTo(t, routine, x))
  <2>1. PICK r : r = Reach(t, routine, x)
    OBVIOUS
  <2>2. Shaped(r) /\ Goes(r)
    BY <1>1, <1>3, <2>1
  <2>3. Shaped([r EXCEPT !.ip = x]) /\ [r EXCEPT !.ip = x].reached = r.reached
    BY <2>2 DEF Shaped
  <2>4. Shaped(Fail(r, "segfault")) /\ Fail(r, "segfault").reached = r.reached
    BY <1>2, <2>2
  <2> QED
    BY <2>1, <2>2, <2>3, <2>4 DEF JumpTo, Goes
<1>4. ASSUME NEW op, NEW off PROVE Goes(JumpKept(op, m, off))
  <2>1. PICK t : t = Jump(m, off)
    OBVIOUS
  <2>2. Goes(t) /\ Shaped(t)
    BY <1>3, <2>1 DEF Jump
  <2>3. Goes(Lose([t EXCEPT !.err = "nil"]))
    BY <2>2 DEF Lose, Goes, Shaped
  <2> QED
    BY <2>1, <2>2, <2>3 DEF JumpKept
<1>5. ASSUME NEW off PROVE Goes(Halted(m, off))
  <2>1. Shaped(Put(m, off))
    BY DEF Put, Shaped
  <2>2. Shaped(Fail(Put(m, off), "halted"))
    BY <1>2, <2>1
  <2> QED
    BY <1>1, <2>2 DEF Halted
<1>6. ASSUME m.err = "nil", m.csp \in S!Addr, m.csp < S!Cbp PROVE Goes(CJump(m))
  <2>1. PICK t : t = S!CPop(m)
    OBVIOUS
  <2>2. Shaped(t) /\ t.err = "nil"
    <3>1. \A c : Shaped([m EXCEPT !.csp = c]) /\ [m EXCEPT !.csp = c].err = "nil"
      BY <1>6 DEF Shaped
    <3>2. ~(m.csp >= S!Cbp)
      BY <1>6, Sizes DEF S!Addr
    <3>3. t = [m EXCEPT !.csp = S!Up(m.csp)]
      BY <2>1, <3>2 DEF S!CPop
    <3> QED
      BY <3>1, <3>3
  <2>3. CJump(m) = JumpTo(t, "jump", t.mem[t.csp])
    BY <2>1, <2>2 DEF CJump, CPopping
  <2> QED
    BY <1>3, <2>2, <2>3
<1> QED
  BY <1>1, <1>4, <1>5, <1>6 DEF Copying

Conditions == {"jz", "jnz", "fz", "fnz", "bz", "bnz", "hz", "hnz"}

\* A conditional operation goes where it should when its condition holds, and else only pops.
LEMMA EachGoes ==
  ASSUME NEW m, Sound(m), m.psp # S!Empty, m.err = "nil", NEW o \in Conditions, NEW imm \in BOOLEAN, NEW x,
         imm \/ (o # "bnz" /\ m.csp < S!Cbp)
  PROVE  LET op == [name |-> o, imm |-> imm, arg |-> x]  e == Execute(m, op) IN
         IF Taken(op, m.pa) THEN Goes(e) ELSE e = S!Drop(m)
<1>1. PICK op : op = [name |-> o, imm |-> imm, arg |-> x]
  OBVIOUS
<1>2. op.name = o /\ op.imm = imm /\ op.arg = x
  BY <1>1
<1>3. PICK t : t = S!Drop(m)
  OBVIOUS
<1>4. Shaped(t) /\ t.err = "nil" /\ t.csp = m.csp /\ m.csp \in S!Addr
  BY <1>3, DropServed DEF Sound
<1>5. /\ \A p, off : Goes(JumpKept(p, t, off))
      /\ \A off : Goes(Halted(t, off))
      /\ \A routine \in {"fork", "cfork", "branch", "cbranch"} : \A off : Goes(Copying(routine, t, off))
      /\ m.csp < S!Cbp => Goes(CJump(t))
  BY <1>4, JumpGoes
<1>6. CASE o \in {"jz", "jnz"}
  <2>1. Execute(m, op) = JumpOp(m, op)
    BY <1>2, <1>6 DEF Execute, Binary, Dividing, Shifting, Combining, Comparing, BitOps
  <2>2. JumpOp(m, op) = CASE Taken(op, m.pa) /\ imm -> JumpKept(op, t, x)
                          [] Taken(op, m.pa) /\ ~imm -> CJump(t)
                          [] OTHER -> t
    BY <1>2, <1>3, <1>4, <1>6 DEF JumpOp, Conditional, Popping
  <2> QED
    BY <1>1, <1>3, <1>5, <2>1, <2>2
<1>7. CASE o \in {"fz", "fnz"}
  <2>1. Execute(m, op) = ForkOp(m, op)
    BY <1>2, <1>7 DEF Execute, Binary, Dividing, Shifting, Combining, Comparing, BitOps
  <2>2. ForkOp(m, op) = CASE Taken(op, m.pa) /\ imm -> Copying("fork", t, x)
                          [] Taken(op, m.pa) /\ ~imm -> Copying("cfork", t, 0)
                          [] OTHER -> t
    BY <1>2, <1>3, <1>4, <1>7 DEF ForkOp, Conditional, Popping
  <2>3. Goes(Copying("fork", t, x)) /\ Goes(Copying("cfork", t, 0))
    BY <1>5
  <2>4. IF Taken(op, m.pa) THEN Goes(Execute(m, op)) ELSE Execute(m, op) = t
    BY <2>1, <2>2, <2>3
  <2> QED
    BY <1>1, <1>3, <2>4
<1>8. CASE o \in {"bz", "bnz"}
  <2>1. Execute(m, op) = BranchOp(m, op)
    BY <1>2, <1>8 DEF Execute, Binary, Dividing, Shifting, Combining, Comparing, BitOps
  <2>2. BranchOp(m, op) = CASE Taken(op, m.pa) /\ imm -> Copying("branch", t, x)
                            [] Taken(op, m.pa) /\ ~imm -> Copying("cbranch", t, 0)
                            [] OTHER -> t
    BY <1>2, <1>3, <1>4, <1>8 DEF BranchOp, Conditional, Popping
  <2>3. Goes(Copying("branch", t, x)) /\ Goes(Copying("cbranch", t, 0))
    BY <1>5
  <2>4. IF Taken(op, m.pa) THEN Goes(Execute(m, op)) ELSE Execute(m, op) = t
    BY <2>1, <2>2, <2>3
  <2> QED
    BY <1>1, <1>3, <2>4
<1>9. CASE o \in {"hz", "hnz"}
  <2>1. Execute(m, op) = HaltOp(m, op)
    BY <1>2, <1>9 DEF Execute, Binary, Dividing, Shifting, Combining, Comparing, BitOps
  <2>2. HaltOp(m, op) = CASE Taken(op, m.pa) /\ imm -> Halted(t, x)
                          [] Taken(op, m.pa) /\ ~imm -> Halted(t, 0)
                          [] OTHER -> t
    BY <1>2, <1>3, <1>4, <1>9 DEF HaltOp, Conditional, Popping
  <2> QED
    BY <1>1, <1>3, <1>5, <2>1, <2>2
<1> QED
  BY <1>6, <1>7, <1>8, <1>9 DEF Conditions

\* Of two operations of which one goes and the other one does not.
LEMMA OneOfTwo ==
  ASSUME NEW a, NEW b, a # b, NEW after, after = [o \in {a, b} |-> after[o]], NEW t, t.reached = Nothing,
         \/ Goes(after[a]) /\ after[b] = t
         \/ Goes(after[b]) /\ after[a] = t
  PROVE  LET gone == {o \in {a, b} : after[o].reached # Nothing} IN
         Cardinality(gone) = 1 /\ \A o \in {a, b} \ gone : after[o] = t
<1>1. CASE Goes(after[a]) /\ after[b] = t
  <2>1. {o \in {a, b} : after[o].reached # Nothing} = {a}
    BY <1>1 DEF Goes
  <2> QED
    BY <1>1, <2>1, FS_Singleton
<1>2. CASE Goes(after[b]) /\ after[a] = t
  <2>1. {o \in {a, b} : after[o].reached # Nothing} = {b}
    BY <1>2 DEF Goes
  <2> QED
    BY <1>2, <2>1, FS_Singleton
<1> QED
  BY <1>1, <1>2

LEMMA OneOfPair ==
  ASSUME Sound(mach), mach.psp # S!Empty, mach.err = "nil", mach.reached = Nothing,
         NEW z \in {"jz", "fz", "bz", "hz"}, NEW nz \in {"jnz", "fnz", "bnz", "hnz"}, NEW imm \in BOOLEAN, NEW x,
         imm \/ (nz # "bnz" /\ mach.csp < S!Cbp)
  PROVE  OneGoes(<<z, nz>>, imm, x)
<1>1. PICK after : after = [o \in {z, nz} |-> Execute(mach, [name |-> o, imm |-> imm, arg |-> x])]
  OBVIOUS
<1>2. Range(<<z, nz>>) = {z, nz}
  BY DEF Range
<1>3. PICK t : t = S!Drop(mach) /\ t.reached = Nothing
  BY DropServed
<1>4. Taken([name |-> z, imm |-> imm, arg |-> x], mach.pa) <=> mach.pa = 0
  BY DEF Taken
<1>5. Taken([name |-> nz, imm |-> imm, arg |-> x], mach.pa) <=> mach.pa # 0
  BY DEF Taken
<1>6. z # nz /\ z \in Conditions /\ nz \in Conditions /\ z # "bnz"
  BY DEF Conditions
<1>7. IF mach.pa = 0 THEN Goes(after[z]) /\ after[nz] = t ELSE Goes(after[nz]) /\ after[z] = t
  <2>1. IF mach.pa = 0 THEN Goes(after[z]) ELSE after[z] = t
    BY <1>1, <1>3, <1>4, <1>6, EachGoes
  <2>2. IF mach.pa # 0 THEN Goes(after[nz]) ELSE after[nz] = t
    BY <1>1, <1>3, <1>5, <1>6, EachGoes
  <2> QED
    BY <2>1, <2>2
<1>8. after = [o \in {z, nz} |-> after[o]]
  BY <1>1
<1>9. LET gone == {o \in {z, nz} : after[o].reached # Nothing} IN
      Cardinality(gone) = 1 /\ \A o \in {z, nz} \ gone : after[o] = t
  BY <1>3, <1>6, <1>7, <1>8, OneOfTwo
<1> QED
  BY <1>1, <1>2, <1>3, <1>9 DEF OneGoes

-----------------------------------------------------------------------------
(* Words, their bits and their parts *)

\* The powers of two that a word has bits for.
LEMMA Powers ==
  \A i \in 0 .. 31 : 2 ^ i \in Nat \ {0} /\ 2 ^ (i + 1) = 2 * 2 ^ i
<1> DEFINE Doubles(i) == 2 ^ i \in Nat \ {0} /\ 2 ^ (i + 1) = 2 * 2 ^ i
<1>1. Doubles(0) /\ Doubles(1) /\ Doubles(2) /\ Doubles(3)
  <2>1. 2 ^ 0 = 1 /\ 2 ^ 1 = 2 /\ 2 ^ 2 = 4 /\ 2 ^ 3 = 8 /\ 2 ^ 4 = 16
    BY SMT
  <2>2. 0 + 1 = 1 /\ 1 + 1 = 2 /\ 2 + 1 = 3 /\ 3 + 1 = 4
    BY SMT
  <2> QED
    BY <2>1, <2>2, SMT
<1>2. Doubles(4) /\ Doubles(5) /\ Doubles(6) /\ Doubles(7)
  <2>1. 2 ^ 4 = 16 /\ 2 ^ 5 = 32 /\ 2 ^ 6 = 64 /\ 2 ^ 7 = 128 /\ 2 ^ 8 = 256
    BY SMT
  <2>2. 4 + 1 = 5 /\ 5 + 1 = 6 /\ 6 + 1 = 7 /\ 7 + 1 = 8
    BY SMT
  <2> QED
    BY <2>1, <2>2, SMT
<1>3. Doubles(8) /\ Doubles(9) /\ Doubles(10) /\ Doubles(11)
  <2>1. 2 ^ 8 = 256 /\ 2 ^ 9 = 512 /\ 2 ^ 10 = 1024 /\ 2 ^ 11 = 2048 /\ 2 ^ 12 = 4096
    BY SMT
  <2>2. 8 + 1 = 9 /\ 9 + 1 = 10 /\ 10 + 1 = 11 /\ 11 + 1 = 12
    BY SMT
  <2> QED
    BY <2>1, <2>2, SMT
<1>4. Doubles(12) /\ Doubles(13) /\ Doubles(14) /\ Doubles(15)
  <2>1. 2 ^ 12 = 4096 /\ 2 ^ 13 = 8192 /\ 2 ^ 14 = 16384 /\ 2 ^ 15 = 32768 /\ 2 ^ 16 = 65536
    BY SMT
  <2>2. 12 + 1 = 13 /\ 13 + 1 = 14 /\ 14 + 1 = 15 /\ 15 + 1 = 16
    BY SMT
  <2> QED
    BY <2>1, <2>2, SMT
<1>5. Doubles(16) /\ Doubles(17) /\ Doubles(18) /\ Doubles(19)
  <2>1. 2 ^ 16 = 65536 /\ 2 ^ 17 = 131072 /\ 2 ^ 18 = 262144 /\ 2 ^ 19 = 524288 /\ 2 ^ 20 = 1048576
    BY SMT
  <2>2. 16 + 1 = 17 /\ 17 + 1 = 18 /\ 18 + 1 = 19 /\ 19 + 1 = 20
    BY SMT
  <2> QED
    BY <2>1, <2>2, SMT
<1>6. Doubles(20) /\ Doubles(21) /\ Doubles(22) /\ Doubles(23)
  <2>1. 2 ^ 20 = 1048576 /\ 2 ^ 21 = 2097152 /\ 2 ^ 22 = 4194304 /\ 2 ^ 23 = 8388608 /\ 2 ^ 24 = 16777216
    BY SMT
  <2>2. 20 + 1 = 21 /\ 21 + 1 = 22 /\ 22 + 1 = 23 /\ 23 + 1 = 24
    BY SMT
  <2> QED
    BY <2>1, <2>2, SMT
<1>7. Doubles(24) /\ Doubles(25) /\ Doubles(26) /\ Doubles(27)
  <2>1. 2 ^ 24 = 16777216 /\ 2 ^ 25 = 33554432 /\ 2 ^ 26 = 67108864 /\ 2 ^ 27 = 134217728 /\ 2 ^ 28 = 268435456
    BY SMT
  <2>2. 24 + 1 = 25 /\ 25 + 1 = 26 /\ 26 + 1 = 27 /\ 27 + 1 = 28
    BY SMT
  <2> QED
    BY <2>1, <2>2, SMT
<1>8. Doubles(28) /\ Doubles(29) /\ Doubles(30) /\ Doubles(31)
  <2>1. 2 ^ 28 = 268435456 /\ 2 ^ 29 = 536870912 /\ 2 ^ 30 = 1073741824 /\ 2 ^ 31 = 2147483648 /\ 2 ^ 32 = 4294967296
    BY SMT
  <2>2. 28 + 1 = 29 /\ 29 + 1 = 30 /\ 30 + 1 = 31 /\ 31 + 1 = 32
    BY SMT
  <2> QED
    BY <2>1, <2>2, SMT
<1> HIDE DEF Doubles
<1>9. ASSUME NEW i \in 0 .. 31 PROVE Doubles(i)
  <2>1. i \in 0 .. 7 => Doubles(i)
    <3>1. i \in 0 .. 7 => i \in {0, 1, 2, 3, 4, 5, 6, 7}
      OBVIOUS
    <3> QED
      BY <1>1, <1>2, <3>1
  <2>2. i \in 8 .. 15 => Doubles(i)
    <3>1. i \in 8 .. 15 => i \in {8, 9, 10, 11, 12, 13, 14, 15}
      OBVIOUS
    <3> QED
      BY <1>3, <1>4, <3>1
  <2>3. i \in 16 .. 23 => Doubles(i)
    <3>1. i \in 16 .. 23 => i \in {16, 17, 18, 19, 20, 21, 22, 23}
      OBVIOUS
    <3> QED
      BY <1>5, <1>6, <3>1
  <2>4. i \in 24 .. 31 => Doubles(i)
    <3>1. i \in 24 .. 31 => i \in {24, 25, 26, 27, 28, 29, 30, 31}
      OBVIOUS
    <3> QED
      BY <1>7, <1>8, <3>1
  <2> QED
    BY <2>1, <2>2, <2>3, <2>4
<1> QED
  BY <1>9 DEF Doubles

\* The places of a higher bit are even multiples of those of a lower one.
LEMMA Higher ==
  ASSUME NEW i \in 0 .. 31, NEW n \in 0 .. 32, i < n
  PROVE  \E k \in Nat \ {0} : 2 ^ n = 2 * 2 ^ i * k
<1> DEFINE Holds == {j \in Nat : i + j + 1 <= 32 => \E k \in Nat \ {0} : 2 ^ (i + j + 1) = 2 * 2 ^ i * k}
<1>1. 0 \in Holds
  <2>1. 2 ^ (i + 1) = 2 * 2 ^ i * 1
    <3>1. 2 ^ i \in Nat /\ 2 ^ (i + 1) = 2 * 2 ^ i
      BY Powers
    <3>2. 2 * 2 ^ i = 2 * 2 ^ i * 1
      BY <3>1
    <3> QED
      BY <3>1, <3>2
  <2>2. i + 0 + 1 = i + 1
    OBVIOUS
  <2>3. 2 ^ (i + 0 + 1) = 2 * 2 ^ i * 1
    BY <2>1, <2>2
  <2>4. 1 \in Nat \ {0}
    OBVIOUS
  <2> QED
    BY <2>3, <2>4
<1>2. ASSUME NEW j \in Nat, j \in Holds PROVE j + 1 \in Holds
  <2> SUFFICES ASSUME i + (j + 1) + 1 <= 32
               PROVE  \E k \in Nat \ {0} : 2 ^ (i + (j + 1) + 1) = 2 * 2 ^ i * k
    OBVIOUS
  <2>1. PICK k \in Nat \ {0} : 2 ^ (i + j + 1) = 2 * 2 ^ i * k
    BY <1>2
  <2>2. PICK h : h = i + j + 1
    OBVIOUS
  <2>3. h \in 0 .. 31 /\ i + (j + 1) + 1 = h + 1
    BY <2>2
  <2>4. 2 ^ (h + 1) = 2 * 2 ^ h
    BY <2>3, Powers
  <2>5. PICK p : p = 2 ^ i /\ p \in Nat
    BY Powers
  <2>6. 2 ^ h = 2 * p * k
    BY <2>1, <2>2, <2>5
  <2>7. 2 * (2 * p * k) = 2 * p * (2 * k)
    BY <2>5
  <2>8. 2 ^ (i + (j + 1) + 1) = 2 * p * (2 * k)
    BY <2>3, <2>4, <2>6, <2>7
  <2>9. 2 * k \in Nat \ {0}
    OBVIOUS
  <2> QED
    BY <2>5, <2>8, <2>9
<1>3. PICK j \in Nat : j = n - i - 1
  OBVIOUS
<1>4. j \in Holds
  <2> HIDE DEF Holds
  <2> QED
    BY <1>1, <1>2, ByInduction
<1>5. i + j + 1 = n
  BY <1>3
<1> QED
  BY <1>4, <1>5

LEMMA Quotient ==
  ASSUME NEW a \in Nat, NEW b \in Nat \ {0}
  PROVE  /\ a \div b \in Nat /\ a % b \in Nat /\ a % b < b
         /\ a = b * (a \div b) + (a % b)
         /\ \A q, r \in Nat : r < b /\ a = b * q + r => a \div b = q /\ a % b = r
<1>1. a \div b \in Nat /\ a % b \in Nat /\ a % b < b /\ a = b * (a \div b) + (a % b)
  OBVIOUS
<1>2. ASSUME NEW q \in Nat, NEW r \in Nat, r < b, a = b * q + r PROVE a \div b = q
  BY <1>2
<1>3. ASSUME NEW q \in Nat, NEW r \in Nat, r < b, a = b * q + r PROVE a % b = r
  BY <1>1, <1>2, <1>3
<1> QED
  BY <1>1, <1>2, <1>3

\* A bit that is clear, set: no other bit changes.
LEMMA SetBit ==
  ASSUME NEW v \in Nat, NEW n \in 0 .. 31, ~HasBit(v, n)
  PROVE  /\ HasBit(v + 2 ^ n, n)
         /\ \A i \in 0 .. 31 : i # n => (HasBit(v + 2 ^ n, i) <=> HasBit(v, i))
         /\ \A k \in Nat : v < 2 * 2 ^ n * k => v + 2 ^ n < 2 * 2 ^ n * k
<1>1. PICK P \in Nat \ {0} : P = 2 ^ n
  BY Powers
<1>2. PICK q \in Nat, r \in Nat : v = P * q + r /\ r < P /\ v \div P = q
  BY Quotient
<1>3. PICK c \in Nat : q = 2 * c
  <2>1. q % 2 # 1
    BY <1>1, <1>2 DEF HasBit
  <2> QED
    BY <2>1
<1>4. v = 2 * P * c + r
  BY <1>2, <1>3
<1>5. (v + P) \div P = q + 1
  <2>1. PICK u \in Nat : u = v + P
    OBVIOUS
  <2>2. PICK d \in Nat : d = q + 1
    OBVIOUS
  <2>3. u = P * d + r
    BY <1>2, <2>1, <2>2
  <2>4. u \div P = d
    BY <1>2, <2>3, Quotient
  <2> QED
    BY <2>1, <2>2, <2>4
<1>6. HasBit(v + 2 ^ n, n)
  BY <1>1, <1>3, <1>5 DEF HasBit
<1>7. ASSUME NEW i \in 0 .. 31, i < n PROVE HasBit(v + 2 ^ n, i) <=> HasBit(v, i)
  <2>1. PICK Q \in Nat \ {0} : Q = 2 ^ i
    BY Powers
  <2>2. PICK k \in Nat \ {0} : P = 2 * Q * k
    <3>1. n \in 0 .. 32
      OBVIOUS
    <3>2. \E k \in Nat \ {0} : 2 ^ n = 2 * 2 ^ i * k
      BY <1>7, <3>1, Higher
    <3> QED
      BY <1>1, <2>1, <3>2
  <2>3. (v + 2 * Q * k) \div Q = v \div Q + 2 * k
    OBVIOUS
  <2>4. PICK x \in Nat : x = v \div Q
    BY Quotient
  <2>5. (x + 2 * k) % 2 = x % 2
    OBVIOUS
  <2> QED
    BY <1>1, <2>1, <2>2, <2>3, <2>4, <2>5 DEF HasBit
<1>8. ASSUME NEW i \in 0 .. 31, n < i PROVE HasBit(v + 2 ^ n, i) <=> HasBit(v, i)
  <2>1. PICK Q \in Nat \ {0} : Q = 2 ^ i
    BY Powers
  <2>2. PICK k \in Nat \ {0} : Q = 2 * P * k
    <3>1. i \in 0 .. 32
      OBVIOUS
    <3>2. \E k \in Nat \ {0} : 2 ^ i = 2 * 2 ^ n * k
      BY <1>8, <3>1, Higher
    <3> QED
      BY <1>1, <2>1, <3>2
  <2>3. PICK d \in Nat, e \in Nat : c = k * d + e /\ e < k
    BY Quotient
  <2>4. PICK Z \in Nat : Z = 2 * P * e
    OBVIOUS
  <2>5. v = Q * d + (Z + r)
    BY <1>4, <2>2, <2>3, <2>4
  <2>6. Z + r + P < Q
    <3>1. e + 1 <= k
      BY <2>3
    <3>2. 2 * P * (e + 1) <= 2 * P * k
      BY <3>1
    <3>3. 2 * P * (e + 1) = Z + 2 * P
      BY <2>4
    <3> QED
      BY <1>2, <2>2, <3>2, <3>3
  <2>7. v \div Q = d
    BY <2>5, <2>6, Quotient
  <2>8. (v + P) \div Q = d
    <3>1. v + P = Q * d + (Z + r + P) /\ v + P \in Nat /\ Z + r + P \in Nat
      BY <2>5
    <3> QED
      BY <2>6, <3>1, Quotient
  <2> QED
    BY <1>1, <2>1, <2>7, <2>8 DEF HasBit
<1>9. ASSUME NEW k \in Nat, v < 2 * P * k PROVE v + P < 2 * P * k
  <2>1. 2 * P * c < 2 * P * k
    BY <1>4, <1>9
  <2>2. c < k
    BY <2>1
  <2>3. 2 * P * (c + 1) <= 2 * P * k
    BY <2>2
  <2>4. 2 * P * (c + 1) = 2 * P * c + 2 * P
    OBVIOUS
  <2> QED
    BY <1>2, <1>4, <2>3, <2>4
<1> QED
  BY <1>1, <1>6, <1>7, <1>8, <1>9

\* A bit that is set, cleared.
LEMMA ClearBit ==
  ASSUME NEW v \in Nat, NEW n \in 0 .. 31, HasBit(v, n)
  PROVE  /\ v - 2 ^ n \in Nat /\ ~HasBit(v - 2 ^ n, n)
         /\ \A i \in 0 .. 31 : i # n => (HasBit(v - 2 ^ n, i) <=> HasBit(v, i))
<1>1. PICK P \in Nat \ {0} : P = 2 ^ n
  BY Powers
<1>2. PICK q \in Nat, r \in Nat : v = P * q + r /\ r < P /\ v \div P = q
  BY Quotient
<1>3. q % 2 = 1
  BY <1>1, <1>2 DEF HasBit
<1>4. q >= 1 /\ q - 1 \in Nat /\ (q - 1) % 2 # 1
  BY <1>3
<1>5. PICK u \in Nat : u = P * (q - 1) + r
  BY <1>4
<1>6. v = u + P /\ v - P = u
  BY <1>2, <1>5
<1>7. u \div P = q - 1
  BY <1>2, <1>4, <1>5, Quotient
<1>8. ~HasBit(u, n)
  BY <1>1, <1>4, <1>7 DEF HasBit
<1>9. \A i \in 0 .. 31 : i # n => (HasBit(u + 2 ^ n, i) <=> HasBit(u, i))
  BY <1>8, SetBit
<1>10. u + 2 ^ n = v /\ v - 2 ^ n = u
  BY <1>1, <1>6
<1> QED
  BY <1>8, <1>9, <1>10

\* A word with a bit set or cleared is a word.
LEMMA BitWords ==
  ASSUME NEW v \in Val, NEW n \in 0 .. 31, n < Bits
  PROVE  WithBit(v, n) \in Val /\ WithoutBit(v, n) \in Val
<1>1. v \in Nat /\ W \in Nat /\ v < W /\ \A x \in Nat : x < W => x \in Val
  BY Sizes DEF Val
<1>2. PICK p \in Nat : p = 2 ^ n
  BY Powers
<1>3. PICK k \in Nat : W = 2 * p * k
  <2>1. Bits \in 0 .. 32
    BY Sizes
  <2> QED
    BY <1>2, <2>1, Higher DEF W
<1>4. CASE HasBit(v, n)
  <2>1. v - p \in Nat
    BY <1>1, <1>2, <1>4, ClearBit
  <2> QED
    BY <1>1, <1>2, <1>4, <2>1 DEF WithBit, WithoutBit
<1>5. CASE ~HasBit(v, n)
  <2>1. v + p < 2 * p * k
    BY <1>1, <1>2, <1>3, <1>5, SetBit
  <2> QED
    BY <1>1, <1>2, <1>3, <1>5, <2>1 DEF WithBit, WithoutBit
<1> QED
  BY <1>4, <1>5

\* The remainder of a dividend, with or without a sign bit, by a divisor without one.
LEMMA Remainders ==
  ASSUME NEW a \in Val, NEW b \in Val, b # 0, b < W \div 2
  PROVE  /\ Rem(a, b) \in Nat /\ Rem(a, b) < b /\ Rem(a, b) < W
         /\ (Signed(a) - Rem(a, b)) % b = 0
         /\ a < W \div 2 => a = b * (a \div b) + Rem(a, b)
<1>1. b \in Nat \ {0} /\ a \in Nat /\ a < W /\ b < W /\ W \in Nat
  BY Sizes DEF Val
<1>2. Signed(a) \in Int /\ Signed(b) = b /\ Magnitude(b) = b /\ (a < W \div 2 => Signed(a) = a)
  BY <1>1 DEF Signed, Magnitude
<1>3. PICK s \in Int : s = Signed(a)
  BY <1>2
<1>4. PICK x : x = TruncRem(s, b)
  OBVIOUS
<1>5. PICK y : y = IF x < 0 THEN x + b ELSE x
  OBVIOUS
<1>6. Rem(a, b) = y % W
  BY <1>2, <1>3, <1>4, <1>5 DEF Rem, Unsigned
<1>7. y \in Nat /\ y < b /\ (s - y) % b = 0 /\ (s >= 0 => y = s % b)
  <2>1. CASE s >= 0
    <3>1. x = s % b /\ s \in Nat
      BY <1>2, <1>4, <2>1 DEF TruncRem, Magnitude
    <3>2. PICK r, q \in Nat : r = s % b /\ q = s \div b /\ r < b /\ s = b * q + r
      <4>1. s \div b \in Nat /\ s % b \in Nat /\ s % b < b /\ s = b * (s \div b) + (s % b)
        BY <1>1, <3>1, Quotient
      <4> QED
        BY <4>1
    <3>3. y = r
      BY <1>5, <3>1, <3>2
    <3>4. s - y = b * q
      BY <1>1, <3>2, <3>3
    <3>5. (b * q) % b = 0
      BY <1>1
    <3> QED
      BY <3>1, <3>2, <3>3, <3>4, <3>5
  <2>2. CASE s < 0
    <3>1. PICK m \in Nat : m = -s
      BY <2>2
    <3>2. PICK r, q \in Nat : r = m % b /\ q = m \div b /\ r < b /\ m = b * q + r
      <4>1. m \div b \in Nat /\ m % b \in Nat /\ m % b < b /\ m = b * (m \div b) + (m % b)
        BY <1>1, Quotient
      <4> QED
        BY <4>1
    <3>3. x = -r
      BY <1>2, <1>4, <2>2, <3>1, <3>2 DEF TruncRem, Magnitude
    <3>4. CASE r = 0
      <4>1. y = 0
        <5>1. x + r = 0 /\ x \in Int
          BY <3>3
        <5>2. x = 0
          BY <3>4, <5>1
        <5> QED
          BY <1>5, <5>2
      <4>2. s = b * (-q)
        BY <1>1, <3>1, <3>2, <3>4
      <4>3. (b * (-q)) % b = 0
        BY <1>1
      <4> QED
        BY <1>1, <2>2, <4>1, <4>2, <4>3
    <3>5. CASE r # 0
      <4>1. y = b - r
        BY <1>1, <1>5, <3>2, <3>3, <3>5
      <4>2. s - y = b * (-q - 1)
        BY <1>1, <3>1, <3>2, <4>1
      <4>3. (b * (-q - 1)) % b = 0
        BY <1>1
      <4> QED
        BY <1>1, <2>2, <3>2, <3>5, <4>1, <4>2, <4>3
    <3> QED
      BY <3>4, <3>5
  <2> QED
    BY <2>1, <2>2
<1>8. y % W = y
  BY <1>1, <1>7
<1>9. a < W \div 2 => a = b * (a \div b) + y
  <2>1. a = b * (a \div b) + (a % b)
    BY <1>1, Quotient
  <2> QED
    BY <1>1, <1>2, <1>3, <1>7, <2>1
<1>10. Rem(a, b) = y
  BY <1>6, <1>8
<1> QED
  BY <1>1, <1>3, <1>7, <1>9, <1>10

\* The parts into which a word that is not aligned falls.
LEMMA Parts ==
  ASSUME NEW a \in Nat
  PROVE  LET low == ByteBase ^ (a % 4)  high == ByteBase ^ (4 - (a % 4)) IN
         low \in Nat \ {0} /\ high \in Nat \ {0} /\ low * high = W
<1>1. 2 ^ 2 = 4 /\ 2 ^ 4 = 16 /\ 2 ^ 8 = 256 /\ 2 ^ 16 = 65536 /\ 2 ^ 32 = 4294967296
  BY SMT
<1>2. 4 ^ 0 = 1 /\ 4 ^ 1 = 4 /\ 4 ^ 2 = 16 /\ 4 ^ 3 = 64 /\ 4 ^ 4 = 256
  BY SMT
<1>3. 16 ^ 0 = 1 /\ 16 ^ 1 = 16 /\ 16 ^ 2 = 256 /\ 16 ^ 3 = 4096 /\ 16 ^ 4 = 65536
  BY SMT
<1>4. 256 ^ 0 = 1 /\ 256 ^ 1 = 256 /\ 256 ^ 2 = 65536 /\ 256 ^ 3 = 16777216 /\ 256 ^ 4 = 4294967296
  BY SMT
<1>5. PICK r : r = a % 4
  OBVIOUS
<1> DEFINE Factors(x, y, z) == x \in Nat \ {0} /\ y \in Nat \ {0} /\ x * y = z
<1> SUFFICES Factors(ByteBase ^ r, ByteBase ^ (4 - r), W)
  BY <1>5
<1>9. /\ r = 0 \/ r = 1 \/ r = 2 \/ r = 3
      /\ r = 0 => 4 - r = 4
      /\ r = 1 => 4 - r = 3
      /\ r = 2 => 4 - r = 2
      /\ r = 3 => 4 - r = 1
  BY <1>5, SMT
<1>10. /\ Factors(1, 256, 256) /\ Factors(256, 1, 256)
       /\ Factors(4, 64, 256) /\ Factors(64, 4, 256) /\ Factors(16, 16, 256)
  BY SMT
<1>11. /\ Factors(1, 65536, 65536) /\ Factors(65536, 1, 65536)
       /\ Factors(16, 4096, 65536) /\ Factors(4096, 16, 65536) /\ Factors(256, 256, 65536)
  BY SMT
<1>12. /\ Factors(1, 4294967296, 4294967296) /\ Factors(4294967296, 1, 4294967296)
       /\ Factors(256, 16777216, 4294967296) /\ Factors(16777216, 256, 4294967296)
       /\ Factors(65536, 65536, 4294967296)
  BY SMT
<1> HIDE DEF Factors
<1>6. CASE Bits = 8
  <2>1. ByteBase = 4 /\ W = 256
    <3>1. Bits \div 4 = 2
      BY <1>6, SMT
    <3> QED
      BY <1>1, <1>6, <3>1, SMT DEF ByteBase, W
  <2>2. CASE r = 0
    <3>1. ByteBase ^ r = 1 /\ ByteBase ^ (4 - r) = 256
      BY <1>2, <1>9, <2>1, <2>2, SMT
    <3> QED
      BY <1>10, <2>1, <3>1, SMT
  <2>3. CASE r = 1
    <3>1. ByteBase ^ r = 4 /\ ByteBase ^ (4 - r) = 64
      BY <1>2, <1>9, <2>1, <2>3, SMT
    <3> QED
      BY <1>10, <2>1, <3>1, SMT
  <2>4. CASE r = 2
    <3>1. ByteBase ^ r = 16 /\ ByteBase ^ (4 - r) = 16
      BY <1>2, <1>9, <2>1, <2>4, SMT
    <3> QED
      BY <1>10, <2>1, <3>1, SMT
  <2>5. CASE r = 3
    <3>1. ByteBase ^ r = 64 /\ ByteBase ^ (4 - r) = 4
      BY <1>2, <1>9, <2>1, <2>5, SMT
    <3> QED
      BY <1>10, <2>1, <3>1, SMT
  <2> QED
    BY <1>9, <2>2, <2>3, <2>4, <2>5
<1>7. CASE Bits = 16
  <2>1. ByteBase = 16 /\ W = 65536
    <3>1. Bits \div 4 = 4
      BY <1>7, SMT
    <3> QED
      BY <1>1, <1>7, <3>1, SMT DEF ByteBase, W
  <2>2. CASE r = 0
    <3>1. ByteBase ^ r = 1 /\ ByteBase ^ (4 - r) = 65536
      BY <1>3, <1>9, <2>1, <2>2, SMT
    <3> QED
      BY <1>11, <2>1, <3>1, SMT
  <2>3. CASE r = 1
    <3>1. ByteBase ^ r = 16 /\ ByteBase ^ (4 - r) = 4096
      BY <1>3, <1>9, <2>1, <2>3, SMT
    <3> QED
      BY <1>11, <2>1, <3>1, SMT
  <2>4. CASE r = 2
    <3>1. ByteBase ^ r = 256 /\ ByteBase ^ (4 - r) = 256
      BY <1>3, <1>9, <2>1, <2>4, SMT
    <3> QED
      BY <1>11, <2>1, <3>1, SMT
  <2>5. CASE r = 3
    <3>1. ByteBase ^ r = 4096 /\ ByteBase ^ (4 - r) = 16
      BY <1>3, <1>9, <2>1, <2>5, SMT
    <3> QED
      BY <1>11, <2>1, <3>1, SMT
  <2> QED
    BY <1>9, <2>2, <2>3, <2>4, <2>5
<1>8. CASE Bits = 32
  <2>1. ByteBase = 256 /\ W = 4294967296
    <3>1. Bits \div 4 = 8
      BY <1>8, SMT
    <3> QED
      BY <1>1, <1>8, <3>1, SMT DEF ByteBase, W
  <2>2. CASE r = 0
    <3>1. ByteBase ^ r = 1 /\ ByteBase ^ (4 - r) = 4294967296
      BY <1>4, <1>9, <2>1, <2>2, SMT
    <3> QED
      BY <1>12, <2>1, <3>1, SMT
  <2>3. CASE r = 1
    <3>1. ByteBase ^ r = 256 /\ ByteBase ^ (4 - r) = 16777216
      BY <1>4, <1>9, <2>1, <2>3, SMT
    <3> QED
      BY <1>12, <2>1, <3>1, SMT
  <2>4. CASE r = 2
    <3>1. ByteBase ^ r = 65536 /\ ByteBase ^ (4 - r) = 65536
      BY <1>4, <1>9, <2>1, <2>4, SMT
    <3> QED
      BY <1>12, <2>1, <3>1, SMT
  <2>5. CASE r = 3
    <3>1. ByteBase ^ r = 16777216 /\ ByteBase ^ (4 - r) = 256
      BY <1>4, <1>9, <2>1, <2>5, SMT
    <3> QED
      BY <1>12, <2>1, <3>1, SMT
  <2> QED
    BY <1>9, <2>2, <2>3, <2>4, <2>5
<1> QED
  BY <1>6, <1>7, <1>8, BitsAssumption

LEMMA TotalIs ==
  ASSUME NEW c, \A i \in 0 .. Bits - 1 : c[i] \in Nat
  PROVE  Total(c) \in Nat
<1> DEFINE Next1(g, k) == IF k = 0 THEN 0 ELSE g[k - 1] + c[k - 1]
           Is(g, d) == g = [k \in 0 .. d |-> Next1(g, k)]
           Holds == {d \in Nat : d <= Bits => \E g : Is(g, d) /\ g[d] \in Nat}
<1>1. 0 \in Holds
  <2>1. PICK g : g = [k \in 0 .. 0 |-> 0]
    OBVIOUS
  <2>2. Is(g, 0) /\ g[0] \in Nat
    BY <2>1
  <2> QED
    BY <2>2
<1>2. ASSUME NEW d \in Nat, d \in Holds PROVE d + 1 \in Holds
  <2> SUFFICES ASSUME d + 1 <= Bits PROVE \E g : Is(g, d + 1) /\ g[d + 1] \in Nat
    OBVIOUS
  <2>1. PICK g : Is(g, d) /\ g[d] \in Nat
    BY <1>2, Sizes
  <2>2. PICK x : x = g[d] + c[d]
    OBVIOUS
  <2>3. x \in Nat
    <3>1. d \in 0 .. Bits - 1
      BY Sizes
    <3>2. c[d] \in Nat /\ g[d] \in Nat
      BY <2>1, <3>1
    <3> QED
      BY <2>2, <3>2
  <2>4. PICK h : h = [k \in 0 .. d + 1 |-> IF k = d + 1 THEN x ELSE g[k]]
    OBVIOUS
  <2>5. ASSUME NEW k \in 0 .. d + 1 PROVE h[k] = Next1(h, k)
    <3>1. k # 0 => h[k - 1] = g[k - 1]
      BY <2>4
    <3>2. Next1(h, k) = Next1(g, k)
      BY <3>1
    <3>3. CASE k = d + 1
      <4>1. k # 0 /\ k - 1 = d /\ h[k] = x
        BY <2>4, <3>3
      <4> QED
        BY <2>2, <3>2, <4>1
    <3>4. CASE k # d + 1
      <4>1. k \in 0 .. d /\ h[k] = g[k]
        BY <2>4, <3>4
      <4>2. g[k] = Next1(g, k)
        BY <2>1, <4>1
      <4> QED
        BY <3>2, <4>1, <4>2
    <3> QED
      BY <3>3, <3>4
  <2>6. Is(h, d + 1)
    <3> HIDE DEF Next1
    <3> QED
      BY <2>4, <2>5
  <2>7. h[d + 1] \in Nat
    BY <2>3, <2>4
  <2> HIDE DEF Is
  <2> QED
    BY <2>6, <2>7
<1>3. Bits \in Holds
  <2> HIDE DEF Holds
  <2> QED
    BY <1>1, <1>2, ByInduction, Sizes
<1> DEFINE below == CHOOSE g : g = [k \in 0 .. Bits |-> Next1(g, k)]
<1>4. Total(c) = below[Bits]
  BY DEF Total
<1>5. Is(below, Bits)
  <2> HIDE DEF Next1
  <2>1. PICK g : g = [k \in 0 .. Bits |-> Next1(g, k)]
    BY <1>3, Sizes
  <2> QED
    BY <2>1
<1> HIDE DEF below
<1> DEFINE Low == {d \in Nat : d <= Bits => below[d] \in Nat}
<1>6. 0 \in Low
  BY <1>5, Sizes
<1>7. ASSUME NEW d \in Nat, d \in Low PROVE d + 1 \in Low
  <2> SUFFICES ASSUME d + 1 <= Bits PROVE below[d + 1] \in Nat
    OBVIOUS
  <2>1. d \in 0 .. Bits - 1 /\ d + 1 \in 0 .. Bits
    BY Sizes
  <2>2. below[d] \in Nat /\ c[d] \in Nat
    BY <1>7, <2>1, Sizes
  <2>3. below[d + 1] = below[d] + c[d]
    <3>1. below[d + 1] = Next1(below, d + 1)
      <4> HIDE DEF Next1
      <4> QED
        BY <1>5, <2>1
    <3>2. d + 1 # 0 /\ (d + 1) - 1 = d
      OBVIOUS
    <3> QED
      BY <3>1, <3>2
  <2> QED
    BY <2>2, <2>3
<1>8. Bits \in Low
  <2> HIDE DEF Low
  <2> QED
    BY <1>6, <1>7, ByInduction, Sizes
<1> QED
  BY <1>4, <1>8, Sizes

LEMMA BitByBitIs ==
  ASSUME NEW a, NEW b, NEW kept
  PROVE  BitByBit(a, b, kept) \in Nat
<1>1. PICK c : c = [i \in 0 .. Bits - 1 |-> Truth(<<HasBit(a, i), HasBit(b, i)>> \in kept) * 2 ^ i]
  OBVIOUS
<1>2. ASSUME NEW i \in 0 .. Bits - 1 PROVE c[i] \in Nat
  <2>1. PICK p \in Nat : p = 2 ^ i
    <3>1. i \in 0 .. 31
      BY Sizes
    <3> QED
      BY <3>1, Powers
  <2>2. PICK t \in Nat : t = Truth(<<HasBit(a, i), HasBit(b, i)>> \in kept)
    BY DEF Truth
  <2>3. c[i] = t * p
    BY <1>1, <2>1, <2>2
  <2> QED
    BY <2>3
<1>3. Total(c) \in Nat
  BY <1>2, TotalIs
<1> QED
  BY <1>1, <1>3 DEF BitByBit

\* A remainder is a word.
LEMMA RemIs ==
  ASSUME NEW a \in Val, NEW b \in Val, b # 0
  PROVE  Rem(a, b) \in Val
<1>1. a \in Nat /\ b \in Nat /\ W \in Nat /\ W >= 256
  BY Sizes DEF Val
<1>2. PICK s, d \in Int : s = Signed(a) /\ d = Signed(b) /\ d # 0
  <2>1. Signed(a) \in Int /\ Signed(b) \in Int /\ Signed(b) # 0
    BY <1>1 DEF Signed, Val
  <2> QED
    BY <2>1
<1>3. PICK u \in Nat, v \in Nat \ {0} : u = Magnitude(s) /\ v = Magnitude(d)
  <2>1. Magnitude(s) \in Nat /\ Magnitude(d) \in Nat \ {0}
    BY <1>2 DEF Magnitude
  <2> QED
    BY <2>1
<1>4. TruncRem(s, d) \in Int
  BY <1>3, Quotient DEF TruncRem
<1>5. PICK x \in Int : x = TruncRem(s, d)
  BY <1>4
<1>6. Rem(a, b) = (IF x < 0 THEN x + d ELSE x) % W
  BY <1>2, <1>5 DEF Rem, Unsigned
<1> QED
  BY <1>1, <1>6 DEF Val

\* So is a quotient.
LEMMA Dividend ==
  ASSUME NEW a \in Val, NEW b \in Val, b # 0
  PROVE  a \div b \in Val
<1>1. a \in Nat /\ b \in Nat \ {0} /\ W \in Nat /\ a < W
  BY Sizes DEF Val
<1>2. PICK q \in Nat, r \in Nat : q = a \div b /\ r = a % b /\ a = b * q + r
  BY <1>1, Quotient
<1>3. PICK c \in Nat : b = 1 + c
  <2>1. b - 1 \in Nat /\ b = 1 + (b - 1)
    BY <1>1
  <2> QED
    BY <2>1
<1>4. b * q = q + c * q /\ c * q \in Nat
  BY <1>3
<1> QED
  BY <1>1, <1>2, <1>4 DEF Val

\* The result of every operation is a number.
LEMMA ResultIs ==
  ASSUME NEW o \in Binary, NEW a \in Val, NEW b \in Val, o \in Dividing => b # 0
  PROVE  Result(o, a, b) \in Int
<1>1. a \in Nat /\ b \in Nat /\ W \in Nat /\ W >= 256 /\ Bits \in Nat /\ Bits <= 32
  BY Sizes DEF Val
<1>2. CASE o \in {"add", "sub", "mul", "div"}
  BY <1>1, <1>2 DEF Result, Dividing
<1>3. b # 0 => Rem(a, b) \in Int
  BY RemIs, Sizes DEF Val
<1>4. CASE o = "mod"
  BY <1>3, <1>4 DEF Result, Dividing
<1>5. CASE o \in Shifting
  <2>1. b < Bits => 2 ^ b \in Nat \ {0}
    <3>1. b < Bits => b \in 0 .. 31
      BY <1>1
    <3> QED
      BY <3>1, Powers
  <2>2. CASE b < Bits
    <3>1. PICK p \in Nat \ {0} : p = 2 ^ b
      BY <2>1, <2>2
    <3>2. a * p \in Int /\ a \div p \in Int
      BY <1>1
    <3> QED
      BY <1>5, <2>2, <3>1, <3>2 DEF Result, Shifting
  <2>3. CASE ~(b < Bits)
    BY <1>5, <2>3 DEF Result, Shifting
  <2> QED
    BY <2>2, <2>3
<1>6. CASE o \in Combining
  BY <1>6, BitByBitIs DEF Result, Combining
<1>7. CASE o \in Comparing
  BY <1>7 DEF Result, Comparing, Truth
<1> QED
  BY <1>2, <1>4, <1>5, <1>6, <1>7 DEF Binary, Dividing

-----------------------------------------------------------------------------
(* What an operation keeps *)

\* A machine whose registers and memory hold words.
Typed(m) ==
  /\ Shaped(m)
  /\ m.psp \in S!Addr /\ m.csp \in S!Addr
  /\ m.pa \in Val /\ m.ip \in Val
  /\ m.mem \in [S!Addr -> Val]

\* A step of an operation: such a machine it is still, and no error was lost.
Kept(m, t) == Typed(t) /\ t.lost = m.lost

\* The arithmetic of words and addresses stays in them.
LEMMA Widths ==
  /\ 0 \in Val /\ 1 \in Val /\ Val \subseteq Nat
  /\ \A x \in Int : x % W \in Val
  /\ \A a \in Val : a \div 4 \in S!Addr
  /\ \A a \in S!Addr : S!Up(a) \in S!Addr /\ S!Down(a) \in S!Addr
  /\ \A a \in S!Addr, i \in Nat : S!Wrap(a + 1 - (i % Words)) \in S!Addr
<1>1. PICK w \in Nat, k \in Nat : w = W /\ k = Words /\ w = 4 * k /\ w >= 256
  BY Sizes
<1>2. 0 \in Val /\ 1 \in Val /\ Val \subseteq Nat
  BY <1>1 DEF Val
<1>3. \A x \in Int : x % W \in Val
  BY <1>1 DEF Val
<1>4. \A a \in Val : a \div 4 \in S!Addr
  BY <1>1 DEF Val, S!Addr
<1>5. \A a \in S!Addr : S!Up(a) \in S!Addr /\ S!Down(a) \in S!Addr
  BY <1>1 DEF S!Addr, S!Up, S!Down, S!Wrap
<1>6. ASSUME NEW a \in S!Addr, NEW i \in Nat PROVE S!Wrap(a + 1 - (i % Words)) \in S!Addr
  <2>1. PICK r \in Nat : r = i % Words /\ r < k
    BY <1>1
  <2> QED
    BY <1>1, <2>1 DEF S!Addr, S!Wrap
<1> QED
  BY <1>2, <1>3, <1>4, <1>5, <1>6

\* Every part of an operation keeps it: errors, the two stacks, memory, jumps, and then the
\* operations that are made of these, one case of the switch after the other.
LEMMA KeptThen ==
  ASSUME NEW m, NEW t, NEW u, Kept(m, t), Kept(t, u)
  PROVE  Kept(m, u)
BY DEF Kept

LEMMA KeptSame ==
  ASSUME NEW m, Typed(m)
  PROVE  Kept(m, m)
BY DEF Kept

LEMMA KeptFail ==
  ASSUME NEW m, Typed(m), NEW e
  PROVE  Kept(m, Fail(m, e)) /\ Kept(m, S!Fail(m, e))
BY DEF Kept, Typed, Shaped, Fail, S!Fail

LEMMA KeptDrop ==
  ASSUME NEW m, Typed(m)
  PROVE  Kept(m, S!Drop(m))
<1>1. PICK p \in S!Addr : p = S!Down(m.psp)
  BY Widths DEF Typed
<1>2. PICK v \in Val : v = m.mem[p]
  BY <1>1 DEF Typed
<1>3. PICK t, u : t = [m EXCEPT !.pa = v, !.psp = p] /\ u = [m EXCEPT !.psp = p]
  OBVIOUS
<1>4. Kept(m, t) /\ Kept(m, u)
  BY <1>1, <1>2, <1>3 DEF Kept, Typed, Shaped
<1>5. S!Drop(m) \in {t, u, S!Fail(m, "punder")}
  BY <1>1, <1>2, <1>3 DEF S!Drop
<1> QED
  BY <1>4, <1>5, KeptFail

LEMMA KeptCPop ==
  ASSUME NEW m, Typed(m)
  PROVE  Kept(m, S!CPop(m))
<1>1. PICK c \in S!Addr : c = S!Up(m.csp)
  BY Widths DEF Typed
<1>2. PICK t : t = [m EXCEPT !.csp = c]
  OBVIOUS
<1>3. Kept(m, t)
  BY <1>1, <1>2 DEF Kept, Typed, Shaped
<1>4. S!CPop(m) \in {t, S!Fail(m, "cunder")}
  BY <1>1, <1>2 DEF S!CPop
<1> QED
  BY <1>3, <1>4, KeptFail

LEMMA KeptPush ==
  ASSUME NEW m, Typed(m), NEW v \in Val
  PROVE  Kept(m, S!Push(m, v))
<1>1. PICK p \in S!Addr : p = S!Up(m.psp)
  BY Widths DEF Typed
<1>2. PICK f : f = IF p > 0 THEN [m.mem EXCEPT ![m.psp] = m.pa] ELSE m.mem
  OBVIOUS
<1>3. f \in [S!Addr -> Val]
  BY <1>2 DEF Typed
<1>4. PICK t : t = [m EXCEPT !.mem = f, !.pa = v, !.psp = p]
  OBVIOUS
<1>5. Kept(m, t)
  BY <1>1, <1>3, <1>4 DEF Kept, Typed, Shaped
<1>6. S!Push(m, v) \in {t, S!Fail(m, "punder"), S!Fail(m, "pover")}
  BY <1>1, <1>2, <1>4 DEF S!Push
<1> QED
  BY <1>5, <1>6, KeptFail

LEMMA KeptCPush ==
  ASSUME NEW m, Typed(m), NEW v \in Val
  PROVE  Kept(m, S!CPush(m, v))
<1>1. PICK c \in S!Addr : c = S!Down(m.csp)
  BY Widths DEF Typed
<1>2. PICK f : f = [m.mem EXCEPT ![m.csp] = v]
  OBVIOUS
<1>3. f \in [S!Addr -> Val]
  BY <1>2 DEF Typed
<1>4. PICK t : t = [m EXCEPT !.mem = f, !.csp = c]
  OBVIOUS
<1>5. Kept(m, t)
  BY <1>1, <1>3, <1>4 DEF Kept, Typed, Shaped
<1>6. S!CPush(m, v) \in {t, S!Fail(m, "cover")}
  BY <1>1, <1>2, <1>4 DEF S!CPush
<1> QED
  BY <1>5, <1>6, KeptFail

LEMMA KeptPut ==
  ASSUME NEW m, Typed(m), NEW v \in Int
  PROVE  Kept(m, Put(m, v))
<1>1. PICK x \in Val : x = v % W
  BY Widths
<1>2. Put(m, v) = [m EXCEPT !.pa = x]
  BY <1>1 DEF Put
<1> QED
  BY <1>1, <1>2 DEF Kept, Typed, Shaped

LEMMA KeptWrite ==
  ASSUME NEW m, Typed(m), NEW w \in S!Addr, NEW v \in Val
  PROVE  Kept(m, Write(m, w, v))
<1>1. PICK f : f = [m.mem EXCEPT ![w] = v]
  OBVIOUS
<1>2. f \in [S!Addr -> Val]
  BY <1>1 DEF Typed
<1>3. Write(m, w, v) = [m EXCEPT !.mem = f]
  BY <1>1 DEF Write
<1> QED
  BY <1>2, <1>3 DEF Kept, Typed, Shaped

LEMMA KeptBoth ==
  ASSUME NEW m, Typed(m), NEW v \in Val, NEW a \in S!Addr, NEW w \in Val
  PROVE  Kept(m, [m EXCEPT !.pa = v, !.mem = [m.mem EXCEPT ![a] = w]])
<1>1. PICK f : f = [m.mem EXCEPT ![a] = w]
  OBVIOUS
<1>2. f \in [S!Addr -> Val]
  BY <1>1 DEF Typed
<1>3. PICK t : t = [m EXCEPT !.pa = v, !.mem = f]
  OBVIOUS
<1>4. Kept(m, t)
  BY <1>2, <1>3 DEF Kept, Typed, Shaped
<1> QED
  BY <1>1, <1>3, <1>4

\* A word that lies across two is a word, and so is what each of the two becomes.
LEMMA Across ==
  ASSUME NEW low \in Nat \ {0}, NEW high \in Nat \ {0}, low * high = W, NEW x \in Val, NEW y \in Val
  PROVE  /\ x \div low + (y % low) * high \in Val
         /\ (x % low) + (y % high) * low \in Val
         /\ (x - (x % low)) + y \div high \in Val
<1>1. x \in Nat /\ y \in Nat /\ W \in Nat /\ \A z \in Nat : z < W => z \in Val
  BY Sizes DEF Val
<1>2. x < low * high /\ y < low * high
  BY <1>1 DEF Val
<1>3. PICK q \in Nat, r \in Nat : q = x \div low /\ r = x % low /\ r < low /\ x = low * q + r
  BY <1>1, Quotient
<1>4. PICK p \in Nat, s \in Nat : p = y \div high /\ s = y % high /\ s < high /\ y = high * p + s
  BY <1>1, Quotient
<1>5. PICK k \in Nat : k = y % low /\ k < low
  BY <1>1, Quotient
<1>6. q < high
  <2> SUFFICES ASSUME q >= high PROVE FALSE
    BY <1>3
  <2>1. PICK e \in Nat : q = high + e
    <3>1. q - high \in Nat /\ q = high + (q - high)
      OBVIOUS
    <3> QED
      BY <3>1
  <2>2. low * q = low * high + low * e
    BY <2>1
  <2>3. low * e \in Nat
    BY <2>1
  <2> QED
    BY <1>2, <1>3, <2>2, <2>3
<1>7. p < low
  <2> SUFFICES ASSUME p >= low PROVE FALSE
    BY <1>4
  <2>1. PICK e \in Nat : p = low + e
    <3>1. p - low \in Nat /\ p = low + (p - low)
      OBVIOUS
    <3> QED
      BY <3>1
  <2>2. high * p = low * high + high * e
    BY <2>1
  <2>3. high * e \in Nat
    BY <2>1
  <2> QED
    BY <1>2, <1>4, <2>2, <2>3
<1>8. \A a \in Nat, b \in Nat \ {0}, c \in Nat, d \in Nat : a < b /\ c < d => a + c * b \in Nat /\ a + c * b < b * d
  <2> SUFFICES ASSUME NEW a \in Nat, NEW b \in Nat \ {0}, NEW c \in Nat, NEW d \in Nat, a < b, c < d
               PROVE  a + c * b \in Nat /\ a + c * b < b * d
    OBVIOUS
  <2>1. PICK e \in Nat : d = c + 1 + e
    <3>1. d - c - 1 \in Nat
      OBVIOUS
    <3> QED
      BY <3>1
  <2>2. b * d = c * b + b + b * e
    BY <2>1
  <2>3. b * e \in Nat /\ c * b \in Nat
    BY <2>1
  <2> QED
    BY <2>2, <2>3
<1>9. q + k * high \in Val
  <2>1. q + k * high \in Nat /\ q + k * high < high * low
    BY <1>5, <1>6, <1>8
  <2>2. high * low = W
    OBVIOUS
  <2> QED
    BY <1>1, <2>1, <2>2
<1>10. r + s * low \in Val
  <2>1. r + s * low \in Nat /\ r + s * low < low * high
    BY <1>3, <1>4, <1>8
  <2> QED
    BY <1>1, <2>1
<1>11. (x - r) + p \in Val
  <2>1. p + q * low \in Nat /\ p + q * low < low * high
    BY <1>6, <1>7, <1>8
  <2>2. (x - r) + p = p + q * low
    BY <1>3
  <2> QED
    BY <1>1, <2>1, <2>2
<1> QED
  BY <1>3, <1>4, <1>5, <1>9, <1>10, <1>11

LEMMA LoadIs ==
  ASSUME NEW m, Typed(m), NEW a \in Val
  PROVE  Load(m, a) \in Val
<1>1. PICK w \in S!Addr : w = a \div 4
  BY Widths
<1>2. PICK low \in Nat \ {0}, high \in Nat \ {0} :
        low = ByteBase ^ (a % 4) /\ high = ByteBase ^ (4 - (a % 4)) /\ low * high = W
  BY Parts, Widths
<1>3. PICK x \in Val, y \in Val : x = m.mem[w] /\ y = m.mem[S!Up(w)]
  BY Widths DEF Typed
<1>4. Load(m, a) \in {x, x \div low + (y % low) * high}
  BY <1>1, <1>2, <1>3 DEF Load
<1> QED
  BY <1>2, <1>4, Across

LEMMA KeptSave ==
  ASSUME NEW m, Typed(m), NEW a \in Val, NEW v \in Val
  PROVE  Kept(m, Save(m, a, v))
<1>1. PICK w \in S!Addr : w = a \div 4
  BY Widths
<1>2. PICK low \in Nat \ {0}, high \in Nat \ {0} :
        low = ByteBase ^ (a % 4) /\ high = ByteBase ^ (4 - (a % 4)) /\ low * high = W
  BY Parts, Widths
<1>3. PICK x \in Val : x = m.mem[w]
  BY DEF Typed
<1>4. PICK t : t = Write(m, w, (x % low) + (v % high) * low)
  OBVIOUS
<1>5. Kept(m, t)
  BY <1>2, <1>4, Across, KeptWrite
<1>6. PICK old \in Val : old = t.mem[S!Up(w)]
  BY <1>5, Widths DEF Kept, Typed
<1>7. PICK u : u = Write(t, S!Up(w), (old - (old % low)) + v \div high)
  OBVIOUS
<1>8. Kept(t, u)
  <2>1. (old - (old % low)) + v \div high \in Val
    BY <1>2, Across
  <2>2. S!Up(w) \in S!Addr /\ Typed(t)
    BY <1>5, Widths DEF Kept
  <2> QED
    BY <1>7, <2>1, <2>2, KeptWrite
<1>9. Save(m, a, v) \in {Write(m, w, v), u}
  BY <1>1, <1>2, <1>3, <1>4, <1>6, <1>7 DEF Save
<1> QED
  BY <1>5, <1>8, <1>9, KeptWrite, KeptThen

LEMMA KeptJump ==
  ASSUME NEW m, Typed(m), NEW r, NEW x
  PROVE  Kept(m, Reach(m, r, x)) /\ (x \in Val => Kept(m, JumpTo(m, r, x)))
<1>1. PICK t : t = Reach(m, r, x)
  OBVIOUS
<1>2. Kept(m, t)
  BY <1>1 DEF Kept, Typed, Shaped, Reach
<1>3. Kept(t, Fail(t, "segfault"))
  BY <1>2, KeptFail DEF Kept
<1>4. x \in Val => Kept(t, [t EXCEPT !.ip = x])
  BY <1>2 DEF Kept, Typed, Shaped
<1> QED
  BY <1>1, <1>2, <1>3, <1>4 DEF JumpTo, Kept

\* One word, or n of them.
LEMMA KeptOnce ==
  ASSUME NEW m, Typed(m), NEW o \in {"pop", "cpop", "p2c", "c2p"}
  PROVE  Kept(m, Once(m, o))
<1>1. CASE o = "pop"
  BY <1>1, KeptDrop DEF Once
<1>2. CASE o = "cpop"
  BY <1>2, KeptCPop DEF Once
<1>3. CASE o = "p2c"
  <2>1. PICK t : t = S!Drop(m)
    OBVIOUS
  <2>2. Kept(m, t) /\ Kept(t, S!CPush(t, m.pa))
    BY <2>1, KeptDrop, KeptCPush DEF Kept, Typed
  <2> QED
    BY <1>3, <2>1, <2>2, KeptThen DEF Once, Popping
<1>4. CASE o = "c2p"
  <2>1. PICK t : t = S!CPop(m)
    OBVIOUS
  <2>2. Kept(m, t) /\ t.mem[t.csp] \in Val
    BY <2>1, KeptCPop DEF Kept, Typed
  <2>3. Kept(t, S!Push(t, t.mem[t.csp]))
    BY <2>2, KeptPush DEF Kept
  <2> QED
    BY <1>4, <2>1, <2>2, <2>3, KeptThen DEF Once, CPopping
<1> QED
  BY <1>1, <1>2, <1>3, <1>4

LEMMA RepeatUnfolds ==
  ASSUME NEW m, NEW o, NEW n \in Nat
  PROVE  \E times : /\ times = [k \in 0 .. n |-> IF k = 0 THEN m
                                                 ELSE LET t == times[k - 1] IN
                                                      IF t.err # "nil" THEN t ELSE Once(t, o)]
                    /\ Repeat(m, o, n) = times[IF n < Words THEN n ELSE Words]
<1> DEFINE Next1(g, k) == IF k = 0 THEN m
                          ELSE LET t == g[k - 1] IN IF t.err # "nil" THEN t ELSE Once(t, o)
           Is(g, d) == g = [k \in 0 .. d |-> Next1(g, k)]
           Holds == {d \in Nat : \E g : Is(g, d)}
<1>1. 0 \in Holds
  <2>1. PICK g : g = [k \in 0 .. 0 |-> m]
    OBVIOUS
  <2>2. Is(g, 0)
    BY <2>1
  <2> QED
    BY <2>2
<1>2. ASSUME NEW d \in Nat, d \in Holds PROVE d + 1 \in Holds
  <2>1. PICK g : Is(g, d)
    BY <1>2
  <2>2. PICK x : x = Next1(g, d + 1)
    OBVIOUS
  <2>3. PICK h : h = [k \in 0 .. d + 1 |-> IF k = d + 1 THEN x ELSE g[k]]
    OBVIOUS
  <2>4. ASSUME NEW k \in 0 .. d + 1 PROVE h[k] = Next1(h, k)
    <3>1. k # 0 => h[k - 1] = g[k - 1]
      BY <2>3
    <3>2. Next1(h, k) = Next1(g, k)
      BY <3>1
    <3>3. CASE k = d + 1
      BY <2>2, <2>3, <3>2, <3>3
    <3>4. CASE k # d + 1
      <4>1. k \in 0 .. d /\ h[k] = g[k]
        BY <2>3, <3>4
      <4>2. g[k] = Next1(g, k)
        BY <2>1, <4>1
      <4> QED
        BY <3>2, <4>1, <4>2
    <3> QED
      BY <3>3, <3>4
  <2>5. Is(h, d + 1)
    <3> HIDE DEF Next1
    <3> QED
      BY <2>3, <2>4
  <2> HIDE DEF Is
  <2> QED
    BY <2>5
<1>3. n \in Holds
  <2> HIDE DEF Holds
  <2> QED
    BY <1>1, <1>2, ByInduction
<1> DEFINE times == CHOOSE g : g = [k \in 0 .. n |-> Next1(g, k)]
<1>4. Repeat(m, o, n) = times[IF n < Words THEN n ELSE Words]
  BY DEF Repeat
<1>5. Is(times, n)
  <2> HIDE DEF Next1
  <2>1. PICK g : g = [k \in 0 .. n |-> Next1(g, k)]
    BY <1>3
  <2> QED
    BY <2>1
<1> HIDE DEF times
<1> QED
  BY <1>4, <1>5

LEMMA KeptRepeat ==
  ASSUME NEW m, Typed(m), NEW o \in {"pop", "cpop", "p2c", "c2p"}, NEW n \in Nat
  PROVE  Kept(m, Repeat(m, o, n))
<1>1. PICK times : /\ times = [k \in 0 .. n |-> IF k = 0 THEN m
                                                 ELSE LET t == times[k - 1] IN
                                                      IF t.err # "nil" THEN t ELSE Once(t, o)]
                   /\ Repeat(m, o, n) = times[IF n < Words THEN n ELSE Words]
  BY RepeatUnfolds
<1> DEFINE Holds == {d \in Nat : d <= n => Kept(m, times[d])}
<1>2. 0 \in Holds
  BY <1>1 DEF Kept
<1>3. ASSUME NEW d \in Nat, d \in Holds PROVE d + 1 \in Holds
  <2> SUFFICES ASSUME d + 1 <= n PROVE Kept(m, times[d + 1])
    OBVIOUS
  <2>1. PICK t : t = times[d]
    OBVIOUS
  <2>2. Kept(m, t)
    BY <1>3, <2>1
  <2>3. times[d + 1] = IF t.err # "nil" THEN t ELSE Once(t, o)
    BY <1>1, <2>1
  <2>4. Kept(t, Once(t, o))
    BY <2>2, KeptOnce DEF Kept
  <2> QED
    BY <2>2, <2>3, <2>4 DEF Kept
<1>4. PICK k \in Nat : k = (IF n < Words THEN n ELSE Words) /\ k <= n
  BY Sizes
<1>5. k \in Holds
  <2> HIDE DEF Holds
  <2> QED
    BY <1>2, <1>3, ByInduction
<1> QED
  BY <1>1, <1>4, <1>5

\* An operation may forget an error: the machine it leaves is one all the same.
LEMMA LoseTyped ==
  ASSUME NEW m, Typed(m)
  PROVE  Typed(Lose(m))
<1>1. PICK b : b = TRUE
  OBVIOUS
<1>2. PICK t : t = [m EXCEPT !.lost = b]
  OBVIOUS
<1>3. Shaped(t) /\ t.psp = m.psp /\ t.csp = m.csp /\ t.pa = m.pa /\ t.ip = m.ip /\ t.mem = m.mem
  BY <1>2 DEF Typed, Shaped
<1>4. Lose(m) = t
  BY <1>1, <1>2 DEF Lose
<1> QED
  BY <1>3, <1>4 DEF Typed

\* Words of memory.
LEMMA KeptMemory ==
  ASSUME NEW m, Typed(m), NEW a \in Val
  PROVE  Kept(m, Fetch(m, a)) /\ \A v \in Val : Kept(m, Store(m, a, v))
BY KeptFail, KeptPush, KeptSave, LoadIs DEF Fetch, Store

\* fetch without an immediate, jz with one and bnz without one forget an error.
Forgetful(op) == \/ op.name = "fetch" /\ ~op.imm
                 \/ op.name = "jz" /\ op.imm
                 \/ op.name = "bnz" /\ ~op.imm

LEMMA KeptFetch ==
  ASSUME NEW m, Typed(m), NEW op, op.arg \in Val
  PROVE  Typed(FetchOp(m, op)) /\ (op.imm => Kept(m, FetchOp(m, op)))
<1>1. CASE op.imm
  BY <1>1, KeptMemory DEF FetchOp, Kept
<1>2. CASE ~op.imm
  <2>1. PICK t : t = S!Drop(m) /\ Kept(m, t)
    BY KeptDrop
  <2>2. PICK u : u = Fetch(t, m.pa) /\ Kept(t, u)
    BY <2>1, KeptMemory DEF Kept, Typed
  <2>3. Typed(Lose(t))
    BY <2>1, LoseTyped DEF Kept
  <2>4. FetchOp(m, op) \in {t, u, Lose(t)}
    BY <1>2, <2>1, <2>2 DEF FetchOp, Popping
  <2> QED
    BY <1>2, <2>1, <2>2, <2>3, <2>4 DEF Kept
<1> QED
  BY <1>1, <1>2

\* store and storeTo, when they have their first operand.
StoreAt(t, x) == Popping(t, LAMBDA u, v : Store(u, x, v))
StoreThis(t, x) == Popping(t, LAMBDA u, a : Store(u, a, x))

LEMMA StoreIs ==
  ASSUME NEW m, NEW op
  PROVE  LET t == S!Drop(m) IN
         /\ StoreOp(m, op) = IF op.imm THEN StoreThis(m, op.arg) ELSE IF t.err # "nil" THEN t ELSE StoreThis(t, m.pa)
         /\ StoreToOp(m, op) = IF op.imm THEN StoreAt(m, op.arg) ELSE IF t.err # "nil" THEN t ELSE StoreAt(t, m.pa)
BY DEF StoreOp, StoreToOp, WithOperand, Popping, StoreAt, StoreThis

LEMMA KeptStore ==
  ASSUME NEW m, Typed(m), NEW op, op.arg \in Val
  PROVE  Kept(m, StoreOp(m, op)) /\ Kept(m, StoreToOp(m, op))
<1>1. ASSUME NEW t, Kept(m, t), NEW x \in Val
      PROVE  Kept(m, StoreAt(t, x)) /\ Kept(m, StoreThis(t, x))
  <2>1. PICK u : u = S!Drop(t) /\ Kept(t, u)
    BY <1>1, KeptDrop DEF Kept
  <2>2. PICK v \in Val : v = t.pa
    BY <1>1 DEF Kept, Typed
  <2>3. Kept(u, Store(u, v, x)) /\ Kept(u, Store(u, x, v))
    BY <2>1, KeptMemory DEF Kept
  <2>4. Kept(m, u) /\ Kept(m, Store(u, v, x)) /\ Kept(m, Store(u, x, v))
    BY <1>1, <2>1, <2>3, KeptThen
  <2>5. StoreAt(t, x) \in {u, Store(u, x, v)} /\ StoreThis(t, x) \in {u, Store(u, v, x)}
    BY <2>1, <2>2 DEF StoreAt, StoreThis, Popping
  <2> QED
    BY <2>4, <2>5
<1>2. Kept(m, m) /\ Kept(m, S!Drop(m)) /\ m.pa \in Val
  BY KeptSame, KeptDrop DEF Typed
<1> QED
  BY <1>1, <1>2, StoreIs

LEMMA KeptParam ==
  ASSUME NEW m, Typed(m), NEW op, op.name \in {"push", "pop", "dup", "swap"}, op.arg \in Val
  PROVE  Kept(m, ParamOp(m, op))
<1>1. op.arg \in Nat /\ (1 + op.arg) % W \in Nat
  <2>1. PICK x \in Nat : x = op.arg
    BY Widths
  <2>2. (1 + x) % W \in Nat
    BY Sizes
  <2> QED
    BY <2>1, <2>2
<1>2. ASSUME NEW i \in Nat PROVE S!Ref(m, i % Words) \in S!Addr
  BY Widths DEF Typed, S!Ref
<1>3. ASSUME NEW i \in Nat PROVE Kept(m, DupOp(m, i))
  <2>1. PICK v \in Val : v = m.mem[S!Ref(m, i % Words)]
    BY <1>2 DEF Typed
  <2>2. DupOp(m, i) \in {S!Push(m, m.pa), S!Push(m, v), Fail(m, "punder")}
    BY <2>1 DEF DupOp
  <2>3. Kept(m, S!Push(m, m.pa)) /\ Kept(m, S!Push(m, v)) /\ Kept(m, Fail(m, "punder"))
    BY KeptPush, KeptFail DEF Typed
  <2> QED
    BY <2>2, <2>3
<1>4. ASSUME NEW i \in Nat PROVE Kept(m, SwapOp(m, i))
  <2>1. PICK a \in S!Addr : a = S!Ref(m, i % Words)
    BY <1>2
  <2>2. PICK v \in Val, w \in Val : v = m.mem[a] /\ w = m.pa
    BY DEF Typed
  <2>3. PICK t : t = [m EXCEPT !.pa = v, !.mem = [m.mem EXCEPT ![a] = w]]
    OBVIOUS
  <2>4. SwapOp(m, i) \in {m, Fail(m, "punder"), t}
    BY <2>1, <2>2, <2>3 DEF SwapOp
  <2>5. Kept(m, t) /\ Kept(m, m) /\ Kept(m, Fail(m, "punder"))
    BY <2>3, KeptBoth, KeptSame, KeptFail
  <2> QED
    BY <2>4, <2>5
<1>5. \A n \in Nat : Kept(m, Repeat(m, "pop", n))
  BY KeptRepeat
<1>6. ParamOp(m, op) \in {S!Push(m, op.arg)}
                          \cup {Repeat(m, "pop", n) : n \in Nat} \cup {DupOp(m, 1), DupOp(m, op.arg)}
                          \cup {SwapOp(m, 2), SwapOp(m, (1 + op.arg) % W)}
  BY <1>1 DEF ParamOp
<1> QED
  BY <1>1, <1>3, <1>4, <1>5, <1>6, KeptPush

LEMMA KeptCompute ==
  ASSUME NEW m, Typed(m), NEW o \in Binary, NEW b \in Val
  PROVE  Kept(m, Compute(m, o, b))
<1>1. CASE o \in Dividing /\ b = 0
  BY <1>1, KeptFail DEF Compute
<1>2. CASE ~(o \in Dividing /\ b = 0)
  <2>1. Result(o, m.pa, b) \in Int
    BY <1>2, ResultIs DEF Typed
  <2> QED
    BY <1>2, <2>1, KeptPut DEF Compute
<1> QED
  BY <1>1, <1>2

LEMMA KeptBinary ==
  ASSUME NEW m, Typed(m), NEW op, op.name \in Binary, op.arg \in Val
  PROVE  Kept(m, BinaryOp(m, op))
<1>1. PICK t : t = S!Drop(m) /\ Kept(m, t)
  BY KeptDrop
<1>2. BinaryOp(m, op) \in {t, Put(t, 1), Put(m, 1), Compute(m, op.name, op.arg), Compute(t, op.name, m.pa)}
  BY <1>1 DEF BinaryOp, ComputeIfFailed, WithOperand, Popping
<1>3. Typed(t) /\ m.pa \in Val
  BY <1>1 DEF Kept, Typed
<1>4. /\ Kept(t, Put(t, 1)) /\ Kept(m, Put(m, 1))
      /\ Kept(t, Compute(t, op.name, m.pa)) /\ Kept(m, Compute(m, op.name, op.arg))
  BY <1>3, KeptPut, KeptCompute
<1> QED
  BY <1>1, <1>2, <1>4, KeptThen

LEMMA KeptDivmod ==
  ASSUME NEW m, Typed(m), NEW op, op.arg \in Val
  PROVE  Kept(m, DivmodOp(m, op))
<1>1. CASE op.imm /\ op.arg # 0
  <2>1. PICK q : q = m.pa \div op.arg
    OBVIOUS
  <2>2. q \in Val
    BY <1>1, <2>1, Dividend DEF Typed
  <2>3. PICK r \in Val : r = Rem(q, op.arg)
    BY <1>1, <2>2, RemIs
  <2>4. PICK t : t = Put(m, q) /\ Kept(m, t)
    BY <2>2, KeptPut, Widths
  <2>5. Kept(t, S!Push(t, r))
    BY <2>4, KeptPush DEF Kept
  <2>6. DivmodOp(m, op) = S!Push(t, r)
    BY <1>1, <2>1, <2>3, <2>4 DEF DivmodOp
  <2> QED
    BY <2>4, <2>5, <2>6, KeptThen
<1>2. CASE op.imm /\ op.arg = 0
  BY <1>2, KeptFail DEF DivmodOp
<1>3. CASE ~op.imm
  <2>1. PICK a \in S!Addr : a = S!Ref(m, 2)
    <3>1. 2 % Words = 2
      BY Sizes
    <3> QED
      BY <3>1, Widths DEF Typed, S!Ref
  <2>2. PICK b \in Val : b = m.mem[a]
    BY DEF Typed
  <2>3. CASE b = 0
    <3>1. DivmodOp(m, op) \in {Fail(m, "panic"), Fail(m, "punder")}
      BY <1>3, <2>1, <2>2, <2>3 DEF DivmodOp
    <3> QED
      BY <3>1, KeptFail
  <2>4. CASE b # 0
    <3>1. PICK v \in Val, w \in Val : v = m.pa \div b /\ w = Rem(m.pa, b)
      BY <2>4, Dividend, RemIs DEF Typed
    <3>2. PICK t : t = [m EXCEPT !.pa = v, !.mem = [m.mem EXCEPT ![a] = w]]
      OBVIOUS
    <3>3. DivmodOp(m, op) \in {Fail(m, "punder"), t}
      BY <1>3, <2>1, <2>2, <2>4, <3>1, <3>2 DEF DivmodOp
    <3>4. Kept(m, t)
      BY <3>2, KeptBoth
    <3> QED
      BY <3>3, <3>4, KeptFail
  <2> QED
    BY <2>3, <2>4
<1> QED
  BY <1>1, <1>2, <1>3

LEMMA KeptUnary ==
  ASSUME NEW m, Typed(m), NEW o \in {"neg", "bitnot", "not", "and", "or"}
  PROVE  Kept(m, UnaryOp(m, o))
<1>1. PICK t : t = S!Drop(m) /\ Kept(m, t)
  BY KeptDrop
<1>2. ASSUME NEW v \in Int PROVE Kept(m, ComputeIfFailed(m, v))
  <2>1. ComputeIfFailed(m, v) \in {t, Put(t, v)}
    BY <1>1 DEF ComputeIfFailed
  <2>2. Kept(t, Put(t, v))
    BY <1>1, KeptPut DEF Kept
  <2> QED
    BY <1>1, <2>1, <2>2, KeptThen
<1>3. m.pa \in Int /\ W \in Int /\ \A b : Truth(b) \in Int
  <2>1. m.pa \in Nat
    BY Widths DEF Typed
  <2> QED
    BY <2>1, Sizes DEF Truth
<1>4. -m.pa \in Int /\ W - 1 - m.pa \in Int
  BY <1>3
<1>5. UnaryOp(m, o) \in {Put(m, -m.pa), Put(m, W - 1 - m.pa), Put(m, Truth(m.pa = 0)),
                          ComputeIfFailed(m, Truth(m.pa # 0))}
  BY DEF UnaryOp
<1> QED
  BY <1>2, <1>3, <1>4, <1>5, KeptPut

LEMMA KeptBit ==
  ASSUME NEW m, Typed(m), NEW o \in BitOps, NEW a \in Val, NEW n \in Val
  PROVE  Kept(m, Bit(m, o, a, n))
<1>1. PICK k \in 0 .. 31 : k = n % Bits /\ k < Bits
  <2>1. PICK x \in Nat : x = n
    BY Widths
  <2>2. x % Bits \in 0 .. 31 /\ x % Bits < Bits
    BY Sizes
  <2> QED
    BY <2>1, <2>2
<1>2. PICK b \in Val : b = (a + n \div Bits) % W
  <2>1. a + n \div Bits \in Int
    BY Sizes, Widths
  <2> QED
    BY <2>1, Widths
<1>3. PICK w \in Val : w = Load(m, b)
  BY LoadIs
<1>4. WithBit(w, k) \in Val /\ WithoutBit(w, k) \in Val
  BY <1>1, BitWords
<1>5. PICK s1, s2 : s1 = Save(m, b, WithBit(w, k)) /\ s2 = Save(m, b, WithoutBit(w, k))
  OBVIOUS
<1>6. PICK v1 \in Int, v2 \in Int : v1 = Truth(HasBit(w, k)) /\ v2 = Truth(~HasBit(w, k))
  BY DEF Truth
<1>7. Bit(m, o, a, n) \in {Fail(Put(m, 0), "align"), Fail(m, "align"), Put(m, v1), s1, Put(s1, v2),
                           s2, Put(s2, v1)}
  BY <1>1, <1>2, <1>3, <1>5, <1>6 DEF Bit, BitAt, BitOps
<1>8. Kept(m, s1) /\ Kept(m, s2) /\ Kept(m, Put(m, 0)) /\ Kept(m, Put(m, v1)) /\ Kept(m, Fail(m, "align"))
  BY <1>4, <1>5, KeptSave, KeptPut, KeptFail
<1>9. Kept(s1, Put(s1, v2)) /\ Kept(s2, Put(s2, v1)) /\ Kept(Put(m, 0), Fail(Put(m, 0), "align"))
  BY <1>8, KeptPut, KeptFail DEF Kept
<1> QED
  BY <1>7, <1>8, <1>9, KeptThen

LEMMA KeptBits ==
  ASSUME NEW m, Typed(m), NEW op, op.name \in BitOps, op.arg \in Val
  PROVE  Kept(m, BitOp(m, op))
<1>1. ASSUME NEW t, Kept(m, t), NEW a \in Val, NEW n \in Val PROVE Kept(m, Bit(t, op.name, a, n))
  <2>1. Typed(t)
    BY <1>1 DEF Kept
  <2>2. Kept(t, Bit(t, op.name, a, n))
    BY <2>1, KeptBit
  <2> QED
    BY <1>1, <2>2, KeptThen
<1>2. PICK t : t = S!Drop(m) /\ Kept(m, t)
  BY KeptDrop
<1>3. PICK u : u = S!Drop(t) /\ Kept(t, u)
  BY <1>2, KeptDrop DEF Kept
<1>4. Kept(m, m) /\ Kept(m, u) /\ m.pa \in Val /\ t.pa \in Val
  BY <1>2, <1>3 DEF Kept, Typed
<1>5. BitOp(m, op) \in {t, u, Bit(t, op.name, op.arg, m.pa), Bit(m, op.name, op.arg, m.pa),
                         Bit(u, op.name, m.pa, t.pa), Bit(t, op.name, m.pa, t.pa)}
  BY <1>2, <1>3 DEF BitOp, WithOperand, Popping
<1> QED
  BY <1>1, <1>2, <1>4, <1>5

LEMMA KeptCJump ==
  ASSUME NEW m, Typed(m)
  PROVE  Kept(m, CJump(m))
<1>1. PICK t : t = S!CPop(m) /\ Kept(m, t)
  BY KeptCPop
<1>2. PICK x \in Val : x = t.mem[t.csp]
  BY <1>1 DEF Kept, Typed
<1>3. Kept(t, JumpTo(t, "jump", x))
  BY <1>1, KeptJump DEF Kept
<1> QED
  BY <1>1, <1>2, <1>3, KeptThen DEF CJump, CPopping

LEMMA KeptCall ==
  ASSUME NEW m, Typed(m), NEW ip \in Val
  PROVE  Kept(m, Call(m, ip))
<1>1. PICK t : t = S!CPush(m, m.ip) /\ Kept(m, t)
  BY KeptCPush DEF Typed
<1>2. Kept(t, JumpTo(t, "call", ip))
  BY <1>1, KeptJump DEF Kept
<1> QED
  BY <1>1, <1>2, KeptThen DEF Call

LEMMA KeptControl ==
  ASSUME NEW m, Typed(m), NEW op, op.name \in {"mark", "cpush", "cpop", "p2c", "c2p", "ret", "call"}, op.arg \in Val
  PROVE  Kept(m, ControlOp(m, op))
<1>1. PICK t : t = S!Drop(m) /\ Kept(m, t)
  BY KeptDrop
<1>2. Kept(t, Call(t, m.pa))
  BY <1>1, KeptCall DEF Kept, Typed
<1>3. Kept(m, Call(m, op.arg)) /\ Kept(m, Call(t, m.pa))
  BY <1>1, <1>2, KeptCall, KeptThen
<1>4. op.name = "call" => ControlOp(m, op) \in {t, Call(m, op.arg), Call(t, m.pa)}
  BY <1>1 DEF ControlOp, WithOperand, Popping
<1>5. op.name = "ret" => ControlOp(m, op) = CJump(m)
  BY DEF ControlOp
<1>6. op.name \in {"mark", "cpush"} =>
        ControlOp(m, op) \in {S!CPush(m, m.ip), S!CPush(m, op.arg), Fail(m, "unimplemented")}
  BY DEF ControlOp
<1>7. Kept(m, S!CPush(m, m.ip)) /\ Kept(m, S!CPush(m, op.arg)) /\ Kept(m, Fail(m, "unimplemented"))
  BY KeptCPush, KeptFail DEF Typed
<1>8. PICK n \in Nat : n = IF op.imm THEN op.arg ELSE 1
  BY Widths
<1>9. op.name \in {"cpop", "p2c", "c2p"} => ControlOp(m, op) = Repeat(m, op.name, n)
  BY <1>8 DEF ControlOp
<1>10. op.name \in {"cpop", "p2c", "c2p"} => Kept(m, Repeat(m, op.name, n))
  BY KeptRepeat
<1> QED
  BY <1>1, <1>3, <1>4, <1>5, <1>6, <1>7, <1>9, <1>10, KeptCJump

\* What the conditional operations come to.
LEMMA KeptRoutines ==
  ASSUME NEW m, Typed(m), NEW op
  PROVE  /\ \A off \in Val : Typed(JumpKept(op, m, off)) /\ (op.name # "jz" => Kept(m, JumpKept(op, m, off)))
         /\ \A off \in Val : Kept(m, Jump(m, off))
         /\ \A routine, off : Kept(m, Copying(routine, m, off))
         /\ \A off \in Val : Kept(m, Halted(m, off))
<1>1. ASSUME NEW off \in Val PROVE Kept(m, Jump(m, off))
  <2>1. (m.ip + off) % W \in Val
    <3>1. PICK x \in Nat, y \in Nat : x = m.ip /\ y = off
      BY Widths DEF Typed
    <3>2. x + y \in Int
      OBVIOUS
    <3> QED
      BY <3>1, <3>2, Widths
  <2> QED
    BY <2>1, KeptJump DEF Jump
<1>2. ASSUME NEW off \in Val
      PROVE  Typed(JumpKept(op, m, off)) /\ (op.name # "jz" => Kept(m, JumpKept(op, m, off)))
  <2>1. PICK t : t = Jump(m, off) /\ Kept(m, t)
    BY <1>1
  <2>2. PICK u : u = [t EXCEPT !.err = "nil"]
    OBVIOUS
  <2>3. Typed(u)
    BY <2>1, <2>2 DEF Kept, Typed, Shaped
  <2>4. JumpKept(op, m, off) = IF op.name = "jz" /\ t.err # "nil" THEN Lose(u) ELSE t
    BY <2>1, <2>2 DEF JumpKept
  <2> QED
    BY <2>1, <2>3, <2>4, LoseTyped DEF Kept
<1>3. ASSUME NEW off \in Val PROVE Kept(m, Halted(m, off))
  <2>1. PICK t : t = Put(m, off) /\ Kept(m, t)
    BY KeptPut, Widths
  <2>2. PICK u : u = Fail(t, "halted") /\ Kept(t, u)
    BY <2>1, KeptFail DEF Kept
  <2>3. Kept(u, Reach(u, "halt", off))
    BY <2>2, KeptJump DEF Kept
  <2> QED
    BY <2>1, <2>2, <2>3 DEF Halted, Kept
<1>4. ASSUME NEW routine, NEW off PROVE Kept(m, Copying(routine, m, off))
  BY KeptJump DEF Copying
<1> QED
  BY <1>1, <1>2, <1>3, <1>4

LEMMA KeptJumps ==
  ASSUME NEW m, Typed(m), NEW op, op.name \in {"jump", "jnz", "jz"}, op.arg \in Val
  PROVE  Typed(JumpOp(m, op)) /\ (~Forgetful(op) => Kept(m, JumpOp(m, op)))
<1>1. PICK t : t = S!Drop(m) /\ Kept(m, t)
  BY KeptDrop
<1>2. /\ Kept(t, Jump(t, m.pa)) /\ Kept(t, CJump(t)) /\ Kept(m, Jump(m, op.arg))
      /\ Typed(JumpKept(op, t, op.arg)) /\ (op.name # "jz" => Kept(t, JumpKept(op, t, op.arg)))
  BY <1>1, KeptRoutines, KeptCJump DEF Kept, Typed
<1>3. op.name = "jump" => JumpOp(m, op) \in {t, Jump(t, m.pa), Jump(m, op.arg)}
  BY <1>1 DEF JumpOp, WithOperand, Popping
<1>4. op.name # "jump" => /\ JumpOp(m, op) \in {t, CJump(t), JumpKept(op, t, op.arg)}
                          /\ ~op.imm => JumpOp(m, op) \in {t, CJump(t)}
  BY <1>1 DEF JumpOp, Conditional, Popping
<1> QED
  BY <1>1, <1>2, <1>3, <1>4 DEF Kept, Forgetful

LEMMA KeptForks ==
  ASSUME NEW m, Typed(m), NEW op, op.name \in {"fork", "fnz", "fz"}, op.arg \in Val
  PROVE  Kept(m, ForkOp(m, op))
<1>1. PICK t : t = S!Drop(m) /\ Kept(m, t)
  BY KeptDrop
<1>2. /\ Kept(t, Copying("fork", t, m.pa)) /\ Kept(m, Copying("fork", m, op.arg))
      /\ Kept(t, Copying("fork", t, op.arg)) /\ Kept(t, Copying("cfork", t, 0))
  <2>1. Typed(t)
    BY <1>1 DEF Kept
  <2> QED
    BY <2>1, KeptRoutines
<1>3. ForkOp(m, op) \in {t, Copying("fork", t, m.pa), Copying("fork", m, op.arg), Copying("fork", t, op.arg),
                         Copying("cfork", t, 0)}
  BY <1>1 DEF ForkOp, WithOperand, Popping, Conditional
<1> QED
  BY <1>1, <1>2, <1>3 DEF Kept

LEMMA KeptBranches ==
  ASSUME NEW m, Typed(m), NEW op, op.name \in {"branch", "bnz", "bz"}, op.imm \in BOOLEAN, op.arg \in Val
  PROVE  Typed(BranchOp(m, op)) /\ (~Forgetful(op) => Kept(m, BranchOp(m, op)))
<1>1. PICK t : t = S!Drop(m) /\ Kept(m, t)
  BY KeptDrop
<1>2. /\ Kept(t, Copying("branch", t, m.pa)) /\ Kept(m, Copying("branch", m, op.arg))
      /\ Kept(t, Copying("branch", t, op.arg)) /\ Kept(t, Copying("cbranch", t, 0))
  <2>1. Typed(t)
    BY <1>1 DEF Kept
  <2> QED
    BY <2>1, KeptRoutines
<1>3. CASE op.name = "bnz" /\ ~op.imm
  <2>1. PICK u : u = Reach(m, "cbranch", 0) /\ Typed(u)
    BY KeptJump DEF Kept
  <2>2. BranchOp(m, op) \in {t, Lose(u)}
    BY <1>1, <1>3, <2>1 DEF BranchOp, BnzPopped
  <2> QED
    BY <1>1, <1>3, <2>1, <2>2, LoseTyped DEF Kept, Forgetful
<1>4. CASE ~(op.name = "bnz" /\ ~op.imm)
  <2>1. BranchOp(m, op) \in {t, Copying("branch", t, m.pa), Copying("branch", m, op.arg),
                             Copying("branch", t, op.arg), Copying("cbranch", t, 0)}
    BY <1>1, <1>4 DEF BranchOp, WithOperand, Popping, Conditional
  <2> QED
    BY <1>1, <1>2, <2>1 DEF Kept
<1> QED
  BY <1>3, <1>4

LEMMA KeptHalts ==
  ASSUME NEW m, Typed(m), NEW op, op.arg \in Val
  PROVE  Kept(m, HaltOp(m, op))
<1>1. PICK t : t = S!Drop(m) /\ Kept(m, t)
  BY KeptDrop
<1>2. Kept(m, Halted(m, op.arg)) /\ Kept(t, Halted(t, op.arg)) /\ Kept(t, Halted(t, 0))
  BY <1>1, KeptRoutines, Widths DEF Kept
<1>3. HaltOp(m, op) \in {t, Halted(m, op.arg), Halted(t, op.arg), Halted(t, 0)}
  BY <1>1 DEF HaltOp, Conditional, Popping
<1> QED
  BY <1>1, <1>2, <1>3 DEF Kept

\* The names of the operations, by the cases of step().
Names == {"nop", "crash", "push", "pop", "dup", "swap", "fetch", "store", "storeTo", "divmod",
          "neg", "bitnot", "not", "and", "or", "mark", "cpush", "cpop", "p2c", "c2p", "ret", "call",
          "jump", "jnz", "jz", "fork", "fnz", "fz", "branch", "bnz", "bz", "halt", "hz", "hnz"}
           \cup Binary \cup BitOps

LEMMA OpNames ==
  ASSUME NEW op \in Op
  PROVE  op.name \in Names /\ op.imm \in BOOLEAN /\ op.arg \in Val
<1>1. Kind.val \subseteq Names /\ Kind.addr \subseteq Names /\ Kind.offset \subseteq Names /\ Kind.none \subseteq Names
  BY DEF Kind, Names, Binary, BitOps, Dividing, Shifting, Combining, Comparing
<1>2. Args \subseteq Val /\ 0 \in Val
  BY ArgsAssumption, Widths DEF Val, W
<1>3. CASE op \in [name : WithImmediate \cup Kind.none, imm : {FALSE}, arg : {0}]
  <2>1. op.name \in WithImmediate \cup Kind.none /\ op.imm \in BOOLEAN /\ op.arg = 0
    BY <1>3
  <2> QED
    BY <1>1, <1>2, <2>1 DEF WithImmediate
<1>4. CASE op \in [name : WithImmediate, imm : {TRUE}, arg : Args]
  <2>1. op.name \in WithImmediate /\ op.imm \in BOOLEAN /\ op.arg \in Args
    BY <1>4
  <2> QED
    BY <1>1, <1>2, <2>1 DEF WithImmediate
<1> QED
  BY <1>3, <1>4 DEF Op

\* The switch: the case of a name, its names being in no other.
LEMMA ExecuteIs ==
  ASSUME NEW m, NEW op
  PROVE  /\ op.name = "nop" => Execute(m, op) = m
         /\ op.name = "crash" => Execute(m, op) = Fail(m, "crashed")
         /\ op.name \in {"push", "pop", "dup", "swap"} => Execute(m, op) = ParamOp(m, op)
         /\ op.name = "fetch" => Execute(m, op) = FetchOp(m, op)
         /\ op.name = "store" => Execute(m, op) = StoreOp(m, op)
         /\ op.name = "storeTo" => Execute(m, op) = StoreToOp(m, op)
         /\ op.name \in Binary => Execute(m, op) = BinaryOp(m, op)
         /\ op.name = "divmod" => Execute(m, op) = DivmodOp(m, op)
         /\ op.name \in {"neg", "bitnot", "not", "and", "or"} => Execute(m, op) = UnaryOp(m, op.name)
         /\ op.name \in BitOps => Execute(m, op) = BitOp(m, op)
         /\ op.name \in {"mark", "cpush", "cpop", "p2c", "c2p", "ret", "call"} => Execute(m, op) = ControlOp(m, op)
         /\ op.name \in {"jump", "jnz", "jz"} => Execute(m, op) = JumpOp(m, op)
         /\ op.name \in {"fork", "fnz", "fz"} => Execute(m, op) = ForkOp(m, op)
         /\ op.name \in {"branch", "bnz", "bz"} => Execute(m, op) = BranchOp(m, op)
         /\ op.name \in {"halt", "hz", "hnz"} => Execute(m, op) = HaltOp(m, op)
BY DEF Execute, Binary, BitOps, Dividing, Shifting, Combining, Comparing

LEMMA KeptExecute ==
  ASSUME NEW m, Typed(m), NEW op \in Op
  PROVE  Typed(Execute(m, op)) /\ (~Forgetful(op) => Kept(m, Execute(m, op)))
<1>1. op.name \in Names /\ op.imm \in BOOLEAN /\ op.arg \in Val
  BY OpNames
<1>2. CASE op.name = "nop"
  BY <1>2, ExecuteIs DEF Kept
<1>3. CASE op.name = "crash"
  BY <1>3, ExecuteIs, KeptFail DEF Kept
<1>4. CASE op.name \in {"push", "pop", "dup", "swap"}
  BY <1>1, <1>4, ExecuteIs, KeptParam DEF Kept
<1>5. CASE op.name = "fetch"
  <2>1. Execute(m, op) = FetchOp(m, op)
    BY <1>5, ExecuteIs
  <2>2. op.imm \/ Forgetful(op)
    BY <1>5 DEF Forgetful
  <2> QED
    BY <1>1, <2>1, <2>2, KeptFetch
<1>6. CASE op.name = "store"
  BY <1>1, <1>6, ExecuteIs, KeptStore DEF Kept
<1>7. CASE op.name = "storeTo"
  BY <1>1, <1>7, ExecuteIs, KeptStore DEF Kept
<1>8. CASE op.name \in Binary
  <2>1. Execute(m, op) = BinaryOp(m, op)
    BY <1>8, ExecuteIs
  <2> QED
    BY <1>1, <1>8, <2>1, KeptBinary DEF Kept
<1>9. CASE op.name = "divmod"
  BY <1>1, <1>9, ExecuteIs, KeptDivmod DEF Kept
<1>10. CASE op.name \in {"neg", "bitnot", "not", "and", "or"}
  BY <1>10, ExecuteIs, KeptUnary DEF Kept
<1>11. CASE op.name \in BitOps
  <2>1. Execute(m, op) = BitOp(m, op)
    BY <1>11, ExecuteIs
  <2> QED
    BY <1>1, <1>11, <2>1, KeptBits DEF Kept
<1>12. CASE op.name \in {"mark", "cpush", "cpop", "p2c", "c2p", "ret", "call"}
  BY <1>1, <1>12, ExecuteIs, KeptControl DEF Kept
<1>13. CASE op.name \in {"jump", "jnz", "jz"}
  BY <1>1, <1>13, ExecuteIs, KeptJumps
<1>14. CASE op.name \in {"fork", "fnz", "fz"}
  BY <1>1, <1>14, ExecuteIs, KeptForks DEF Kept
<1>15. CASE op.name \in {"branch", "bnz", "bz"}
  BY <1>1, <1>15, ExecuteIs, KeptBranches
<1>16. CASE op.name \in {"halt", "hz", "hnz"}
  BY <1>1, <1>16, ExecuteIs, KeptHalts DEF Kept
<1> QED
  BY <1>1, <1>2, <1>3, <1>4, <1>5, <1>6, <1>7, <1>8, <1>9, <1>10, <1>11, <1>12, <1>13, <1>14, <1>15, <1>16 DEF Names

\* The machine a run begins with.
LEMMA MachineTyped ==
  ASSUME NEW ps, NEW cs, ps \in SeqOf(Args, Deep), cs \in SeqOf({W \div 4}, 1), Len(ps) + Len(cs) <= Size
  PROVE  Typed(Machine(ps, cs))
<1>1. PICK n \in Nat : ps \in [1 .. n -> Args]
  BY BoundsAssumption DEF SeqOf
<1>2. Len(ps) = n
  BY <1>1
<1>3. PICK k \in 0 .. 1 : cs \in [1 .. k -> {W \div 4}]
  BY DEF SeqOf
<1>4. Len(cs) = k
  BY <1>3
<1>5. PICK m : m = Machine(ps, cs)
  OBVIOUS
<1>6. Sound(m)
  BY <1>5, MachineSound
<1>7. m.psp \in S!Addr /\ m.csp \in S!Addr /\ m.pa \in Val
  BY <1>6, Sizes DEF Sound, S!Addr
<1>8. m.ip = W \div 2
  BY <1>5 DEF Machine
<1>9. W \div 2 \in Val /\ W \div 4 \in Val /\ 0 \in Val
  BY Sizes DEF Val
<1>10. Args \subseteq Val
  BY ArgsAssumption DEF Val, W
<1>11. ASSUME NEW a \in S!Addr
       PROVE  (IF a < Len(ps) - 1 THEN ps[a + 1]
               ELSE IF S!Cbp - a \in 0 .. Len(cs) - 1 THEN cs[S!Cbp - a + 1] ELSE 0) \in Val
  <2>1. a \in Nat /\ S!Cbp \in Nat
    BY Sizes DEF S!Addr
  <2>2. CASE a < Len(ps) - 1
    <3>1. a + 1 \in 1 .. n
      BY <1>2, <2>1, <2>2
    <3>2. ps[a + 1] \in Args
      BY <1>1, <3>1
    <3> QED
      BY <1>10, <2>2, <3>2
  <2>3. CASE ~(a < Len(ps) - 1) /\ S!Cbp - a \in 0 .. Len(cs) - 1
    <3>1. S!Cbp - a + 1 \in 1 .. k
      BY <1>4, <2>1, <2>3
    <3>2. cs[S!Cbp - a + 1] = W \div 4
      BY <1>3, <3>1
    <3> QED
      BY <1>9, <2>3, <3>2
  <2> QED
    BY <1>9, <2>2, <2>3
<1>12. m.mem \in [S!Addr -> Val]
  <2>1. m.mem = [a \in S!Addr |-> IF a < Len(ps) - 1 THEN ps[a + 1]
                                  ELSE IF S!Cbp - a \in 0 .. Len(cs) - 1 THEN cs[S!Cbp - a + 1] ELSE 0]
    BY <1>5 DEF Machine
  <2> QED
    BY <1>11, <2>1
<1> QED
  BY <1>5, <1>6, <1>7, <1>8, <1>9, <1>12 DEF Sound, Typed

\* What holds between operations: the registers and the memory of the machine hold words, a run
\* begins on stacks that are sound, and an error that was lost was that of the last operation.
Running ==
  /\ Typed(mach) /\ count \in Nat
  /\ mach.lost => Forgetful(last)
  /\ count = 0 => Sound(mach) /\ mach.err = "nil" /\ mach.reached = Nothing

LEMMA RunningHolds == Spec => []Running
<1>1. Init => Running
  <2> SUFFICES ASSUME Init PROVE Running
    OBVIOUS
  <2>1. PICK ps \in SeqOf(Args, Deep), cs \in SeqOf({W \div 4}, 1) : Len(ps) + Len(cs) <= Size /\ mach = Machine(ps, cs)
    BY DEF Init
  <2>2. Sound(mach) /\ mach.err = "nil" /\ mach.reached = Nothing /\ mach.lost = FALSE
    BY <2>1, MachineSound
  <2>3. Typed(mach)
    BY <2>1, MachineTyped
  <2> QED
    BY <2>2, <2>3 DEF Init, Running
<1>2. Running /\ [Next]_vars => Running'
  <2> SUFFICES ASSUME Running, [Next]_vars PROVE Running'
    OBVIOUS
  <2>1. CASE Step
    <3>1. PICK op \in Op : /\ mach' = Execute([mach EXCEPT !.reached = Nothing, !.lost = FALSE], op)
                           /\ last' = op /\ count' = count + 1
      BY <2>1 DEF Step
    <3>2. PICK m : m = [mach EXCEPT !.reached = Nothing, !.lost = FALSE]
      OBVIOUS
    <3>3. Typed(m) /\ m.lost = FALSE
      BY <3>2 DEF Running, Typed, Shaped
    <3>4. PICK t : t = Execute(m, op) /\ mach' = t
      BY <3>1, <3>2
    <3>5. Typed(t) /\ (t.lost => Forgetful(op))
      BY <3>3, <3>4, KeptExecute DEF Kept
    <3>6. Typed(mach)' /\ (mach'.lost => Forgetful(last)')
      BY <3>1, <3>4, <3>5 DEF Typed, Shaped, Forgetful
    <3>7. count' \in Nat /\ count' # 0
      BY <3>1 DEF Running
    <3> QED
      BY <3>6, <3>7 DEF Running
  <2>2. CASE UNCHANGED vars
    BY <2>2 DEF Running, vars, Typed, Shaped, Sound, Forgetful
  <2> QED
    BY <2>1, <2>2 DEF Next, Stopped
<1> QED
  BY <1>1, <1>2, PTL DEF Spec

\* No operation fails without stopping its machine, but for the three that forget an error.
THEOREM FailuresAreSeen == Spec => []FailuresStop
<1>1. Running => FailuresStop
  BY DEF Running, FailuresStop, Forgetful
<1> QED
  BY <1>1, RunningHolds, PTL

\* Of a conditional operation and its opposite exactly one goes, whatever is on the stacks.
THEOREM ZeroOrElse == Spec => []ZeroOrNot
<1>1. Running => ZeroOrNot
  <2> SUFFICES ASSUME Running, HasWords PROVE \A pair \in Pairs :
                 /\ \A x \in Args : OneGoes(pair, TRUE, x)
                 /\ pair[2] # "bnz" => OneGoes(pair, FALSE, 0)
    BY DEF ZeroOrNot
  <2>1. Sound(mach) /\ mach.err = "nil" /\ mach.reached = Nothing /\ mach.psp # S!Empty /\ mach.csp < S!Cbp
    BY DEF Running, HasWords
  <2>2. ASSUME NEW z \in {"jz", "fz", "bz", "hz"}, NEW nz \in {"jnz", "fnz", "bnz", "hnz"}
        PROVE  /\ \A x : OneGoes(<<z, nz>>, TRUE, x)
               /\ nz # "bnz" => OneGoes(<<z, nz>>, FALSE, 0)
    BY <2>1, OneOfPair
  <2>3. ASSUME NEW pair \in Pairs
        PROVE  /\ \A x \in Args : OneGoes(pair, TRUE, x)
               /\ pair[2] # "bnz" => OneGoes(pair, FALSE, 0)
    <3>1. PICK z \in {"jz", "fz", "bz", "hz"}, nz \in {"jnz", "fnz", "bnz", "hnz"} : pair = <<z, nz>>
      BY DEF Pairs
    <3>2. pair[2] = nz
      BY <3>1
    <3> QED
      BY <2>2, <3>1, <3>2
  <2> QED
    BY <2>3
<1> QED
  BY <1>1, RunningHolds, PTL

-----------------------------------------------------------------------------
(* An immediate in place of a word that is pushed *)

\* Two machines that differ in the word w at most, one that no program can tell.
Alike(a, b, w) ==
  /\ Shaped(a) /\ Shaped(b)
  /\ a.psp = b.psp /\ a.pa = b.pa /\ a.csp = b.csp /\ a.err = b.err /\ a.ip = b.ip
  /\ a.reached = b.reached /\ a.lost = b.lost
  /\ a.mem = [x \in S!Addr |-> a.mem[x]] /\ b.mem = [x \in S!Addr |-> b.mem[x]]
  /\ \A x \in S!Addr \ {w} : a.mem[x] = b.mem[x]
Hidden(m, w) == w <= m.csp /\ (m.psp = S!Empty \/ w >= m.psp)

LEMMA AlikeShown ==
  ASSUME NEW a, NEW b, NEW w, Alike(a, b, w), Hidden(a, w)
  PROVE  Shown(a) = Shown(b)
<1>1. PICK v1, v2 : v1 = (IF a.psp = S!Empty THEN 0 ELSE a.pa) /\ v2 = (IF b.psp = S!Empty THEN 0 ELSE b.pa)
  OBVIOUS
<1>2. PICK m1, m2 :
        /\ m1 = [x \in S!Addr |-> IF x <= a.csp /\ (a.psp = S!Empty \/ x >= a.psp) THEN 0 ELSE a.mem[x]]
        /\ m2 = [x \in S!Addr |-> IF x <= b.csp /\ (b.psp = S!Empty \/ x >= b.psp) THEN 0 ELSE b.mem[x]]
  OBVIOUS
<1>3. v1 = v2
  BY <1>1 DEF Alike
<1>4. m1 = m2
  <2>1. ASSUME NEW x \in S!Addr
        PROVE  (IF x <= a.csp /\ (a.psp = S!Empty \/ x >= a.psp) THEN 0 ELSE a.mem[x])
                 = (IF x <= b.csp /\ (b.psp = S!Empty \/ x >= b.psp) THEN 0 ELSE b.mem[x])
    BY DEF Alike, Hidden
  <2> QED
    BY <1>2, <2>1
<1>5. Shown(a) = [a EXCEPT !.pa = v1, !.mem = m1] /\ Shown(b) = [b EXCEPT !.pa = v2, !.mem = m2]
  BY <1>1, <1>2 DEF Shown
<1>6. [a EXCEPT !.pa = v1, !.mem = m1] = [b EXCEPT !.pa = v1, !.mem = m1]
  BY DEF Alike, Shaped
<1> QED
  BY <1>3, <1>4, <1>5, <1>6

\* After a push and a drop the machine differs in the word that was the head at most.
Room(m) == m.psp \in 0 .. S!Cbp - 1 /\ m.psp + 1 <= m.csp

LEMMA PushedIs ==
  ASSUME NEW m, Sound(m), m.err = "nil", m.psp # S!Empty, NEW x \in Val, S!Push(m, x).err = "nil"
  PROVE  /\ Room(m)
         /\ S!Push(m, x) = [m EXCEPT !.mem = [m.mem EXCEPT ![m.psp] = m.pa], !.pa = x, !.psp = m.psp + 1]
         /\ Sound(S!Push(m, x))
<1>1. PICK p : p = S!Up(m.psp)
  OBVIOUS
<1>2. p = m.psp + 1 /\ p > 0 /\ p < S!Empty /\ m.psp \in 0 .. S!Cbp /\ m.csp \in Nat
  BY <1>1, Sizes DEF Sound, S!Up, S!Wrap, S!Addr
<1>3. PICK t : t = S!Push(m, x)
  OBVIOUS
<1>4. ASSUME ~(p <= S!Cbp /\ p <= m.csp) PROVE FALSE
  <2>1. \/ p < S!Empty /\ p > S!Cbp
        \/ p < S!Empty /\ p <= S!Cbp /\ p > m.csp
    BY <1>2, <1>4, Sizes
  <2>2. t \in {S!Fail(m, "punder"), S!Fail(m, "pover")}
    BY <1>1, <1>3, <2>1 DEF S!Push
  <2>3. S!Fail(m, "punder").err = "punder" /\ S!Fail(m, "pover").err = "pover"
    BY DEF S!Fail, Sound, Shaped
  <2> QED
    BY <1>3, <2>2, <2>3
<1>5. ~(p < S!Empty /\ p > S!Cbp) /\ ~(p < S!Empty /\ p <= S!Cbp /\ p > m.csp)
  BY <1>2, <1>4, Sizes
<1>6. PICK mem : mem = [m.mem EXCEPT ![m.psp] = m.pa]
  OBVIOUS
<1>7. t = [m EXCEPT !.mem = mem, !.pa = x, !.psp = p]
  BY <1>1, <1>2, <1>3, <1>5, <1>6 DEF S!Push
<1>8. Room(m)
  BY <1>2, <1>4, Sizes DEF Room
<1>9. /\ t.mem = mem /\ t.pa = x /\ t.psp = p /\ t.csp = m.csp /\ Shaped(t)
  BY <1>7 DEF Sound, Shaped
<1>10. mem = [a \in S!Addr |-> mem[a]]
  BY <1>6 DEF Sound
<1>11. Sound(t)
  BY <1>2, <1>4, <1>9, <1>10 DEF Sound
<1> QED
  BY <1>2, <1>3, <1>6, <1>7, <1>8, <1>11

LEMMA PushedAndDropped ==
  ASSUME NEW m, Sound(m), m.err = "nil", m.psp # S!Empty, NEW x \in Val, S!Push(m, x).err = "nil"
  PROVE  LET t == S!Push(m, x)  d == S!Drop(t) IN
         /\ t.pa = x /\ d.err = "nil"
         /\ Alike(m, d, m.psp)
         /\ Sound(d)
<1>1. PICK mem : mem = [m.mem EXCEPT ![m.psp] = m.pa]
  OBVIOUS
<1>2. PICK t : t = S!Push(m, x)
  OBVIOUS
<1>3. Room(m) /\ t = [m EXCEPT !.mem = mem, !.pa = x, !.psp = m.psp + 1] /\ Sound(t)
  BY <1>1, <1>2, PushedIs
<1>4. /\ t.mem = mem /\ t.pa = x /\ t.psp = m.psp + 1 /\ t.csp = m.csp /\ t.err = m.err /\ t.ip = m.ip
      /\ t.reached = m.reached /\ t.lost = m.lost
  BY <1>3 DEF Sound, Shaped
<1>5. t.psp # S!Empty /\ t.psp # 0 /\ t.psp - 1 = m.psp
  BY <1>3, <1>4, Sizes DEF Room
<1>6. PICK d : d = S!Drop(t)
  OBVIOUS
<1>7. /\ Shaped(d)
      /\ d.err = t.err /\ d.csp = t.csp /\ d.mem = t.mem /\ d.reached = t.reached /\ d.lost = t.lost
      /\ d.ip = t.ip /\ d.psp = m.psp /\ d.pa = t.mem[m.psp]
  BY <1>3, <1>5, <1>6, DropServed
<1>8. m.psp \in S!Addr /\ m.mem = [a \in S!Addr |-> m.mem[a]] /\ Shaped(m)
  BY <1>3, Sizes DEF Room, S!Addr, Sound
<1>9. mem[m.psp] = m.pa /\ mem = [a \in S!Addr |-> mem[a]] /\ \A a \in S!Addr \ {m.psp} : mem[a] = m.mem[a]
  BY <1>1, <1>8
<1>10. Alike(m, d, m.psp)
  BY <1>4, <1>7, <1>8, <1>9 DEF Alike
<1>11. Sound(d)
  BY <1>4, <1>7, <1>9 DEF Sound
<1> QED
  BY <1>2, <1>4, <1>6, <1>7, <1>10, <1>11
\* As far as a program can tell, one machine.
Twins(a, b, w) == Alike(a, b, w) /\ (Hidden(a, w) \/ a.mem[w] = b.mem[w])

LEMMA TwinsShown ==
  ASSUME NEW a, NEW b, NEW w \in S!Addr, Twins(a, b, w)
  PROVE  Shown(a) = Shown(b)
<1>1. CASE Hidden(a, w)
  BY <1>1, AlikeShown DEF Twins
<1>2. CASE a.mem[w] = b.mem[w]
  <2>1. a.mem = b.mem
    <3>1. \A x \in S!Addr : a.mem[x] = b.mem[x]
      BY <1>2 DEF Twins, Alike
    <3> QED
      BY <3>1 DEF Twins, Alike
  <2>2. a = b
    BY <2>1 DEF Twins, Alike, Shaped
  <2> QED
    BY <2>2
<1> QED
  BY <1>1, <1>2 DEF Twins

\* A step that does not touch the stacks leaves twins what they are.
LEMMA TwinsFail ==
  ASSUME NEW a, NEW b, NEW w, Twins(a, b, w), NEW e
  PROVE  Twins(Fail(a, e), Fail(b, e), w)
BY DEF Twins, Alike, Shaped, Hidden, Fail

LEMMA TwinsPut ==
  ASSUME NEW a, NEW b, NEW w, Twins(a, b, w), NEW v
  PROVE  Twins(Put(a, v), Put(b, v), w)
BY DEF Twins, Alike, Shaped, Hidden, Put

LEMMA TwinsReach ==
  ASSUME NEW a, NEW b, NEW w, Twins(a, b, w), NEW r, NEW x
  PROVE  Twins(Reach(a, r, x), Reach(b, r, x), w)
BY DEF Twins, Alike, Shaped, Hidden, Reach

LEMMA TwinsJump ==
  ASSUME NEW a, NEW b, NEW w, Twins(a, b, w), NEW r, NEW x
  PROVE  Twins(JumpTo(a, r, x), JumpTo(b, r, x), w)
<1>1. PICK u, v : u = Reach(a, r, x) /\ v = Reach(b, r, x)
  OBVIOUS
<1>2. Twins(u, v, w)
  BY <1>1, TwinsReach
<1>3. Twins([u EXCEPT !.ip = x], [v EXCEPT !.ip = x], w)
  BY <1>2 DEF Twins, Alike, Shaped, Hidden
<1>4. Twins(Fail(u, "segfault"), Fail(v, "segfault"), w)
  BY <1>2, TwinsFail
<1> QED
  BY <1>1, <1>3, <1>4 DEF JumpTo

\* The word beyond the stack space that an address is in, and the next one.
LEMMA Beyond ==
  ASSUME NEW a \in Val, a > CbpByte, a + 4 <= W, NEW w \in Nat, w < S!Cbp
  PROVE  /\ a \div 4 \in S!Addr /\ a \div 4 # w
         /\ a % 4 # 0 => S!Up(a \div 4) \in S!Addr /\ S!Up(a \div 4) # w
         /\ ~Misaligned(a)
<1>1. PICK q, r : q = a \div 4 /\ r = a % 4
  OBVIOUS
<1>2. q \in Nat /\ r \in 0 .. 3 /\ a = 4 * q + r
  BY <1>1, Sizes DEF Val
<1>3. q >= S!Cbp /\ q <= Words - 1 /\ (r # 0 => q + 1 <= Words - 1)
  BY <1>2, Sizes
<1>4. r # 0 => S!Up(q) = q + 1
  BY <1>2, <1>3, Sizes DEF S!Up, S!Wrap
<1>5. ~Misaligned(a)
  BY Sizes DEF Misaligned, Val
<1> QED
  BY <1>1, <1>2, <1>3, <1>4, <1>5, Sizes DEF S!Addr

LEMMA TwinsLoad ==
  ASSUME NEW m, NEW d, NEW w \in Nat, w < S!Cbp, Alike(m, d, w), NEW a \in Val, a > CbpByte, a + 4 <= W
  PROVE  Load(m, a) = Load(d, a)
<1>1. PICK q, p : q = a \div 4 /\ p = S!Up(a \div 4)
  OBVIOUS
<1>2. m.mem[q] = d.mem[q] /\ (a % 4 # 0 => m.mem[p] = d.mem[p])
  BY <1>1, Beyond DEF Alike
<1>3. CASE a % 4 = 0
  BY <1>1, <1>2, <1>3 DEF Load
<1>4. CASE a % 4 # 0
  BY <1>1, <1>2, <1>4 DEF Load
<1> QED
  BY <1>3, <1>4

LEMMA TwinsWrite ==
  ASSUME NEW m, NEW d, NEW w, Twins(m, d, w), NEW q \in S!Addr \ {w}, NEW v
  PROVE  Twins(Write(m, q, v), Write(d, q, v), w)
<1>1. PICK f, g : f = [m.mem EXCEPT ![q] = v] /\ g = [d.mem EXCEPT ![q] = v]
  OBVIOUS
<1>2. /\ f = [x \in S!Addr |-> f[x]] /\ g = [x \in S!Addr |-> g[x]]
      /\ \A x \in S!Addr \ {w} : f[x] = g[x]
      /\ m.mem[w] = d.mem[w] => f[w] = g[w]
  BY <1>1 DEF Twins, Alike
<1>3. Twins([m EXCEPT !.mem = f], [d EXCEPT !.mem = g], w)
  BY <1>2 DEF Twins, Alike, Shaped, Hidden
<1> QED
  BY <1>1, <1>3 DEF Write

LEMMA TwinsSave ==
  ASSUME NEW m, NEW d, NEW w \in Nat, w < S!Cbp, Twins(m, d, w), NEW a \in Val, a > CbpByte, a + 4 <= W, NEW v
  PROVE  Twins(Save(m, a, v), Save(d, a, v), w)
<1>1. PICK q, p : q = a \div 4 /\ p = S!Up(a \div 4)
  OBVIOUS
<1>2. /\ q \in S!Addr \ {w} /\ (a % 4 # 0 => p \in S!Addr \ {w})
      /\ m.mem[q] = d.mem[q] /\ (a % 4 # 0 => m.mem[p] = d.mem[p])
  BY <1>1, Beyond DEF Twins, Alike
<1>3. CASE a % 4 = 0
  <2>1. Save(m, a, v) = Write(m, q, v)
    BY <1>1, <1>3 DEF Save
  <2>2. Save(d, a, v) = Write(d, q, v)
    BY <1>1, <1>3 DEF Save
  <2> QED
    BY <1>2, <2>1, <2>2, TwinsWrite
<1>4. CASE a % 4 # 0
  <2>1. PICK low, high : low = ByteBase ^ (a % 4) /\ high = ByteBase ^ (4 - (a % 4))
    OBVIOUS
  <2>2. PICK v1 : v1 = (m.mem[q] % low) + (v % high) * low
    OBVIOUS
  <2>3. PICK m1, d1 : m1 = Write(m, q, v1) /\ d1 = Write(d, q, v1)
    OBVIOUS
  <2>4. Twins(m1, d1, w)
    BY <1>2, <2>3, TwinsWrite
  <2>5. m1.mem[p] = d1.mem[p]
    BY <1>2, <1>4, <2>4 DEF Twins, Alike
  <2>6. PICK v2 : v2 = (m1.mem[p] - (m1.mem[p] % low)) + v \div high
    OBVIOUS
  <2>7. Save(m, a, v) = Write(m1, p, v2)
    BY <1>1, <1>4, <2>1, <2>2, <2>3, <2>6 DEF Save
  <2>8. Save(d, a, v) = Write(d1, p, v2)
    BY <1>1, <1>2, <1>4, <2>1, <2>2, <2>3, <2>5, <2>6 DEF Save
  <2> QED
    BY <1>2, <1>4, <2>4, <2>7, <2>8, TwinsWrite
<1> QED
  BY <1>3, <1>4

LEMMA TwinsMemory ==
  ASSUME NEW m, NEW d, NEW w \in Nat, w < S!Cbp, Twins(m, d, w), NEW a \in Val, a > CbpByte, a + 4 <= W
  PROVE  /\ \A v : Twins(Store(m, a, v), Store(d, a, v), w)
         /\ \A o \in BitOps : \A n : Twins(BitAt(m, o, a, n), BitAt(d, o, a, n), w)
<1>1. ~Misaligned(a)
  BY Beyond
<1>2. ASSUME NEW v PROVE Twins(Store(m, a, v), Store(d, a, v), w)
  BY <1>1, TwinsSave DEF Store
<1>3. ASSUME NEW o \in BitOps, NEW n PROVE Twins(BitAt(m, o, a, n), BitAt(d, o, a, n), w)
  <2>1. PICK v : v = Load(m, a) /\ v = Load(d, a)
    BY TwinsLoad DEF Twins
  <2>2. PICK v1, v2, v3 : v1 = Truth(HasBit(v, n)) /\ v2 = Truth(~HasBit(v, n)) /\ v3 = WithBit(v, n)
    OBVIOUS
  <2>3. PICK v4 : v4 = WithoutBit(v, n)
    OBVIOUS
  <2>4. PICK s1, s2 : s1 = Save(m, a, v3) /\ s2 = Save(d, a, v3)
    OBVIOUS
  <2>5. PICK s3, s4 : s3 = Save(m, a, v4) /\ s4 = Save(d, a, v4)
    OBVIOUS
  <2>6. Twins(s1, s2, w) /\ Twins(s3, s4, w)
    BY <2>4, <2>5, TwinsSave
  <2>7. Twins(Put(m, v1), Put(d, v1), w) /\ Twins(Put(s1, v2), Put(s2, v2), w) /\ Twins(Put(s3, v1), Put(s4, v1), w)
    BY <2>6, TwinsPut
  <2>8. CASE o = "bitest"
    BY <1>1, <2>1, <2>2, <2>7, <2>8 DEF BitAt
  <2>9. CASE o \in {"bitset", "bitseta"}
    BY <1>1, <2>1, <2>2, <2>4, <2>6, <2>7, <2>9 DEF BitAt
  <2>10. CASE o \in {"bitost", "bitosta"}
    BY <1>1, <2>1, <2>2, <2>3, <2>5, <2>6, <2>7, <2>10 DEF BitAt
  <2> QED
    BY <2>8, <2>9, <2>10 DEF BitOps
<1> QED
  BY <1>2, <1>3

\* The machine before the push, and after it and the pop of what it pushed.
Around(m, d) == /\ Sound(m) /\ Sound(d) /\ m.err = "nil" /\ d.err = "nil"
                /\ Room(m) /\ Alike(m, d, m.psp)

LEMMA AroundIs ==
  ASSUME NEW m, NEW d, Around(m, d)
  PROVE  /\ m.psp \in Nat /\ m.psp < S!Cbp /\ m.psp \in S!Addr /\ m.psp # S!Empty
         /\ m.csp \in S!Addr /\ m.psp < m.csp /\ m.pa \in Val
         /\ d.psp = m.psp /\ d.pa = m.pa /\ d.csp = m.csp /\ d.ip = m.ip
         /\ Twins(m, d, m.psp)
<1>1. m.psp \in Nat /\ m.psp < S!Cbp /\ m.psp \in S!Addr /\ m.psp # S!Empty /\ m.csp \in S!Addr /\ m.psp < m.csp
  BY Sizes DEF Around, Room, Sound, S!Addr
<1>2. Hidden(m, m.psp)
  BY <1>1 DEF Hidden, S!Addr
<1> QED
  BY <1>1, <1>2 DEF Around, Alike, Twins, Sound

LEMMA AroundDrop ==
  ASSUME NEW m, NEW d, Around(m, d)
  PROVE  /\ S!Drop(m).err = "nil" /\ S!Drop(d).err = "nil"
         /\ Twins(S!Drop(m), S!Drop(d), m.psp)
<1>1. PICK u, v : u = S!Drop(m) /\ v = S!Drop(d)
  OBVIOUS
<1>2. /\ m.psp \in Nat /\ m.psp < S!Cbp /\ m.psp \in S!Addr /\ m.psp # S!Empty
      /\ m.csp \in S!Addr /\ m.psp < m.csp /\ d.psp = m.psp /\ d.pa = m.pa
  BY AroundIs
<1>3. /\ Shaped(u) /\ u.err = m.err /\ u.csp = m.csp /\ u.mem = m.mem /\ u.reached = m.reached /\ u.lost = m.lost
      /\ u.ip = m.ip
      /\ u.psp = (IF m.psp = 0 THEN S!Empty ELSE m.psp - 1) /\ u.pa = (IF m.psp = 0 THEN m.pa ELSE m.mem[m.psp - 1])
  BY <1>1, <1>2, DropServed DEF Around
<1>4. /\ Shaped(v) /\ v.err = d.err /\ v.csp = d.csp /\ v.mem = d.mem /\ v.reached = d.reached /\ v.lost = d.lost
      /\ v.ip = d.ip
      /\ v.psp = (IF d.psp = 0 THEN S!Empty ELSE d.psp - 1) /\ v.pa = (IF d.psp = 0 THEN d.pa ELSE d.mem[d.psp - 1])
  BY <1>1, <1>2, DropServed DEF Around
<1>5. m.psp # 0 => m.psp - 1 \in S!Addr \ {m.psp}
  BY <1>2, Sizes DEF S!Addr
<1>6. u.pa = v.pa /\ u.psp = v.psp
  BY <1>2, <1>3, <1>4, <1>5 DEF Around, Alike
<1>7. Alike(u, v, m.psp)
  BY <1>3, <1>4, <1>6 DEF Around, Alike
<1>8. Hidden(u, m.psp)
  BY <1>2, <1>3, Sizes DEF Hidden, S!Addr
<1> QED
  BY <1>1, <1>3, <1>4, <1>7, <1>8 DEF Around, Twins

LEMMA AroundPush ==
  ASSUME NEW m, NEW d, Around(m, d), NEW v
  PROVE  /\ S!Push(m, v).err = "nil" /\ S!Push(d, v).err = "nil"
         /\ Twins(S!Push(m, v), S!Push(d, v), m.psp)
<1>1. PICK p : p = S!Up(m.psp)
  OBVIOUS
<1>2. /\ m.psp \in Nat /\ m.psp < S!Cbp /\ m.psp \in S!Addr
      /\ m.csp \in S!Addr /\ m.psp < m.csp /\ d.psp = m.psp /\ d.pa = m.pa /\ d.csp = m.csp
  BY AroundIs
<1>3. p = m.psp + 1 /\ p > 0 /\ p <= S!Cbp /\ p <= m.csp
  BY <1>1, <1>2, Sizes DEF S!Up, S!Wrap, S!Addr
<1>4. ~(p < S!Empty /\ p > S!Cbp) /\ ~(p < S!Empty /\ p <= S!Cbp /\ p > m.csp)
  BY <1>2, <1>3, Sizes DEF S!Addr
<1>5. PICK f, g : f = [m.mem EXCEPT ![m.psp] = m.pa] /\ g = [d.mem EXCEPT ![m.psp] = m.pa]
  OBVIOUS
<1>6. PICK t : t = [m EXCEPT !.mem = f, !.pa = v, !.psp = p]
  OBVIOUS
<1>7. PICK u : u = [d EXCEPT !.mem = g, !.pa = v, !.psp = p]
  OBVIOUS
<1>8. S!Push(m, v) = t /\ S!Push(d, v) = u
  <2>1. S!Push(m, v) = t
    BY <1>1, <1>3, <1>4, <1>5, <1>6 DEF S!Push
  <2>2. S!Push(d, v) = u
    BY <1>1, <1>2, <1>3, <1>4, <1>5, <1>7 DEF S!Push
  <2> QED
    BY <2>1, <2>2
<1>9. /\ Shaped(t) /\ t.mem = f /\ t.pa = v /\ t.psp = p /\ t.csp = m.csp /\ t.err = m.err /\ t.ip = m.ip
      /\ t.reached = m.reached /\ t.lost = m.lost
  BY <1>6 DEF Around, Alike, Shaped
<1>10. /\ Shaped(u) /\ u.mem = g /\ u.pa = v /\ u.psp = p /\ u.csp = d.csp /\ u.err = d.err /\ u.ip = d.ip
       /\ u.reached = d.reached /\ u.lost = d.lost
  BY <1>7 DEF Around, Alike, Shaped
<1>11. /\ f = [x \in S!Addr |-> f[x]] /\ g = [x \in S!Addr |-> g[x]]
       /\ \A x \in S!Addr : f[x] = g[x]
  BY <1>2, <1>5 DEF Around, Alike
<1>12. Alike(t, u, m.psp)
  BY <1>9, <1>10, <1>11 DEF Around, Alike
<1> QED
  BY <1>2, <1>8, <1>9, <1>10, <1>11, <1>12 DEF Twins, Around

LEMMA AroundCPush ==
  ASSUME NEW m, NEW d, Around(m, d), NEW v
  PROVE  /\ S!CPush(m, v).err = "nil" /\ S!CPush(d, v).err = "nil"
         /\ Twins(S!CPush(m, v), S!CPush(d, v), m.psp)
<1>1. PICK c : c = S!Down(m.csp)
  OBVIOUS
<1>2. /\ m.psp \in Nat /\ m.psp < S!Cbp /\ m.psp \in S!Addr
      /\ m.csp \in S!Addr /\ m.psp < m.csp /\ d.psp = m.psp /\ d.csp = m.csp
  BY AroundIs
<1>3. c = m.csp - 1 /\ c \in Nat /\ c >= m.psp /\ ~(c < m.psp)
  BY <1>1, <1>2, Sizes DEF S!Down, S!Wrap, S!Addr
<1>4. PICK f, g : f = [m.mem EXCEPT ![m.csp] = v] /\ g = [d.mem EXCEPT ![m.csp] = v]
  OBVIOUS
<1>5. PICK t : t = [m EXCEPT !.mem = f, !.csp = c]
  OBVIOUS
<1>6. PICK u : u = [d EXCEPT !.mem = g, !.csp = c]
  OBVIOUS
<1>7. S!CPush(m, v) = t /\ S!CPush(d, v) = u
  <2>1. S!CPush(m, v) = t
    BY <1>1, <1>3, <1>4, <1>5 DEF S!CPush
  <2>2. S!CPush(d, v) = u
    BY <1>1, <1>2, <1>3, <1>4, <1>6 DEF S!CPush
  <2> QED
    BY <2>1, <2>2
<1>8. /\ Shaped(t) /\ t.mem = f /\ t.pa = m.pa /\ t.psp = m.psp /\ t.csp = c /\ t.err = m.err /\ t.ip = m.ip
      /\ t.reached = m.reached /\ t.lost = m.lost
  BY <1>5 DEF Around, Alike, Shaped
<1>9. /\ Shaped(u) /\ u.mem = g /\ u.pa = d.pa /\ u.psp = d.psp /\ u.csp = c /\ u.err = d.err /\ u.ip = d.ip
      /\ u.reached = d.reached /\ u.lost = d.lost
  BY <1>6 DEF Around, Alike, Shaped
<1>10. /\ f = [x \in S!Addr |-> f[x]] /\ g = [x \in S!Addr |-> g[x]]
       /\ \A x \in S!Addr \ {m.psp} : f[x] = g[x]
  BY <1>2, <1>4 DEF Around, Alike
<1>11. Alike(t, u, m.psp)
  BY <1>8, <1>9, <1>10 DEF Around, Alike
<1>12. Hidden(t, m.psp)
  BY <1>2, <1>3, <1>8 DEF Hidden
<1> QED
  BY <1>7, <1>8, <1>9, <1>11, <1>12 DEF Twins, Around
\* t is m after a push of x, and d is t after a pop.
Pushed(m, t, d, x) == Around(m, d) /\ x \in Val /\ t.pa = x /\ d = S!Drop(t)
Imm(o, x) == [name |-> o, imm |-> TRUE, arg |-> x]
Plain(o) == [name |-> o, imm |-> FALSE, arg |-> 0]

LEMMA SameBinary ==
  ASSUME NEW m, NEW t, NEW d, NEW x, Pushed(m, t, d, x), NEW o \in Binary \ {"gte"}
  PROVE  Twins(Execute(m, Imm(o, x)), Execute(t, Plain(o)), m.psp)
<1>1. d.err = "nil" /\ d.pa = m.pa /\ Twins(m, d, m.psp) /\ t.pa = x
  BY AroundIs DEF Pushed, Around
<1>2. Execute(m, Imm(o, x)) = BinaryOp(m, Imm(o, x)) /\ Execute(t, Plain(o)) = BinaryOp(t, Plain(o))
  BY ExecuteIs DEF Imm, Plain
<1>3. BinaryOp(m, Imm(o, x)) = Compute(m, o, x)
  BY DEF BinaryOp, WithOperand, Imm
<1>4. BinaryOp(t, Plain(o)) = Compute(d, o, x)
  BY <1>1 DEF BinaryOp, WithOperand, Popping, Plain, Pushed
<1>5. PICK v : v = Result(o, m.pa, x) /\ v = Result(o, d.pa, x)
  BY <1>1
<1>6. Twins(Put(m, v), Put(d, v), m.psp) /\ Twins(Fail(m, "panic"), Fail(d, "panic"), m.psp)
  BY <1>1, TwinsPut, TwinsFail
<1>7. Twins(Compute(m, o, x), Compute(d, o, x), m.psp)
  BY <1>5, <1>6 DEF Compute
<1> QED
  BY <1>2, <1>3, <1>4, <1>7

LEMMA SameFetch ==
  ASSUME NEW m, NEW t, NEW d, NEW x, Pushed(m, t, d, x), x > CbpByte, x + 4 <= W
  PROVE  Twins(Execute(m, Imm("fetch", x)), Execute(t, Plain("fetch")), m.psp)
<1>1. /\ d.err = "nil" /\ d.pa = m.pa /\ Twins(m, d, m.psp) /\ t.pa = x
      /\ x \in Val /\ Around(m, d) /\ m.psp \in Nat /\ m.psp < S!Cbp
  BY AroundIs DEF Pushed, Around
<1>2. Execute(m, Imm("fetch", x)) = FetchOp(m, Imm("fetch", x)) /\ Execute(t, Plain("fetch")) = FetchOp(t, Plain("fetch"))
  BY ExecuteIs DEF Imm, Plain
<1>3. ~Misaligned(x)
  BY <1>1, Beyond
<1>4. PICK v : v = Load(m, x) /\ v = Load(d, x)
  BY <1>1, TwinsLoad DEF Twins
<1>5. Fetch(m, x) = S!Push(m, v) /\ Fetch(d, x) = S!Push(d, v)
  BY <1>3, <1>4 DEF Fetch
<1>6. S!Push(d, v).err = "nil" /\ Twins(S!Push(m, v), S!Push(d, v), m.psp)
  BY <1>1, AroundPush
<1>7. FetchOp(m, Imm("fetch", x)) = Fetch(m, x)
  BY DEF FetchOp, Imm
<1>8. FetchOp(t, Plain("fetch")) = Fetch(d, x)
  BY <1>1, <1>5, <1>6 DEF FetchOp, Popping, Plain, Pushed
<1> QED
  BY <1>2, <1>5, <1>6, <1>7, <1>8

LEMMA SameStore ==
  ASSUME NEW m, NEW t, NEW d, NEW x, Pushed(m, t, d, x), NEW o \in {"store", "storeTo"}, NEW a,
         a = (IF o = "store" THEN m.pa ELSE x), a > CbpByte, a + 4 <= W
  PROVE  Twins(Execute(m, Imm(o, x)), Execute(t, Plain(o)), m.psp)
<1>1. /\ d.err = "nil" /\ d.pa = m.pa /\ Twins(m, d, m.psp) /\ t.pa = x /\ m.pa \in Val
      /\ x \in Val /\ Around(m, d) /\ m.psp \in Nat /\ m.psp < S!Cbp /\ d = S!Drop(t)
  BY AroundIs DEF Pushed, Around
<1>2. PICK u, e : /\ u = S!Drop(m) /\ e = S!Drop(d) /\ u.err = "nil" /\ e.err = "nil"
                  /\ Twins(u, e, m.psp)
  BY <1>1, AroundDrop
<1>3. a \in Val
  BY <1>1
<1>4. \A v : Twins(Store(u, a, v), Store(e, a, v), m.psp)
  BY <1>1, <1>2, <1>3, TwinsMemory
<1>5. CASE o = "store"
  <2>1. Execute(m, Imm(o, x)) = StoreThis(m, x) /\ Execute(t, Plain(o)) = StoreThis(d, x)
    BY <1>1, <1>5, ExecuteIs, StoreIs DEF Imm, Plain
  <2>2. StoreThis(m, x) = Store(u, a, x) /\ StoreThis(d, x) = Store(e, a, x)
    BY <1>1, <1>2, <1>5 DEF StoreThis, Popping
  <2> QED
    BY <1>4, <2>1, <2>2
<1>6. CASE o = "storeTo"
  <2>1. Execute(m, Imm(o, x)) = StoreAt(m, x) /\ Execute(t, Plain(o)) = StoreAt(d, x)
    BY <1>1, <1>6, ExecuteIs, StoreIs DEF Imm, Plain
  <2>2. StoreAt(m, x) = Store(u, a, m.pa) /\ StoreAt(d, x) = Store(e, a, m.pa)
    BY <1>1, <1>2, <1>6 DEF StoreAt, Popping
  <2> QED
    BY <1>4, <2>1, <2>2
<1> QED
  BY <1>5, <1>6

LEMMA SameBits ==
  ASSUME NEW m, NEW t, NEW d, NEW x, Pushed(m, t, d, x), NEW o \in BitOps, NEW a,
         a = (x + m.pa \div Bits) % W, a > CbpByte, a + 4 <= W
  PROVE  Twins(Execute(m, Imm(o, x)), Execute(t, Plain(o)), m.psp)
<1>1. /\ d.err = "nil" /\ d.pa = m.pa /\ Twins(m, d, m.psp) /\ t.pa = x /\ m.pa \in Val
      /\ x \in Val /\ Around(m, d) /\ m.psp \in Nat /\ m.psp < S!Cbp /\ d = S!Drop(t)
  BY AroundIs DEF Pushed, Around
<1>2. PICK u, e : /\ u = S!Drop(m) /\ e = S!Drop(d) /\ u.err = "nil" /\ e.err = "nil"
                  /\ Twins(u, e, m.psp)
  BY <1>1, AroundDrop
<1>3. a \in Val
  BY <1>1, Sizes DEF Val
<1>4. PICK n : n = m.pa % Bits
  OBVIOUS
<1>5. Twins(BitAt(u, o, a, n), BitAt(e, o, a, n), m.psp) /\ Twins(BitAt(m, o, a, n), BitAt(d, o, a, n), m.psp)
  BY <1>1, <1>2, <1>3, TwinsMemory
<1>6. \A s : Bit(s, o, x, m.pa) = BitAt(s, o, a, n)
  BY <1>4 DEF Bit
<1>7. Execute(m, Imm(o, x)) = BitOp(m, Imm(o, x)) /\ Execute(t, Plain(o)) = BitOp(t, Plain(o))
  BY ExecuteIs DEF Imm, Plain
<1>8. CASE o \in {"bitset", "bitost"}
  <2>1. BitOp(m, Imm(o, x)) = Bit(u, o, x, m.pa)
    BY <1>2, <1>8 DEF BitOp, WithOperand, Popping, Imm
  <2>2. BitOp(t, Plain(o)) = Bit(e, o, x, m.pa)
    BY <1>1, <1>2, <1>8 DEF BitOp, WithOperand, Popping, Plain
  <2> QED
    BY <1>5, <1>6, <1>7, <2>1, <2>2
<1>9. CASE o \notin {"bitset", "bitost"}
  <2>1. BitOp(m, Imm(o, x)) = Bit(m, o, x, m.pa)
    BY <1>9 DEF BitOp, WithOperand, Imm
  <2>2. BitOp(t, Plain(o)) = Bit(d, o, x, m.pa)
    BY <1>1, <1>9 DEF BitOp, WithOperand, Popping, Plain
  <2> QED
    BY <1>5, <1>6, <1>7, <2>1, <2>2
<1> QED
  BY <1>8, <1>9

LEMMA SameRoutine ==
  ASSUME NEW m, NEW t, NEW d, NEW x, Pushed(m, t, d, x), NEW o \in {"jump", "call", "fork", "branch"}
  PROVE  Twins(Execute(m, Imm(o, x)), Execute(t, Plain(o)), m.psp)
<1>1. /\ d.err = "nil" /\ d.pa = m.pa /\ d.ip = m.ip /\ Twins(m, d, m.psp) /\ t.pa = x
      /\ Around(m, d) /\ d = S!Drop(t)
  BY AroundIs DEF Pushed, Around
<1>2. CASE o = "jump"
  <2>1. Execute(m, Imm(o, x)) = JumpOp(m, Imm(o, x)) /\ Execute(t, Plain(o)) = JumpOp(t, Plain(o))
    BY <1>2, ExecuteIs DEF Imm, Plain
  <2>2. JumpOp(m, Imm(o, x)) = Jump(m, x) /\ JumpOp(t, Plain(o)) = Jump(d, x)
    BY <1>1, <1>2 DEF JumpOp, WithOperand, Popping, Imm, Plain
  <2>3. Twins(Jump(m, x), Jump(d, x), m.psp)
    BY <1>1, TwinsJump DEF Jump
  <2> QED
    BY <2>1, <2>2, <2>3
<1>3. CASE o = "call"
  <2>1. Execute(m, Imm(o, x)) = ControlOp(m, Imm(o, x)) /\ Execute(t, Plain(o)) = ControlOp(t, Plain(o))
    BY <1>3, ExecuteIs DEF Imm, Plain
  <2>2. ControlOp(m, Imm(o, x)) = Call(m, x) /\ ControlOp(t, Plain(o)) = Call(d, x)
    BY <1>1, <1>3 DEF ControlOp, WithOperand, Popping, Imm, Plain
  <2>3. PICK u, e : /\ u = S!CPush(m, m.ip) /\ e = S!CPush(d, d.ip) /\ u.err = "nil" /\ e.err = "nil"
                    /\ Twins(u, e, m.psp)
    BY <1>1, AroundCPush
  <2>4. Call(m, x) = JumpTo(u, "call", x) /\ Call(d, x) = JumpTo(e, "call", x)
    BY <2>3 DEF Call
  <2>5. Twins(Call(m, x), Call(d, x), m.psp)
    BY <2>3, <2>4, TwinsJump
  <2> QED
    BY <2>1, <2>2, <2>5
<1>4. CASE o = "fork"
  <2>1. Execute(m, Imm(o, x)) = ForkOp(m, Imm(o, x)) /\ Execute(t, Plain(o)) = ForkOp(t, Plain(o))
    BY <1>4, ExecuteIs DEF Imm, Plain
  <2>2. ForkOp(m, Imm(o, x)) = Copying("fork", m, x) /\ ForkOp(t, Plain(o)) = Copying("fork", d, x)
    BY <1>1, <1>4 DEF ForkOp, WithOperand, Popping, Imm, Plain
  <2> QED
    BY <1>1, <2>1, <2>2, TwinsReach DEF Copying
<1>5. CASE o = "branch"
  <2>1. Execute(m, Imm(o, x)) = BranchOp(m, Imm(o, x)) /\ Execute(t, Plain(o)) = BranchOp(t, Plain(o))
    BY <1>5, ExecuteIs DEF Imm, Plain
  <2>2. BranchOp(m, Imm(o, x)) = Copying("branch", m, x) /\ BranchOp(t, Plain(o)) = Copying("branch", d, x)
    BY <1>1, <1>5 DEF BranchOp, WithOperand, Popping, Imm, Plain
  <2> QED
    BY <1>1, <2>1, <2>2, TwinsReach DEF Copying
<1> QED
  BY <1>2, <1>3, <1>4, <1>5

LEMMA SameForAll ==
  ASSUME NEW m, Sound(m), NEW x \in Val, NEW o \in Alternative \ Faulty
  PROVE  SameAsPushed(m, o, x)
<1> SUFFICES ASSUME m.err = "nil", m.psp # S!Empty, S!Push(m, x).err = "nil", Outside(m, o, x)
             PROVE  Shown(Execute(m, Imm(o, x))) = Shown(Execute(S!Push(m, x), Plain(o)))
  BY DEF SameAsPushed, Imm, Plain
<1>1. PICK t, d : t = S!Push(m, x) /\ d = S!Drop(t)
  OBVIOUS
<1>2. Pushed(m, t, d, x)
  BY <1>1, PushedIs, PushedAndDropped DEF Pushed, Around
<1>3. Twins(Execute(m, Imm(o, x)), Execute(t, Plain(o)), m.psp)
  <2>1. CASE o \in Binary
    BY <1>2, <2>1, SameBinary DEF Faulty
  <2>2. CASE o \in BitOps
    <3>1. PICK a : a = (x + m.pa \div Bits) % W
      OBVIOUS
    <3>2. a > CbpByte /\ a + 4 <= W
      BY <2>2, <3>1 DEF Outside, BitOps
    <3> QED
      BY <1>2, <2>2, <3>1, <3>2, SameBits
  <2>3. CASE o = "fetch"
    <3>1. x > CbpByte /\ x + 4 <= W
      BY <2>3 DEF Outside, BitOps
    <3> QED
      BY <1>2, <2>3, <3>1, SameFetch
  <2>4. CASE o = "store"
    <3>1. m.pa > CbpByte /\ m.pa + 4 <= W
      BY <2>4 DEF Outside, BitOps
    <3> QED
      BY <1>2, <2>4, <3>1, SameStore
  <2>5. CASE o = "storeTo"
    <3>1. x > CbpByte /\ x + 4 <= W
      BY <2>5 DEF Outside, BitOps
    <3> QED
      BY <1>2, <2>5, <3>1, SameStore
  <2>6. CASE o \in {"jump", "call", "fork", "branch"}
    BY <1>2, <2>6, SameRoutine
  <2> QED
    BY <2>1, <2>2, <2>3, <2>4, <2>5, <2>6 DEF Alternative, Faulty
<1>4. m.psp \in S!Addr
  BY <1>2, AroundIs DEF Pushed
<1> QED
  BY <1>1, <1>3, <1>4, TwinsShown

\* An operation with an immediate does what it does after a push of its operand, as far as a
\* program can tell, for every operand and whatever is on the stacks when a run begins.
THEOREM ImmediateIsPushed == Spec => []ImmAlternative
<1>1. Running => ImmAlternative
  <2>1. Args \subseteq Val
    BY ArgsAssumption DEF Val, W
  <2> QED
    BY <2>1, SameForAll DEF Running, ImmAlternative
<1> QED
  BY <1>1, RunningHolds, PTL

-----------------------------------------------------------------------------
(* What is computed *)

\* divmod without an immediate divides the head by the word below it.
LEMMA DivmodDivides ==
  ASSUME NEW m, Sound(m), m.mem \in [S!Addr -> Val], m.psp \in 1 .. S!Cbp, m.err = "nil"
  PROVE  LET d == Execute(m, Plain("divmod"))  b == m.mem[m.psp - 1] IN
         d.err = "nil" /\ m.pa < W \div 2 /\ b < W \div 2 =>
           d.pa * b + d.mem[d.psp - 1] = m.pa /\ d.mem[d.psp - 1] < b
<1>1. PICK d : d = Execute(m, Plain("divmod"))
  OBVIOUS
<1>2. d = DivmodOp(m, Plain("divmod"))
  BY <1>1, ExecuteIs DEF Plain
<1>3. PICK a : a = S!Ref(m, 2)
  OBVIOUS
<1>4. a = m.psp - 1 /\ a \in S!Addr /\ m.psp \in S!Addr
  BY <1>3, Sizes DEF S!Ref, S!Wrap, S!Addr
<1>5. PICK b \in Val : b = m.mem[a]
  BY <1>4
<1> SUFFICES ASSUME d.err = "nil", m.pa < W \div 2, b < W \div 2
             PROVE  d.pa * b + d.mem[d.psp - 1] = m.pa /\ d.mem[d.psp - 1] < b
  BY <1>1, <1>4, <1>5
<1>6. PICK q, r : q = m.pa \div b /\ r = Rem(m.pa, b)
  OBVIOUS
<1>7. PICK f : f = [m.mem EXCEPT ![a] = r]
  OBVIOUS
<1>8. /\ d \in {Fail(m, "punder"), Fail(m, "panic"), [m EXCEPT !.pa = q, !.mem = f]}
      /\ b = 0 => d # [m EXCEPT !.pa = q, !.mem = f] \/ d.err # "nil"
  <2>1. PICK e : e = [m EXCEPT !.pa = q, !.mem = f]
    OBVIOUS
  <2>2. d = CASE ~S!InParams(m, 2) -> Fail(m, "punder")
              [] S!InParams(m, 2) /\ b = 0 -> Fail(m, "panic")
              [] OTHER -> e
    BY <1>2, <1>3, <1>5, <1>6, <1>7, <2>1 DEF DivmodOp, Plain
  <2>3. Fail(m, "punder").err # "nil" /\ Fail(m, "panic").err # "nil"
    BY DEF Fail, Sound, Shaped
  <2> QED
    BY <2>1, <2>2, <2>3
<1>9. Fail(m, "punder").err # "nil" /\ Fail(m, "panic").err # "nil"
  BY DEF Fail, Sound, Shaped
<1>10. b # 0 /\ d = [m EXCEPT !.pa = q, !.mem = f]
  BY <1>8, <1>9
<1>11. d.pa = q /\ d.mem = f /\ d.psp = m.psp
  BY <1>10 DEF Sound, Shaped
<1>12. f[a] = r
  BY <1>4, <1>7
<1>13. m.pa \in Val /\ m.pa = b * q + r /\ r < b /\ q \in Int /\ r \in Int /\ b \in Int
  <2>1. m.pa \in Val /\ m.pa \in Nat /\ b \in Nat \ {0}
    BY <1>5, <1>10, Sizes DEF Sound, Val
  <2>2. q \in Nat
    BY <1>6, <2>1, Quotient
  <2>3. r \in Nat /\ r < b /\ m.pa = b * q + r
    BY <1>6, <1>10, <2>1, Remainders
  <2> QED
    BY <2>1, <2>2, <2>3
<1> QED
  BY <1>4, <1>11, <1>12, <1>13

\* mod without an immediate takes the remainder by the head of the word below it.
LEMMA ModDivides ==
  ASSUME NEW m, Sound(m), m.mem \in [S!Addr -> Val], m.psp \in 1 .. S!Cbp, m.err = "nil"
  PROVE  LET r == Execute(m, Plain("mod"))  b == m.mem[m.psp - 1] IN
         r.err = "nil" /\ m.pa < W \div 2 => r.pa < m.pa /\ (Signed(b) - r.pa) % m.pa = 0
<1>1. PICK r : r = Execute(m, Plain("mod"))
  OBVIOUS
<1>2. r = BinaryOp(m, Plain("mod"))
  BY <1>1, ExecuteIs DEF Plain, Binary, Dividing
<1>3. m.psp # S!Empty /\ m.psp # 0 /\ m.psp - 1 \in S!Addr
  BY Sizes DEF S!Addr
<1>4. PICK b \in Val : b = m.mem[m.psp - 1]
  BY <1>3
<1>5. PICK t : t = S!Drop(m) /\ Shaped(t) /\ t.err = "nil" /\ t.pa = b
  BY <1>3, <1>4, DropServed
<1>6. r = Compute(t, "mod", m.pa)
  BY <1>2, <1>5 DEF BinaryOp, WithOperand, Popping, Plain
<1> SUFFICES ASSUME r.err = "nil", m.pa < W \div 2
             PROVE  r.pa < m.pa /\ (Signed(b) - r.pa) % m.pa = 0
  BY <1>1, <1>4
<1>7. Fail(t, "panic").err # "nil"
  BY <1>5 DEF Fail, Shaped
<1>8. m.pa # 0 /\ r = Put(t, Rem(b, m.pa))
  BY <1>5, <1>6, <1>7 DEF Compute, Dividing, Result
<1>9. /\ Rem(b, m.pa) \in Nat /\ Rem(b, m.pa) < m.pa /\ Rem(b, m.pa) < W
      /\ (Signed(b) - Rem(b, m.pa)) % m.pa = 0
  BY <1>8, Remainders DEF Sound
<1>10. r.pa = Rem(b, m.pa) % W
  BY <1>5, <1>8 DEF Put, Shaped
<1>11. r.pa = Rem(b, m.pa)
  BY <1>9, <1>10, Sizes
<1> QED
  BY <1>9, <1>11

LEMMA WithBitIs ==
  ASSUME NEW v \in Nat, NEW n \in 0 .. 31
  PROVE  /\ HasBit(WithBit(v, n), n) /\ ~HasBit(WithoutBit(v, n), n)
         /\ \A i \in 0 .. 31 : i # n => /\ HasBit(WithBit(v, n), i) <=> HasBit(v, i)
                                        /\ HasBit(WithoutBit(v, n), i) <=> HasBit(v, i)
<1>1. CASE HasBit(v, n)
  <2>1. WithBit(v, n) = v /\ WithoutBit(v, n) = v - 2 ^ n
    BY <1>1 DEF WithBit, WithoutBit
  <2>2. /\ ~HasBit(v - 2 ^ n, n)
        /\ \A i \in 0 .. 31 : i # n => (HasBit(v - 2 ^ n, i) <=> HasBit(v, i))
    BY <1>1, ClearBit
  <2> QED
    BY <1>1, <2>1, <2>2
<1>2. CASE ~HasBit(v, n)
  <2>1. WithBit(v, n) = v + 2 ^ n /\ WithoutBit(v, n) = v
    BY <1>2 DEF WithBit, WithoutBit
  <2> QED
    BY <1>2, <2>1, SetBit
<1> QED
  BY <1>1, <1>2

\* The middle of memory: the word there, and what an operation on one of its bits comes to.
LEMMA MiddleIs ==
  ASSUME NEW m, NEW n \in 0 .. Bits - 1, NEW o
  PROVE  LET a == W \div 2 IN
         /\ BitWord(a) \in S!Addr /\ ~Misaligned(a) /\ Bit(m, o, a, n) = BitAt(m, o, a, n)
         /\ Load(m, a) = m.mem[BitWord(a)]
         /\ \A v : Save(m, a, v) = Write(m, BitWord(a), v)
<1>1. PICK k \in Nat \ {0} : W = 8 * k
  <2>1. Bits \in 0 .. 32 /\ 2 < Bits
    BY Sizes
  <2>2. PICK i \in 0 .. 31, j \in 0 .. 32 : i = 2 /\ j = Bits /\ i < j
    BY <2>1
  <2>3. PICK k \in Nat \ {0} : 2 ^ j = 2 * 2 ^ i * k
    BY <2>2, Higher
  <2>4. 2 ^ i = 4
    BY <2>2, SMT
  <2> QED
    BY <2>2, <2>3, <2>4 DEF W
<1>2. PICK a \in Nat : a = W \div 2 /\ a = 4 * k
  <2>1. W \div 2 = 4 * k
    BY <1>1
  <2> QED
    BY <2>1
<1>3. a \div 4 = k /\ a % 4 = 0
  BY <1>2
<1>4. k \in S!Addr
  BY <1>1, Sizes DEF S!Addr
<1>5. (a + n \div Bits) % W = a /\ n % Bits = n
  <2>1. n \div Bits = 0 /\ n % Bits = n
    BY Sizes
  <2>2. a < W /\ a + 0 = a
    BY <1>1, <1>2
  <2> QED
    BY <2>1, <2>2, Sizes
<1> QED
  BY <1>2, <1>3, <1>4, <1>5 DEF BitWord, Misaligned, Bit, Load, Save

\* An operation on a bit of the word in the middle of memory is one on that bit alone.
LEMMA OneBit ==
  ASSUME NEW m, Typed(m), NEW o \in BitOps, NEW n \in 0 .. Bits - 1
  PROVE  OnOneBit(m, o, W \div 2, n)
<1>1. PICK a, k : a = W \div 2 /\ k = BitWord(a)
  OBVIOUS
<1>2. PICK t : t = Bit(m, o, a, n)
  OBVIOUS
<1>3. PICK w \in Nat : w = m.mem[k]
  BY <1>1, MiddleIs, Widths DEF Typed
<1>4. PICK p, q : p = WithBit(w, n) /\ q = WithoutBit(w, n)
  OBVIOUS
<1>5. k \in S!Addr /\ t = BitAt(m, o, a, n) /\ ~Misaligned(a) /\ Load(m, a) = w
      /\ Save(m, a, p) = Write(m, k, p) /\ Save(m, a, q) = Write(m, k, q)
  BY <1>1, <1>2, <1>3, MiddleIs
<1>6. n \in 0 .. 31 /\ 0 .. Bits - 1 \subseteq 0 .. 31
  BY Sizes
<1>7. /\ HasBit(p, n) /\ ~HasBit(q, n)
      /\ \A i \in 0 .. Bits - 1 : i # n => (HasBit(p, i) <=> HasBit(w, i)) /\ (HasBit(q, i) <=> HasBit(w, i))
  BY <1>4, <1>6, WithBitIs
<1>8. ASSUME NEW s, Shaped(s), NEW c
      PROVE  LET u == Put(s, Truth(c)) IN u.mem = s.mem /\ (u.pa = 1 <=> c)
  <2>1. PICK x \in {0, 1} : x = Truth(c) /\ (x = 1 <=> c)
    BY DEF Truth
  <2>2. x % W = x
    BY <2>1, Sizes
  <2> QED
    BY <1>8, <2>1, <2>2 DEF Put, Shaped
<1>9. ASSUME NEW v
      PROVE  /\ Shaped(Write(m, k, v)) /\ Write(m, k, v).mem[k] = v
             /\ \A x \in S!Addr \ {k} : Write(m, k, v).mem[x] = m.mem[x]
  <2>1. PICK f : f = [m.mem EXCEPT ![k] = v]
    OBVIOUS
  <2>2. f[k] = v /\ \A x \in S!Addr \ {k} : f[x] = m.mem[x]
    BY <1>5, <2>1 DEF Typed
  <2>3. PICK u : u = [m EXCEPT !.mem = f]
    OBVIOUS
  <2>4. Shaped(u) /\ u.mem = f
    BY <2>3 DEF Typed, Shaped
  <2>5. Write(m, k, v) = u
    BY <2>1, <2>3 DEF Write
  <2> QED
    BY <2>2, <2>4, <2>5
<1>10. CASE o = "bitest"
  <2>1. t = Put(m, Truth(HasBit(w, n)))
    BY <1>5, <1>10 DEF BitAt
  <2>2. t.mem = m.mem /\ (t.pa = 1 <=> HasBit(w, n))
    BY <1>8, <2>1 DEF Typed
  <2> QED
    BY <1>1, <1>2, <1>3, <1>10, <2>2 DEF OnOneBit
<1>11. CASE o \in {"bitset", "bitseta"}
  <2>1. PICK s : s = Write(m, k, p) /\ Shaped(s) /\ s.mem[k] = p /\ \A x \in S!Addr \ {k} : s.mem[x] = m.mem[x]
    BY <1>9
  <2>2. t = IF o = "bitset" THEN s ELSE Put(s, Truth(~HasBit(w, n)))
    BY <1>4, <1>5, <1>11, <2>1 DEF BitAt
  <2>3. t.mem = s.mem /\ (o = "bitseta" => (t.pa = 1 <=> ~HasBit(w, n)))
    BY <1>8, <2>1, <2>2
  <2>4. \A x \in S!Addr \ {k} : t.mem[x] = m.mem[x]
    BY <2>1, <2>3
  <2>5. \A i \in 0 .. Bits - 1 : i # n => (HasBit(t.mem[k], i) <=> HasBit(w, i))
    BY <1>7, <2>1, <2>3
  <2>6. HasBit(t.mem[k], n) <=> CASE o \in {"bitset", "bitseta"} -> TRUE
                                 [] o \in {"bitost", "bitosta"} -> FALSE
                                 [] o = "bitest" -> HasBit(w, n)
    BY <1>7, <1>11, <2>1, <2>3
  <2>7. o \in {"bitseta", "bitosta"} => (t.pa = 1 <=> (HasBit(t.mem[k], n) # HasBit(w, n)))
    <3>1. HasBit(t.mem[k], n) \in BOOLEAN /\ HasBit(w, n) \in BOOLEAN /\ (HasBit(t.mem[k], n) <=> TRUE)
      BY <1>7, <2>1, <2>3 DEF HasBit
    <3> QED
      BY <1>11, <2>3, <3>1
  <2>8. o # "bitest"
    BY <1>11
  <2> QED
    BY <1>1, <1>2, <1>3, <2>4, <2>5, <2>6, <2>7, <2>8 DEF OnOneBit
<1>12. CASE o \in {"bitost", "bitosta"}
  <2>1. PICK s : s = Write(m, k, q) /\ Shaped(s) /\ s.mem[k] = q /\ \A x \in S!Addr \ {k} : s.mem[x] = m.mem[x]
    BY <1>9
  <2>2. t = IF o = "bitost" THEN s ELSE Put(s, Truth(HasBit(w, n)))
    BY <1>4, <1>5, <1>12, <2>1 DEF BitAt
  <2>3. t.mem = s.mem /\ (o = "bitosta" => (t.pa = 1 <=> HasBit(w, n)))
    BY <1>8, <2>1, <2>2
  <2>4. \A x \in S!Addr \ {k} : t.mem[x] = m.mem[x]
    BY <2>1, <2>3
  <2>5. \A i \in 0 .. Bits - 1 : i # n => (HasBit(t.mem[k], i) <=> HasBit(w, i))
    BY <1>7, <2>1, <2>3
  <2>6. HasBit(t.mem[k], n) <=> CASE o \in {"bitset", "bitseta"} -> TRUE
                                 [] o \in {"bitost", "bitosta"} -> FALSE
                                 [] o = "bitest" -> HasBit(w, n)
    BY <1>7, <1>12, <2>1, <2>3
  <2>7. o \in {"bitseta", "bitosta"} => (t.pa = 1 <=> (HasBit(t.mem[k], n) # HasBit(w, n)))
    <3>1. HasBit(t.mem[k], n) \in BOOLEAN /\ HasBit(w, n) \in BOOLEAN /\ (HasBit(t.mem[k], n) <=> FALSE)
      BY <1>7, <2>1, <2>3 DEF HasBit
    <3> QED
      BY <1>12, <2>3, <3>1
  <2>8. o # "bitest"
    BY <1>12
  <2> QED
    BY <1>1, <1>2, <1>3, <2>4, <2>5, <2>6, <2>7, <2>8 DEF OnOneBit
<1> QED
  BY <1>10, <1>11, <1>12 DEF BitOps

\* A division leaves a quotient and its remainder, and an operation on a bit of a word sees and
\* changes that bit alone: for every width of a word, whatever is on the stacks and in memory.
THEOREM ComputesRight == Spec => []Computes
<1>1. Running => Divides
  <2> SUFFICES ASSUME Running, count = 0, mach.psp \in 1 .. S!Cbp
               PROVE  LET d == Execute(mach, Plain("divmod"))
                          r == Execute(mach, Plain("mod"))
                          b == mach.mem[mach.psp - 1]
                      IN  /\ d.err = "nil" /\ mach.pa < W \div 2 /\ b < W \div 2 =>
                               d.pa * b + d.mem[d.psp - 1] = mach.pa /\ d.mem[d.psp - 1] < b
                          /\ r.err = "nil" /\ mach.pa < W \div 2 =>
                               r.pa < mach.pa /\ (Signed(b) - r.pa) % mach.pa = 0
    BY DEF Divides, Plain
  <2>1. Sound(mach) /\ mach.mem \in [S!Addr -> Val] /\ mach.err = "nil"
    BY DEF Running, Typed
  <2> QED
    BY <2>1, DivmodDivides, ModDivides
<1>2. Running => BitsOfAWord
  BY OneBit DEF Running, BitsOfAWord
<1> QED
  BY <1>1, <1>2, RunningHolds, PTL DEF Computes

\* Words keep their width: no operation leaves a number in a register or in memory that has no
\* place in a word, or a stack pointer outside memory.
THEOREM WordsStayWords == Spec => []Typed(mach)
<1>1. Running => Typed(mach)
  BY DEF Running
<1> QED
  BY <1>1, RunningHolds, PTL
=============================================================================
