----------------------------- MODULE StacksProof -----------------------------
(***************************************************************************)
(* Proofs about Stacks, for every address space, stack size and value set. *)
(***************************************************************************)
EXTENDS Stacks, SequenceTheorems, TLAPS

MachType == [psp : {Empty} \cup 0 .. Cbp, pa : Val, csp : Addr,
             mem : [Addr -> Val], err : Errors]

-----------------------------------------------------------------------------
(* The operations keep the types of the registers *)

\* Where the pointers move: one word, around the end of the address space.
LEMMA Moves ==
  /\ \A p \in {Empty} \cup 0 .. Cbp :
       /\ p \in Addr
       /\ Up(p) = (IF p = Empty THEN 0 ELSE p + 1) /\ Up(p) \in 0 .. Cbp + 1
       /\ Down(p) = IF p = 0 THEN Empty ELSE p - 1
  /\ \A a \in Addr : /\ Down(a) = (IF a = 0 THEN Empty ELSE a - 1) /\ Down(a) \in Addr
                     /\ Up(a) = (IF a = Empty THEN 0 ELSE a + 1) /\ Up(a) \in Addr
  /\ Cbp \in Nat /\ Cbp + 1 < Empty /\ Empty \in Nat
BY SizeAssumption DEF Addr, Empty, Cbp, Up, Down, Wrap

\* What pRef() looks at is an address.
LEMMA RefType ==
  ASSUME NEW m \in MachType, NEW i \in Addr
  PROVE  Ref(m, i) \in Addr
BY SizeAssumption DEF MachType, Addr, Ref, Wrap, Empty, Cbp

\* push()
LEMMA PushType ==
  ASSUME NEW m \in MachType, NEW v \in Val
  PROVE  Push(m, v) \in MachType
<1>1. \A e \in Errors : Fail(m, e) \in MachType
  BY DEF Fail, MachType
<1>2. CASE Up(m.psp) <= Cbp
  <2>1. Up(m.psp) \in 0 .. Cbp /\ m.psp \in Addr
    BY <1>2, Moves DEF MachType
  <2> QED
    BY <1>1, <2>1, Moves DEF Push, MachType, Errors
<1>3. CASE ~(Up(m.psp) <= Cbp)
  BY <1>1, <1>3, Moves DEF Push, MachType, Errors
<1> QED
  BY <1>2, <1>3

\* drop()
LEMMA DropType ==
  ASSUME NEW m \in MachType
  PROVE  Drop(m) \in MachType
<1>1. \A e \in Errors : Fail(m, e) \in MachType
  BY DEF Fail, MachType
<1>2. Down(m.psp) = IF m.psp = 0 THEN Empty ELSE m.psp - 1
  BY Moves DEF MachType
<1>3. CASE Down(m.psp) < Cbp
  <2>1. Down(m.psp) \in 0 .. Cbp /\ Down(m.psp) \in Addr
    <3>1. CASE m.psp = 0
      BY <1>2, <1>3, <3>1, Moves
    <3>2. CASE m.psp = Empty
      BY <1>2, <1>3, <3>2, Moves
    <3>3. CASE m.psp \in 1 .. Cbp
      BY <1>2, <3>3, Moves, SizeAssumption DEF Addr, Empty
    <3> QED
      BY <3>1, <3>2, <3>3, Moves DEF MachType
  <2>2. Drop(m) = [m EXCEPT !.pa = m.mem[Down(m.psp)], !.psp = Down(m.psp)]
    BY <1>3, <2>1, Moves DEF Drop
  <2> QED
    BY <2>1, <2>2 DEF MachType
<1>4. CASE Down(m.psp) >= Cbp /\ Down(m.psp) < Empty
  <2>1. Drop(m) = Fail(m, "punder")
    BY <1>4, Moves DEF Drop
  <2> QED
    BY <1>1, <2>1 DEF Errors
<1>5. CASE Down(m.psp) = Empty
  <2>1. Drop(m) = [m EXCEPT !.psp = Empty]
    BY <1>5, Moves DEF Drop
  <2> QED
    BY <2>1 DEF MachType
<1>6. Down(m.psp) \in Addr /\ Empty = Words - 1 /\ Words \in Nat /\ Cbp \in Nat
  BY Moves, SizeAssumption DEF MachType, Empty
<1> QED
  BY <1>3, <1>4, <1>5, <1>6 DEF Addr

\* cpush() and cpop()
LEMMA ControlType ==
  ASSUME NEW m \in MachType, NEW v \in Val
  PROVE  CPush(m, v) \in MachType /\ CPop(m) \in MachType
<1>1. \A e \in Errors : Fail(m, e) \in MachType
  BY DEF Fail, MachType
<1>2. Down(m.csp) \in Addr /\ Up(m.csp) \in Addr
  BY Moves DEF MachType
<1> QED
  BY <1>1, <1>2 DEF CPush, CPop, MachType, Errors

\* dup and swap
LEMMA ReferType ==
  ASSUME NEW m \in MachType, NEW i \in Addr
  PROVE  Dup(m, i) \in MachType /\ Swap(m, i) \in MachType
<1>1. \A e \in Errors : Fail(m, e) \in MachType
  BY DEF Fail, MachType
<1>2. Ref(m, i) \in Addr /\ m.mem[Ref(m, i)] \in Val /\ m.pa \in Val
  BY RefType DEF MachType
<1>3. Dup(m, i) \in MachType
  BY <1>1, <1>2, PushType DEF Dup, Errors
<1>4. [m EXCEPT !.pa = m.mem[Ref(m, i)], !.mem = [@ EXCEPT ![Ref(m, i)] = m.pa]] \in MachType
  BY <1>2 DEF MachType
<1> QED
  BY <1>1, <1>3, <1>4 DEF Swap, Errors

\* p2c and c2p
LEMMA MoveType ==
  ASSUME NEW m \in MachType
  PROVE  P2C(m) \in MachType /\ C2P(m) \in MachType
<1>1. m.pa \in Val
  BY DEF MachType
<1>2. P2C(m) \in MachType
  BY <1>1, DropType, ControlType DEF P2C
<1>3. CPop(m) \in MachType
  BY <1>1, ControlType
<1>4. m.mem[CPop(m).csp] \in Val
  BY <1>3 DEF MachType
<1>5. C2P(m) \in MachType
  BY <1>3, <1>4, PushType DEF C2P
<1> QED
  BY <1>2, <1>5

\* Every step leaves the registers with their types.
LEMMA StepType == TypeOK /\ [Next]_vars => TypeOK'
<1> SUFFICES ASSUME TypeOK, [Next]_vars PROVE TypeOK'
  OBVIOUS
<1>1. mach \in MachType /\ passed \in BOOLEAN
  BY DEF TypeOK, MachType
<1>2. \A v \in Val : [mach EXCEPT !.pa = v] \in MachType
  BY <1>1 DEF MachType
<1>3. ASSUME NEW m \in MachType, Becomes(m) PROVE TypeOK'
  BY <1>3, <1>1 DEF Becomes, TypeOK, MachType
<1>4. CASE PushOp
  BY <1>1, <1>3, <1>4, PushType DEF PushOp
<1>5. CASE DropOp
  BY <1>1, <1>3, <1>5, DropType DEF DropOp
<1>6. CASE PutOp
  BY <1>2, <1>3, <1>6 DEF PutOp
<1>7. CASE DupOp \/ SwapOp
  BY <1>1, <1>3, <1>7, ReferType DEF DupOp, SwapOp
<1>8. CASE CPushOp
  BY <1>1, <1>3, <1>8, ControlType DEF CPushOp
<1>9. CASE CPopOp
  BY <1>1, <1>3, <1>9, ControlType, ValAssumption DEF CPopOp
<1>10. CASE P2COp \/ C2POp
  BY <1>1, <1>3, <1>10, MoveType DEF P2COp, C2POp
<1>11. CASE Stopped \/ UNCHANGED vars
  BY <1>11 DEF Stopped, vars, TypeOK
<1> QED
  BY <1>4, <1>5, <1>6, <1>7, <1>8, <1>9, <1>10, <1>11 DEF Next

\* push(), drop(), cpush(), cpop() and pRef() keep psp in the stack space, or at
\* its value for an empty stack.
THEOREM TypeCorrect == Spec => []TypeOK
<1>1. Init => TypeOK
  <2>1. Cbp \in Addr /\ 0 \in Val /\ "nil" \in Errors
    BY Moves, ValAssumption, SizeAssumption DEF Errors, Addr, Empty
  <2> QED
    BY <2>1 DEF Init, TypeOK
<1>2. TypeOK /\ [Next]_vars => TypeOK'
  BY StepType
<1> QED
  BY <1>1, <1>2, PTL DEF Spec
-----------------------------------------------------------------------------
(* The stacks as sequences *)

Params(m) == FetchPS(m).vals
Control(m) == FetchCS(m).vals
Depth(m) == IF m.psp = Empty THEN 0 ELSE m.psp + 1
Used(m) == Cbp - m.csp

\* A machine whose stack pointers have not passed each other.
Sound(m) == m \in MachType /\ Apart(m)

\* What fetchPS() and fetchCS() return, word by word.
LEMMA Views ==
  ASSUME NEW m, Sound(m)
  PROVE  /\ Params(m) \in Seq(Val) /\ Len(Params(m)) = Depth(m)
         /\ \A i \in 1 .. Depth(m) :
              Params(m)[i] = IF i <= m.psp THEN m.mem[i - 1] ELSE m.pa
         /\ Control(m) \in Seq(Val) /\ Len(Control(m)) = Used(m)
         /\ \A i \in 1 .. Used(m) : Control(m)[i] = m.mem[Cbp + 1 - i]
         /\ FetchPS(m).err = "nil" /\ FetchCS(m).err = "nil"
         /\ Depth(m) \in 0 .. Size /\ Used(m) \in 0 .. Cbp /\ Depth(m) + Used(m) <= Size
<1>1. /\ m.psp \in {Empty} \cup 0 .. Cbp /\ m.csp \in 0 .. Cbp
      /\ m.psp = Empty \/ m.psp <= m.csp
      /\ m.pa \in Val /\ m.mem \in [Addr -> Val]
      /\ Cbp \in Nat /\ Cbp + 1 < Empty /\ Empty \in Nat /\ Size = Cbp + 1
      /\ 0 .. Cbp \subseteq Addr
  <2>1. /\ m.psp \in {Empty} \cup 0 .. Cbp /\ m.csp \in Addr /\ m.csp <= Cbp
        /\ m.psp = Empty \/ m.psp <= m.csp
        /\ m.pa \in Val /\ m.mem \in [Addr -> Val]
    BY DEF Sound, MachType, Apart
  <2>2. Cbp \in Nat /\ Cbp + 1 < Empty /\ Empty \in Nat
    BY Moves
  <2>3. Size = Cbp + 1 /\ 0 .. Cbp \subseteq Addr
    BY SizeAssumption DEF Cbp, Addr
  <2>4. m.csp \in 0 .. Cbp
    BY <2>1, <2>2, SizeAssumption DEF Addr
  <2> QED
    BY <2>1, <2>2, <2>3, <2>4
<1>2. Depth(m) \in 0 .. Size /\ Used(m) \in 0 .. Cbp /\ Depth(m) + Used(m) <= Size
  BY <1>1 DEF Depth, Used
<1>3. /\ Params(m) \in Seq(Val) /\ Len(Params(m)) = Depth(m)
      /\ \A i \in 1 .. Depth(m) :
              Params(m)[i] = IF i <= m.psp THEN m.mem[i - 1] ELSE m.pa
      /\ FetchPS(m).err = "nil"
  <2>1. CASE m.psp = Empty
    <3>1. FetchPS(m) = [err |-> "nil", vals |-> <<>>]
      BY <1>1, <2>1 DEF FetchPS
    <3> QED
      BY <1>1, <2>1, <3>1, EmptySeq DEF Params, Depth
  <2>2. CASE m.psp # Empty
    <3> DEFINE w(i) == IF i <= m.psp THEN m.mem[i - 1] ELSE m.pa
    <3>1. FetchPS(m) = [err |-> "nil", vals |-> [i \in 1 .. m.psp + 1 |-> w(i)]]
      BY <1>1, <2>2 DEF FetchPS
    <3>2. m.psp + 1 \in Nat /\ Depth(m) = m.psp + 1
      BY <1>1, <2>2 DEF Depth
    <3>3. \A i \in 1 .. m.psp + 1 : w(i) \in Val
      BY <1>1, <2>2
    <3>4. Params(m) = [i \in 1 .. Depth(m) |-> w(i)]
      BY <3>1, <3>2 DEF Params
    <3>5. Params(m) \in [1 .. Depth(m) -> Val]
      BY <3>2, <3>3, <3>4
    <3>6. Params(m) \in Seq(Val)
      BY <3>2, <3>5, SeqDef
    <3>7. Len(Params(m)) = Depth(m)
      BY <1>2, <3>5, <3>6, LenProperties
    <3>8. \A i \in 1 .. Depth(m) : Params(m)[i] = w(i)
      BY <3>4
    <3>9. FetchPS(m).err = "nil"
      BY <3>1
    <3> QED
      BY <3>6, <3>7, <3>8, <3>9
  <2> QED
    BY <2>1, <2>2
<1>4. /\ Control(m) \in Seq(Val) /\ Len(Control(m)) = Used(m)
      /\ \A i \in 1 .. Used(m) : Control(m)[i] = m.mem[Cbp + 1 - i]
      /\ FetchCS(m).err = "nil"
  <2>1. CASE m.csp = Cbp
    <3>1. FetchCS(m) = [err |-> "nil", vals |-> <<>>]
      BY <1>1, <2>1 DEF FetchCS
    <3> QED
      BY <1>1, <2>1, <3>1, EmptySeq DEF Control, Used
  <2>2. CASE m.csp # Cbp
    <3> DEFINE w(i) == m.mem[Cbp + 1 - i]
    <3>1. ~(m.csp < m.psp /\ m.psp < Cbp) /\ ~(m.csp > Cbp)
      BY <1>1
    <3>2. FetchCS(m) = [err |-> "nil", vals |-> [i \in 1 .. Cbp - m.csp |-> w(i)]]
      BY <2>2, <3>1 DEF FetchCS
    <3>3. \A i \in 1 .. Used(m) : w(i) \in Val
      BY <1>1 DEF Used
    <3>4. Control(m) = [i \in 1 .. Used(m) |-> w(i)]
      BY <3>2 DEF Control, Used
    <3>5. Control(m) \in [1 .. Used(m) -> Val]
      BY <3>3, <3>4
    <3>6. Control(m) \in Seq(Val)
      BY <1>2, <3>5, SeqDef
    <3>7. Len(Control(m)) = Used(m)
      BY <1>2, <3>5, <3>6, LenProperties
    <3>8. \A i \in 1 .. Used(m) : Control(m)[i] = w(i)
      BY <3>4
    <3>9. FetchCS(m).err = "nil"
      BY <3>2
    <3> QED
      BY <3>6, <3>7, <3>8, <3>9
  <2> QED
    BY <2>1, <2>2
<1> QED
  BY <1>2, <1>3, <1>4

\* Two machines show the same parameters, or the same control stack, if they have
\* the same words there.
LEMMA SameViews ==
  ASSUME NEW m, NEW n, Sound(m), Sound(n)
  PROVE  /\ n.psp = m.psp /\ n.pa = m.pa /\ (\A a \in 0 .. Cbp : a < m.psp => n.mem[a] = m.mem[a])
              => Params(n) = Params(m)
         /\ n.csp = m.csp /\ (\A a \in 0 .. Cbp : a > m.csp => n.mem[a] = m.mem[a])
              => Control(n) = Control(m)
<1>1. /\ m.psp \in {Empty} \cup 0 .. Cbp /\ m.csp \in 0 .. Cbp /\ Cbp \in Nat /\ Empty \in Nat
  BY Moves DEF Sound, MachType, Apart, Addr
<1>2. ASSUME n.psp = m.psp, n.pa = m.pa, \A a \in 0 .. Cbp : a < m.psp => n.mem[a] = m.mem[a]
      PROVE  Params(n) = Params(m)
  <2>1. Depth(n) = Depth(m)
    BY <1>2 DEF Depth
  <2>2. \A i \in 1 .. Depth(m) : (IF i <= n.psp THEN n.mem[i - 1] ELSE n.pa)
                               = (IF i <= m.psp THEN m.mem[i - 1] ELSE m.pa)
    BY <1>1, <1>2 DEF Depth
  <2>3. \A i \in 1 .. Depth(m) : Params(n)[i] = Params(m)[i]
    BY <2>1, <2>2, Views
  <2> QED
    BY <2>1, <2>3, Views, SeqEqual
<1>3. ASSUME n.csp = m.csp, \A a \in 0 .. Cbp : a > m.csp => n.mem[a] = m.mem[a]
      PROVE  Control(n) = Control(m)
  <2>1. Used(n) = Used(m)
    BY <1>3 DEF Used
  <2>2. \A i \in 1 .. Used(m) : n.mem[Cbp + 1 - i] = m.mem[Cbp + 1 - i]
    BY <1>1, <1>3 DEF Used
  <2>3. \A i \in 1 .. Used(m) : Control(n)[i] = Control(m)[i]
    BY <2>1, <2>2, Views
  <2> QED
    BY <2>1, <2>3, Views, SeqEqual
<1> QED
  BY <1>2, <1>3

-----------------------------------------------------------------------------
(* What a reader of the stacks is shown *)

\* The ghost passed says what it is meant to.
Inv == TypeOK /\ (~passed => Apart(mach))

LEMMA InvHolds == Spec => []Inv
<1>1. Init => ~passed /\ Apart(mach)
  <2>1. Cbp <= Cbp
    BY Moves
  <2> QED
    BY <2>1 DEF Init, Apart
<1>2. TypeOK /\ [Next]_vars /\ (~passed => Apart(mach)) => (~passed' => Apart(mach)')
  <2> SUFFICES ASSUME TypeOK, [Next]_vars, ~passed => Apart(mach), ~passed'
               PROVE  Apart(mach')
    BY DEF Apart
  <2>1. ASSUME NEW m, Becomes(m) PROVE Apart(mach')
    BY <2>1 DEF Becomes
  <2>2. CASE Stopped \/ UNCHANGED vars
    BY <2>2 DEF Stopped, vars
  <2> QED
    BY <2>1, <2>2 DEF Next, PushOp, DropOp, PutOp, DupOp, SwapOp, CPushOp, CPopOp,
                      P2COp, C2POp
<1> QED
  BY <1>1, <1>2, TypeCorrect, PTL DEF Spec, Inv

LEMMA SoundNow == Inv /\ ~passed => Sound(mach)
BY DEF Inv, TypeOK, Sound, MachType

\* fetchPS() and fetchCS() serve every machine whose stack pointers have not
\* passed each other.
THEOREM Served == Spec => []StacksServed
<1>1. Inv => StacksServed
  BY SoundNow, Views DEF StacksServed
<1> QED
  BY <1>1, InvHolds, PTL

\* pRef() finds the i-th word from the head, and no other word of memory.
THEOREM RefsFind == Spec => []RefsFindWords
<1>1. Inv => RefsFindWords
  <2> SUFFICES ASSUME Inv, ~passed, NEW i \in 2 .. Size
               PROVE  LET ps == FetchPS(mach).vals IN
                      /\ InParams(mach, i) <=> i <= Len(ps)
                      /\ i <= Len(ps) => mach.mem[Ref(mach, i)] = ps[Len(ps) + 1 - i]
    BY DEF RefsFindWords
  <2>1. Sound(mach)
    BY SoundNow
  <2>2. /\ mach.psp \in {Empty} \cup 0 .. Cbp /\ mach.csp \in 0 .. Cbp
        /\ mach.psp = Empty \/ mach.psp <= mach.csp
        /\ Empty = Words - 1 /\ Cbp = Size - 1 /\ Size \in Nat \ {0} /\ Words \in Nat
        /\ Words > 2 * Size
    BY <2>1, Moves, SizeAssumption DEF Sound, MachType, Apart, Addr, Empty, Cbp
  <2>3. CASE mach.psp = Empty
    <3>1. Depth(mach) = 0 /\ Ref(mach, i) = Words - i
      BY <2>2, <2>3 DEF Depth, Ref, Wrap
    <3>2. ~InParams(mach, i)
      BY <2>2, <3>1 DEF InParams
    <3> QED
      BY <2>1, <3>1, <3>2, Views DEF Params
  <2>4. CASE mach.psp # Empty /\ i <= mach.psp + 1
    <3>1. Depth(mach) = mach.psp + 1 /\ Ref(mach, i) = mach.psp + 1 - i
      BY <2>2, <2>4 DEF Depth, Ref, Wrap
    <3>2. InParams(mach, i)
      BY <2>2, <2>4, <3>1 DEF InParams
    <3> DEFINE j == Depth(mach) + 1 - i
    <3>3. j \in 1 .. Depth(mach) /\ j <= mach.psp /\ j - 1 = Ref(mach, i)
      BY <2>2, <2>4, <3>1
    <3>4. Params(mach)[j] = mach.mem[j - 1]
      BY <2>1, <3>3, Views
    <3>5. Len(Params(mach)) = Depth(mach)
      BY <2>1, Views
    <3> QED
      BY <2>2, <2>4, <3>1, <3>2, <3>3, <3>4, <3>5 DEF Params
  <2>5. CASE mach.psp # Empty /\ i > mach.psp + 1
    <3>1. Depth(mach) = mach.psp + 1 /\ Ref(mach, i) = mach.psp + 1 - i + Words
      BY <2>2, <2>5 DEF Depth, Ref, Wrap
    <3>2. ~InParams(mach, i) /\ ~(i <= Depth(mach))
      BY <2>2, <2>5, <3>1 DEF InParams
    <3>3. Len(Params(mach)) = Depth(mach)
      BY <2>1, Views
    <3> QED
      BY <3>2, <3>3 DEF Params
  <2> QED
    BY <2>2, <2>3, <2>4, <2>5
<1> QED
  BY <1>1, InvHolds, PTL

-----------------------------------------------------------------------------
(* What the operations do to the stacks as sequences *)

\* The registers of a machine whose stack pointers have not passed.
LEMMA SoundRegs ==
  ASSUME NEW m, Sound(m)
  PROVE  /\ m.psp \in {Empty} \cup 0 .. Cbp /\ m.csp \in 0 .. Cbp
         /\ m.psp = Empty \/ m.psp <= m.csp
         /\ m.pa \in Val /\ m.mem \in [Addr -> Val] /\ m.err \in Errors
         /\ 0 .. Cbp \subseteq Addr /\ Cbp \in Nat /\ Empty \in Nat /\ Words \in Nat
         /\ Cbp = Size - 1 /\ Empty = Words - 1 /\ Words > 2 * Size /\ Size \in Nat \ {0}
<1>1. /\ m.psp \in {Empty} \cup 0 .. Cbp /\ m.csp \in Addr /\ m.csp <= Cbp
      /\ m.psp = Empty \/ m.psp <= m.csp
      /\ m.pa \in Val /\ m.mem \in [Addr -> Val] /\ m.err \in Errors
  BY DEF Sound, MachType, Apart
<1>2. /\ Cbp \in Nat /\ Empty \in Nat /\ Cbp = Size - 1 /\ Empty = Words - 1
      /\ 0 .. Cbp \subseteq Addr /\ Addr = 0 .. Words - 1 /\ Words \in Nat
      /\ Words > 2 * Size /\ Size \in Nat \ {0}
  BY SizeAssumption DEF Cbp, Empty, Addr
<1> QED
  BY <1>1, <1>2

\* A failure shows nothing but its error.
LEMMA FailView ==
  ASSUME NEW m, Sound(m), NEW e \in Errors
  PROVE  /\ Sound(Fail(m, e)) /\ Fail(m, e).err = e
         /\ Params(Fail(m, e)) = Params(m) /\ Control(Fail(m, e)) = Control(m)
<1>1. Fail(m, e) \in MachType /\ Apart(Fail(m, e)) /\ Fail(m, e).err = e
  BY DEF Sound, MachType, Apart, Fail
<1>2. /\ Fail(m, e).psp = m.psp /\ Fail(m, e).csp = m.csp /\ Fail(m, e).pa = m.pa
      /\ Fail(m, e).mem = m.mem
  BY DEF Sound, MachType, Fail
<1> QED
  BY <1>1, <1>2, SameViews DEF Sound

\* Front and Last of a sequence that is not empty.
LEMMA FrontLast ==
  ASSUME NEW S, NEW s \in Seq(S), s # <<>>
  PROVE  /\ Front(s) \in Seq(S) /\ Len(Front(s)) = Len(s) - 1
         /\ \A i \in 1 .. Len(s) - 1 : Front(s)[i] = s[i]
         /\ Last(s) = s[Len(s)] /\ Last(s) \in S
<1>1. Len(s) \in Nat \ {0} /\ \A i \in 1 .. Len(s) : s[i] \in S
  BY EmptySeq, LenProperties, ElementOfSeq
<1>2. /\ SubSeq(s, 1, Len(s) - 1) \in Seq(S)
      /\ Len(SubSeq(s, 1, Len(s) - 1)) = IF 1 <= Len(s) - 1 THEN (Len(s) - 1) - 1 + 1 ELSE 0
      /\ \A i \in 1 .. (Len(s) - 1) - 1 + 1 : SubSeq(s, 1, Len(s) - 1)[i] = s[1 + i - 1]
  <2>1. \A i \in 1 .. Len(s) - 1 : s[i] \in S
    BY <1>1
  <2> QED
    BY <1>1, <2>1, SubSeqProperties
<1>3. /\ Len(SubSeq(s, 1, Len(s) - 1)) = Len(s) - 1
      /\ \A i \in 1 .. Len(s) - 1 : SubSeq(s, 1, Len(s) - 1)[i] = s[i]
  <2> DEFINE k == Len(s)
  <2>1. k \in Nat \ {0}
    BY <1>1
  <2>2. (k - 1) - 1 + 1 = k - 1 /\ \A i \in 1 .. k - 1 : 1 + i - 1 = i
    BY <2>1
  <2>3. Len(SubSeq(s, 1, k - 1)) = k - 1
    BY <1>2, <2>1, <2>2
  <2>4. \A i \in 1 .. k - 1 : SubSeq(s, 1, k - 1)[i] = s[1 + i - 1]
    BY <1>2, <2>2
  <2> QED
    BY <2>2, <2>3, <2>4
<1>4. Last(s) = s[Len(s)] /\ Last(s) \in S
  BY <1>1 DEF Last
<1> QED
  BY <1>2, <1>3, <1>4 DEF Front

\* push()
LEMMA PushView ==
  ASSUME NEW m, Sound(m), m.err = "nil", NEW v \in Val
  PROVE  /\ Sound(Push(m, v)) /\ Control(Push(m, v)) = Control(m)
         /\ \/ /\ Push(m, v).err = "nil" /\ Depth(m) + Used(m) < Size
               /\ Params(Push(m, v)) = Append(Params(m), v)
            \/ /\ Push(m, v).err \in {"pover", "punder"} /\ ~(Depth(m) + Used(m) < Size)
               /\ Params(Push(m, v)) = Params(m)
<1> DEFINE p == Up(m.psp)
<1>1. /\ m.psp \in {Empty} \cup 0 .. Cbp /\ m.csp \in 0 .. Cbp
      /\ m.psp = Empty \/ m.psp <= m.csp
      /\ m.pa \in Val /\ m.mem \in [Addr -> Val] /\ 0 .. Cbp \subseteq Addr
      /\ Cbp \in Nat /\ Size = Cbp + 1 /\ Empty \in Nat /\ Cbp + 1 < Empty
      /\ p = IF m.psp = Empty THEN 0 ELSE m.psp + 1
  BY SoundRegs, Moves
<1>2. Depth(m) + Used(m) < Size <=> p <= m.csp
  BY <1>1 DEF Depth, Used
<1> HIDE DEF p
<1>3. CASE p > m.csp
  <2>1. PICK e \in {"pover", "punder"} : Push(m, v) = Fail(m, e)
    BY <1>1, <1>3 DEF Push, p
  <2>2. e \in Errors
    BY DEF Errors
  <2> QED
    BY <1>1, <1>2, <1>3, <2>1, <2>2, FailView
<1>4. CASE p <= m.csp
  <2> DEFINE n == Push(m, v)
  <2>1. n = [m EXCEPT !.mem = IF p > 0 THEN [@ EXCEPT ![m.psp] = m.pa] ELSE @,
                      !.pa = v, !.psp = p]
    BY <1>1, <1>4 DEF Push, p
  <2>2. n \in MachType
    BY PushType DEF Sound
  <2>3. n.psp = p /\ n.pa = v /\ n.csp = m.csp /\ n.err = "nil"
    BY <2>1 DEF Sound, MachType
  <2>4. n.mem = IF p > 0 THEN [m.mem EXCEPT ![m.psp] = m.pa] ELSE m.mem
    BY <2>1 DEF Sound, MachType
  <2>5. Sound(n)
    BY <1>1, <1>4, <2>2, <2>3 DEF Sound, Apart
  <2> HIDE DEF n
  <2>6. Control(n) = Control(m)
    <3>1. \A a \in 0 .. Cbp : a > m.csp => n.mem[a] = m.mem[a]
      BY <1>1, <1>4, <2>4
    <3> QED
      BY <2>3, <2>5, <3>1, SameViews
  <2>7. Params(n) = Append(Params(m), v)
    <3>1. /\ Append(Params(m), v) \in Seq(Val)
          /\ Len(Append(Params(m), v)) = Depth(m) + 1
          /\ \A i \in 1 .. Depth(m) : Append(Params(m), v)[i] = Params(m)[i]
          /\ Append(Params(m), v)[Depth(m) + 1] = v
      BY Views, AppendProperties
    <3>2. Depth(n) = Depth(m) + 1 /\ Depth(m) = p
      BY <1>1, <1>4, <2>3 DEF Depth
    <3>3. \A i \in 1 .. Depth(m) : Params(n)[i] = Params(m)[i]
      <4> SUFFICES ASSUME NEW i \in 1 .. Depth(m) PROVE Params(n)[i] = Params(m)[i]
        OBVIOUS
      <4>1. p > 0 /\ m.psp = p - 1 /\ i \in 1 .. p /\ p \in Nat
        BY <1>1, <3>2
      <4>2. i \in 1 .. Depth(n) /\ i <= n.psp
        BY <2>3, <3>2, <4>1
      <4>3. Params(n)[i] = n.mem[i - 1]
        BY <2>5, <4>2, Views
      <4>4. Params(m)[i] = IF i <= m.psp THEN m.mem[i - 1] ELSE m.pa
        BY Views
      <4>5. n.mem[i - 1] = IF i - 1 = m.psp THEN m.pa ELSE m.mem[i - 1]
        <5>1. i - 1 \in Addr /\ m.psp \in Addr
          BY <1>1, <1>4, <4>1
        <5> QED
          BY <1>1, <2>4, <4>1, <5>1
      <4> QED
        BY <4>1, <4>3, <4>4, <4>5
    <3>4. Params(n)[Depth(m) + 1] = v
      <4>1. Depth(m) + 1 \in 1 .. Depth(n) /\ ~(Depth(m) + 1 <= n.psp)
        BY <1>1, <2>3, <3>2
      <4> QED
        BY <2>3, <2>5, <4>1, Views
    <3>5. \A i \in 1 .. Depth(m) + 1 : Params(n)[i] = Append(Params(m), v)[i]
      BY <3>1, <3>3, <3>4, <3>2, <1>1
    <3>6. Params(n) \in Seq(Val) /\ Len(Params(n)) = Depth(m) + 1
      BY <2>5, <3>2, Views
    <3> QED
      BY <3>1, <3>5, <3>6, SeqEqual
  <2> QED
    BY <1>2, <1>4, <2>3, <2>5, <2>6, <2>7 DEF n
<1> QED
  BY <1>1, <1>3, <1>4

\* A sequence with the words of a stack is that stack.
LEMMA ViewsAre ==
  ASSUME NEW n, Sound(n), NEW s \in Seq(Val)
  PROVE  /\ /\ Len(s) = Depth(n)
            /\ \A i \in 1 .. Depth(n) : s[i] = (IF i <= n.psp THEN n.mem[i - 1] ELSE n.pa)
            => Params(n) = s
         /\ Len(s) = Used(n) /\ (\A i \in 1 .. Used(n) : s[i] = n.mem[Cbp + 1 - i])
              => Control(n) = s
<1>1. ASSUME Len(s) = Depth(n),
             \A i \in 1 .. Depth(n) : s[i] = IF i <= n.psp THEN n.mem[i - 1] ELSE n.pa
      PROVE  Params(n) = s
  <2>1. Params(n) \in Seq(Val) /\ Len(Params(n)) = Len(s)
    BY <1>1, Views
  <2>2. \A i \in 1 .. Len(s) : Params(n)[i] = s[i]
    BY <1>1, Views
  <2> QED
    BY <2>1, <2>2, SeqEqual
<1>2. ASSUME Len(s) = Used(n), \A i \in 1 .. Used(n) : s[i] = n.mem[Cbp + 1 - i]
      PROVE  Control(n) = s
  <2>1. Control(n) \in Seq(Val) /\ Len(Control(n)) = Len(s)
    BY <1>2, Views
  <2>2. \A i \in 1 .. Len(s) : Control(n)[i] = s[i]
    BY <1>2, Views
  <2> QED
    BY <2>1, <2>2, SeqEqual
<1> QED
  BY <1>1, <1>2

\* The register pa is the head of the parameter stack, the word above csp that of
\* the control stack.
LEMMA Heads ==
  ASSUME NEW m, Sound(m)
  PROVE  /\ Params(m) = <<>> <=> m.psp = Empty
         /\ m.psp # Empty => Params(m) # <<>> /\ Last(Params(m)) = m.pa
         /\ Control(m) = <<>> <=> m.csp = Cbp
         /\ m.csp # Cbp => Control(m) # <<>> /\ Last(Control(m)) = m.mem[m.csp + 1]
<1>1. /\ m.psp \in {Empty} \cup 0 .. Cbp /\ m.csp \in 0 .. Cbp /\ Cbp \in Nat
      /\ Empty = Words - 1 /\ Words \in Nat /\ Cbp + 1 < Empty
  BY SoundRegs, Moves
<1>2. /\ Params(m) \in Seq(Val) /\ Len(Params(m)) = Depth(m)
      /\ Control(m) \in Seq(Val) /\ Len(Control(m)) = Used(m)
  BY Views
<1>3. Params(m) = <<>> <=> Depth(m) = 0
  BY <1>2, EmptySeq
<1>4. Control(m) = <<>> <=> Used(m) = 0
  BY <1>2, EmptySeq
<1>5. Depth(m) = 0 <=> m.psp = Empty
  BY <1>1 DEF Depth
<1>6. Used(m) = 0 <=> m.csp = Cbp
  BY <1>1 DEF Used
<1>7. ASSUME m.psp # Empty PROVE Last(Params(m)) = m.pa
  <2>1. Depth(m) = m.psp + 1 /\ Depth(m) \in 1 .. Depth(m) /\ ~(Depth(m) <= m.psp)
    BY <1>1, <1>7 DEF Depth
  <2>2. Params(m)[Depth(m)] = m.pa
    BY <2>1, Views
  <2> QED
    BY <1>2, <2>2 DEF Last
<1>8. ASSUME m.csp # Cbp PROVE Last(Control(m)) = m.mem[m.csp + 1]
  <2>1. Used(m) \in 1 .. Used(m) /\ Cbp + 1 - Used(m) = m.csp + 1
    BY <1>1, <1>8 DEF Used
  <2>2. Control(m)[Used(m)] = m.mem[m.csp + 1]
    BY <2>1, Views
  <2> QED
    BY <1>2, <2>2 DEF Last
<1> QED
  BY <1>3, <1>4, <1>5, <1>6, <1>7, <1>8

\* drop()
LEMMA DropView ==
  ASSUME NEW m, Sound(m), m.err = "nil"
  PROVE  /\ Sound(Drop(m)) /\ Control(Drop(m)) = Control(m) /\ Drop(m).csp = m.csp
         /\ \/ /\ Params(m) # <<>> /\ Params(Drop(m)) = Front(Params(m))
               /\ Drop(m).err = "nil"
            \/ /\ Params(m) = <<>> /\ Params(Drop(m)) = Params(m)
               /\ Drop(m).err = "punder"
<1>1. /\ m.psp \in {Empty} \cup 0 .. Cbp /\ m.csp \in 0 .. Cbp
      /\ m.psp = Empty \/ m.psp <= m.csp
      /\ m.pa \in Val /\ m.mem \in [Addr -> Val] /\ 0 .. Cbp \subseteq Addr
      /\ Cbp \in Nat /\ Size = Cbp + 1 /\ Empty \in Nat /\ Cbp + 1 < Empty
      /\ Down(m.psp) = IF m.psp = 0 THEN Empty ELSE m.psp - 1
  BY SoundRegs, Moves
<1>2. CASE m.psp = Empty
  <2>1. Drop(m) = Fail(m, "punder")
    BY <1>1, <1>2 DEF Drop
  <2>2. "punder" \in Errors /\ Params(m) = <<>>
    BY <1>2, Heads DEF Errors
  <2>3. Drop(m).csp = m.csp
    BY <2>1 DEF Sound, MachType, Fail
  <2> QED
    BY <2>1, <2>2, <2>3, FailView
<1>3. CASE m.psp # Empty
  <2> DEFINE n == Drop(m)
  <2>1. n = IF m.psp = 0 THEN [m EXCEPT !.psp = Empty]
            ELSE [m EXCEPT !.pa = m.mem[m.psp - 1], !.psp = m.psp - 1]
    <3>1. CASE m.psp = 0
      BY <1>1, <3>1 DEF Drop
    <3>2. CASE m.psp # 0
      BY <1>1, <1>3, <3>2 DEF Drop
    <3> QED
      BY <3>1, <3>2
  <2>2. /\ n.psp = (IF m.psp = 0 THEN Empty ELSE m.psp - 1) /\ n.csp = m.csp
        /\ n.mem = m.mem /\ n.err = m.err
        /\ n.pa = IF m.psp = 0 THEN m.pa ELSE m.mem[m.psp - 1]
    BY <2>1 DEF Sound, MachType
  <2>3. Sound(n)
    <3>1. n \in MachType
      BY DropType DEF Sound
    <3>2. n.psp = Empty \/ n.psp <= n.csp
      <4>1. CASE m.psp = 0
        BY <2>2, <4>1
      <4>2. CASE m.psp # 0
        BY <1>1, <1>3, <2>2, <4>2
      <4> QED
        BY <4>1, <4>2
    <3>3. n.csp <= Cbp
      BY <1>1, <2>2
    <3> QED
      BY <3>1, <3>2, <3>3 DEF Sound, Apart
  <2>4. Params(m) # <<>>
    BY <1>3, Heads
  <2> HIDE DEF n
  <2>5. Control(n) = Control(m)
    BY <2>2, <2>3, SameViews
  <2>6. Depth(n) = Depth(m) - 1 /\ Depth(n) = m.psp /\ m.psp \in 0 .. Cbp
    BY <1>1, <1>3, <2>2 DEF Depth
  <2>7. /\ Front(Params(m)) \in Seq(Val) /\ Len(Front(Params(m))) = Depth(n)
        /\ \A i \in 1 .. Depth(n) : Front(Params(m))[i] = Params(m)[i]
    <3>1. Params(m) \in Seq(Val) /\ Len(Params(m)) - 1 = Depth(n)
      BY <2>6, Views
    <3> QED
      BY <2>4, <3>1, FrontLast
  <2>8. \A i \in 1 .. Depth(n) : Params(m)[i] = IF i <= n.psp THEN n.mem[i - 1] ELSE n.pa
    <3> SUFFICES ASSUME NEW i \in 1 .. Depth(n)
                 PROVE  Params(m)[i] = IF i <= n.psp THEN n.mem[i - 1] ELSE n.pa
      OBVIOUS
    <3> DEFINE k == m.psp
    <3>1. k \in 0 .. Cbp /\ Cbp \in Nat /\ i \in 1 .. k /\ Depth(m) - 1 = k /\ Depth(m) \in Nat
      BY <1>1, <2>6, Views
    <3>2. k # 0 /\ i \in 1 .. Depth(m) /\ i <= k
      BY <3>1
    <3>3. n.psp = m.psp - 1 /\ n.pa = m.mem[m.psp - 1]
      BY <2>2, <3>2
    <3>4. Params(m)[i] = m.mem[i - 1]
      BY <3>2, Views
    <3>5. CASE i = m.psp
      BY <2>2, <2>6, <3>2, <3>3, <3>4, <3>5
    <3>6. CASE i # m.psp
      BY <2>2, <2>6, <3>2, <3>3, <3>4, <3>6
    <3> QED
      BY <3>5, <3>6
  <2>9. Params(n) = Front(Params(m))
    BY <2>3, <2>7, <2>8, ViewsAre
  <2> QED
    BY <2>2, <2>3, <2>4, <2>5, <2>9 DEF n
<1> QED
  BY <1>2, <1>3

\* An operation that replaces the head.
LEMMA PutView ==
  ASSUME NEW m, Sound(m), NEW v \in Val
  PROVE  LET n == [m EXCEPT !.pa = v] IN
         /\ Sound(n) /\ n.err = m.err /\ Control(n) = Control(m)
         /\ Params(n) = IF Params(m) = <<>> THEN Params(m) ELSE Append(Front(Params(m)), v)
<1> DEFINE n == [m EXCEPT !.pa = v]
<1>1. n.psp = m.psp /\ n.csp = m.csp /\ n.mem = m.mem /\ n.err = m.err /\ n.pa = v
  BY DEF Sound, MachType
<1>2. Sound(n)
  BY DEF Sound, MachType, Apart
<1> HIDE DEF n
<1>3. Control(n) = Control(m)
  BY <1>1, <1>2, SameViews
<1>4. Depth(n) = Depth(m) /\ Depth(m) \in Nat
  BY <1>1, Views, SizeAssumption DEF Depth
<1>5. CASE Params(m) = <<>>
  <2>1. Params(n) = <<>>
    BY <1>1, <1>2, <1>5, Heads
  <2> QED
    BY <1>1, <1>2, <1>3, <1>5, <2>1 DEF n
<1>6. CASE Params(m) # <<>>
  <2> DEFINE f == Front(Params(m))
  <2>1. /\ f \in Seq(Val) /\ Len(f) = Depth(m) - 1
        /\ \A i \in 1 .. Depth(m) - 1 : f[i] = Params(m)[i]
    BY <1>6, Views, FrontLast
  <2> HIDE DEF f
  <2>2. m.psp \in 0 .. Cbp /\ Depth(m) = m.psp + 1 /\ Cbp \in Nat
    BY <1>6, SoundRegs, Heads DEF Depth
  <2>3. /\ Append(f, v) \in Seq(Val) /\ Len(Append(f, v)) = Len(f) + 1
        /\ \A i \in 1 .. Len(f) : Append(f, v)[i] = f[i]
        /\ Append(f, v)[Len(f) + 1] = v
    BY <2>1, AppendProperties
  <2>4. Len(f) = m.psp /\ Len(Append(f, v)) = Depth(n)
    BY <1>4, <2>1, <2>2, <2>3
  <2>5. \A i \in 1 .. Depth(n) : Append(f, v)[i] = IF i <= n.psp THEN n.mem[i - 1] ELSE n.pa
    <3> SUFFICES ASSUME NEW i \in 1 .. Depth(n)
                 PROVE  Append(f, v)[i] = IF i <= n.psp THEN n.mem[i - 1] ELSE n.pa
      OBVIOUS
    <3>1. CASE i <= m.psp
      <4>1. i \in 1 .. Len(f) /\ i \in 1 .. Depth(m)
        BY <1>4, <2>2, <2>4, <3>1
      <4>2. Append(f, v)[i] = Params(m)[i]
        BY <2>1, <2>2, <2>3, <2>4, <4>1
      <4>3. Params(m)[i] = m.mem[i - 1]
        BY <3>1, <4>1, Views
      <4> QED
        BY <1>1, <3>1, <4>2, <4>3
    <3>2. CASE ~(i <= m.psp)
      <4>1. i = Len(f) + 1
        BY <1>4, <2>2, <2>4, <3>2
      <4> QED
        BY <1>1, <2>3, <3>2, <4>1
    <3> QED
      BY <3>1, <3>2
  <2>6. Params(n) = Append(f, v)
    BY <1>2, <2>3, <2>4, <2>5, ViewsAre
  <2> QED
    BY <1>1, <1>2, <1>3, <1>6, <2>6 DEF n, f
<1> QED
  BY <1>5, <1>6

\* The states in which cpush() has no check for room.
Unchecked(m) == Depth(m) >= Size \/ Used(m) >= Size - 1

\* cpush()
LEMMA CPushView ==
  ASSUME NEW m, Sound(m), m.err = "nil", NEW v \in Val
  PROVE  LET n == CPush(m, v) IN
         \/ n.err = "nil" /\ ~Apart(n) /\ Unchecked(m)
         \/ /\ Sound(n) /\ Params(n) = Params(m)
            /\ \/ /\ n.err = "nil" /\ Depth(m) + Used(m) < Size
                  /\ Control(n) = Append(Control(m), v)
               \/ /\ n.err = "cover" /\ ~(Depth(m) + Used(m) < Size)
                  /\ Control(n) = Control(m)
<1> DEFINE n == CPush(m, v)
           c == Down(m.csp)
           w == [m EXCEPT !.mem = [@ EXCEPT ![m.csp] = v], !.csp = c]
<1>1. /\ m.psp \in {Empty} \cup 0 .. Cbp /\ m.csp \in 0 .. Cbp
      /\ m.psp = Empty \/ m.psp <= m.csp
      /\ m.pa \in Val /\ m.mem \in [Addr -> Val] /\ 0 .. Cbp \subseteq Addr
      /\ Cbp \in Nat /\ Size = Cbp + 1 /\ Empty \in Nat /\ Cbp + 1 < Empty
      /\ c = IF m.csp = 0 THEN Empty ELSE m.csp - 1
  BY SoundRegs, Moves
<1>2. n = IF m.psp < Cbp /\ c < m.psp THEN Fail(m, "cover") ELSE w
  BY DEF CPush
<1>3. /\ w.psp = m.psp /\ w.pa = m.pa /\ w.csp = c /\ w.err = "nil"
      /\ w.mem = [m.mem EXCEPT ![m.csp] = v]
  BY DEF Sound, MachType
<1>4. n \in MachType
  BY ControlType DEF Sound
<1> HIDE DEF n, c, w
<1>5. CASE m.psp < Cbp /\ c < m.psp
  <2>1. n = Fail(m, "cover") /\ "cover" \in Errors
    BY <1>2, <1>5 DEF Errors
  <2>2. ~(Depth(m) + Used(m) < Size)
    <3>1. m.psp \in 0 .. Cbp /\ m.csp # 0
      BY <1>1, <1>5
    <3> QED
      BY <1>1, <1>5, <3>1 DEF Depth, Used
  <2> QED
    BY <2>1, <2>2, FailView DEF n
<1>6. CASE ~(m.psp < Cbp /\ c < m.psp) /\ (m.csp = 0 \/ m.psp = Cbp)
  <2>1. n.err = "nil" /\ n.psp = m.psp /\ n.csp = c
    BY <1>2, <1>3, <1>6
  <2>2. ~Apart(n)
    <3>1. CASE m.csp = 0
      BY <1>1, <2>1, <3>1 DEF Apart
    <3>2. CASE m.csp # 0
      BY <1>1, <1>6, <2>1, <3>2 DEF Apart
    <3> QED
      BY <3>1, <3>2
  <2>3. Unchecked(m)
    BY <1>1, <1>6 DEF Unchecked, Depth, Used
  <2> QED
    BY <2>1, <2>2, <2>3 DEF n
<1>7. CASE ~(m.psp < Cbp /\ c < m.psp) /\ m.csp # 0 /\ m.psp # Cbp
  <2>1. n = w /\ c = m.csp - 1 /\ c \in 0 .. Cbp
    BY <1>1, <1>2, <1>7
  <2>2. /\ n.psp = m.psp /\ n.pa = m.pa /\ n.csp = c /\ n.err = "nil"
        /\ n.mem = [m.mem EXCEPT ![m.csp] = v]
    BY <1>3, <2>1
  <2>3. m.psp = Empty \/ m.psp <= c
    BY <1>1, <1>7, <2>1
  <2>4. Sound(n)
    BY <1>1, <1>4, <2>1, <2>2, <2>3 DEF Sound, Apart
  <2>5. Params(n) = Params(m)
    <3>1. CASE m.psp = Empty
      BY <2>2, <2>4, <3>1, Heads
    <3>2. CASE m.psp # Empty
      <4>1. \A a \in 0 .. Cbp : a < m.psp => n.mem[a] = m.mem[a]
        BY <1>1, <2>2, <3>2
      <4> QED
        BY <2>2, <2>4, <4>1, SameViews
    <3> QED
      BY <3>1, <3>2
  <2>6. Depth(m) + Used(m) < Size /\ Used(n) = Used(m) + 1 /\ Used(m) \in Nat
        /\ Cbp + 1 - Used(n) = m.csp
    BY <1>1, <2>1, <2>2, <2>3 DEF Depth, Used
  <2>7. /\ Append(Control(m), v) \in Seq(Val)
        /\ Len(Append(Control(m), v)) = Used(m) + 1
        /\ \A i \in 1 .. Used(m) : Append(Control(m), v)[i] = Control(m)[i]
        /\ Append(Control(m), v)[Used(m) + 1] = v
    BY Views, AppendProperties
  <2>8. \A i \in 1 .. Used(n) : Append(Control(m), v)[i] = n.mem[Cbp + 1 - i]
    <3> SUFFICES ASSUME NEW i \in 1 .. Used(n)
                 PROVE  Append(Control(m), v)[i] = n.mem[Cbp + 1 - i]
      OBVIOUS
    <3>1. m.csp \in Addr
      BY <1>1
    <3>2. CASE i = Used(n)
      BY <1>1, <2>2, <2>6, <2>7, <3>1, <3>2
    <3>3. CASE i # Used(n)
      <4>1. i \in 1 .. Used(m) /\ Cbp + 1 - i # m.csp
        BY <1>1, <2>6, <3>3
      <4>2. Append(Control(m), v)[i] = m.mem[Cbp + 1 - i]
        BY <2>7, <4>1, Views
      <4> QED
        BY <1>1, <2>2, <4>1, <4>2
    <3> QED
      BY <3>2, <3>3
  <2>9. Control(n) = Append(Control(m), v)
    BY <2>4, <2>6, <2>7, <2>8, ViewsAre
  <2> QED
    BY <2>2, <2>4, <2>5, <2>6, <2>9 DEF n
<1> QED
  BY <1>5, <1>6, <1>7

\* cpop()
LEMMA CPopView ==
  ASSUME NEW m, Sound(m), m.err = "nil"
  PROVE  LET n == CPop(m) IN
         /\ Sound(n) /\ Params(n) = Params(m) /\ n.psp = m.psp
         /\ \/ /\ Control(m) # <<>> /\ Control(n) = Front(Control(m))
               /\ m.mem[n.csp] = Last(Control(m)) /\ n.err = "nil"
            \/ /\ Control(m) = <<>> /\ Control(n) = Control(m) /\ n.err = "cunder"
<1> DEFINE n == CPop(m)
<1>1. /\ m.psp \in {Empty} \cup 0 .. Cbp /\ m.csp \in 0 .. Cbp
      /\ m.psp = Empty \/ m.psp <= m.csp
      /\ m.pa \in Val /\ m.mem \in [Addr -> Val] /\ 0 .. Cbp \subseteq Addr
      /\ Cbp \in Nat /\ Size = Cbp + 1 /\ Empty \in Nat /\ Cbp + 1 < Empty
      /\ Up(m.csp) = IF m.csp = Empty THEN 0 ELSE m.csp + 1
  BY SoundRegs, Moves
<1>2. CASE m.csp = Cbp
  <2>1. n = Fail(m, "cunder") /\ "cunder" \in Errors
    BY <1>1, <1>2 DEF CPop, Errors
  <2>2. Control(m) = <<>>
    BY <1>2, Heads
  <2>3. n.psp = m.psp
    BY <2>1 DEF Sound, MachType, Fail
  <2> HIDE DEF n
  <2> QED
    BY <2>1, <2>2, <2>3, FailView DEF n
<1>3. CASE m.csp # Cbp
  <2>1. n = [m EXCEPT !.csp = m.csp + 1]
    BY <1>1, <1>3 DEF CPop
  <2>2. n.psp = m.psp /\ n.pa = m.pa /\ n.mem = m.mem /\ n.err = "nil" /\ n.csp = m.csp + 1
    BY <2>1 DEF Sound, MachType
  <2>3. Sound(n)
    <3>1. n \in MachType
      BY ValAssumption, ControlType DEF Sound
    <3> QED
      BY <1>1, <1>3, <2>2, <3>1 DEF Sound, Apart
  <2> HIDE DEF n
  <2>4. Params(n) = Params(m)
    BY <2>2, <2>3, SameViews
  <2>5. Control(m) # <<>> /\ m.mem[n.csp] = Last(Control(m))
    BY <1>3, <2>2, Heads
  <2>6. Used(n) = Used(m) - 1 /\ Used(m) \in Nat
    BY <1>1, <1>3, <2>2 DEF Used
  <2>7. /\ Front(Control(m)) \in Seq(Val) /\ Len(Front(Control(m))) = Used(n)
        /\ \A i \in 1 .. Used(n) : Front(Control(m))[i] = Control(m)[i]
    <3>1. Control(m) \in Seq(Val) /\ Len(Control(m)) - 1 = Used(n)
      BY <2>6, Views
    <3> QED
      BY <2>5, <3>1, FrontLast
  <2>8. \A i \in 1 .. Used(n) : Control(m)[i] = n.mem[Cbp + 1 - i]
    <3>1. \A i \in 1 .. Used(n) : i \in 1 .. Used(m)
      BY <2>6
    <3> QED
      BY <2>2, <3>1, Views
  <2>9. Control(n) = Front(Control(m))
    BY <2>3, <2>7, <2>8, ViewsAre
  <2> QED
    BY <2>2, <2>3, <2>4, <2>5, <2>9 DEF n
<1> QED
  BY <1>2, <1>3

\* swap, of the head and what pRef() finds: a word of the stack, or a free one.
LEMMA SwapView ==
  ASSUME NEW m, Sound(m), m.err = "nil", NEW i \in Addr
  PROVE  LET n  == Swap(m, i)
             ps == Params(m) IN
         /\ Sound(n) /\ Control(n) = Control(m)
         /\ \/ n.err = "punder" /\ Params(n) = ps
            \/ n.err = "nil" /\ Params(n) = ps
            \/ /\ n.err = "nil"
               /\ \E v \in Val :
                    Params(n) = IF ps = <<>> THEN ps ELSE Append(Front(ps), v)
            \/ /\ n.err = "nil" /\ i \in 1 .. Len(ps)
               /\ Params(n) = [ps EXCEPT ![Len(ps) + 1 - i] = Last(ps),
                                         ![Len(ps)] = ps[Len(ps) + 1 - i]]
<1> DEFINE n == Swap(m, i)
           ps == Params(m)
           a == Ref(m, i)
<1>1. /\ m.psp \in {Empty} \cup 0 .. Cbp /\ m.csp \in 0 .. Cbp
      /\ m.psp = Empty \/ m.psp <= m.csp
      /\ m.pa \in Val /\ m.mem \in [Addr -> Val] /\ 0 .. Cbp \subseteq Addr
      /\ Cbp \in Nat /\ Size = Cbp + 1 /\ Empty \in Nat /\ Cbp + 1 < Empty
      /\ Empty = Words - 1 /\ Words \in Nat /\ i \in 0 .. Words - 1
  <2>1. i \in 0 .. Words - 1
    BY DEF Addr
  <2> QED
    BY <2>1, SoundRegs, Moves
<1>2. a \in Addr /\ n \in MachType
  BY RefType, ReferType DEF Sound
<1>3. CASE m.psp = Empty \/ (i # 1 /\ ~InParams(m, i))
  <2>1. n = Fail(m, "punder") /\ "punder" \in Errors
    <3>1. CASE m.psp = Empty
      BY <3>1 DEF Swap, Errors
    <3>2. CASE m.psp # Empty
      BY <1>3, <3>2 DEF Swap, Errors
    <3> QED
      BY <3>1, <3>2
  <2> HIDE DEF n
  <2> QED
    BY <2>1, FailView DEF n
<1>4. CASE m.psp # Empty /\ i = 1
  BY <1>4 DEF Swap
<1>5. CASE m.psp # Empty /\ i # 1 /\ InParams(m, i)
  <2>1. n = [m EXCEPT !.pa = m.mem[a], !.mem = [@ EXCEPT ![a] = m.pa]]
    BY <1>5 DEF Swap
  <2>2. /\ n.psp = m.psp /\ n.csp = m.csp /\ n.err = "nil" /\ n.pa = m.mem[a]
        /\ n.mem = [m.mem EXCEPT ![a] = m.pa]
    BY <2>1 DEF Sound, MachType
  <2>3. Sound(n)
    BY <1>2, <2>2 DEF Sound, Apart
  <2>4. a \in 0 .. m.csp /\ a # m.psp
    <3>1. a <= m.csp
      BY <1>5 DEF InParams
    <3>2. a = IF m.psp + 1 - i < 0 THEN m.psp + 1 - i + Words ELSE m.psp + 1 - i
      BY <1>1, <1>5 DEF Ref, Wrap
    <3> HIDE DEF a
    <3> QED
      BY <1>1, <1>2, <1>5, <3>1, <3>2 DEF Addr
  <2>5. a < m.psp => i \in 1 .. m.psp + 1 /\ a = m.psp + 1 - i
    <3>1. a = IF m.psp + 1 - i < 0 THEN m.psp + 1 - i + Words ELSE m.psp + 1 - i
      BY <1>1, <1>5 DEF Ref, Wrap
    <3> HIDE DEF a
    <3> QED
      BY <1>1, <1>5, <3>1
  <2> HIDE DEF n, a
  <2>6. Control(n) = Control(m)
    <3>1. \A b \in 0 .. Cbp : b > m.csp => n.mem[b] = m.mem[b]
      BY <1>1, <1>2, <2>2, <2>4
    <3> QED
      BY <2>2, <2>3, <3>1, SameViews
  <2>7. m.mem[a] \in Val
    BY <1>1, <1>2
  <2>8. CASE a > m.psp
    <3> DEFINE q == [m EXCEPT !.pa = m.mem[a]]
    <3>1. /\ Sound(q)
          /\ Params(q) = IF ps = <<>> THEN ps ELSE Append(Front(ps), m.mem[a])
      BY <2>7, PutView
    <3>2. q.psp = m.psp /\ q.pa = m.mem[a] /\ q.mem = m.mem
      BY DEF Sound, MachType
    <3> HIDE DEF q
    <3>3. \A b \in 0 .. Cbp : b < q.psp => n.mem[b] = q.mem[b]
      BY <1>1, <1>2, <1>5, <2>2, <2>4, <2>8, <3>2
    <3>4. Params(n) = Params(q)
      BY <2>2, <2>3, <3>1, <3>2, <3>3, SameViews
    <3> QED
      BY <2>2, <2>3, <2>6, <2>7, <3>1, <3>4 DEF n
  <2>9. CASE a < m.psp
    <3> DEFINE D == Depth(m)
               s == [ps EXCEPT ![D + 1 - i] = Last(ps), ![D] = ps[D + 1 - i]]
    <3>1. ps \in [1 .. D -> Val] /\ Len(ps) = D /\ D \in Nat
      BY Views, LenProperties
    <3>2. D = m.psp + 1 /\ i \in 1 .. D /\ D + 1 - i = a + 1 /\ a + 1 \in 1 .. m.psp
      BY <1>1, <1>5, <2>4, <2>5, <2>9 DEF Depth
    <3>3. Last(ps) = m.pa /\ ps[a + 1] = m.mem[a]
      <4>1. Last(ps) = m.pa
        BY <1>5, Heads
      <4> DEFINE k == a + 1
      <4>2. k \in 1 .. Depth(m) /\ k <= m.psp /\ k - 1 = a
        BY <1>1, <2>4, <3>2
      <4> HIDE DEF k
      <4>3. Params(m)[k] = m.mem[k - 1]
        BY <4>2, Views
      <4>4. ps[k] = m.mem[a]
        BY <4>2, <4>3
      <4> QED
        BY <4>1, <4>4 DEF k
    <3>4. Depth(n) = D
      BY <2>2 DEF Depth
    <3> HIDE DEF D
    <3>5. s = [ps EXCEPT ![a + 1] = m.pa, ![D] = m.mem[a]]
      BY <3>2, <3>3
    <3> HIDE DEF s
    <3>6. s \in [1 .. D -> Val]
      BY <1>1, <2>7, <3>1, <3>5
    <3>7. s \in Seq(Val) /\ Len(s) = D
      BY <3>1, <3>6, SeqDef, LenProperties
    <3>8. \A j \in 1 .. D : s[j] = IF j <= n.psp THEN n.mem[j - 1] ELSE n.pa
      <4> SUFFICES ASSUME NEW j \in 1 .. D
                   PROVE  s[j] = IF j <= n.psp THEN n.mem[j - 1] ELSE n.pa
        OBVIOUS
      <4>1. CASE j = D
        BY <1>1, <2>2, <3>1, <3>2, <3>5, <4>1
      <4>2. CASE j = a + 1
        <5>1. j # D /\ j <= n.psp /\ j - 1 = a
          BY <1>1, <2>2, <2>4, <3>2, <4>2
        <5> QED
          BY <1>1, <1>2, <2>2, <3>1, <3>5, <4>2, <5>1
      <4>3. CASE j # D /\ j # a + 1
        <5>1. j <= m.psp /\ j - 1 # a /\ j - 1 \in 0 .. Cbp
          <6>1. m.psp \in 0 .. Cbp /\ a \in 0 .. Cbp /\ Cbp \in Nat
            BY <1>1, <1>5, <2>4
          <6>2. j \in 1 .. m.psp + 1 /\ j # m.psp + 1
            BY <3>2, <4>3
          <6> QED
            BY <4>3, <6>1, <6>2
        <5>2. s[j] = ps[j]
          BY <3>1, <3>5, <4>3
        <5>3. ps[j] = m.mem[j - 1]
          BY <5>1, Views DEF D
        <5> QED
          BY <1>1, <1>2, <2>2, <5>1, <5>2, <5>3
      <4> QED
        BY <4>1, <4>2, <4>3
    <3>9. Params(n) = s
      BY <2>3, <3>4, <3>7, <3>8, ViewsAre
    <3> QED
      BY <2>2, <2>3, <2>6, <3>1, <3>2, <3>9 DEF n, s
  <2> QED
    BY <1>1, <1>5, <2>4, <2>8, <2>9
<1> QED
  BY <1>3, <1>4, <1>5

-----------------------------------------------------------------------------
(* The stacks implement two sequences *)

AbsPs == IF passed THEN <<>> ELSE FetchPS(mach).vals
AbsCs == IF passed THEN <<>> ELSE FetchCS(mach).vals

\* AbsStacks means the same by these words.
LEMMA SameWords == \A s : Abs!Front(s) = Front(s) /\ Abs!Last(s) = Last(s)
BY DEF Abs!Front, Abs!Last, Front, Last

\* What the mapping shows before and after an operation that ends apart.
LEMMA Shown ==
  ASSUME Inv, ~passed, mach.err = "nil", NEW n, Becomes(n), Sound(n)
  PROVE  /\ ~passed' /\ passed' = passed /\ mach' = n /\ mach'.err = n.err
         /\ AbsPs = Params(mach) /\ AbsCs = Control(mach)
         /\ AbsPs' = Params(n) /\ AbsCs' = Control(n)
         /\ Len(AbsPs) = Depth(mach) /\ Len(AbsCs) = Used(mach)
<1>1. ~passed' /\ passed' = passed /\ mach' = n
  BY DEF Becomes, Sound, Inv, TypeOK
<1>2. Len(Params(mach)) = Depth(mach) /\ Len(Control(mach)) = Used(mach)
  BY SoundNow, Views
<1> QED
  BY <1>1, <1>2 DEF AbsPs, AbsCs, Params, Control

\* push, dup and c2p push a value.
LEMMA PushAbs ==
  ASSUME Inv, ~passed, mach.err = "nil", NEW v \in Val, Becomes(Push(mach, v))
  PROVE  Abs!Push(v)
<1> DEFINE n == Push(mach, v)
<1>1. /\ Sound(n) /\ Control(n) = Control(mach)
      /\ \/ /\ n.err = "nil" /\ Depth(mach) + Used(mach) < Size
            /\ Params(n) = Append(Params(mach), v)
         \/ /\ n.err \in {"pover", "punder"} /\ ~(Depth(mach) + Used(mach) < Size)
            /\ Params(n) = Params(mach)
  BY SoundNow, PushView
<1> HIDE DEF n
<1>2. Becomes(n)
  BY DEF n
<1>3. /\ passed' = passed /\ mach'.err = n.err
      /\ AbsPs = Params(mach) /\ AbsCs = Control(mach)
      /\ AbsPs' = Params(n) /\ AbsCs' = Control(n)
      /\ Len(AbsPs) = Depth(mach) /\ Len(AbsCs) = Used(mach)
  BY <1>1, <1>2, Shown
<1> QED
  BY <1>1, <1>3 DEF AbsPs, AbsCs, Abs!Push, Abs!Live, Abs!Room, Abs!Becomes,
                    Abs!PushFails, Abs!FailsAt

\* An operation that fails and shows nothing but its error.
LEMMA FailAbs ==
  ASSUME Inv, ~passed, mach.err = "nil", NEW n, Becomes(n), Sound(n),
         Params(n) = Params(mach), Control(n) = Control(mach)
  PROVE  /\ n.err = "punder" => Abs!NoSuchWord
         /\ n.err = "nil" => UNCHANGED Abs!vars
<1>1. /\ passed' = passed /\ mach'.err = n.err /\ AbsPs = Params(mach) /\ AbsCs = Control(mach)
      /\ AbsPs' = Params(n) /\ AbsCs' = Control(n)
  BY Shown
<1> QED
  BY <1>1 DEF AbsPs, AbsCs, Abs!NoSuchWord, Abs!Live, Abs!Fails, Abs!FailsAt, Abs!vars

\* An operation that passes the pointers, from a state with no check for room.
LEMMA OverrunAbs ==
  ASSUME Inv, ~passed, mach.err = "nil", NEW n, Becomes(n), ~Apart(n), n.err = "nil",
         Unchecked(mach)
  PROVE  Abs!Overrun
<1>1. passed' /\ mach' = n
  BY DEF Becomes
<1>2. Len(Params(mach)) = Depth(mach) /\ Len(Control(mach)) = Used(mach)
  BY SoundNow, Views
<1>3. AbsPs = Params(mach) /\ AbsCs = Control(mach) /\ AbsPs' = <<>> /\ AbsCs' = <<>>
  BY <1>1 DEF AbsPs, AbsCs, Params, Control
<1> QED
  BY <1>1, <1>2, <1>3 DEF AbsPs, AbsCs, Unchecked, Abs!Overrun, Abs!Live

\* Every step of a machine whose pointers have not passed is a step of AbsStacks.
LEMMA ApartStep ==
  ASSUME Inv, ~passed, Next
  PROVE  [Abs!Next]_(Abs!vars)
<1>1. Sound(mach) /\ mach.pa \in Val /\ mach.mem \in [Addr -> Val]
  BY SoundNow DEF Sound, MachType
<1>2. Params(mach) \in Seq(Val) /\ Control(mach) \in Seq(Val)
  BY <1>1, Views
<1>3. CASE PushOp
  <2>1. PICK v \in Val : Becomes(Push(mach, v))
    BY <1>3 DEF PushOp
  <2>2. mach.err = "nil"
    BY <2>1 DEF Becomes
  <2> QED
    BY <2>1, <2>2, PushAbs DEF Abs!Next
<1>4. CASE DropOp
  <2>1. mach.err = "nil" /\ Becomes(Drop(mach))
    BY <1>4 DEF DropOp, Becomes
  <2> DEFINE n == Drop(mach)
  <2>2. /\ Sound(n) /\ Control(n) = Control(mach)
        /\ \/ /\ Params(mach) # <<>> /\ Params(n) = Front(Params(mach)) /\ n.err = "nil"
           \/ /\ Params(mach) = <<>> /\ Params(n) = Params(mach) /\ n.err = "punder"
    BY <1>1, <2>1, DropView
  <2> HIDE DEF n
  <2>3. Becomes(n)
    BY <2>1 DEF n
  <2>4. /\ passed' = passed /\ mach'.err = n.err /\ AbsPs = Params(mach) /\ AbsCs = Control(mach)
        /\ AbsPs' = Params(n) /\ AbsCs' = Control(n)
    BY <2>1, <2>2, <2>3, Shown
  <2>5. Abs!Drop
    BY <2>1, <2>2, <2>4, SameWords DEF AbsPs, AbsCs, Abs!Drop, Abs!Live, Abs!Becomes, Abs!Fails,
                            Abs!FailsAt
  <2> QED
    BY <2>5 DEF Abs!Next
<1>5. CASE PutOp
  <2>1. PICK v \in Val : Becomes([mach EXCEPT !.pa = v])
    BY <1>5 DEF PutOp
  <2> DEFINE n == [mach EXCEPT !.pa = v]
  <2>2. mach.err = "nil"
    BY <2>1 DEF Becomes
  <2>3. /\ Sound(n) /\ n.err = mach.err /\ Control(n) = Control(mach)
        /\ Params(n) = IF Params(mach) = <<>> THEN Params(mach)
                       ELSE Append(Front(Params(mach)), v)
    BY <1>1, PutView
  <2> HIDE DEF n
  <2>4. Becomes(n)
    BY <2>1 DEF n
  <2>5. /\ passed' = passed /\ mach'.err = n.err /\ AbsPs = Params(mach) /\ AbsCs = Control(mach)
        /\ AbsPs' = Params(n) /\ AbsCs' = Control(n)
    BY <2>2, <2>3, <2>4, Shown
  <2>6. Abs!Put(v)
    BY <2>2, <2>3, <2>5, SameWords DEF AbsPs, AbsCs, Abs!Put, Abs!Live, Abs!Becomes
  <2> QED
    BY <2>6 DEF Abs!Next
<1>6. CASE DupOp
  <2>1. PICK i \in Addr : Becomes(Dup(mach, i))
    BY <1>6 DEF DupOp
  <2>2. mach.err = "nil" /\ mach.mem[Ref(mach, i)] \in Val
    BY <1>1, <2>1, RefType DEF Becomes, Sound
  <2>3. CASE i = 1 \/ InParams(mach, i)
    <3>1. PICK v \in Val : Dup(mach, i) = Push(mach, v)
      <4>1. CASE i = 1
        BY <1>1, <4>1 DEF Dup
      <4>2. CASE i # 1
        BY <2>2, <2>3, <4>2 DEF Dup
      <4> QED
        BY <4>1, <4>2
    <3>2. Abs!Push(v)
      BY <2>1, <2>2, <3>1, PushAbs
    <3> QED
      BY <3>2 DEF Abs!Next
  <2>4. CASE ~(i = 1 \/ InParams(mach, i))
    <3>1. Dup(mach, i) = Fail(mach, "punder") /\ "punder" \in Errors
      BY <2>4 DEF Dup, Errors
    <3> DEFINE n == Fail(mach, "punder")
    <3>2. /\ Sound(n) /\ n.err = "punder"
          /\ Params(n) = Params(mach) /\ Control(n) = Control(mach)
      BY <1>1, <3>1, FailView
    <3>3. Becomes(n)
      BY <2>1, <3>1
    <3> HIDE DEF n
    <3> QED
      BY <2>2, <3>2, <3>3, FailAbs DEF Abs!Next
  <2> QED
    BY <2>3, <2>4
<1>7. CASE SwapOp
  <2>1. PICK i \in Addr : Becomes(Swap(mach, i))
    BY <1>7 DEF SwapOp
  <2> DEFINE n  == Swap(mach, i)
             ps == Params(mach)
  <2>2. mach.err = "nil"
    BY <2>1 DEF Becomes
  <2>3. /\ Sound(n) /\ Control(n) = Control(mach)
        /\ \/ n.err = "punder" /\ Params(n) = ps
           \/ n.err = "nil" /\ Params(n) = ps
           \/ /\ n.err = "nil"
              /\ \E v \in Val : Params(n) = IF ps = <<>> THEN ps ELSE Append(Front(ps), v)
           \/ /\ n.err = "nil" /\ i \in 1 .. Len(ps)
              /\ Params(n) = [ps EXCEPT ![Len(ps) + 1 - i] = Last(ps),
                                        ![Len(ps)] = ps[Len(ps) + 1 - i]]
    BY <1>1, <2>2, SwapView
  <2> HIDE DEF n
  <2>4. Becomes(n)
    BY <2>1 DEF n
  <2>5. /\ passed' = passed /\ mach'.err = n.err /\ AbsPs = ps /\ AbsCs = Control(mach)
        /\ AbsPs' = Params(n) /\ AbsCs' = Control(n)
    BY <2>2, <2>3, <2>4, Shown
  <2>6. CASE Params(n) = ps
    BY <2>2, <2>3, <2>4, <2>6, FailAbs DEF Abs!Next
  <2>7. ASSUME n.err = "nil", NEW v \in Val,
               Params(n) = IF ps = <<>> THEN ps ELSE Append(Front(ps), v)
        PROVE  Abs!Next
    <3>1. Abs!Put(v)
      BY <2>2, <2>3, <2>5, <2>7, SameWords DEF AbsPs, AbsCs, Abs!Put, Abs!Live, Abs!Becomes
    <3> QED
      BY <3>1 DEF Abs!Next
  <2>8. ASSUME n.err = "nil", i \in 1 .. Len(ps),
               Params(n) = [ps EXCEPT ![Len(ps) + 1 - i] = Last(ps),
                                      ![Len(ps)] = ps[Len(ps) + 1 - i]]
        PROVE  Abs!Next
    <3>1. Abs!Swap(i)
      BY <2>2, <2>3, <2>5, <2>8, SameWords DEF AbsPs, AbsCs, Abs!Swap, Abs!Live, Abs!Becomes
    <3>2. i \in 1 .. Size
      <4>1. Len(ps) \in 0 .. Size
        BY <1>1, Views
      <4> QED
        BY <2>8, <4>1, SizeAssumption
    <3> QED
      BY <3>1, <3>2 DEF Abs!Next
  <2> QED
    BY <2>3, <2>6, <2>7, <2>8
<1>8. CASE CPushOp
  <2>1. PICK v \in Val : Becomes(CPush(mach, v))
    BY <1>8 DEF CPushOp
  <2> DEFINE n == CPush(mach, v)
  <2>2. mach.err = "nil"
    BY <2>1 DEF Becomes
  <2>3. \/ n.err = "nil" /\ ~Apart(n) /\ Unchecked(mach)
        \/ /\ Sound(n) /\ Params(n) = Params(mach)
           /\ \/ /\ n.err = "nil" /\ Depth(mach) + Used(mach) < Size
                 /\ Control(n) = Append(Control(mach), v)
              \/ /\ n.err = "cover" /\ ~(Depth(mach) + Used(mach) < Size)
                 /\ Control(n) = Control(mach)
    BY <1>1, <2>2, CPushView
  <2> HIDE DEF n
  <2>4. Becomes(n)
    BY <2>1 DEF n
  <2>5. CASE n.err = "nil" /\ ~Apart(n) /\ Unchecked(mach)
    BY <2>2, <2>4, <2>5, OverrunAbs DEF Abs!Next
  <2>6. CASE Sound(n)
    <3>1. /\ passed' = passed /\ mach'.err = n.err /\ AbsPs = Params(mach) /\ AbsCs = Control(mach)
          /\ AbsPs' = Params(n) /\ AbsCs' = Control(n)
          /\ Len(AbsPs) = Depth(mach) /\ Len(AbsCs) = Used(mach)
      BY <2>2, <2>4, <2>6, Shown
    <3>2. Apart(n)
      BY <2>6 DEF Sound
    <3>3. Abs!CPush(v)
      BY <2>2, <2>3, <3>1, <3>2 DEF AbsPs, AbsCs, Abs!CPush, Abs!Live, Abs!Room,
                                    Abs!Becomes, Abs!Fails, Abs!FailsAt
    <3> QED
      BY <3>3 DEF Abs!Next
  <2> QED
    BY <2>3, <2>5, <2>6
<1>9. CASE CPopOp
  <2>1. mach.err = "nil" /\ Becomes(CPop(mach))
    BY <1>9 DEF CPopOp, Becomes
  <2> DEFINE n == CPop(mach)
  <2>2. /\ Sound(n) /\ Params(n) = Params(mach)
        /\ \/ /\ Control(mach) # <<>> /\ Control(n) = Front(Control(mach)) /\ n.err = "nil"
           \/ /\ Control(mach) = <<>> /\ Control(n) = Control(mach) /\ n.err = "cunder"
    BY <1>1, <2>1, CPopView
  <2> HIDE DEF n
  <2>3. Becomes(n)
    BY <2>1 DEF n
  <2>4. /\ passed' = passed /\ mach'.err = n.err /\ AbsPs = Params(mach) /\ AbsCs = Control(mach)
        /\ AbsPs' = Params(n) /\ AbsCs' = Control(n)
    BY <2>1, <2>2, <2>3, Shown
  <2>5. Abs!CPop
    BY <2>1, <2>2, <2>4, SameWords DEF AbsPs, AbsCs, Abs!CPop, Abs!Live, Abs!Becomes, Abs!Fails,
                            Abs!FailsAt
  <2> QED
    BY <2>5 DEF Abs!Next
<1>10. CASE P2COp
  <2>1. mach.err = "nil" /\ Becomes(P2C(mach))
    BY <1>10 DEF P2COp, Becomes
  <2> DEFINE t == Drop(mach)
             n == P2C(mach)
  <2>2. /\ Sound(t) /\ Control(t) = Control(mach) /\ t.csp = mach.csp
        /\ \/ /\ Params(mach) # <<>> /\ Params(t) = Front(Params(mach)) /\ t.err = "nil"
           \/ /\ Params(mach) = <<>> /\ Params(t) = Params(mach) /\ t.err = "punder"
    BY <1>1, <2>1, DropView
  <2>3. n = IF t.err # "nil" THEN t ELSE CPush(t, mach.pa)
    BY DEF P2C
  <2>4. Becomes(n)
    BY <2>1
  <2> HIDE DEF n, t
  <2>5. CASE Params(mach) = <<>>
    <3>1. /\ Sound(n) /\ n.err = "punder"
          /\ Params(n) = Params(mach) /\ Control(n) = Control(mach)
      BY <2>2, <2>3, <2>5
    <3> QED
      BY <2>1, <2>4, <3>1, FailAbs DEF Abs!Next
  <2>6. CASE Params(mach) # <<>>
    <3>1. n = CPush(t, mach.pa) /\ t.err = "nil" /\ Params(t) = Front(Params(mach))
      BY <2>2, <2>3, <2>6
    <3>2. mach.pa = Last(Params(mach))
      BY <1>1, <2>6, Heads
    <3>3. Depth(t) = Depth(mach) - 1 /\ Used(t) = Used(mach)
      <4>1. Len(Params(t)) = Len(Params(mach)) - 1
        BY <1>2, <2>6, <3>1, FrontLast
      <4>2. Len(Params(t)) = Depth(t) /\ Len(Params(mach)) = Depth(mach)
        BY <1>1, <2>2, Views
      <4> QED
        BY <2>2, <4>1, <4>2 DEF Used
    <3>4. /\ Depth(mach) \in 0 .. Size /\ Used(mach) \in Nat
          /\ Depth(mach) + Used(mach) <= Size /\ Size \in Nat
      <4>1. Depth(mach) \in 0 .. Size /\ Used(mach) \in 0 .. Cbp
            /\ Depth(mach) + Used(mach) <= Size
        BY <1>1, Views
      <4> QED
        BY <4>1, SizeAssumption, Moves
    <3>5. Depth(t) + Used(t) < Size
      BY <3>3, <3>4
    <3>6. \/ n.err = "nil" /\ ~Apart(n) /\ Unchecked(t)
          \/ /\ Sound(n) /\ Params(n) = Params(t)
             /\ n.err = "nil" /\ Control(n) = Append(Control(t), mach.pa)
      BY <1>1, <2>2, <3>1, <3>5, CPushView
    <3>7. CASE n.err = "nil" /\ ~Apart(n) /\ Unchecked(t)
      <4>1. Unchecked(mach)
        BY <3>3, <3>4, <3>7 DEF Unchecked
      <4> QED
        BY <2>1, <2>4, <3>7, <4>1, OverrunAbs DEF Abs!Next
    <3>8. CASE Sound(n)
      <4>1. Apart(n)
        BY <3>8 DEF Sound
      <4>2. /\ passed' = passed /\ mach'.err = n.err
            /\ AbsPs = Params(mach) /\ AbsCs = Control(mach)
            /\ AbsPs' = Params(n) /\ AbsCs' = Control(n)
        BY <2>1, <2>4, <3>8, Shown
      <4>3. /\ AbsPs' = Front(AbsPs) /\ AbsCs' = Append(AbsCs, Last(AbsPs))
            /\ AbsPs # <<>> /\ mach'.err = "nil"
        BY <2>2, <2>6, <3>1, <3>2, <3>6, <4>1, <4>2
      <4>4. Abs!P2C
        BY <2>1, <4>2, <4>3, SameWords DEF AbsPs, AbsCs, Abs!P2C, Abs!Live, Abs!Becomes
      <4> QED
        BY <4>4 DEF Abs!Next
    <3> QED
      BY <3>6, <3>7, <3>8
  <2> QED
    BY <2>5, <2>6
<1>11. CASE C2POp
  <2>1. mach.err = "nil" /\ Becomes(C2P(mach))
    BY <1>11 DEF C2POp, Becomes
  <2> DEFINE t == CPop(mach)
             n == C2P(mach)
  <2>2. /\ Sound(t) /\ Params(t) = Params(mach) /\ t.psp = mach.psp
        /\ \/ /\ Control(mach) # <<>> /\ Control(t) = Front(Control(mach))
              /\ mach.mem[t.csp] = Last(Control(mach)) /\ t.err = "nil"
           \/ /\ Control(mach) = <<>> /\ Control(t) = Control(mach) /\ t.err = "cunder"
    BY <1>1, <2>1, CPopView
  <2>3. n = IF t.err # "nil" THEN t ELSE Push(t, mach.mem[t.csp])
    BY DEF C2P
  <2>4. Becomes(n)
    BY <2>1
  <2> HIDE DEF n, t
  <2>5. CASE Control(mach) = <<>>
    <3>1. /\ Sound(n) /\ n.err = "cunder"
          /\ Params(n) = Params(mach) /\ Control(n) = Control(mach)
      BY <2>2, <2>3, <2>5
    <3>2. /\ passed' = passed /\ mach'.err = n.err
          /\ AbsPs = Params(mach) /\ AbsCs = Control(mach)
          /\ AbsPs' = Params(n) /\ AbsCs' = Control(n)
      BY <2>1, <2>4, <3>1, Shown
    <3>3. Abs!CPop
      BY <2>1, <2>5, <3>1, <3>2, SameWords DEF AbsPs, AbsCs, Abs!CPop, Abs!Live, Abs!Fails, Abs!FailsAt
    <3> QED
      BY <3>3 DEF Abs!Next
  <2>6. CASE Control(mach) # <<>>
    <3> DEFINE v == Last(Control(mach))
    <3>1. n = Push(t, v) /\ t.err = "nil" /\ Control(t) = Front(Control(mach)) /\ v \in Val
      BY <1>2, <2>2, <2>3, <2>6, FrontLast
    <3>2. Depth(t) = Depth(mach) /\ Used(t) = Used(mach) - 1
      <4>1. Len(Control(t)) = Len(Control(mach)) - 1
        BY <1>2, <2>6, <3>1, FrontLast
      <4>2. Len(Control(t)) = Used(t) /\ Len(Control(mach)) = Used(mach)
        BY <1>1, <2>2, Views
      <4> QED
        BY <2>2, <4>1, <4>2 DEF Depth
    <3>3. Depth(t) + Used(t) < Size
      <4>1. Depth(mach) \in 0 .. Size /\ Used(mach) \in 0 .. Cbp
            /\ Depth(mach) + Used(mach) <= Size
        BY <1>1, Views
      <4> QED
        BY <3>2, <4>1, SizeAssumption, Moves
    <3>4. /\ Sound(n) /\ Control(n) = Control(t)
          /\ n.err = "nil" /\ Params(n) = Append(Params(t), v)
      BY <2>2, <3>1, <3>3, PushView
    <3>5. /\ passed' = passed /\ mach'.err = n.err
          /\ AbsPs = Params(mach) /\ AbsCs = Control(mach)
          /\ AbsPs' = Params(n) /\ AbsCs' = Control(n)
      BY <2>1, <2>4, <3>4, Shown
    <3>6. /\ AbsPs' = Append(AbsPs, Last(AbsCs)) /\ AbsCs' = Front(AbsCs)
          /\ AbsCs # <<>> /\ mach'.err = "nil"
      BY <2>2, <2>6, <3>1, <3>4, <3>5
    <3>7. Abs!C2P
      BY <2>1, <3>5, <3>6, SameWords DEF AbsPs, AbsCs, Abs!C2P, Abs!Live, Abs!Becomes
    <3> QED
      BY <3>7 DEF Abs!Next
  <2> QED
    BY <2>5, <2>6
<1>12. CASE Stopped
  BY <1>12 DEF Stopped, vars, Abs!vars
<1> QED
  BY <1>3, <1>4, <1>5, <1>6, <1>7, <1>8, <1>9, <1>10, <1>11, <1>12 DEF Next

\* push(), drop(), cpush(), cpop(), dup, swap, p2c and c2p on psp, pa, csp and the
\* words of memory are those of two sequences in one space, until cpush() lets the
\* pointers pass; and that happens only from the states that Overrun names.
THEOREM Refines == Spec => AbsSpec
<1>1. Init => Abs!Init
  <2> SUFFICES ASSUME Init PROVE Abs!Init
    OBVIOUS
  <2>1. /\ mach.psp = Empty /\ mach.csp = Cbp /\ mach.err = "nil" /\ passed = FALSE
    BY DEF Init
  <2>2. FetchPS(mach) = [err |-> "nil", vals |-> <<>>]
    BY <2>1, Moves DEF FetchPS
  <2>3. FetchCS(mach) = [err |-> "nil", vals |-> <<>>]
    BY <2>1, Moves DEF FetchCS
  <2> QED
    BY <2>1, <2>2, <2>3 DEF Abs!Init
<1>2. Inv /\ TypeOK' /\ [Next]_vars => [Abs!Next]_(Abs!vars)
  <2> SUFFICES ASSUME Inv, TypeOK', [Next]_vars PROVE [Abs!Next]_(Abs!vars)
    OBVIOUS
  <2>1. CASE UNCHANGED vars
    BY <2>1 DEF vars, Abs!vars
  <2>2. CASE Next /\ ~passed
    BY <2>2, ApartStep
  <2>3. CASE Next /\ passed
    <3>1. passed' = TRUE
      <4>1. ASSUME NEW m, Becomes(m) PROVE passed' = TRUE
        BY <2>3, <4>1 DEF Becomes
      <4>2. CASE Stopped
        BY <2>3, <4>2 DEF Stopped, vars, Inv, TypeOK
      <4> QED
        BY <2>3, <4>1, <4>2 DEF Next, PushOp, DropOp, PutOp, DupOp, SwapOp, CPushOp,
                                CPopOp, P2COp, C2POp
    <3>2. mach'.err \in Errors
      BY DEF TypeOK
    <3>3. Abs!Unspecified
      BY <2>3, <3>1, <3>2 DEF Abs!Unspecified, Errors, Inv, TypeOK
    <3> QED
      BY <3>3 DEF Abs!Next
  <2> QED
    BY <2>1, <2>2, <2>3
<1> QED
  BY <1>1, <1>2, InvHolds, TypeCorrect, PTL DEF Spec, AbsSpec, Abs!Spec
=============================================================================
