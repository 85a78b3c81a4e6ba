---------------------------- MODULE EncoderProof ----------------------------
(***************************************************************************)
(* Proofs about VarCode and Encoder, for every word size, every program    *)
(* and every set of references in it.                                      *)
(***************************************************************************)
EXTENDS Encoder, SequenceTheorems, WellFoundedInduction, TLAPS

-----------------------------------------------------------------------------
(* The varcode *)

LEMMA GroupValue ==
  ASSUME NEW arg \in Word
  PROVE  /\ arg \in Nat /\ arg \div 268435456 < 128
         /\ Group(arg, 0) = arg % 128               /\ Group(arg, 0) \in 0 .. 127
         /\ Group(arg, 1) = (arg \div 128) % 128     /\ Group(arg, 1) \in 0 .. 127
         /\ Group(arg, 2) = (arg \div 16384) % 128   /\ Group(arg, 2) \in 0 .. 127
         /\ Group(arg, 3) = (arg \div 2097152) % 128 /\ Group(arg, 3) \in 0 .. 127
         /\ Group(arg, 4) = arg \div 268435456       /\ Group(arg, 4) \in 0 .. 127
<1>1. arg \in Nat /\ arg \div 268435456 < 128
  BY SMT, WAssumption DEF Word
<1>2. \A x \in Nat : x % 128 \in 0 .. 127
  BY SMT
<1>3. /\ arg \div 128 \in Nat /\ arg \div 16384 \in Nat /\ arg \div 2097152 \in Nat
      /\ arg \div 268435456 \in Nat
  BY SMT, <1>1
<1>4. (arg \div 268435456) % 128 = arg \div 268435456
  BY SMT, <1>1, <1>3
<1> QED
  BY SMT, <1>1, <1>2, <1>3, <1>4 DEF Group

\* The groups of an argument accumulate to it.
LEMMA GroupsMakeArg ==
  ASSUME NEW arg \in Nat
  PROVE  /\ arg < 128 => arg = arg % 128
         /\ arg < 16384 => arg = ((arg \div 128) % 128) * 128 + (arg % 128)
         /\ arg = (arg \div 128) * 128 + (arg % 128)
         /\ arg \div 128 = (arg \div 16384) * 128 + ((arg \div 128) % 128)
         /\ arg \div 16384 = (arg \div 2097152) * 128 + ((arg \div 16384) % 128)
         /\ arg \div 2097152 = (arg \div 268435456) * 128 + ((arg \div 2097152) % 128)
BY SMT

LEMMA CutId == ASSUME NEW x \in Word PROVE Cut(x) = x
BY SMT, WAssumption DEF Word, Cut

\* A buffer that starts with the groups of an argument.
LEMMA ArgAccumulates ==
  ASSUME NEW arg \in Word, NEW buf, NEW n \in 1 .. 5, n = ArgLen(arg),
         \A k \in 1 .. n : buf[k] = 128 + Group(arg, n - k)
  PROVE  ArgOf(buf, n) = arg
<1> DEFINE q1 == arg \div 128  q2 == arg \div 16384  q3 == arg \div 2097152  q4 == arg \div 268435456
<1>1. /\ arg \in Nat /\ q1 \in Nat /\ q2 \in Nat /\ q3 \in Nat /\ q4 \in Nat
      /\ q1 <= arg /\ q2 <= arg /\ q3 <= arg /\ q4 <= arg /\ q4 < 128
  BY SMT, GroupValue
<1>2. \A x \in Nat : x <= arg => x \in Word
  BY SMT, WAssumption DEF Word
<1>3. /\ q3 = q4 * 128 + Group(arg, 3) /\ q2 = q3 * 128 + Group(arg, 2)
      /\ q1 = q2 * 128 + Group(arg, 1) /\ arg = q1 * 128 + Group(arg, 0)
      /\ q4 = 0 * 128 + Group(arg, 4)
  <2>1. /\ arg = q1 * 128 + (arg % 128)
        /\ q1 = q2 * 128 + (q1 % 128)
        /\ q2 = q3 * 128 + (q2 % 128)
        /\ q3 = q4 * 128 + (q3 % 128)
    BY GroupsMakeArg, <1>1, SMT
  <2>2. /\ Group(arg, 0) = arg % 128 /\ Group(arg, 1) = q1 % 128 /\ Group(arg, 2) = q2 % 128
        /\ Group(arg, 3) = q3 % 128 /\ Group(arg, 4) = q4
    BY GroupValue, SMT
  <2> HIDE DEF q1, q2, q3, q4
  <2> QED
    BY <2>1, <2>2, <1>1, SMT
<1>4. /\ arg < 128 => q1 = 0
      /\ arg < 16384 => q2 = 0
      /\ arg < 2097152 => q3 = 0
      /\ arg < 268435456 => q4 = 0
  BY SMT, <1>1
<1> HIDE DEF q1, q2, q3, q4
<1>5. /\ Accumulate(0, 128 + Group(arg, 4)) = q4
      /\ Accumulate(q4, 128 + Group(arg, 3)) = q3
      /\ Accumulate(q3, 128 + Group(arg, 2)) = q2
      /\ Accumulate(q2, 128 + Group(arg, 1)) = q1
      /\ Accumulate(q1, 128 + Group(arg, 0)) = arg
  <2>1. q4 \in Word /\ q3 \in Word /\ q2 \in Word /\ q1 \in Word
    BY SMT, <1>1, <1>2
  <2> DEFINE g0 == Group(arg, 0)  g1 == Group(arg, 1)  g2 == Group(arg, 2)  g3 == Group(arg, 3)  g4 == Group(arg, 4)
  <2>2. g0 \in 0 .. 127 /\ g1 \in 0 .. 127 /\ g2 \in 0 .. 127 /\ g3 \in 0 .. 127 /\ g4 \in 0 .. 127
    BY SMT, GroupValue
  <2>3. q3 = q4 * 128 + g3 /\ q2 = q3 * 128 + g2 /\ q1 = q2 * 128 + g1 /\ arg = q1 * 128 + g0 /\ q4 = 0 * 128 + g4
    BY <1>3
  <2> HIDE DEF g0, g1, g2, g3, g4
  <2>4. /\ (128 + g0) % 128 = g0 /\ (128 + g1) % 128 = g1 /\ (128 + g2) % 128 = g2 /\ (128 + g3) % 128 = g3
        /\ (128 + g4) % 128 = g4
    BY SMT, <2>2
  <2>5. Accumulate(0, 128 + g4) = q4
    BY SMT, <2>1, <2>3, <2>4, <1>1, CutId DEF Accumulate
  <2>6. Accumulate(q4, 128 + g3) = q3
    BY SMT, <2>1, <2>3, <2>4, <1>1, CutId DEF Accumulate
  <2>7. Accumulate(q3, 128 + g2) = q2
    BY SMT, <2>1, <2>3, <2>4, <1>1, CutId DEF Accumulate
  <2>8. Accumulate(q2, 128 + g1) = q1
    BY SMT, <2>1, <2>3, <2>4, <1>1, CutId DEF Accumulate
  <2>9. Accumulate(q1, 128 + g0) = arg
    BY SMT, <2>1, <2>3, <2>4, <1>1, CutId DEF Accumulate
  <2> QED
    BY <2>5, <2>6, <2>7, <2>8, <2>9 DEF g0, g1, g2, g3, g4
<1>7. /\ (n = 1 => q1 = 0) /\ (n = 2 => q2 = 0) /\ (n = 3 => q3 = 0) /\ (n = 4 => q4 = 0)
  BY SMT, <1>4, <1>1 DEF ArgLen
<1>8. CASE n = 1
  BY SMT, <1>8, <1>5, <1>7 DEF ArgOf
<1>9. CASE n = 2
  BY SMT, <1>9, <1>5, <1>7 DEF ArgOf
<1>10. CASE n = 3
  BY SMT, <1>10, <1>5, <1>7 DEF ArgOf
<1>11. CASE n = 4
  BY SMT, <1>11, <1>5, <1>7 DEF ArgOf
<1>12. CASE n = 5
  BY SMT, <1>12, <1>5, <1>7 DEF ArgOf
<1> QED
  BY <1>8, <1>9, <1>10, <1>11, <1>12

\* The bytes putVarCode() makes: groups with their top bits, and the code.
Coded(buf, n, o) ==
  /\ n \in 1 .. 6 /\ (o.have => n - 1 = ArgLen(o.arg)) /\ (~o.have => n = 1)
  /\ Len(buf) = n /\ buf[n] = o.code
  /\ \A k \in 1 .. n - 1 : buf[k] = 128 + Group(o.arg, n - 1 - k) /\ buf[k] \in 128 .. 255

LEMMA PutBytes ==
  ASSUME NEW o \in VOp
  PROVE  Coded(PutVarCode(o), VarCodeLength(o.arg, o.have), o)
<1> DEFINE arg == o.arg  have == o.have  code == o.code
           n == VarCodeLength(arg, have)
           buf == PutVarCode(o)
<1>0. arg \in Word /\ have \in BOOLEAN /\ code \in Code
  BY DEF VOp
<1>1. n \in 1 .. 6 /\ (have => n - 1 = ArgLen(arg)) /\ (~have => n = 1)
  BY SMT DEF VarCodeLength, ArgLen
<1>2. buf = [k \in 1 .. n |-> IF k = n THEN code ELSE 128 + Group(arg, n - 1 - k)]
  BY DEF PutVarCode
<1> HIDE DEF n, buf
<1>3. \A k \in 1 .. n - 1 : n - 1 - k \in 0 .. 4
  BY SMT, <1>1
<1>4. \A k \in 0 .. 4 : Group(arg, k) \in 0 .. 127
  BY SMT, <1>0, GroupValue
<1>5. \A k \in 1 .. n - 1 : buf[k] = 128 + Group(arg, n - 1 - k) /\ buf[k] \in 128 .. 255
  <2> SUFFICES ASSUME NEW k \in 1 .. n - 1
               PROVE  buf[k] = 128 + Group(arg, n - 1 - k) /\ buf[k] \in 128 .. 255
    OBVIOUS
  <2>1. k \in 1 .. n /\ k # n
    BY SMT, <1>1
  <2>2. buf[k] = 128 + Group(arg, n - 1 - k)
    BY <2>1, <1>2
  <2>3. Group(arg, n - 1 - k) \in 0 .. 127
    BY <1>3, <1>4
  <2> QED
    BY SMT, <2>2, <2>3
<1>6. Len(buf) = n /\ buf[n] = code
  BY SMT, <1>1, <1>2
<1> QED
  BY <1>1, <1>5, <1>6 DEF n, buf, Coded

(***************************************************************************)
(* readVarCode() reads back what putVarCode() made of an option or         *)
(* operation, for every argument of a word, and as many bytes              *)
(* (encoding.go:8-52); that one without an argument has argument 0 is how  *)
(* tokens and operations are made.                                         *)
(***************************************************************************)
THEOREM RoundTrip ==
  ASSUME NEW o \in VOp, o.have \/ o.arg = 0
  PROVE  ReadVarCode(PutVarCode(o)) = [n |-> VarCodeLength(o.arg, o.have), op |-> o]
<1> DEFINE arg == o.arg  have == o.have  code == o.code
           n == VarCodeLength(arg, have)
           buf == PutVarCode(o)
           ends == {m \in 1 .. IF Len(buf) < 6 THEN Len(buf) ELSE 6 : EndsAt(buf, m)}
<1>0. arg \in Word /\ have \in BOOLEAN /\ code \in Code /\ o = [code |-> code, have |-> have, arg |-> arg]
  BY DEF VOp
<1>1. /\ n \in 1 .. 6 /\ (have => n - 1 = ArgLen(arg)) /\ (~have => n = 1)
      /\ Len(buf) = n /\ buf[n] = code
      /\ \A k \in 1 .. n - 1 : buf[k] = 128 + Group(arg, n - 1 - k) /\ buf[k] \in 128 .. 255
  BY PutBytes DEF Coded
<1> HIDE DEF n, buf
<1>2. ends = {n}
  <2>1. n \in ends
    <3>1. buf[n] < 128 /\ \A k \in 1 .. n - 1 : buf[k] >= 128
      <4>1. buf[n] \in 0 .. 127
        BY <1>0, <1>1 DEF Code
      <4>2. ASSUME NEW k \in 1 .. n - 1 PROVE buf[k] >= 128
        <5>1. buf[k] \in 128 .. 255
          BY <1>1
        <5> QED
          BY SMT, <5>1
      <4>3. buf[n] < 128
        BY SMT, <4>1
      <4> QED
        BY <4>2, <4>3
    <3> QED
      BY SMT, <3>1, <1>1 DEF EndsAt
  <2>2. \A m \in 1 .. n - 1 : ~EndsAt(buf, m)
    <3> SUFFICES ASSUME NEW m \in 1 .. n - 1 PROVE ~(buf[m] < 128)
      BY DEF EndsAt
    <3>1. buf[m] \in 128 .. 255
      BY <1>1
    <3> QED
      BY SMT, <3>1
  <2> QED
    BY SMT, <1>1, <2>1, <2>2
<1>3. ArgOf(buf, n - 1) = arg
  <2>1. CASE have
    <3>1. \A k \in 1 .. n - 1 : buf[k] = 128 + Group(arg, (n - 1) - k)
      BY <1>1
    <3>2. n - 1 \in 1 .. 5 /\ n - 1 = ArgLen(arg)
      BY SMT, <2>1, <1>1 DEF ArgLen
    <3> QED
      BY <1>0, <3>1, <3>2, ArgAccumulates
  <2>2. CASE ~have
    BY SMT, <1>0, <2>2, <1>1 DEF ArgOf
  <2> QED
    BY <2>1, <2>2
<1>4. (n > 1) = have
  BY SMT, <1>0, <1>1 DEF n, VarCodeLength, ArgLen
<1>5. ReadVarCode(buf) = [n |-> n, op |-> [code |-> buf[n], have |-> n > 1, arg |-> ArgOf(buf, n - 1)]]
  <2>1. (CHOOSE x \in ends : TRUE) = n
    BY <1>2
  <2> HIDE DEF ends
  <2>2. ReadVarCode(buf) = IF ends = {} THEN [n |-> 0]
                           ELSE LET m == CHOOSE x \in ends : TRUE IN
                                [n |-> m, op |-> [code |-> buf[m], have |-> m > 1, arg |-> ArgOf(buf, m - 1)]]
    BY DEF ReadVarCode, ends
  <2> QED
    BY <1>2, <2>1, <2>2
<1> QED
  BY <1>0, <1>1, <1>3, <1>4, <1>5 DEF n, buf

-----------------------------------------------------------------------------
(* The encoder *)

\* What the argument of a reference is computed from.
LEMMA Residue == ASSUME NEW x \in Int PROVE x % W \in Word
BY SMT, WAssumption DEF Word

LEMMA DiffType == ASSUME NEW a \in Word, NEW b \in Word PROVE Diff(a, b) \in Word
BY SMT, WAssumption DEF Word, Diff

LEMMA RefArgType ==
  ASSUME NEW relative \in BOOLEAN, NEW site \in Word, NEW targ \in Word
  PROVE  RefArg(relative, site, targ) \in Word
<1>1. \A a, b \in Word : Diff(a, b) \in Word
  BY DiffType
<1>2. VarCodeLength(Diff(targ, site), TRUE) \in Word /\ 1 \in Word
  BY SMT, WAssumption, <1>1 DEF Word, VarCodeLength, ArgLen
<1> QED
  BY <1>1, <1>2 DEF RefArg, OffsetArg

Token == [kind : Kind, arg : Word, size : Nat]

\* The types, and what Chained rests on: the offset of the next token is c.
Linked ==
  /\ TypeOK
  /\ \A k \in DOMAIN refs : refs[k].targ \in nopts + 1 .. Len(toks) + 1
  /\ offs[i] = c
  /\ Chained

\* The references that are resolved have the arguments that the offsets known now
\* give them; while options are encoded, which may move the program, there is none.
Aimed ==
  /\ \A k \in DOMAIN refs : rf = None \/ k < rf =>
       k < i /\ refs[k].targ <= i /\ toks[k] = Resolved(k)
  /\ pc = "options" => \A k \in DOMAIN refs : rf # None /\ k >= rf
  /\ pc = "done" => rf = None /\ i = Len(toks) + 1

IInv == Linked /\ Aimed

LEMMA SizeType == ASSUME NEW t \in Token PROVE Size(t) \in Nat
BY SMT DEF Token, Size, VarCodeLength, ArgLen, Kind

\* The least and the greatest of a set of tokens.
LEMMA Least ==
  ASSUME NEW S \in SUBSET Nat, S # {}
  PROVE  Min(S) \in S /\ \A x \in S : Min(S) <= x
<1>1. IsWellFoundedOn(OpToRel(<, Nat), Nat)
  BY NatLessThanWellFounded
<1>2. PICK x \in S : \A y \in S : <<y, x>> \notin OpToRel(<, Nat)
  BY <1>1, WFMin
<1>3. \A y \in S : ~(y < x)
  BY <1>2 DEF OpToRel
<1>4. \E z \in S : \A y \in S : z <= y
  BY <1>3
<1> QED
  BY <1>4 DEF Min

LEMMA Greatest ==
  ASSUME NEW S \in SUBSET Nat, S # {}, NEW n \in Nat, \A x \in S : x <= n
  PROVE  Max(S) \in S /\ \A x \in S : Max(S) >= x
<1> DEFINE T == {n - x : x \in S}
<1>1. T \in SUBSET Nat /\ T # {}
  <2>1. \A x \in S : n - x \in Nat
    BY SMT
  <2>2. PICK x \in S : TRUE
    OBVIOUS
  <2>3. n - x \in T
    OBVIOUS
  <2> QED
    BY <2>1, <2>3
<1>2. PICK z \in T : \A y \in T : z <= y
  BY <1>1, Least
<1>3. PICK x \in S : z = n - x
  OBVIOUS
<1>4. \E w \in S : \A y \in S : w >= y
  BY <1>2, <1>3
<1> QED
  BY <1>4 DEF Max

LEMMA FirstIs ==
  ASSUME NEW S \in SUBSET Nat
  PROVE  /\ S = {} => First(S) = None
         /\ S # {} => First(S) \in S /\ \A x \in S : First(S) <= x
BY Least DEF First

LEMMA EncodeTokKeeps ==
  ASSUME IInv, i <= Len(toks), EncodeTok, boff' \in Nat, pc' \in {"options", "program"},
         pc' = "options" => pc = "options",
         boff' = boff \/ pc = "options"
  PROVE  IInv'
<1> DEFINE t == toks[i]  e == c + Size(t)
<1>1. i \in 1 .. Len(toks) /\ t \in Token /\ Size(t) \in Nat /\ e \in Nat
  <2>1. i \in 1 .. Len(toks) /\ toks \in Seq(Token) /\ c \in Nat
    BY DEF IInv, Linked, TypeOK, Token
  <2>2. t \in Token
    BY <2>1
  <2> QED
    BY <2>1, <2>2, SizeType
<1> HIDE DEF e, t
<1>2. /\ i' = i + 1 /\ c' = e /\ offs' = [offs EXCEPT ![i + 1] = e]
      /\ toks' = toks /\ refs' = refs /\ rf' = rf /\ nopts' = nopts
  BY DEF EncodeTok, e, t
<1>3. /\ offs' \in [1 .. Len(toks) + 1 -> Nat] /\ i' \in 1 .. Len(toks) + 1
      /\ offs'[i + 1] = e /\ \A k \in 1 .. i : offs'[k] = offs[k]
  BY <1>1, <1>2 DEF IInv, Linked, TypeOK
<1>4. Chained'
  <2>1. offs'[1] = 0
    BY <1>1, <1>3 DEF IInv, Linked, Chained
  <2>2. ASSUME NEW k \in 1 .. i' - 1 PROVE offs'[k + 1] = offs'[k] + Size(toks[k])
    <3>1. CASE k = i
      BY <3>1, <1>1, <1>3 DEF IInv, Linked, e, t
    <3>2. CASE k # i
      <4>1. k \in 1 .. i - 1 /\ k + 1 \in 1 .. i /\ k \in 1 .. i
        BY <3>2, <1>1, <1>2
      <4> QED
        BY <4>1, <1>3 DEF IInv, Linked, Chained
    <3> QED
      BY <3>1, <3>2
  <2> QED
    BY <2>1, <2>2, <1>2 DEF Chained
<1>5. Linked'
  BY <1>2, <1>3, <1>4, <1>1 DEF IInv, Linked, TypeOK
<1>6. Aimed'
  <2>1. ASSUME NEW k \in DOMAIN refs, rf = None \/ k < rf
        PROVE  k < i' /\ refs[k].targ <= i' /\ toks[k] = Resolved(k)'
    <3>1. boff' = boff /\ k < i /\ refs[k].targ <= i /\ toks[k] = Resolved(k)
      BY <2>1 DEF IInv, Aimed, Linked, TypeOK, None
    <3>2. k \in 1 .. i /\ refs[k].targ \in 1 .. i /\ i \in Nat
      BY <3>1, <1>1 DEF IInv, Linked, TypeOK
    <3>3. Address(k)' = Address(k) /\ Address(refs[k].targ)' = Address(refs[k].targ)
      BY <3>1, <3>2, <1>3, <1>2 DEF Address
    <3>4. Resolved(k)' = Resolved(k)
      BY <3>3, <1>2 DEF Resolved
    <3> QED
      BY <3>1, <3>2, <3>4, <1>2
  <2> QED
    BY <2>1, <1>2 DEF Aimed, IInv
<1> QED
  BY <1>5, <1>6 DEF IInv

\* The references are of tokens, and what is put in memory is counted in integers.
LEMMA Shape ==
  ASSUME Linked
  PROVE  /\ Len(toks) \in Nat /\ DOMAIN toks = 1 .. Len(toks) /\ toks \in Seq(Token) /\ i \in 1 .. Len(toks) + 1
         /\ \A k \in DOMAIN refs : /\ k \in 1 .. Len(toks) /\ k \in Nat /\ k <= Len(toks) /\ toks[k] \in Token
                                  /\ refs[k].targ \in Nat /\ refs[k].off \in Int
         /\ DOMAIN refs \in SUBSET Nat
<1>1. toks \in Seq(Token) /\ DOMAIN refs \subseteq DOMAIN toks
  BY DEF Linked, TypeOK, Token
<1>2. Len(toks) \in Nat /\ DOMAIN toks = 1 .. Len(toks) /\ \A k \in 1 .. Len(toks) : toks[k] \in Token
  BY <1>1
<1>3. \A k \in DOMAIN refs : k \in 1 .. Len(toks) /\ k \in Nat /\ k <= Len(toks)
  BY <1>1, <1>2
<1>4. \A k \in DOMAIN refs : refs[k].targ \in Nat /\ refs[k].off \in Int
  BY DEF Linked, TypeOK, Ref
<1> QED
  BY <1>1, <1>2, <1>3, <1>4 DEF Linked, TypeOK

\* Where the encoder goes on after it went back to token j.
LEMMA RewoundIs ==
  ASSUME Linked, rf \in DOMAIN refs, NEW j \in Nat
  PROVE  /\ RewoundTo(j) \in DOMAIN refs
         /\ \A k \in DOMAIN refs : k < RewoundTo(j) => k < j /\ refs[k].targ < j
<1> DEFINE ahead == {k \in DOMAIN refs : k >= j \/ refs[k].targ >= j}
<1>1. /\ DOMAIN refs \in SUBSET Nat /\ ahead \in SUBSET Nat /\ DOMAIN refs # {}
      /\ \A k \in DOMAIN refs : k <= Len(toks) /\ refs[k].targ \in Nat
      /\ Len(toks) \in Nat
  BY Shape
<1>2. CASE ahead = {}
  <2>1. RewoundTo(j) = Max(DOMAIN refs)
    BY <1>2 DEF RewoundTo
  <2>2. \A k \in DOMAIN refs : k < j /\ refs[k].targ < j
    BY <1>1, <1>2
  <2> QED
    BY <1>1, <2>1, <2>2, Greatest
<1>3. CASE ahead # {}
  <2>1. RewoundTo(j) = Min(ahead)
    BY <1>3 DEF RewoundTo
  <2>2. Min(ahead) \in ahead /\ \A x \in ahead : Min(ahead) <= x
    BY <1>1, <1>3, Least
  <2>3. ASSUME NEW k \in DOMAIN refs, k < Min(ahead) PROVE k < j /\ refs[k].targ < j
    <3>1. k \notin ahead
      <4>1. k \in Nat /\ Min(ahead) \in Nat
        BY <1>1, <2>2
      <4> QED
        BY <2>2, <2>3, <4>1
    <3> QED
      BY <3>1, <1>1
  <2> QED
    BY <2>1, <2>2, <2>3
<1> QED
  BY <1>2, <1>3

LEMMA AddressIs ==
  ASSUME Linked, NEW k \in DOMAIN refs
  PROVE  /\ Address(k) \in Int /\ Address(refs[k].targ) + refs[k].off \in Int
         /\ Target(k) \in Word
<1>1. \A j \in 1 .. Len(toks) + 1 : Address(j) \in Int
  <2>1. Base \in Int
    BY SMT, BoundsAssumption, WAssumption DEF Word
  <2>2. \A j \in 1 .. Len(toks) + 1 : offs[j] \in Nat /\ boff \in Nat
    BY DEF Linked, TypeOK
  <2> QED
    BY <2>1, <2>2 DEF Address
<1>2. k \in 1 .. Len(toks) + 1 /\ refs[k].targ \in 1 .. Len(toks) + 1 /\ refs[k].off \in Int
  BY Shape DEF Linked, TypeOK
<1>3. Address(k) \in Int /\ Address(refs[k].targ) + refs[k].off \in Int
  BY <1>1, <1>2
<1> QED
  BY <1>3, Residue DEF Target

\* The token of the reference that is resolved.
LEMMA ResolvedIs ==
  ASSUME IInv, Ready
  PROVE  /\ rf \in DOMAIN refs /\ rf \in 1 .. Len(toks) /\ rf \in 1 .. i - 1
         /\ Resolved(rf) \in Token /\ Resolved(rf).kind = toks[rf].kind /\ Resolved(rf).size = toks[rf].size
         /\ Size(Resolved(rf)) \in Nat
         /\ \A k \in DOMAIN refs : Address(k) \in Int /\ Target(k) \in Word
<1>1. rf \in DOMAIN refs /\ rf \in 1 .. Len(toks) /\ rf \in 1 .. i - 1 /\ toks[rf] \in Token
  <2>1. rf \in DOMAIN refs /\ rf < i
    BY DEF IInv, Linked, TypeOK, Ready
  <2> QED
    BY <2>1, Shape DEF IInv
<1>3. \A k \in DOMAIN refs : Address(k) \in Int /\ Target(k) \in Word
  BY AddressIs DEF IInv
<1>5. RefArg(toks[rf].kind = "offset", Address(rf) % W, Target(rf)) \in Word
  BY <1>1, <1>3, Residue, RefArgType
<1>6. Resolved(rf) = [toks[rf] EXCEPT !.arg = RefArg(toks[rf].kind = "offset", Address(rf) % W, Target(rf))]
  BY DEF Resolved, Target
<1>7. /\ Resolved(rf) \in Token /\ Resolved(rf).kind = toks[rf].kind /\ Resolved(rf).size = toks[rf].size
  BY <1>1, <1>5, <1>6 DEF Token
<1> QED
  BY <1>1, <1>3, <1>7, SizeType

\* What resolving a reference does to the tokens.
LEMMA FixTypes ==
  ASSUME IInv, Ready, toks' = [toks EXCEPT ![rf] = Resolved(rf)], refs' = refs, nopts' = nopts
  PROVE  /\ Len(toks') = Len(toks) /\ DOMAIN toks' = DOMAIN toks
         /\ toks' \in Seq(Token)
         /\ toks'[rf] = Resolved(rf) /\ \A k \in DOMAIN toks : k # rf => toks'[k] = toks[k]
         /\ DOMAIN refs = {k \in DOMAIN toks' : Refers(toks'[k])}
<1>1. toks \in Seq(Token) /\ rf \in DOMAIN toks
  BY ResolvedIs DEF IInv, Linked, TypeOK, Token
<1>2. /\ Len(toks') = Len(toks) /\ DOMAIN toks' = DOMAIN toks
      /\ toks' \in Seq(Token)
      /\ toks'[rf] = Resolved(rf) /\ \A k \in DOMAIN toks : k # rf => toks'[k] = toks[k]
  BY <1>1, ResolvedIs
<1>3. \A k \in DOMAIN toks : Refers(toks'[k]) <=> Refers(toks[k])
  BY <1>1, <1>2, ResolvedIs DEF Refers
<1> QED
  BY <1>2, <1>3 DEF IInv, Linked, TypeOK

\* A token that is resolved stays so when nothing that it was computed from changes.
LEMMA StaysResolved ==
  ASSUME NEW k \in DOMAIN refs, refs' = refs, boff' = boff, offs'[k] = offs[k],
         offs'[refs[k].targ] = offs[refs[k].targ], toks'[k] = Resolved(k),
         toks'[k].kind = toks[k].kind
  PROVE  toks'[k] = Resolved(k)'
<1>1. Address(k)' = Address(k) /\ Address(refs[k].targ)' = Address(refs[k].targ)
  BY DEF Address
<1> DEFINE a == RefArg(toks[k].kind = "offset", Address(k) % W, Target(k))
<1>2. Resolved(k) = [toks[k] EXCEPT !.arg = a]
  BY DEF Resolved, Target
<1>3. Resolved(k)' = [toks'[k] EXCEPT !.arg = RefArg(toks'[k].kind = "offset", Address(k) % W, Target(k))]
  BY <1>1 DEF Resolved, Target
<1> HIDE DEF a
<1>4. toks'[k].kind = toks[k].kind
  OBVIOUS
<1>5. Resolved(k)' = [toks'[k] EXCEPT !.arg = a]
  BY <1>3, <1>4 DEF a
<1> QED
  BY <1>2, <1>5

LEMMA FixKeeps ==
  ASSUME IInv, Fix
  PROVE  IInv'
<1> DEFINE t == Resolved(rf)  end == offs[rf] + Size(t)
<1>1. /\ Ready /\ toks' = [toks EXCEPT ![rf] = t] /\ refs' = refs /\ boff' = boff /\ nopts' = nopts
      /\ pc = "program"
  BY DEF Fix
<1>2. /\ rf \in DOMAIN refs /\ rf \in 1 .. Len(toks) /\ rf \in 1 .. i - 1 /\ t \in Token
      /\ t.kind = toks[rf].kind /\ Size(t) \in Nat /\ rf # None
  BY <1>1, ResolvedIs DEF None
<1>3. /\ Len(toks') = Len(toks) /\ DOMAIN toks' = DOMAIN toks /\ toks' \in Seq(Token)
      /\ toks'[rf] = t /\ \A k \in DOMAIN toks : k # rf => toks'[k] = toks[k]
      /\ DOMAIN refs = {k \in DOMAIN toks' : Refers(toks'[k])}
  BY <1>1, FixTypes
<1>4. offs \in [1 .. Len(toks) + 1 -> Nat] /\ Len(toks) \in Nat /\ i \in 1 .. Len(toks) + 1
  BY Shape DEF IInv, Linked, TypeOK
<1>5. end \in Nat /\ refs[rf].targ <= i /\ refs[rf].targ \in nopts + 1 .. Len(toks) + 1 /\ nopts \in 1 .. Len(toks)
  BY <1>1, <1>2, <1>4 DEF IInv, Linked, TypeOK, Ready
<1>6. \A k \in 1 .. i - 1 : k # rf => offs[k + 1] = offs[k] + Size(toks'[k])
  BY <1>2, <1>3, <1>4 DEF IInv, Linked, Chained
<1> HIDE DEF t, end
<1>7. ASSUME end = offs[rf + 1], Keep PROVE IInv'
  <2>1. offs' = offs /\ i' = i /\ c' = c /\ pc' = pc /\ rf' = First({k \in DOMAIN refs : k > rf})
    BY <1>7 DEF Keep
  <2>2. rf' \in {None} \cup DOMAIN refs /\ \A k \in DOMAIN refs : rf' = None \/ k < rf' => k <= rf
    <3> DEFINE S == {k \in DOMAIN refs : k > rf}
    <3>1. S \in SUBSET Nat /\ \A k \in DOMAIN refs : k \in Nat
      BY Shape DEF IInv
    <3>2. (S = {} => rf' = None) /\ (S # {} => rf' \in S /\ \A x \in S : rf' <= x)
      BY <2>1, <3>1, FirstIs
    <3>3. \A k \in DOMAIN refs : ~(k > rf) => k <= rf
      BY <3>1, <1>2
    <3>4. None \notin DOMAIN refs
      BY Shape DEF IInv, None
    <3>5. ASSUME NEW k \in DOMAIN refs, rf' = None \/ k < rf' PROVE k <= rf
      <4>1. k \notin S
        <5>1. CASE S = {}
          BY <5>1
        <5>2. CASE S # {}
          <6>1. rf' \in Nat /\ rf' # None /\ k < rf' /\ k \in Nat
            BY <5>2, <3>1, <3>2, <3>4, <3>5
          <6> QED
            BY <6>1, <5>2, <3>2
        <5> QED
          BY <5>1, <5>2
      <4> QED
        BY <4>1, <3>3
    <3> QED
      BY <3>2, <3>5
  <2>3. Chained'
    <3>1. \A k \in 1 .. i - 1 : offs[k + 1] = offs[k] + Size(toks'[k])
      BY <1>6, <1>7, <1>3 DEF end
    <3> QED
      BY <3>1, <2>1 DEF Chained, IInv, Linked
  <2>4. TypeOK'
    BY <1>1, <1>3, <2>1, <2>2 DEF IInv, Linked, TypeOK, Token
  <2>5. Linked'
    BY <1>1, <1>3, <2>1, <2>3, <2>4 DEF IInv, Linked
  <2>6. Aimed'
    <3>1. ASSUME NEW k \in DOMAIN refs, rf' = None \/ k < rf'
          PROVE  k < i /\ refs[k].targ <= i /\ toks'[k] = Resolved(k)'
      <4>1. k <= rf /\ k \in DOMAIN toks /\ toks[k] \in Token /\ k \in Nat
        BY <2>2, <3>1, Shape DEF IInv
      <4>2. CASE k = rf
        <5>1. toks'[k] = Resolved(k) /\ toks'[k].kind = toks[k].kind
          BY <4>2, <1>3, <1>2 DEF t
        <5>2. toks'[k] = Resolved(k)'
          BY <5>1, <4>1, <1>1, <2>1, StaysResolved
        <5>3. k < i /\ refs[k].targ <= i
          BY <4>2, <1>2, <1>4, <1>5
        <5> QED
          BY <5>2, <5>3
      <4>3. CASE k # rf
        <5>1. k < rf /\ toks'[k] = toks[k]
          BY <4>1, <4>3, <1>2, <1>3
        <5>2. k < i /\ refs[k].targ <= i /\ toks[k] = Resolved(k)
          BY <5>1 DEF IInv, Aimed
        <5>3. toks'[k] = Resolved(k) /\ toks'[k].kind = toks[k].kind
          BY <5>1, <5>2
        <5>4. toks'[k] = Resolved(k)'
          BY <5>3, <1>1, <2>1, StaysResolved
        <5> QED
          BY <5>2, <5>4
      <4> QED
        BY <4>2, <4>3
    <3> QED
      BY <3>1, <1>1, <2>1 DEF Aimed
  <2> QED
    BY <2>5, <2>6 DEF IInv
<1>8. ASSUME Rewind(end) PROVE IInv'
  <2>1. /\ i' = rf + 1 /\ c' = end /\ offs' = [offs EXCEPT ![rf + 1] = end]
        /\ rf' = RewoundTo(rf + 1) /\ pc' = IF rf < nopts THEN "options" ELSE "program"
    BY <1>8 DEF Rewind
  <2>2. rf' \in DOMAIN refs /\ \A k \in DOMAIN refs : k < rf' => k < rf + 1 /\ refs[k].targ < rf + 1
    BY <2>1, <1>2, RewoundIs DEF IInv
  <2>3. /\ offs' \in [1 .. Len(toks) + 1 -> Nat] /\ offs'[rf + 1] = end /\ rf + 1 \in 1 .. Len(toks) + 1
        /\ \A k \in 1 .. Len(toks) + 1 : k # rf + 1 => offs'[k] = offs[k]
    BY <1>2, <1>4, <1>5, <2>1
  <2>4. Chained'
    <3>1. offs'[1] = 0
      BY <2>3, <1>2, <1>4 DEF IInv, Linked, Chained
    <3>2. ASSUME NEW k \in 1 .. rf PROVE offs'[k + 1] = offs'[k] + Size(toks'[k])
      <4>1. k \in 1 .. i - 1 /\ k \in 1 .. Len(toks) + 1 /\ k # rf + 1 /\ offs'[k] = offs[k]
        BY <1>2, <1>4, <2>3
      <4>2. CASE k = rf
        BY <4>1, <4>2, <2>3, <1>3 DEF end
      <4>3. CASE k # rf
        <5>1. k + 1 \in 1 .. Len(toks) + 1 /\ k + 1 # rf + 1
          BY <4>1, <4>3, <1>2, <1>4
        <5> QED
          BY <5>1, <4>1, <4>3, <2>3, <1>6
      <4> QED
        BY <4>2, <4>3
    <3>3. 1 .. i' - 1 = 1 .. rf
      BY <2>1, <1>2
    <3> QED
      BY <3>1, <3>2, <3>3 DEF Chained
  <2>5. TypeOK'
    BY <1>1, <1>2, <1>3, <1>5, <2>1, <2>2, <2>3 DEF IInv, Linked, TypeOK, Token
  <2>6. Linked'
    BY <1>1, <1>3, <2>1, <2>3, <2>4, <2>5 DEF IInv, Linked
  <2>7. ASSUME NEW k \in DOMAIN refs, rf' = None \/ k < rf'
        PROVE  k < i' /\ refs[k].targ <= i' /\ toks'[k] = Resolved(k)'
    <3>1. /\ rf' # None /\ k \in Nat /\ k \in DOMAIN toks /\ toks[k] \in Token /\ k \in 1 .. Len(toks)
          /\ refs[k].targ \in Nat
      BY <2>2, Shape DEF IInv, None
    <3>2. k < rf + 1 /\ refs[k].targ < rf + 1 /\ refs[k].targ \in 1 .. Len(toks) + 1
      BY <2>2, <2>7, <3>1 DEF IInv, Linked, TypeOK
    <3>3. offs'[k] = offs[k] /\ offs'[refs[k].targ] = offs[refs[k].targ]
      BY <3>1, <3>2, <2>3, <1>2
    <3>4. CASE k = rf
      <4>1. toks'[k] = Resolved(k) /\ toks'[k].kind = toks[k].kind
        BY <3>4, <1>3, <1>2 DEF t
      <4>2. toks'[k] = Resolved(k)'
        BY <4>1, <3>1, <3>3, <1>1, StaysResolved
      <4> QED
        BY <4>2, <3>1, <3>2, <2>1, <1>2
    <3>5. CASE k # rf
      <4>1. k < rf /\ toks'[k] = toks[k]
        BY <3>1, <3>2, <3>5, <1>2, <1>3
      <4>2. toks[k] = Resolved(k)
        BY <4>1 DEF IInv, Aimed
      <4>3. toks'[k] = Resolved(k) /\ toks'[k].kind = toks[k].kind
        BY <4>1, <4>2
      <4>4. toks'[k] = Resolved(k)'
        BY <4>3, <3>3, <1>1, StaysResolved
      <4> QED
        BY <4>4, <3>1, <3>2, <2>1, <1>2
    <3> QED
      BY <3>4, <3>5
  <2>8. ASSUME pc' = "options", NEW k \in DOMAIN refs PROVE rf' # None /\ k >= rf'
    <3>1. rf < nopts /\ nopts < refs[k].targ /\ refs[k].targ \in Nat
      BY <2>1, <2>8, Shape DEF IInv, Linked, TypeOK
    <3>2. ~(k < rf')
      BY <3>1, <2>2, <1>2, <1>5
    <3> QED
      BY <3>2, <2>2, Shape DEF IInv, None
  <2>9. Aimed'
    BY <2>1, <2>7, <2>8, <1>1 DEF Aimed
  <2> QED
    BY <2>6, <2>9 DEF IInv
<1> QED
  BY <1>7, <1>8 DEF Fix, t, end

LEMMA Concatenated ==
  ASSUME NEW S, NEW a \in Seq(S), NEW b \in Seq(S), NEW e \in S
  PROVE  /\ a \o b \in Seq(S) /\ Len(a \o b) = Len(a) + Len(b)
         /\ <<e>> \in Seq(S) /\ Len(<<e>>) = 1
OBVIOUS

LEMMA InitHolds == ASSUME Init PROVE IInv
<1>1. PICK ls \in SeqOf(LabelToken, MaxOpts), os \in SeqOf(OptToken, MaxOpts), ps \in SeqOf(ProgToken, MaxProg) :
        LET opts == (IF ls = <<>> THEN <<>> ELSE <<Count>> \o ls) \o os \o <<End>>
        IN  toks = opts \o ps /\ nopts = Len(opts)
  BY DEF Init
<1>2. 0 \in Word
  BY SMT, WAssumption DEF Word
<1>3. Count \in Token /\ End \in Token
  BY <1>2 DEF Count, End, Token, Kind
<1>4. LabelToken \subseteq Token /\ OptToken \subseteq Token /\ ProgToken \subseteq Token
  BY <1>2, TokenAssumption DEF Token, Kind
<1>5. \A S \in SUBSET Token, n \in Nat : SeqOf(S, n) \subseteq Seq(Token)
  BY DEF SeqOf
<1>6. ls \in Seq(Token) /\ os \in Seq(Token) /\ ps \in Seq(Token)
  BY <1>4, <1>5, BoundsAssumption
<1> DEFINE as == IF ls = <<>> THEN <<>> ELSE <<Count>> \o ls
           mid == as \o os
           opts == mid \o <<End>>
<1>7. as \in Seq(Token)
  BY <1>3, <1>6, Concatenated
<1> HIDE DEF as
<1>8. opts \in Seq(Token) /\ Len(opts) \in Nat \ {0}
  <2>1. mid \in Seq(Token) /\ <<End>> \in Seq(Token) /\ Len(<<End>>) = 1
    BY <1>3, <1>6, <1>7, Concatenated
  <2> HIDE DEF mid
  <2>2. Len(mid) \in Nat
    BY <2>1, LenProperties
  <2>3. opts \in Seq(Token) /\ Len(opts) = Len(mid) + 1
    BY <2>1, <1>3, Concatenated
  <2> QED
    BY <2>2, <2>3
<1>9. toks = opts \o ps /\ nopts = Len(opts)
  BY <1>1 DEF as
<1> HIDE DEF opts
<1>10. toks \in Seq(Token) /\ Len(toks) \in Nat /\ nopts \in 1 .. Len(toks) /\ DOMAIN toks = 1 .. Len(toks)
  BY <1>6, <1>8, <1>9
<1>11. /\ DOMAIN refs = {k \in DOMAIN toks : Refers(toks[k])}
       /\ \A k \in DOMAIN refs : refs[k].targ \in nopts + 1 .. Len(toks) + 1 /\ refs[k] \in Ref
  <2> DEFINE R == [targ : nopts + 1 .. Len(toks) + 1, off : RefOff]
  <2>1. refs \in [{k \in DOMAIN toks : Refers(toks[k])} -> R]
    BY DEF Init, RefsOf
  <2>2. RefOff \subseteq Int
    BY BoundsAssumption
  <2>3. nopts + 1 .. Len(toks) + 1 \subseteq Nat
    BY <1>10
  <2>4. \A r \in R : r.targ \in nopts + 1 .. Len(toks) + 1 /\ r \in Ref
    BY <2>2, <2>3 DEF Ref
  <2> HIDE DEF R
  <2> QED
    BY <2>1, <2>4
<1>12. /\ offs = [k \in 1 .. Len(toks) + 1 |-> 0] /\ i = 1 /\ c = 0 /\ boff = 0 /\ pc = "options"
       /\ rf = First(DOMAIN refs)
  BY DEF Init
<1>13. DOMAIN refs \in SUBSET Nat /\ None \notin DOMAIN refs
  BY <1>10, <1>11 DEF None
<1>14. rf \in {None} \cup DOMAIN refs /\ \A k \in DOMAIN refs : rf # None /\ k >= rf
  BY <1>12, <1>13, FirstIs
<1>15. TypeOK
  BY <1>10, <1>11, <1>12, <1>14 DEF TypeOK, Token
<1>16. Linked
  BY <1>10, <1>11, <1>12, <1>15 DEF Linked, Chained
<1>17. Aimed
  BY <1>12, <1>13, <1>14 DEF Aimed
<1> QED
  BY <1>16, <1>17 DEF IInv

LEMMA NextKeeps == ASSUME IInv, [Next]_vars PROVE IInv'
<1>1. CASE EncodeOption
  <2>1. boff' \in Nat
    <3>1. i \in 1 .. Len(toks) /\ toks[i] \in Token
      BY <1>1, Shape DEF EncodeOption, IInv
    <3> QED
      BY <1>1, <3>1, SizeType DEF EncodeOption, IInv, Linked, TypeOK
  <2>2. pc = "options" /\ pc' \in {"options", "program"} /\ EncodeTok /\ i <= Len(toks)
    BY <1>1 DEF EncodeOption
  <2> QED
    BY <2>1, <2>2, EncodeTokKeeps
<1>2. CASE Fix
  BY <1>2, FixKeeps
<1>3. CASE EncodeOp
  <2>1. boff' \in Nat
    BY <1>3 DEF EncodeOp, IInv, Linked, TypeOK
  <2> QED
    BY <1>3, <2>1, EncodeTokKeeps DEF EncodeOp
<1>4. CASE Finish
  BY <1>4 DEF Finish, IInv, Linked, TypeOK, Chained, Aimed, Resolved, Address
<1>5. CASE UNCHANGED vars
  BY <1>5 DEF vars, IInv, Linked, TypeOK, Chained, Aimed, Resolved, Address
<1> QED
  BY <1>1, <1>2, <1>3, <1>4, <1>5 DEF Next, Ended

LEMMA Invariant == Spec => []IInv
BY InitHolds, NextKeeps, PTL DEF Spec

(***************************************************************************)
(* Every reference that is resolved gets an argument of a word, wherever   *)
(* the encoder goes back to and however addresses wrap (api.go:945,        *)
(* x/assemble.go:1139).                                                    *)
(***************************************************************************)
THEOREM TypeCorrect == Spec => []TypeOK
<1>1. IInv => TypeOK
  BY DEF IInv, Linked
<1> QED
  BY <1>1, Invariant, PTL

(***************************************************************************)
(* For every program and every set of references in it, the offsets known  *)
(* are those of the tokens as they are, after any sequence of changes of   *)
(* length and goings back among options and operations                     *)
(* (x/assemble.go:1153-1174).                                              *)
(***************************************************************************)
THEOREM OffsetsChain == Spec => []Chained
<1>1. IInv => Chained
  BY DEF IInv, Linked
<1> QED
  BY <1>1, Invariant, PTL

-----------------------------------------------------------------------------
(* Where references lead *)

LEMMA Quotient ==
  ASSUME NEW x \in Int
  PROVE  \E q \in Int : x = q * W + (x % W)
<1>1. W \in Nat /\ W > 0
  BY SMT, WAssumption
<1>2. x \div W \in Int /\ x = (x \div W) * W + (x % W)
  BY SMT, <1>1
<1> QED
  BY <1>2

\* The residue of a sum.
LEMMA Congruent ==
  ASSUME NEW x \in Int, NEW t \in Word, NEW q \in Int, x = q * W + t
  PROVE  x % W = t
<1> DEFINE r == x % W
<1>1. PICK p \in Int : x = p * W + r
  BY Quotient
<1>2. r \in Word
  BY Residue
<1> HIDE DEF r
<1>3. W \in Nat /\ W > 0 /\ r \in Int /\ t \in Int /\ r - t < W /\ t - r < W
  BY SMT, <1>2, WAssumption DEF Word
<1>4. \A k \in Int : k >= 1 => k * W >= W
  BY <1>3
<1> DEFINE k == q - p
<1>5. k \in Int /\ k * W = r - t /\ (0 - k) * W = t - r
  BY <1>1, <1>3
<1> HIDE DEF k
<1>6. ~(k >= 1) /\ ~(0 - k >= 1)
  BY <1>3, <1>4, <1>5
<1>7. k = 0
  BY <1>5, <1>6
<1> QED
  BY <1>3, <1>5, <1>7 DEF r

\* An offset that has the length that was subtracted from it leads to the target.
LEMMA OffsetLeads ==
  ASSUME NEW a \in Int, NEW t \in Word, NEW n \in 1 .. 6,
         NEW d \in Word, d = Diff(Diff(t, a % W), n)
  PROVE  (a + n + d) % W = t
<1> DEFINE s == a % W
<1>1. s \in Word
  BY Residue
<1>2. PICK q \in Int : a = q * W + s
  BY Quotient
<1> HIDE DEF s
<1>3. W \in Nat /\ W >= 128 /\ s \in 0 .. W - 1 /\ t \in 0 .. W - 1
  BY SMT, <1>1, WAssumption DEF Word
<1>4. s + n + d = t \/ s + n + d = t + W \/ s + n + d = t + W + W
  BY SMT, <1>3 DEF Diff, s
<1>5. \E r \in Int : a + n + d = r * W + t
  <2>1. CASE s + n + d = t
    BY <2>1, <1>2, <1>3
  <2>2. CASE s + n + d = t + W
    <3>1. a + n + d = (q + 1) * W + t
      BY <2>2, <1>2, <1>3
    <3> QED
      BY <3>1
  <2>3. CASE s + n + d = t + W + W
    <3>1. a + n + d = (q + 2) * W + t
      BY <2>3, <1>2, <1>3
    <3> QED
      BY <3>1
  <2> QED
    BY <1>4, <2>1, <2>2, <2>3
<1>6. a + n + d \in Int
  BY <1>3 DEF Word
<1> QED
  BY <1>5, <1>6, Congruent

(***************************************************************************)
(* In every program that encode() returns, every reference leads to its    *)
(* target: an address holds it, an offset reaches it from the end of its   *)
(* operation, but for those at a boundary, where the length that was       *)
(* subtracted is not the one the argument has (api.go:945-962).            *)
(***************************************************************************)
THEOREM ReferencesLead == Spec => []Leading
<1>1. ASSUME IInv PROVE Leading
  <2> SUFFICES ASSUME pc = "done", NEW k \in DOMAIN refs, ~AtBoundary(k)
               PROVE  Leads(k) = Target(k)
    BY DEF Leading
  <2>1. rf = None
    BY <1>1 DEF IInv, Aimed
  <2>2. toks[k] = Resolved(k) /\ toks[k] \in Token
    BY <1>1, <2>1, Shape DEF IInv, Aimed
  <2>3. Address(k) \in Int /\ Target(k) \in Word
    BY <1>1, AddressIs DEF IInv
  <2>4. toks[k].arg = RefArg(toks[k].kind = "offset", Address(k) % W, Target(k))
    BY <2>2 DEF Resolved, Target, Token
  <2>5. CASE toks[k].kind # "offset"
    BY <2>4, <2>5 DEF RefArg, Leads
  <2>6. CASE toks[k].kind = "offset"
    <3> DEFINE d0 == Diff(Target(k), Address(k) % W)  n == VarCodeLength(d0, TRUE)  d == Diff(d0, n)
    <3>1. VarCodeLength(d, TRUE) = n
      BY <2>6 DEF AtBoundary
    <3>2. n \in 1 .. 6
      BY SMT DEF VarCodeLength, ArgLen
    <3>3. d0 \in Word
      BY <2>3, Residue, DiffType
    <3> HIDE DEF d0, n
    <3>4. d \in Word
      BY SMT, <3>2, <3>3, WAssumption DEF Diff, Word
    <3> HIDE DEF d
    <3>5. toks[k].arg = d
      BY <2>4, <2>6, <3>1 DEF RefArg, OffsetArg, d0, n, d
    <3>6. Size(toks[k]) = n
      BY <3>1, <3>5, <2>6 DEF Size
    <3>7. (Address(k) + n + d) % W = Target(k)
      BY <2>3, <3>2, <3>4, OffsetLeads DEF d, d0
    <3> QED
      BY <3>5, <3>6, <3>7, <2>6 DEF Leads
  <2> QED
    BY <2>5, <2>6
<1> QED
  BY <1>1, Invariant, PTL

(***************************************************************************)
(* What encode() returns decodes to the options and operations that it     *)
(* resolved, each from its offset to the next one's (encoding.go:8-52).    *)
(***************************************************************************)
THEOREM Decodes == Spec => []Decoded
<1>1. ASSUME IInv PROVE Decoded
  <2> SUFFICES ASSUME pc = "done", NEW k \in DOMAIN toks, toks[k].kind \in {"opt", "offset", "addr"}
               PROVE  LET o == [code |-> 1, have |-> TRUE, arg |-> toks[k].arg]
                          v == ReadVarCode(PutVarCode(o))
                      IN  v.op = o /\ v.n = offs[k + 1] - offs[k]
    BY DEF Decoded
  <2> DEFINE o == [code |-> 1, have |-> TRUE, arg |-> toks[k].arg]
  <2>1. i = Len(toks) + 1 /\ k \in 1 .. Len(toks) /\ toks[k] \in Token /\ Len(toks) \in Nat
    BY <1>1, Shape DEF IInv, Aimed
  <2>2. toks[k].arg \in Word
    BY <2>1 DEF Token
  <2>3. o \in VOp /\ o.have /\ o.arg = toks[k].arg
    BY <2>2 DEF VOp, Code
  <2>4. Size(toks[k]) = VarCodeLength(toks[k].arg, TRUE)
    BY DEF Size
  <2>5. offs[k + 1] = offs[k] + Size(toks[k])
    BY <1>1, <2>1 DEF IInv, Linked, Chained
  <2>6. offs[k] \in Nat /\ Size(toks[k]) \in Nat
    BY <1>1, <2>1, SizeType DEF IInv, Linked, TypeOK
  <2> HIDE DEF o
  <2>7. ReadVarCode(PutVarCode(o)) = [n |-> VarCodeLength(o.arg, o.have), op |-> o]
    BY <2>3, RoundTrip
  <2>8. VarCodeLength(o.arg, o.have) = VarCodeLength(toks[k].arg, TRUE)
    BY <2>3 DEF o
  <2>9. ReadVarCode(PutVarCode(o)).op = o /\ ReadVarCode(PutVarCode(o)).n = offs[k + 1] - offs[k]
    <3>1. offs[k + 1] - offs[k] = Size(toks[k])
      BY <2>5, <2>6
    <3>2. VarCodeLength(o.arg, o.have) = Size(toks[k])
      BY <2>4, <2>8
    <3> QED
      BY <2>7, <3>1, <3>2
  <2> QED
    BY <2>9 DEF o
<1> QED
  BY <1>1, Invariant, PTL

-----------------------------------------------------------------------------
(* The room of the buffer *)

\* What holds of 0, and of a number when it holds of the one before, holds of all: stated
\* of sets, as the least number that is not in the set.
LEMMA ByInduction ==
  ASSUME NEW S, 0 \in S, \A n \in Nat : n \in S => n + 1 \in S
  PROVE  Nat \subseteq S
<1> SUFFICES ASSUME Nat \ S # {} PROVE FALSE
  OBVIOUS
<1>1. PICK n \in Nat \ S : \A m \in Nat \ S : n <= m
  <2>1. Nat \ S \in SUBSET Nat
    OBVIOUS
  <2> QED
    BY <2>1, Least
<1>2. n # 0 /\ n - 1 \in Nat /\ n - 1 \in S
  BY <1>1
<1> QED
  BY <1>1, <1>2

\* maxBytes adds up what add() and addRef() do, token by token.
LEMMA Adds ==
  ASSUME NEW N \in Nat, N = Len(toks)
  PROVE  \E sum : /\ sum = [k \in 0 .. N |-> IF k = 0 THEN 0 ELSE sum[k - 1] + Needed(toks[k])]
                  /\ maxBytes = sum[N]
<1> DEFINE Sums(g, n) == g = [k \in 0 .. n |-> IF k = 0 THEN 0 ELSE g[k - 1] + Needed(toks[k])]
           S == {n \in Nat : \E g : Sums(g, n)}
<1>1. 0 \in S
  <2>1. PICK g : g = [k \in 0 .. 0 |-> 0]
    OBVIOUS
  <2>2. Sums(g, 0)
    BY <2>1
  <2> QED
    BY <2>2
<1>2. ASSUME NEW n \in Nat, n \in S PROVE n + 1 \in S
  <2>1. PICK g : Sums(g, n)
    BY <1>2
  <2>2. PICK h : h = [k \in 0 .. n + 1 |-> IF k = n + 1 THEN g[n] + Needed(toks[n + 1]) ELSE g[k]]
    OBVIOUS
  <2>3. Sums(h, n + 1)
    <3>1. \A k \in 0 .. n + 1 : h[k] = IF k = 0 THEN 0 ELSE h[k - 1] + Needed(toks[k])
      BY <2>1, <2>2
    <3> QED
      BY <2>2, <3>1
  <2> HIDE DEF Sums
  <2> QED
    BY <2>3
<1>3. \E g : Sums(g, N)
  <2> HIDE DEF Sums
  <2>1. Nat \subseteq S
    <3> HIDE DEF S
    <3> QED
      BY <1>1, <1>2, ByInduction
  <2> QED
    BY <2>1
<1> DEFINE sum == CHOOSE g : Sums(g, N)
<1>4. Sums(sum, N)
  <2> HIDE DEF Sums
  <2> QED
    BY <1>3
<1>5. maxBytes = sum[N]
  BY DEF maxBytes
<1> QED
  BY <1>4, <1>5

\* The count of the address labels is the token that finish() made.
CountKept == \A k \in DOMAIN toks : toks[k].kind = "count" => toks[k].size = 2

\* Bounded sequences of some tokens are sequences of tokens.
LEMMA SeqOfType ==
  ASSUME NEW S, NEW T \in SUBSET S, NEW n \in Nat, NEW s \in SeqOf(T, n)
  PROVE  s \in Seq(S)
<1>1. PICK m \in 0 .. n : s \in [1 .. m -> T]
  BY DEF SeqOf
<1>2. s \in [1 .. m -> S] /\ m \in Nat
  BY <1>1
<1> QED
  BY <1>2, SeqDef

LEMMA CountInit == ASSUME Init PROVE CountKept
<1> DEFINE S == {Count, End} \cup LabelToken \cup OptToken \cup ProgToken
<1>1. PICK ls \in SeqOf(LabelToken, MaxOpts), os \in SeqOf(OptToken, MaxOpts), ps \in SeqOf(ProgToken, MaxProg) :
        LET opts == (IF ls = <<>> THEN <<>> ELSE <<Count>> \o ls) \o os \o <<End>>
        IN  toks = opts \o ps /\ nopts = Len(opts)
  BY DEF Init
<1>2. Count \in S /\ End \in S /\ LabelToken \in SUBSET S /\ OptToken \in SUBSET S /\ ProgToken \in SUBSET S
  OBVIOUS
<1>3. \A t \in S : t.kind = "count" => t.size = 2
  BY TokenAssumption DEF Count, End
<1> HIDE DEF S
<1>4. ls \in Seq(S) /\ os \in Seq(S) /\ ps \in Seq(S)
  BY <1>2, SeqOfType, BoundsAssumption
<1> DEFINE as == IF ls = <<>> THEN <<>> ELSE <<Count>> \o ls
<1>5. as \in Seq(S)
  BY <1>2, <1>4, Concatenated
<1> HIDE DEF as
<1>6. as \o os \in Seq(S) /\ <<End>> \in Seq(S)
  BY <1>2, <1>4, <1>5, Concatenated
<1>7. PICK opts \in Seq(S) : opts = (as \o os) \o <<End>>
  BY <1>6, <1>2, Concatenated
<1>8. toks = opts \o ps
  BY <1>1, <1>7 DEF as
<1>9. toks \in Seq(S)
  BY <1>2, <1>4, <1>7, <1>8, Concatenated
<1>10. \A k \in DOMAIN toks : toks[k] \in S
  BY <1>9
<1> QED
  BY <1>3, <1>10 DEF CountKept

LEMMA CountStays == ASSUME IInv, CountKept, [Next]_vars PROVE CountKept'
<1>1. ASSUME toks' = toks PROVE CountKept'
  BY <1>1 DEF CountKept
<1>2. CASE Fix
  <2>1. IInv /\ Ready /\ toks' = [toks EXCEPT ![rf] = Resolved(rf)] /\ refs' = refs /\ nopts' = nopts
    BY <1>2 DEF Fix
  <2>2. /\ DOMAIN toks' = DOMAIN toks /\ rf \in DOMAIN refs
        /\ DOMAIN refs = {k \in DOMAIN toks' : Refers(toks'[k])}
        /\ \A k \in DOMAIN toks : k # rf => toks'[k] = toks[k]
    BY <2>1, FixTypes DEF IInv, Linked, TypeOK, Ready
  <2>3. toks'[rf].kind # "count"
    BY <2>2 DEF Refers
  <2> QED
    BY <2>2, <2>3 DEF CountKept
<1>3. ~Fix => toks' = toks
  BY DEF Next, EncodeOption, EncodeOp, EncodeTok, Finish, Ended, vars
<1> QED
  BY <1>1, <1>2, <1>3

\* A token but an address label takes no more than what was added for it, whatever its argument.
LEMMA RoomOfToken ==
  ASSUME NEW t \in Token, t.kind = "label" => Size(t) <= 6, t.kind = "count" => t.size = 2
  PROVE  Needed(t) \in Nat /\ Size(t) <= Needed(t)
<1>1. ArgLen(t.arg) \in 1 .. 5 /\ t.size \in Nat /\ t.kind \in Kind
  BY DEF Token, ArgLen
<1>2. CASE t.kind \in {"opt", "offset", "addr"}
  BY <1>1, <1>2 DEF Needed, Size, Refers, VarCodeLength
<1>3. CASE t.kind = "label"
  BY <1>3 DEF Needed, Refers
<1>4. CASE t.kind \in {"count", "end", "fixed"}
  BY <1>1, <1>4 DEF Needed, Size, Refers
<1> QED
  BY <1>1, <1>2, <1>3, <1>4 DEF Kind

\* The only tokens that may need more than was reserved: address labels, whose name is written too.
LabelsFit == \A k \in DOMAIN toks : toks[k].kind = "label" => Size(toks[k]) <= 6

(***************************************************************************)
(* For every program, and whatever lengths its references go through, no   *)
(* token is encoded beyond the buffer, as long as the label names are such *)
(* that each fits the six bytes that addRef() adds for it                  *)
(* (x/assemble.go:403-407, 1110).                                          *)
(***************************************************************************)
THEOREM BufferFits == Spec => [](LabelsFit => Fits)
<1>1. ASSUME IInv, CountKept, LabelsFit PROVE Fits
  <2>1. /\ Len(toks) \in Nat /\ DOMAIN toks = 1 .. Len(toks) /\ i \in 1 .. Len(toks) + 1
        /\ \A k \in 1 .. Len(toks) : toks[k] \in Token
        /\ offs \in [1 .. Len(toks) + 1 -> Nat] /\ offs[i] = c /\ Chained
    BY <1>1, Shape DEF IInv, Linked, TypeOK
  <2>2. PICK N \in Nat : N = Len(toks)
    BY <2>1
  <2>3. PICK sum : /\ sum = [k \in 0 .. N |-> IF k = 0 THEN 0 ELSE sum[k - 1] + Needed(toks[k])]
                   /\ maxBytes = sum[N]
    BY <2>2, Adds
  <2>4. \A k \in 1 .. N : /\ Size(toks[k]) \in Nat /\ Needed(toks[k]) \in Nat
                          /\ Size(toks[k]) <= Needed(toks[k])
    BY <1>1, <2>1, <2>2, RoomOfToken, SizeType DEF LabelsFit, CountKept
  <2>5. sum[0] = 0 /\ \A k \in 1 .. N : sum[k] = sum[k - 1] + Needed(toks[k])
    BY <2>3
  <2> DEFINE Holds(n) == /\ \A k \in 0 .. n : sum[k] \in Nat /\ sum[k] <= sum[n]
                         /\ n < i => offs[n + 1] <= sum[n]
             S == {n \in Nat : n <= N => Holds(n)}
  <2>6. 0 \in S
    BY <2>1, <2>5 DEF Chained
  <2>7. ASSUME NEW n \in Nat, n \in S, n + 1 <= N PROVE Holds(n + 1)
    <3>1. (\A k \in 0 .. n : sum[k] \in Nat /\ sum[k] <= sum[n]) /\ (n < i => offs[n + 1] <= sum[n])
      BY <2>2, <2>7
    <3>2. PICK d \in Nat, e \in Nat :
            d = Needed(toks[n + 1]) /\ e = Size(toks[n + 1]) /\ e <= d /\ sum[n + 1] = sum[n] + d
      BY <2>2, <2>4, <2>5, <2>7
    <3>3. ASSUME NEW k \in 0 .. n + 1 PROVE sum[k] \in Nat /\ sum[k] <= sum[n + 1]
      <4>1. CASE k = n + 1
        BY <3>1, <3>2, <4>1
      <4>2. CASE k # n + 1
        BY <3>1, <3>2, <4>2
      <4> QED
        BY <4>1, <4>2
    <3>4. ASSUME n + 1 < i PROVE offs[n + 2] <= sum[n + 1]
      <4>1. offs[n + 2] = offs[n + 1] + e
        <5>1. n + 1 \in 1 .. i - 1 /\ (n + 1) + 1 = n + 2
          BY <2>1, <3>4
        <5> QED
          BY <2>1, <3>2, <5>1 DEF Chained
      <4>2. offs[n + 1] \in Nat /\ offs[n + 1] <= sum[n] /\ sum[n] \in Nat
        BY <2>1, <3>1, <3>4
      <4> QED
        BY <3>2, <4>1, <4>2
    <3> QED
      BY <3>3, <3>4
  <2>8. \A n \in 0 .. N : Holds(n)
    <3>1. Nat \subseteq S
      <4>1. \A n \in Nat : n \in S => n + 1 \in S
        BY <2>7
      <4> HIDE DEF S
      <4> QED
        BY <2>6, <4>1, ByInduction
    <3> HIDE DEF Holds
    <3> QED
      BY <2>2, <3>1
  <2>9. /\ c <= sum[i - 1] /\ sum[i - 1] <= sum[N] /\ sum[i - 1] \in Nat /\ c \in Nat /\ sum[N] \in Nat
        /\ i <= N => sum[i] = sum[i - 1] + Needed(toks[i]) /\ sum[i] <= sum[N]
    <3>1. i - 1 \in 0 .. N /\ i - 1 < i /\ (i - 1) + 1 = i
      BY <2>1, <2>2
    <3>2. c <= sum[i - 1] /\ c \in Nat
      BY <2>1, <2>8, <3>1
    <3>3. \A k \in 0 .. N : sum[k] \in Nat /\ sum[k] <= sum[N]
      BY <2>8
    <3> QED
      BY <2>1, <2>2, <2>5, <3>1, <3>2, <3>3
  <2>10. i <= N => c + Size(toks[i]) <= sum[N]
    <3>1. i <= N => i \in 1 .. N
      BY <2>1, <2>2
    <3> QED
      BY <2>4, <2>9, <3>1
  <2> QED
    BY <2>1, <2>2, <2>3, <2>9, <2>10 DEF Fits
<1>2. Spec => []CountKept
  BY CountInit, CountStays, Invariant, PTL DEF Spec
<1> QED
  BY <1>1, <1>2, Invariant, PTL
=============================================================================
