------------------------------ MODULE VarCode ------------------------------
(***************************************************************************)
(* The "varcode" of options and operations (encoding.go) and the operand   *)
(* of a reference (api.go): a code of seven bits in the last byte, before  *)
(* it, with their top bits set, the groups of seven bits of its argument.  *)
(*                                                                         *)
(* An op is a record [code, have, arg].  W is 2^32 in the code.            *)
(***************************************************************************)
EXTENDS Integers, Sequences

CONSTANT W    \* the values of a word
ASSUME WAssumption == W \in Nat /\ W >= 128 /\ (W - 1) \div 268435456 < 128

Word == 0 .. W - 1
Code == 0 .. 127
VOp == [code : Code, have : BOOLEAN, arg : Word]

\* The bytes of an argument: one at least.
ArgLen(arg) ==
  IF arg < 128 THEN 1 ELSE IF arg < 16384 THEN 2 ELSE IF arg < 2097152 THEN 3
  ELSE IF arg < 268435456 THEN 4 ELSE 5

\* varCodeLength()
VarCodeLength(arg, have) == IF have THEN ArgLen(arg) + 1 ELSE 1

\* The group k of an argument, counted from its end.
Group(arg, k) ==
  IF k = 0 THEN arg % 128 ELSE IF k = 1 THEN (arg \div 128) % 128 ELSE IF k = 2 THEN (arg \div 16384) % 128
  ELSE IF k = 3 THEN (arg \div 2097152) % 128 ELSE (arg \div 268435456) % 128

\* Slip: the groups are left in the order they are cut off.
PutReversed(o) ==
  LET n == VarCodeLength(o.arg, o.have) IN
  [i \in 1 .. n |-> IF i = n THEN o.code ELSE 128 + Group(o.arg, i - 1)]

\* putVarCode(), into a buffer with room for it.
PutVarCode(o) ==
  LET n == VarCodeLength(o.arg, o.have) IN
  [i \in 1 .. n |-> IF i = n THEN o.code ELSE 128 + Group(o.arg, n - 1 - i)]

Cut(x) == IF x < W THEN x ELSE x % W
Accumulate(arg, byte) == Cut(arg * 128 + (byte % 128))

\* The argument that the first n bytes of a buffer accumulate.
ArgOf(buf, n) ==
  LET a1 == Accumulate(0, buf[1])   a2 == Accumulate(a1, buf[2])  a3 == Accumulate(a2, buf[3])
      a4 == Accumulate(a3, buf[4])  a5 == Accumulate(a4, buf[5])
  IN  CASE n = 0 -> 0 [] n = 1 -> a1 [] n = 2 -> a2 [] n = 3 -> a3 [] n = 4 -> a4 [] n = 5 -> a5

\* The buffer has an op of n bytes: the last one, and only it, has no top bit.
EndsAt(buf, n) == buf[n] < 128 /\ \A i \in 1 .. n - 1 : buf[i] >= 128

\* readVarCode(): up to six bytes; n = 0 stands for the answer not ok.
ReadVarCode(buf) ==
  LET ends == {n \in 1 .. IF Len(buf) < 6 THEN Len(buf) ELSE 6 : EndsAt(buf, n)} IN
  IF ends = {} THEN [n |-> 0]
  ELSE LET n == CHOOSE x \in ends : TRUE IN
       [n |-> n, op |-> [code |-> buf[n], have |-> n > 1, arg |-> ArgOf(buf, n - 1)]]

-----------------------------------------------------------------------------
(* References *)

Signed(d) == IF d >= W \div 2 THEN d - W ELSE d
Diff(a, b) == IF a >= b THEN a - b ELSE a - b + W

\* The argument of an offset: the distance to the target from the end of the op,
\* whose own length depends on it.
OffsetArg(site, targ) ==
  LET d0 == Diff(targ, site)
      n  == VarCodeLength(d0, TRUE)
      d  == Diff(d0, n)
  IN  IF Signed(d) < 0 /\ VarCodeLength(d, TRUE) # n THEN Diff(d, 1) ELSE d

\* ResolveRefArg(), and ResolveOptionRefArg() and the like for an addr label.
RefArg(relative, site, targ) == IF relative THEN OffsetArg(site, targ) ELSE targ
=============================================================================
