----------------------------- MODULE PageBytes -----------------------------
(***************************************************************************)
(* Memory read and written as bytes (vm.go): the program and the inputs    *)
(* are stored so, operations, names and dumps are read so.  Words are read *)
(* through a pointer into one page, wherever they begin.                   *)
(*                                                                         *)
(* Operators that may fail, or that read what the page does not hold, have *)
(* the set of their results.  A machine that is built shares no page, and  *)
(* storeBytes() is called for no other: its copy of a shared page is left  *)
(* out here (Machines has the same copy, for words).                       *)
(***************************************************************************)
EXTENDS Integers, Sequences

CONSTANTS
  PageSize,   \* bytes in a page
  Byte        \* bytes that a page's neighbour in Go's heap may hold

ASSUME PageAssumption == PageSize \in Nat \ {0} /\ PageSize % 4 = 0
ASSUME ByteAssumption == Byte \subseteq 0 .. 255

NoPage == <<>>
Page(pgs, i) == IF i + 1 \in DOMAIN pgs THEN pgs[i + 1] ELSE NoPage
Missing(pgs, i) == Page(pgs, i) = NoPage
MemByte(pgs, a) ==
  IF Missing(pgs, a \div PageSize) THEN 0 ELSE Page(pgs, a \div PageSize)[a % PageSize]

-----------------------------------------------------------------------------
\* A store goes through one page at least, up to this one.
LastPage(addr, text) == (IF text = <<>> THEN addr ELSE addr + Len(text) - 1) \div PageSize
Longer(pgs, i) == IF Len(pgs) > i THEN Len(pgs) ELSE i + 1

\* Slip: a page that is there is replaced by a new one.
StoreFresh(pgs, addr, text) ==
  LET last == LastPage(addr, text) IN
  [k \in 1 .. Longer(pgs, last) |->
     IF k - 1 \notin addr \div PageSize .. last THEN Page(pgs, k - 1)
     ELSE [j \in 0 .. PageSize - 1 |->
            LET m == (k - 1) * PageSize + j - addr + 1 IN IF m \in DOMAIN text THEN text[m] ELSE 0]]

\* storeBytes()
StoreBytes(pgs, addr, text) ==
  LET last == LastPage(addr, text) IN
  [k \in 1 .. Longer(pgs, last) |->
     IF k - 1 \notin addr \div PageSize .. last THEN Page(pgs, k - 1)
     ELSE [j \in 0 .. PageSize - 1 |->
            LET m == (k - 1) * PageSize + j - addr + 1 IN
            IF m \in DOMAIN text THEN text[m] ELSE MemByte(pgs, (k - 1) * PageSize + j)]]

-----------------------------------------------------------------------------
\* Slip: one more.
LeftMore(j) == PageSize - j + 2

\* The bytes that are skipped from offset j of a missing page on.
Left(j) == PageSize - j + 1

Skipped(a, rem) == IF rem <= Left(a % PageSize) THEN rem ELSE Left(a % PageSize)
Kept(buf, n, k) == [m \in 1 .. k |-> buf[n + m]]

\* fetchBytes(): into a buffer, which keeps what it had where bytes are skipped.
FetchBytes(pgs, addr, buf) ==
  LET From[n \in 0 .. Len(buf)] ==
        IF n = Len(buf) THEN <<>>
        ELSE IF ~Missing(pgs, (addr + n) \div PageSize) THEN <<MemByte(pgs, addr + n)>> \o From[n + 1]
        ELSE Kept(buf, n, Skipped(addr + n, Len(buf) - n)) \o From[n + Skipped(addr + n, Len(buf) - n)]
  IN  From[0]

Buffer(n) == [k \in 1 .. n |-> 0]

\* A word is in one page.
Whole(a) == a % PageSize <= PageSize - 4
Misaligned(cbp, a) == a < cbp /\ a % 4 # 0

\* fetch(): the bytes of a word.  Those behind the page are whatever is there.
Fetch(pgs, cbp, a) ==
  CASE Misaligned(cbp, a) -> {}
    [] ~Misaligned(cbp, a) /\ Missing(pgs, a \div PageSize) -> {Buffer(4)}
    [] ~Misaligned(cbp, a) /\ ~Missing(pgs, a \div PageSize) ->
         {w \in [1 .. 4 -> Byte \cup {MemByte(pgs, a + k) : k \in 0 .. 3}] :
            \A k \in 1 .. 4 : (a % PageSize) + k <= PageSize => w[k] = MemByte(pgs, a + k - 1)}

\* Slip: from the end, the other end is read as well.
AddrsInclusive(from, to) ==
  LET up == IF from <= to THEN 1 ELSE -1
      n == IF from <= to THEN (to - from + 3) \div 4 ELSE (from - to + 4) \div 4
  IN  [k \in 1 .. n |-> from + up * 4 * (k - 1)]

\* The addresses of the words from one address to another, without the latter.
Addrs(from, to) ==
  LET up == IF from <= to THEN 1 ELSE -1
      n == ((IF from <= to THEN to - from ELSE from - to) + 3) \div 4
  IN  [k \in 1 .. n |-> from + up * 4 * (k - 1)]

Joined(ws, tails) == {<<w>> \o tail : w \in ws, tail \in tails}

\* fetchMany()
FetchMany(pgs, cbp, from, to) ==
  LET as == Addrs(from, to)
      Tail_[k \in 1 .. Len(as) + 1] ==
        IF k > Len(as) THEN {<<>>} ELSE Joined(Fetch(pgs, cbp, as[k]), Tail_[k + 1])
  IN  Tail_[1]

Number(w) == w[1] + 256 * w[2] + 65536 * w[3]   \* enough of a length

\* Slip: the length is part of the string.
FetchStringAt(pgs, cbp, a) ==
  IF Misaligned(cbp, a) THEN {<<>>}
  ELSE {FetchBytes(pgs, a, Buffer(Number(w))) : w \in Fetch(pgs, cbp, a)}

\* fetchString(): a length and as many bytes; "" where the length cannot be read.
FetchString(pgs, cbp, a) ==
  IF Misaligned(cbp, a) THEN {<<>>}
  ELSE {FetchBytes(pgs, a + 4, Buffer(Number(w))) : w \in Fetch(pgs, cbp, a)}
=============================================================================
