------------------------------- MODULE Bytes -------------------------------
(***************************************************************************)
(* A memory that texts are stored in, one after another, and what reads of *)
(* bytes, words and strings find in it: see PageBytes.                     *)
(***************************************************************************)
EXTENDS PageBytes

CONSTANTS
  Cbp,        \* words must be aligned below this address
  Addr,       \* where texts are stored
  Text,       \* what is stored at a time: sequences of bytes
  Top,        \* bound on the addresses that are looked at
  MaxStores   \* bound on stores

ASSUME BytesAssumption == Addr \subseteq Nat /\ Top \in Nat /\ Cbp \in Nat /\ MaxStores \in Nat
ASSUME TextAssumption == Text \subseteq Seq(0 .. 255)

VARIABLES
  pages,   \* the pages, of which some are missing
  stores   \* stores so far

memVars == <<pages, stores>>

-----------------------------------------------------------------------------
MemInit == pages = <<>> /\ stores = 0

Store(addr, text) ==
  /\ stores < MaxStores
  /\ pages' = StoreBytes(pages, addr, text)
  /\ stores' = stores + 1

MemNext == \E addr \in Addr, text \in Text : Store(addr, text)

MemSpec == MemInit /\ [][MemNext]_memVars
-----------------------------------------------------------------------------
(* Properties *)

\* What is read: up to some bytes behind the pages.
Seen == 0 .. Len(pages) * PageSize + 2
Lengths == 0 .. PageSize + 3
ReadAt(a, n) == [k \in 1 .. n |-> MemByte(pages, a + k - 1)]
Holes(a, n) == {k \in 1 .. n - 1 : Missing(pages, (a + k - 1) \div PageSize) /\ (a + k) % PageSize = 0}

\* Pages implement a flat memory.
Flat == [a \in 0 .. Top |-> MemByte(pages, a)]
AbsMem == INSTANCE AbsBytes WITH mem <- Flat
AbsSpec == AbsMem!Spec

\* fetchBytes reads the bytes of the memory, but for the first one of a page that follows a
\* missing one.
BytesRead ==
  \A a \in Seen, n \in Lengths :
    LET got == FetchBytes(pages, a, Buffer(n)) IN
    Len(got) = n /\ \A k \in 1 .. n : k - 1 \notin Holes(a, n) => got[k] = MemByte(pages, a + k - 1)

\* fetchMany reads the words of a region, up or down, where each is in one page.
WordsRead ==
  \A a \in Seen, n \in 0 .. 2 :
    LET as == {a + 4 * k : k \in 0 .. n}  word(k) == ReadAt(a + 4 * (k - 1), 4) IN
    IF n > 0 /\ \E b \in as \ {a + 4 * n} : Misaligned(Cbp, b) THEN FetchMany(pages, Cbp, a, a + 4 * n) = {}
    ELSE (\A b \in as : Whole(b) /\ ~Misaligned(Cbp, b)) =>
           /\ FetchMany(pages, Cbp, a, a + 4 * n) = {[k \in 1 .. n |-> word(k)]}
           /\ FetchMany(pages, Cbp, a + 4 * n, a) = {[k \in 1 .. n |-> word(n - k + 2)]}

\* A string that was stored is read back, wherever its length is in one page.
Holds(a, text) == ReadAt(a, Len(text)) = text
Strings == {<<0, 0, 0, 0>>, <<2, 0, 0, 0, 1, 2>>}
StringsRead ==
  \A a \in Seen, text \in Strings :
    Holds(a, text) /\ Whole(a) /\ ~Misaligned(Cbp, a) /\ Holes(a, Len(text)) = {} =>
      FetchString(pages, Cbp, a) = {SubSeq(text, 5, Len(text))}

\* Bytes, words and strings are read as the flat memory has them, where the code finds them.
ReadsServed == BytesRead /\ WordsRead /\ StringsRead
=============================================================================
