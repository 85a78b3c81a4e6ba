---------------------------- MODULE PagesProof ----------------------------
(***************************************************************************)
(* What is proved of the two modules on PageBytes.  Of Bytes: for every    *)
(* page size, pages implement a flat memory.  Of Builder: what New makes   *)
(* of a program and its options, the pages it loads included.              *)
(***************************************************************************)
EXTENDS Bytes, Builder, FiniteSetTheorems, SequenceTheorems, WellFoundedInduction, TLAPS

-----------------------------------------------------------------------------
(* Bytes *)

Pages == {NoPage} \cup [0 .. PageSize - 1 -> 0 .. 255]

\* Every page is missing or has all of its bytes.
MemTypeOK == pages \in Seq(Pages) /\ stores \in Nat

-----------------------------------------------------------------------------
\* An address is its page's index times the size and its offset.
LEMMA Split ==
  ASSUME NEW a \in Nat
  PROVE  /\ a \div PageSize \in Nat /\ a % PageSize \in 0 .. PageSize - 1
         /\ a = (a \div PageSize) * PageSize + (a % PageSize)
BY PageAssumption

\* A page that is there is not the missing one.
LEMMA ThereIs ==
  ASSUME NEW pg \in [0 .. PageSize - 1 -> 0 .. 255]
  PROVE  pg # NoPage
<1>1. 0 \in DOMAIN pg
  BY PageAssumption
<1>2. DOMAIN NoPage = {}
  BY DEF NoPage
<1> QED
  BY <1>1, <1>2

LEMMA PageType ==
  ASSUME NEW pgs \in Seq(Pages), NEW i \in Nat
  PROVE  Page(pgs, i) \in Pages
<1>1. NoPage \in Pages
  BY DEF Pages
<1> QED
  BY <1>1 DEF Page

LEMMA MemByteType ==
  ASSUME NEW pgs \in Seq(Pages), NEW a \in Nat
  PROVE  MemByte(pgs, a) \in 0 .. 255
<1>1. a % PageSize \in 0 .. PageSize - 1
  BY Split
<1>2. CASE Missing(pgs, a \div PageSize)
  BY <1>2 DEF MemByte
<1>3. CASE ~Missing(pgs, a \div PageSize)
  <2>1. Page(pgs, a \div PageSize) \in Pages
    BY Split, PageType
  <2>2. Page(pgs, a \div PageSize) \in [0 .. PageSize - 1 -> 0 .. 255]
    BY <2>1, <1>3 DEF Pages, Missing
  <2> QED
    BY <2>2, <1>1, <1>3 DEF MemByte
<1> QED
  BY <1>2, <1>3

\* An address above another is in its page or in a later one.
LEMMA LaterPage ==
  ASSUME NEW a \in Nat, NEW b \in Nat, a <= b
  PROVE  a \div PageSize <= b \div PageSize
<1> DEFINE i == a \div PageSize
           k == b \div PageSize
<1>1. i \in Nat /\ k \in Nat
  BY Split
<1>2. SUFFICES ASSUME k < i PROVE FALSE
  BY <1>1
<1>3. (k + 1) * PageSize <= i * PageSize
  BY <1>1, <1>2, PageAssumption
<1>4. (k + 1) * PageSize = k * PageSize + PageSize
  BY <1>1, PageAssumption
<1>5. i * PageSize <= a /\ b < k * PageSize + PageSize
  BY Split, PageAssumption
<1>6. i * PageSize \in Nat /\ k * PageSize \in Nat
  BY <1>1, PageAssumption
<1> HIDE DEF i, k
<1> QED
  BY <1>3, <1>4, <1>5, <1>6, PageAssumption

\* Where a store begins and ends.
LEMMA LastType ==
  ASSUME NEW addr \in Nat, NEW text \in Seq(0 .. 255)
  PROVE  LastPage(addr, text) \in Nat /\ addr \div PageSize <= LastPage(addr, text)
<1> DEFINE end == IF text = <<>> THEN addr ELSE addr + Len(text) - 1
<1>1. end \in Nat /\ addr <= end
  OBVIOUS
<1>2. LastPage(addr, text) = end \div PageSize
  BY DEF LastPage
<1> HIDE DEF end
<1> QED
  BY <1>1, <1>2, Split, LaterPage

LEMMA ByteOf ==
  ASSUME NEW S, NEW text \in Seq(S), NEW m \in DOMAIN text
  PROVE  text[m] \in S
OBVIOUS

\* storeBytes() yields pages.
LEMMA StoreType ==
  ASSUME NEW pgs \in Seq(Pages), NEW addr \in Nat, NEW text \in Seq(0 .. 255)
  PROVE  StoreBytes(pgs, addr, text) \in Seq(Pages)
<1> DEFINE last == LastPage(addr, text)
           in == addr \div PageSize .. last
           n == Longer(pgs, last)
           at(i, j) == LET m == i * PageSize + j - addr + 1 IN
                       IF m \in DOMAIN text THEN text[m] ELSE MemByte(pgs, i * PageSize + j)
           made(i) == [j \in 0 .. PageSize - 1 |-> at(i, j)]
           page(k) == IF k - 1 \notin in THEN Page(pgs, k - 1) ELSE made(k - 1)
<1>1. n \in Nat
  BY LastType DEF Longer
<1>2. StoreBytes(pgs, addr, text) = [k \in 1 .. n |-> page(k)]
  BY DEF StoreBytes
<1>3. ASSUME NEW i \in Nat, NEW j \in 0 .. PageSize - 1
      PROVE  at(i, j) \in 0 .. 255
  <2>1. i * PageSize + j \in Nat
    BY PageAssumption
  <2>2. MemByte(pgs, i * PageSize + j) \in 0 .. 255
    BY <2>1, MemByteType
  <2> DEFINE m == i * PageSize + j - addr + 1
             old == MemByte(pgs, i * PageSize + j)
  <2>3. at(i, j) = IF m \in DOMAIN text THEN text[m] ELSE old
    OBVIOUS
  <2> HIDE DEF m, old, at
  <2>4. m \in DOMAIN text => text[m] \in 0 .. 255
    BY ByteOf
  <2> QED
    BY <2>2, <2>3, <2>4 DEF old
<1>4. ASSUME NEW i \in Nat
      PROVE  made(i) \in Pages
  BY <1>3 DEF Pages
<1>5. ASSUME NEW k \in 1 .. n
      PROVE  page(k) \in Pages
  <2>1. k - 1 \in Nat
    OBVIOUS
  <2> HIDE DEF made
  <2> QED
    BY <2>1, <1>4, PageType
<1> HIDE DEF page, n
<1> QED
  BY <1>1, <1>2, <1>5

\* storeBytes() writes the text, and leaves every other byte of memory.
LEMMA StoreWrites ==
  ASSUME NEW pgs \in Seq(Pages), NEW addr \in Nat, NEW text \in Seq(0 .. 255), NEW a \in Nat
  PROVE  MemByte(StoreBytes(pgs, addr, text), a) =
           IF a - addr + 1 \in DOMAIN text THEN text[a - addr + 1] ELSE MemByte(pgs, a)
<1> DEFINE new == StoreBytes(pgs, addr, text)
           last == LastPage(addr, text)
           first == addr \div PageSize
           i == a \div PageSize
           j == a % PageSize
<1>1. i \in Nat /\ j \in 0 .. PageSize - 1 /\ a = i * PageSize + j
  BY Split
<1>2. first \in Nat /\ last \in Nat /\ first <= last
  BY Split, LastType
<1>3. DOMAIN new = 1 .. Longer(pgs, last)
  BY DEF StoreBytes
<1>4. Longer(pgs, last) \in Nat /\ Longer(pgs, last) >= Len(pgs) /\ Longer(pgs, last) >= last + 1
  BY <1>2 DEF Longer
<1>5. CASE i \notin first .. last
  <2>1. Page(new, i) = Page(pgs, i)
    <3>1. CASE i + 1 \in DOMAIN new
      <4>1. new[i + 1] = Page(pgs, i)
        BY <3>1, <1>1, <1>3, <1>5 DEF StoreBytes
      <4> HIDE DEF new
      <4> QED
        BY <4>1, <3>1 DEF Page
    <3>2. CASE i + 1 \notin DOMAIN new
      <4>1. i + 1 \notin DOMAIN pgs
        BY <3>2, <1>1, <1>3, <1>4
      <4> HIDE DEF new
      <4> QED
        BY <4>1, <3>2 DEF Page
    <3> QED
      BY <3>1, <3>2
  <2>2. MemByte(new, a) = MemByte(pgs, a)
    <3> HIDE DEF new
    <3> QED
      BY <2>1 DEF MemByte, Missing
  <2>3. a - addr + 1 \notin DOMAIN text
    <3>1. SUFFICES ASSUME a - addr + 1 \in DOMAIN text PROVE i \in first .. last
      BY <1>5
    <3>2. addr <= a /\ text # <<>> /\ addr + Len(text) - 1 \in Nat /\ a <= addr + Len(text) - 1
      BY <3>1
    <3>3. first <= i
      BY <3>2, LaterPage
    <3>4. i <= (addr + Len(text) - 1) \div PageSize
      BY <3>2, LaterPage
    <3>5. last = (addr + Len(text) - 1) \div PageSize
      BY <3>2 DEF LastPage
    <3> HIDE DEF first, last, i
    <3> QED
      BY <3>3, <3>4, <3>5, <1>1, <1>2
  <2> QED
    BY <2>2, <2>3
<1>6. CASE i \in first .. last
  <2> DEFINE at(k) == LET m == i * PageSize + k - addr + 1 IN
                      IF m \in DOMAIN text THEN text[m] ELSE MemByte(pgs, i * PageSize + k)
             pg == [k \in 0 .. PageSize - 1 |-> at(k)]
  <2>1. i + 1 \in DOMAIN new /\ new[i + 1] = pg
    <3>1. i + 1 \in 1 .. Longer(pgs, last) /\ (i + 1) - 1 = i
      BY <1>1, <1>2, <1>4, <1>6
    <3> QED
      BY <3>1, <1>3, <1>6 DEF StoreBytes
  <2>2. Page(new, i) = pg
    <3> HIDE DEF new, pg
    <3> QED
      BY <2>1 DEF Page
  <2>3. ASSUME NEW k \in 0 .. PageSize - 1
        PROVE  at(k) \in 0 .. 255
    <3>1. i * PageSize + k \in Nat
      BY <1>1, PageAssumption
    <3>2. MemByte(pgs, i * PageSize + k) \in 0 .. 255
      BY <3>1, MemByteType
    <3> DEFINE m == i * PageSize + k - addr + 1
               old == MemByte(pgs, i * PageSize + k)
    <3>3. at(k) = IF m \in DOMAIN text THEN text[m] ELSE old
      OBVIOUS
    <3> HIDE DEF m, old, at
    <3>4. m \in DOMAIN text => text[m] \in 0 .. 255
      BY ByteOf
    <3> QED
      BY <3>2, <3>3, <3>4 DEF old
  <2>4. pg \in [0 .. PageSize - 1 -> 0 .. 255]
    <3> HIDE DEF at
    <3> QED
      BY <2>3
  <2>5. ~Missing(new, i)
    <3> HIDE DEF new, pg
    <3> QED
      BY <2>2, <2>4, ThereIs DEF Missing
  <2>6. MemByte(new, a) = pg[j]
    <3> HIDE DEF new, pg
    <3> QED
      BY <2>2, <2>5 DEF MemByte
  <2>7. pg[j] = at(j)
    <3> HIDE DEF at
    <3> QED
      BY <1>1
  <2>8. at(j) = IF a - addr + 1 \in DOMAIN text THEN text[a - addr + 1] ELSE MemByte(pgs, a)
    <3>1. i * PageSize + j = a
      BY <1>1
    <3> HIDE DEF i, j
    <3> DEFINE before == i * PageSize
    <3>2. before \in Nat /\ j \in Nat /\ before + j = a
      BY <3>1, <1>1, PageAssumption
    <3> HIDE DEF before
    <3>3. before + j - addr + 1 = a - addr + 1
      BY <3>2
    <3> QED
      BY Zenon, <3>1, <3>3 DEF before
  <2> QED
    BY <2>6, <2>7, <2>8
<1> QED
  BY <1>5, <1>6

-----------------------------------------------------------------------------
\* Pages stay what storeBytes() makes of them.
LEMMA MemTypeCorrect == MemSpec => []MemTypeOK
<1>1. MemInit => MemTypeOK
  BY DEF MemInit, MemTypeOK
<1>2. MemTypeOK /\ [MemNext]_memVars => MemTypeOK'
  <2> SUFFICES ASSUME MemTypeOK, [MemNext]_memVars PROVE MemTypeOK'
    OBVIOUS
  <2>1. ASSUME NEW addr \in Addr, NEW text \in Text, Store(addr, text)
        PROVE  MemTypeOK'
    BY <2>1, StoreType, BytesAssumption, TextAssumption DEF Store, MemTypeOK
  <2>2. CASE UNCHANGED memVars
    BY <2>2 DEF MemTypeOK, memVars
  <2> QED
    BY <2>1, <2>2 DEF MemNext
<1> QED
  BY <1>1, <1>2, PTL DEF MemSpec

\* Every store of a program or an input is one write to a flat memory: whatever pages it goes
\* through, with pages of whatever size, and whether they were there or not.
THEOREM ImplementsFlat == MemSpec => AbsSpec
<1>1. MemInit => AbsMem!Init
  <2> SUFFICES ASSUME MemInit PROVE Flat = [a \in 0 .. Top |-> 0]
    BY DEF AbsMem!Init
  <2>1. \A a \in 0 .. Top : MemByte(pages, a) = 0
    BY DEF MemInit, MemByte, Missing, Page, NoPage
  <2> QED
    BY <2>1 DEF Flat
<1>2. MemTypeOK /\ [MemNext]_memVars => [AbsMem!Next]_Flat
  <2> SUFFICES ASSUME MemTypeOK, [MemNext]_memVars PROVE [AbsMem!Next]_Flat
    OBVIOUS
  <2>1. ASSUME NEW addr \in Addr, NEW text \in Text, Store(addr, text)
        PROVE  AbsMem!Next
    <3>1. pages \in Seq(Pages) /\ addr \in Nat /\ text \in Seq(0 .. 255)
      BY BytesAssumption, TextAssumption DEF MemTypeOK
    <3>2. \A a \in 0 .. Top :
            MemByte(pages', a) = IF a - addr + 1 \in DOMAIN text THEN text[a - addr + 1] ELSE MemByte(pages, a)
      <4> SUFFICES ASSUME NEW a \in 0 .. Top
                   PROVE  MemByte(StoreBytes(pages, addr, text), a) =
                            IF a - addr + 1 \in DOMAIN text THEN text[a - addr + 1] ELSE MemByte(pages, a)
        BY <2>1 DEF Store
      <4>1. a \in Nat
        BY BytesAssumption
      <4> QED
        BY <4>1, <3>1, StoreWrites
    <3>3. Flat' = [a \in 0 .. Top |-> IF a - addr + 1 \in DOMAIN text THEN text[a - addr + 1] ELSE Flat[a]]
      BY <3>2 DEF Flat
    <3>4. AbsMem!Write(addr, text)
      BY <3>3 DEF AbsMem!Write
    <3> QED
      BY <3>4 DEF AbsMem!Next
  <2>2. CASE UNCHANGED memVars
    BY <2>2 DEF memVars, Flat, MemByte, Missing, Page
  <2> QED
    BY <2>1, <2>2 DEF MemNext
<1> QED
  BY <1>1, <1>2, MemTypeCorrect, PTL DEF MemSpec, AbsSpec, AbsMem!Spec

-----------------------------------------------------------------------------
(* What reads find *)

\* The least of a set of numbers.
LEMMA LeastNumber ==
  ASSUME NEW S \in SUBSET Nat, S # {}
  PROVE  \E n \in S : \A m \in S : n <= m
<1>1. IsWellFoundedOn(OpToRel(<, Nat), Nat)
  BY NatLessThanWellFounded
<1>2. PICK n \in S : \A m \in S : <<m, n>> \notin OpToRel(<, Nat)
  BY <1>1, WFMin
<1>3. \A m \in S : ~(m < n)
  BY <1>2 DEF OpToRel
<1> QED
  BY <1>3

\* What holds of a number when it holds of all below it holds of all: stated of sets.
LEMMA ByInduction ==
  ASSUME NEW S, \A n \in Nat : (\A m \in Nat : m < n => m \in S) => n \in S
  PROVE  Nat \subseteq S
<1> SUFFICES ASSUME Nat \ S # {} PROVE FALSE
  OBVIOUS
<1>1. PICK n \in Nat \ S : \A m \in Nat \ S : n <= m
  <2>1. Nat \ S \in SUBSET Nat
    OBVIOUS
  <2> QED
    BY <2>1, LeastNumber
<1>2. \A m \in Nat : m < n => m \in S
  BY <1>1
<1> QED
  BY <1>1, <1>2

\* Addresses of a page, and the first one behind it.
LEMMA SamePage ==
  ASSUME NEW a \in Nat, NEW x \in Nat, (a % PageSize) + x < PageSize
  PROVE  (a + x) \div PageSize = a \div PageSize /\ (a + x) % PageSize = (a % PageSize) + x
<1>1. PICK i \in Nat, j \in 0 .. PageSize - 1, p \in Nat :
        i = a \div PageSize /\ j = a % PageSize /\ p = i * PageSize /\ a = p + j
  BY Split, PageAssumption
<1>2. PICK k \in Nat, l \in 0 .. PageSize - 1, q \in Nat :
        k = (a + x) \div PageSize /\ l = (a + x) % PageSize /\ q = k * PageSize /\ a + x = q + l
  <2>1. a + x \in Nat
    OBVIOUS
  <2> QED
    BY <2>1, Split, PageAssumption
<1>3. i <= k
  BY <1>1, <1>2, LaterPage
<1>4. ~(k > i)
  <2> SUFFICES ASSUME k > i PROVE FALSE
    OBVIOUS
  <2>1. (i + 1) * PageSize <= k * PageSize /\ (i + 1) * PageSize = i * PageSize + PageSize
    BY PageAssumption
  <2> QED
    BY <1>1, <1>2, <2>1, PageAssumption
<1>5. k = i
  BY <1>3, <1>4
<1> QED
  BY <1>1, <1>2, <1>5, PageAssumption

LEMMA NextPage ==
  ASSUME NEW a \in Nat
  PROVE  (a + (PageSize - (a % PageSize))) % PageSize = 0
<1>1. PICK i \in Nat, j \in 0 .. PageSize - 1 : i = a \div PageSize /\ j = a % PageSize /\ a = i * PageSize + j
  BY Split
<1>2. a + (PageSize - j) = (i + 1) * PageSize
  <2>1. (i + 1) * PageSize = i * PageSize + PageSize /\ i * PageSize \in Nat
    BY PageAssumption
  <2> QED
    BY <1>1, <2>1, PageAssumption
<1>3. ((i + 1) * PageSize) % PageSize = 0
  <2>1. PICK x \in Nat : x = (i + 1) * PageSize
    BY PageAssumption
  <2>2. PICK k \in Nat, l \in 0 .. PageSize - 1 : x = k * PageSize + l /\ l = x % PageSize
    BY Split
  <2>3. l = ((i + 1) - k) * PageSize
    <3>1. ((i + 1) - k) * PageSize = (i + 1) * PageSize - k * PageSize
      BY PageAssumption
    <3> QED
      BY <2>1, <2>2, <3>1, PageAssumption
  <2>4. CASE i + 1 > k
    <3>1. ((i + 1) - k) * PageSize >= PageSize
      BY <2>4, PageAssumption
    <3> QED
      BY <2>2, <2>3, <3>1, PageAssumption
  <2>5. CASE i + 1 <= k
    <3>1. ((i + 1) - k) * PageSize <= 0
      BY <2>5, PageAssumption
    <3> QED
      BY <2>1, <2>2, <2>3, <3>1, PageAssumption
  <2> QED
    BY <2>4, <2>5
<1> QED
  BY <1>1, <1>2, <1>3

\* The definition of fetchBytes(), from the n-th byte on.
BytesFrom(pgs, addr, buf, g, n) ==
  IF n = Len(buf) THEN <<>>
  ELSE IF ~Missing(pgs, (addr + n) \div PageSize) THEN <<MemByte(pgs, addr + n)>> \o g[n + 1]
  ELSE Kept(buf, n, Skipped(addr + n, Len(buf) - n)) \o g[n + Skipped(addr + n, Len(buf) - n)]

\* Some bytes are skipped, and no more than there are.
LEMMA SkippedBound ==
  ASSUME NEW a \in Nat, NEW rem \in Nat
  PROVE  /\ Skipped(a, rem) \in 0 .. rem
         /\ rem > 0 => Skipped(a, rem) >= 1
         /\ Skipped(a, rem) < rem => Skipped(a, rem) = PageSize - (a % PageSize) + 1
<1>1. PICK i \in Nat, j \in 0 .. PageSize - 1, p \in Nat : j = a % PageSize /\ a = p + j
  BY Split, PageAssumption
<1>2. Left(a % PageSize) = Left(j)
  BY <1>1
<1>3. PICK l \in Nat : l = Left(j) /\ l = PageSize - j + 1 /\ l >= 2
  BY PageAssumption DEF Left
<1>4. Skipped(a, rem) = IF rem <= l THEN rem ELSE l
  BY <1>2, <1>3 DEF Skipped
<1>5. PICK k : k = Skipped(a, rem)
  OBVIOUS
<1>6. k \in 0 .. rem /\ (rem > 0 => k >= 1) /\ (k < rem => k = PageSize - j + 1)
  BY <1>3, <1>4, <1>5
<1> QED
  BY <1>1, <1>5, <1>6

\* It reads what comes behind only.
LEMMA ReadsBehind ==
  ASSUME NEW pgs, NEW addr \in Nat, NEW buf, NEW N \in Nat, Len(buf) = N, NEW n \in 0 .. N, NEW g, NEW h,
         \A m \in n + 1 .. N : g[m] = h[m]
  PROVE  BytesFrom(pgs, addr, buf, g, n) = BytesFrom(pgs, addr, buf, h, n)
<1>1. PICK k \in Nat : k = Skipped(addr + n, Len(buf) - n) /\ (n < N => k >= 1 /\ n + k <= N)
  <2>1. PICK a \in Nat, rem \in Nat : a = addr + n /\ rem = Len(buf) - n /\ rem = N - n
    OBVIOUS
  <2>2. PICK k : k = Skipped(a, rem)
    OBVIOUS
  <2>3. k \in 0 .. rem /\ (rem > 0 => k >= 1)
    BY <2>2, SkippedBound
  <2> QED
    BY <2>1, <2>2, <2>3
<1>2. n < N => g[n + 1] = h[n + 1] /\ g[n + k] = h[n + k]
  BY <1>1
<1> QED
  BY <1>1, <1>2 DEF BytesFrom

\* So there is a function that it defines.
LEMMA FetchUnfolds ==
  ASSUME NEW pgs, NEW addr \in Nat, NEW buf, NEW N \in Nat, Len(buf) = N
  PROVE  \E g : /\ g = [n \in 0 .. N |-> BytesFrom(pgs, addr, buf, g, n)]
                /\ FetchBytes(pgs, addr, buf) = g[0]
<1> DEFINE Is(g, d) == g = [n \in N - d .. N |-> BytesFrom(pgs, addr, buf, g, n)]
           S == {d \in Nat : d <= N => \E g : Is(g, d)}
<1>1. ASSUME NEW d \in Nat, \A e \in Nat : e < d => e \in S PROVE d \in S
  <2> SUFFICES ASSUME d <= N PROVE \E g : Is(g, d)
    OBVIOUS
  <2>1. PICK g : d # 0 => Is(g, d - 1)
    <3> HIDE DEF Is
    <3>1. d # 0 => d - 1 \in S /\ d - 1 <= N
      BY <1>1
    <3> QED
      BY <3>1
  <2>2. PICK x : x = BytesFrom(pgs, addr, buf, g, N - d)
    OBVIOUS
  <2>3. PICK h : h = [n \in N - d .. N |-> IF n = N - d THEN x ELSE g[n]]
    OBVIOUS
  <2>4. \A m \in (N - d) + 1 .. N : g[m] = h[m]
    BY <2>3
  <2>5. ASSUME NEW n \in N - d .. N PROVE h[n] = BytesFrom(pgs, addr, buf, h, n)
    <3>1. n \in 0 .. N /\ \A m \in n + 1 .. N : g[m] = h[m]
      BY <2>4
    <3>2. BytesFrom(pgs, addr, buf, g, n) = BytesFrom(pgs, addr, buf, h, n)
      BY <3>1, ReadsBehind
    <3>3. CASE n = N - d
      BY <2>2, <2>3, <3>2, <3>3
    <3>4. CASE n # N - d
      <4>1. d # 0 /\ n \in N - (d - 1) .. N
        BY <3>4
      <4>2. g[n] = BytesFrom(pgs, addr, buf, g, n)
        BY <2>1, <4>1
      <4> QED
        BY <2>3, <3>2, <3>4, <4>2
    <3> QED
      BY <3>3, <3>4
  <2>6. Is(h, d)
    BY <2>3, <2>5
  <2> HIDE DEF Is
  <2> QED
    BY <2>6
<1>2. \E g : Is(g, N)
  <2> HIDE DEF Is
  <2>1. Nat \subseteq S
    <3> HIDE DEF S
    <3> QED
      BY <1>1, ByInduction
  <2> QED
    BY <2>1
<1> DEFINE From == CHOOSE g : g = [n \in 0 .. Len(buf) |-> BytesFrom(pgs, addr, buf, g, n)]
<1>0. FetchBytes(pgs, addr, buf) = From[0]
  BY DEF FetchBytes, BytesFrom, Kept
<1>3. From = [n \in 0 .. N |-> BytesFrom(pgs, addr, buf, From, n)]
  <2>1. N - N = 0
    OBVIOUS
  <2>2. PICK g : g = [n \in 0 .. N |-> BytesFrom(pgs, addr, buf, g, n)]
    BY <1>2, <2>1
  <2> QED
    BY <2>2
<1> HIDE DEF From
<1> QED
  BY <1>0, <1>3

-----------------------------------------------------------------------------
\* What is read of n bytes: those of the memory, but for holes.
Gone(pgs, a) == Missing(pgs, a \div PageSize)
Hole(pgs, addr, h) == h >= 1 /\ Gone(pgs, addr + h - 1) /\ (addr + h) % PageSize = 0
Served(pgs, addr, N, n, got) ==
  /\ got \in Seq(0 .. 255)
  /\ Len(got) = N - n
  /\ \A h \in n .. N - 1 : ~Hole(pgs, addr, h) => got[h - n + 1] = MemByte(pgs, addr + h)

\* A byte, and what comes behind it.
LEMMA ServedByte ==
  ASSUME NEW pgs \in Seq(Pages), NEW addr \in Nat, NEW N \in Nat, NEW n \in 0 .. N - 1,
         NEW rest, Served(pgs, addr, N, n + 1, rest)
  PROVE  Served(pgs, addr, N, n, <<MemByte(pgs, addr + n)>> \o rest)
<1>1. PICK b \in 0 .. 255 : b = MemByte(pgs, addr + n)
  <2>1. addr + n \in Nat
    OBVIOUS
  <2> QED
    BY <2>1, MemByteType
<1>2. rest \in Seq(0 .. 255) /\ Len(rest) = N - (n + 1)
  BY DEF Served
<1>3. PICK got : got = <<b>> \o rest
  OBVIOUS
<1>4. got \in Seq(0 .. 255) /\ Len(got) = N - n /\ got[1] = b
      /\ \A k \in 1 .. Len(rest) : got[k + 1] = rest[k]
  BY <1>2, <1>3
<1>5. ASSUME NEW h \in n .. N - 1, ~Hole(pgs, addr, h)
      PROVE  got[h - n + 1] = MemByte(pgs, addr + h)
  <2>1. CASE h = n
    <3>1. h - n + 1 = 1
      BY <2>1
    <3> QED
      BY <1>1, <1>4, <2>1, <3>1
  <2>2. CASE h # n
    <3>1. h \in n + 1 .. N - 1
      BY <2>2
    <3>2. rest[h - (n + 1) + 1] = MemByte(pgs, addr + h)
      BY <1>5, <3>1 DEF Served
    <3>3. PICK k \in 1 .. Len(rest) : k = h - (n + 1) + 1 /\ k + 1 = h - n + 1
      BY <1>2, <3>1
    <3> QED
      BY <1>4, <3>2, <3>3
  <2> QED
    BY <2>1, <2>2
<1> QED
  BY <1>1, <1>3, <1>4, <1>5 DEF Served

LEMMA InRest ==
  ASSUME NEW n \in Nat, NEW k \in Nat, NEW N \in Nat, NEW l \in Nat, NEW h \in n + k .. N - 1, l = N - (n + k)
  PROVE  h - (n + k) + 1 \in 1 .. l /\ k + (h - (n + k) + 1) = h - n + 1
OBVIOUS

\* What the second of two sequences becomes a part of.
LEMMA Behind ==
  ASSUME NEW T, NEW s \in Seq(T), NEW r \in Seq(T), NEW k \in Nat, k = Len(s), NEW m \in 1 .. Len(r)
  PROVE  (s \o r)[k + m] = r[m]
<1>1. k + m \in 1 .. Len(s) + Len(r) /\ k + m > Len(s) /\ (k + m) - Len(s) = m
  OBVIOUS
<1>2. (s \o r)[k + m] = r[(k + m) - Len(s)]
  BY <1>1
<1> QED
  BY <1>1, <1>2

\* What the first of them stays.
LEMMA Before ==
  ASSUME NEW T, NEW s \in Seq(T), NEW r \in Seq(T), NEW m \in 1 .. Len(s)
  PROVE  (s \o r)[m] = s[m]
<1>1. m \in 1 .. Len(s) + Len(r) /\ m <= Len(s)
  OBVIOUS
<1> QED
  BY <1>1

\* What is skipped of a missing page, and what comes behind it.
LEMMA ServedSkip ==
  ASSUME NEW pgs \in Seq(Pages), NEW addr \in Nat, NEW N \in Nat, NEW n \in 0 .. N - 1,
         Gone(pgs, addr + n),
         NEW k \in Nat, k = Skipped(addr + n, N - n), NEW rest, Served(pgs, addr, N, n + k, rest)
  PROVE  Served(pgs, addr, N, n, Kept(Buffer(N), n, k) \o rest)
<1>1. PICK a \in Nat, rem \in Nat : a = addr + n /\ rem = N - n
  OBVIOUS
<1>2. PICK j \in 0 .. PageSize - 1 : j = a % PageSize
  BY Split
<1>3. k = Skipped(a, rem)
  BY <1>1
<1>4. k \in 0 .. rem /\ (rem > 0 => k >= 1) /\ (k < rem => k = PageSize - j + 1)
  BY <1>2, <1>3, SkippedBound
<1>5. k <= PageSize - j + 1
  <2>1. Left(a % PageSize) = Left(j)
    BY <1>2
  <2>2. PICK l \in Nat : l = Left(j) /\ l = PageSize - j + 1
    BY PageAssumption DEF Left
  <2>3. k = IF rem <= l THEN rem ELSE l
    BY <1>3, <2>1, <2>2 DEF Skipped
  <2> QED
    BY <2>2, <2>3
<1>6. PICK kept : kept = Kept(Buffer(N), n, k)
  OBVIOUS
<1>7. kept \in Seq(0 .. 255) /\ Len(kept) = k /\ \A m \in 1 .. k : kept[m] = 0
  <2>1. kept = [m \in 1 .. k |-> Buffer(N)[n + m]]
    BY <1>6 DEF Kept
  <2>2. ASSUME NEW m \in 1 .. k PROVE Buffer(N)[n + m] = 0
    <3>1. n + m \in 1 .. N
      BY <1>1, <1>4
    <3> QED
      BY <3>1 DEF Buffer
  <2>3. kept = [m \in 1 .. k |-> 0]
    BY <2>1, <2>2
  <2> QED
    BY <2>3
<1>8. rest \in Seq(0 .. 255) /\ Len(rest) = N - (n + k)
  BY DEF Served
<1>9. PICK got : got = kept \o rest
  OBVIOUS
<1>10. /\ got \in Seq(0 .. 255) /\ Len(got) = N - n
       /\ \A m \in 1 .. k : got[m] = 0
       /\ \A m \in 1 .. Len(rest) : got[k + m] = rest[m]
  <2>1. got \in Seq(0 .. 255) /\ Len(got) = k + Len(rest)
    BY <1>7, <1>8, <1>9
  <2>2. kept \in Seq(0 .. 255) /\ rest \in Seq(0 .. 255)
    BY <1>7, <1>8
  <2>3. k = Len(kept)
    BY <1>7
  <2>4. ASSUME NEW m \in 1 .. k PROVE got[m] = kept[m]
    <3>1. m \in 1 .. Len(kept)
      BY <2>3
    <3>2. (kept \o rest)[m] = kept[m]
      BY ONLY <2>2, <3>1, Before
    <3> QED
      BY ONLY <1>9, <3>2
  <2>5. ASSUME NEW m \in 1 .. Len(rest) PROVE got[k + m] = rest[m]
    <3>1. k \in Nat
      OBVIOUS
    <3>2. (kept \o rest)[k + m] = rest[m]
      BY ONLY <2>2, <2>3, <3>1, m \in 1 .. Len(rest), Behind
    <3> QED
      BY ONLY <1>9, <3>2
  <2>6. k + Len(rest) = N - n
    BY <1>8
  <2> QED
    BY <1>7, <2>1, <2>4, <2>5, <2>6
<1>11. ASSUME NEW h \in n .. N - 1, ~Hole(pgs, addr, h)
       PROVE  got[h - n + 1] = MemByte(pgs, addr + h)
  <2>1. PICK x \in Nat : h = n + x /\ h - n + 1 = x + 1 /\ addr + h = a + x
    BY <1>1
  <2>2. CASE j + x < PageSize /\ x < k
    <3>1. (a + x) \div PageSize = a \div PageSize
      BY <1>2, <2>2, SamePage
    <3>2. MemByte(pgs, a + x) = 0
      BY <1>1, <3>1 DEF MemByte, Gone
    <3>3. x + 1 \in 1 .. k
      BY <2>2
    <3> QED
      BY <1>10, <2>1, <3>2, <3>3
  <2>3. CASE j + x >= PageSize /\ x < k
    <3>1. x = PageSize - j /\ x >= 1
      BY <1>5, <2>3, PageAssumption
    <3>2. (a + x) % PageSize = 0
      <4>1. (a + (PageSize - (a % PageSize))) % PageSize = 0
        BY NextPage
      <4> QED
        BY <1>2, <3>1, <4>1
    <3>3. PICK y \in Nat : y = x - 1 /\ j + y < PageSize
      BY <3>1, PageAssumption
    <3>4. (a + y) \div PageSize = a \div PageSize
      BY <1>2, <3>3, SamePage
    <3>5. addr + h - 1 = a + y /\ h >= 1
      <4>1. x >= 1 /\ y = x - 1
        BY <3>1, <3>3
      <4> QED
        BY <2>1, <4>1
    <3>6. Hole(pgs, addr, h)
      BY <1>1, <2>1, <3>2, <3>4, <3>5 DEF Hole, Gone
    <3> QED
      BY <1>11, <3>6
  <2>4. CASE x >= k
    <3>1. h \in n + k .. N - 1
      BY <2>1, <2>4
    <3>2. rest[h - (n + k) + 1] = MemByte(pgs, addr + h)
      BY <1>11, <3>1 DEF Served
    <3>3. PICK m \in 1 .. Len(rest) : m = h - (n + k) + 1 /\ k + m = h - n + 1
      <4>1. PICK l \in Nat : l = Len(rest) /\ l = N - (n + k)
        BY <1>8
      <4>2. h - (n + k) + 1 \in 1 .. l /\ k + (h - (n + k) + 1) = h - n + 1
        <5>1. /\ n \in Nat /\ k \in Nat /\ N \in Nat /\ l \in Nat
              /\ h \in n + k .. N - 1 /\ l = N - (n + k)
          BY <3>1, <4>1
        <5> QED
          BY ONLY <5>1, InRest
      <4> QED
        BY <4>1, <4>2
    <3> QED
      BY <1>10, <3>2, <3>3
  <2>5. x < k \/ x >= k
    BY <2>1
  <2>6. j + x < PageSize \/ j + x >= PageSize
    BY PageAssumption
  <2> QED
    BY <2>2, <2>3, <2>4, <2>5, <2>6
<1> QED
  BY <1>6, <1>9, <1>10, <1>11 DEF Served

\* fetchBytes() reads the bytes of the memory, but for holes.
LEMMA BytesServed ==
  ASSUME NEW pgs \in Seq(Pages), NEW addr \in Nat, NEW N \in Nat
  PROVE  Served(pgs, addr, N, 0, FetchBytes(pgs, addr, Buffer(N)))
<1>1. PICK buf : buf = Buffer(N)
  OBVIOUS
<1>2. Len(buf) = N
  BY <1>1 DEF Buffer
<1>3. PICK g : /\ g = [n \in 0 .. N |-> BytesFrom(pgs, addr, buf, g, n)]
               /\ FetchBytes(pgs, addr, buf) = g[0]
  BY <1>2, FetchUnfolds
<1> DEFINE S == {d \in Nat : d <= N => Served(pgs, addr, N, N - d, g[N - d])}
<1>4. ASSUME NEW d \in Nat, \A e \in Nat : e < d => e \in S PROVE d \in S
  <2> SUFFICES ASSUME d <= N PROVE Served(pgs, addr, N, N - d, g[N - d])
    OBVIOUS
  <2>1. PICK n \in 0 .. N : n = N - d
    OBVIOUS
  <2>2. g[n] = BytesFrom(pgs, addr, buf, g, n)
    BY <1>3
  <2>3. ASSUME NEW m \in n + 1 .. N PROVE Served(pgs, addr, N, m, g[m])
    <3>1. PICK e \in Nat : e < d /\ e <= N /\ N - e = m
      <4>1. N - m \in Nat /\ N - m < d /\ N - m <= N /\ N - (N - m) = m
        BY <2>1
      <4> QED
        BY <4>1
    <3>2. e \in S
      BY <1>4, <3>1
    <3> QED
      BY <3>1, <3>2
  <2>4. CASE n = N
    <3>1. g[n] = <<>>
      BY <1>2, <2>2, <2>4 DEF BytesFrom
    <3>2. Served(pgs, addr, N, n, <<>>)
      BY <2>4 DEF Served
    <3> QED
      BY <2>1, <3>1, <3>2
  <2>5. CASE n < N /\ ~Missing(pgs, (addr + n) \div PageSize)
    <3>1. g[n] = <<MemByte(pgs, addr + n)>> \o g[n + 1]
      BY <1>2, <2>2, <2>5 DEF BytesFrom
    <3>2. n \in 0 .. N - 1 /\ Served(pgs, addr, N, n + 1, g[n + 1])
      BY <2>3, <2>5
    <3> QED
      BY <2>1, <3>1, <3>2, ServedByte
  <2>6. CASE n < N /\ Missing(pgs, (addr + n) \div PageSize)
    <3>1. PICK k \in Nat : k = Skipped(addr + n, N - n) /\ k >= 1 /\ n + k <= N
      <4>1. PICK a \in Nat, rem \in Nat : a = addr + n /\ rem = N - n /\ rem > 0
        BY <2>6
      <4>2. PICK k : k = Skipped(a, rem)
        OBVIOUS
      <4>3. k \in 0 .. rem /\ k >= 1
        BY <4>1, <4>2, SkippedBound
      <4> QED
        BY <4>1, <4>2, <4>3
    <3>2. g[n] = Kept(buf, n, k) \o g[n + k]
      <4>1. k = Skipped(addr + n, Len(buf) - n) /\ n # Len(buf)
        BY <1>2, <2>6, <3>1
      <4> QED
        BY <2>2, <2>6, <4>1 DEF BytesFrom
    <3>3. n \in 0 .. N - 1 /\ Served(pgs, addr, N, n + k, g[n + k])
      BY <2>3, <2>6, <3>1
    <3>4. Gone(pgs, addr + n)
      BY <2>6 DEF Gone
    <3> QED
      BY <1>1, <2>1, <3>1, <3>2, <3>3, <3>4, ServedSkip
  <2> QED
    BY <2>4, <2>5, <2>6
<1>5. Nat \subseteq S
  <2> HIDE DEF S
  <2> QED
    BY <1>4, ByInduction
<1>6. Served(pgs, addr, N, 0, g[0])
  <2>1. N - N = 0
    OBVIOUS
  <2> QED
    BY <1>5, <2>1
<1> QED
  BY <1>1, <1>3, <1>6

-----------------------------------------------------------------------------
\* A word of the memory.
WordIn(pgs, a) == [k \in 1 .. 4 |-> MemByte(pgs, a + k - 1)]

\* fetch() reads a word that is in one page.
LEMMA WordServed ==
  ASSUME NEW pgs \in Seq(Pages), NEW cbp, NEW a \in Nat, Whole(a), ~Misaligned(cbp, a)
  PROVE  Fetch(pgs, cbp, a) = {WordIn(pgs, a)}
<1>1. PICK j \in 0 .. PageSize - 1 : j = a % PageSize
  BY Split
<1>2. j <= PageSize - 4
  BY <1>1 DEF Whole
<1>3. CASE Gone(pgs, a)
  <2>1. Fetch(pgs, cbp, a) = {Buffer(4)}
    BY <1>3 DEF Fetch, Gone
  <2>2. ASSUME NEW k \in 1 .. 4 PROVE MemByte(pgs, a + k - 1) = 0
    <3>1. PICK x \in Nat : x = k - 1 /\ a + k - 1 = a + x /\ j + x < PageSize
      <4>1. k - 1 \in Nat /\ a + k - 1 = a + (k - 1) /\ j + (k - 1) < PageSize
        BY <1>2, PageAssumption
      <4> QED
        BY <4>1
    <3>2. (a + x) \div PageSize = a \div PageSize
      BY <1>1, <3>1, SamePage
    <3> QED
      BY <1>3, <3>1, <3>2 DEF MemByte, Gone
  <2>3. WordIn(pgs, a) = Buffer(4)
    BY <2>2 DEF WordIn, Buffer
  <2> QED
    BY <2>1, <2>3
<1>4. CASE ~Gone(pgs, a)
  <2> DEFINE Bs == Byte \cup {MemByte(pgs, a + k) : k \in 0 .. 3}
             ws == {w \in [1 .. 4 -> Bs] : \A k \in 1 .. 4 : (a % PageSize) + k <= PageSize => w[k] = MemByte(pgs, a + k - 1)}
  <2>1. Fetch(pgs, cbp, a) = ws
    BY <1>4 DEF Fetch, Gone
  <2>2. ASSUME NEW k \in 1 .. 4
        PROVE  (a % PageSize) + k <= PageSize /\ MemByte(pgs, a + k - 1) \in Bs
    <3>1. j + k <= PageSize
      BY <1>2, PageAssumption
    <3>2. k - 1 \in 0 .. 3 /\ a + k - 1 = a + (k - 1)
      OBVIOUS
    <3> QED
      BY <1>1, <3>1, <3>2
  <2> HIDE DEF Bs
  <2>3. WordIn(pgs, a) \in ws
    BY <2>2 DEF WordIn
  <2>4. ASSUME NEW w \in ws PROVE w = WordIn(pgs, a)
    BY <2>2 DEF WordIn
  <2> HIDE DEF ws
  <2> QED
    BY <2>1, <2>3, <2>4
<1> QED
  BY <1>3, <1>4

LEMMA HeadJoined ==
  ASSUME NEW w, NEW e \in Nat, NEW F, NEW r, r = [m \in 1 .. e |-> F[m]]
  PROVE  <<w>> \o r = [m \in 1 .. e + 1 |-> IF m = 1 THEN w ELSE r[m - 1]]
<1>1. PICK V : V = {w} \cup {F[m] : m \in 1 .. e}
  OBVIOUS
<1>2. r \in Seq(V) /\ Len(r) = e /\ <<w>> \in Seq(V) /\ Len(<<w>>) = 1 /\ <<w>>[1] = w
  BY <1>1
<1>3. PICK t : t = <<w>> \o r
  OBVIOUS
<1>4. t \in Seq(V) /\ Len(t) = e + 1
  BY <1>2, <1>3
<1>5. ASSUME NEW m \in 1 .. e + 1 PROVE t[m] = IF m = 1 THEN w ELSE r[m - 1]
  BY <1>2, <1>3
<1>6. t = [m \in 1 .. e + 1 |-> t[m]]
  BY <1>4
<1> QED
  BY <1>3, <1>5, <1>6

LEMMA JoinedOne ==
  ASSUME NEW w, NEW tail
  PROVE  Joined({w}, {tail}) = {<<w>> \o tail}
BY DEF Joined

LEMMA JoinedNone ==
  ASSUME NEW S
  PROVE  Joined({}, S) = {} /\ Joined(S, {}) = {}
BY DEF Joined

\* The definition of fetchMany(), from the k-th address on.
ManyFrom(pgs, cbp, as, g, k) ==
  IF k > Len(as) THEN {<<>>} ELSE Joined(Fetch(pgs, cbp, as[k]), g[k + 1])

LEMMA ManyUnfolds ==
  ASSUME NEW pgs, NEW cbp, NEW from, NEW to, NEW N \in Nat, Len(Addrs(from, to)) = N
  PROVE  \E g : /\ g = [k \in 1 .. N + 1 |-> ManyFrom(pgs, cbp, Addrs(from, to), g, k)]
                /\ FetchMany(pgs, cbp, from, to) = g[1]
<1>1. PICK as : as = Addrs(from, to)
  OBVIOUS
<1>2. Len(as) = N
  BY <1>1
<1> DEFINE Is(g, d) == g = [k \in (N + 1) - d .. N + 1 |-> ManyFrom(pgs, cbp, as, g, k)]
           S == {d \in Nat : d <= N => \E g : Is(g, d)}
<1>3. ASSUME NEW d \in Nat, \A e \in Nat : e < d => e \in S PROVE d \in S
  <2> SUFFICES ASSUME d <= N PROVE \E g : Is(g, d)
    OBVIOUS
  <2>1. PICK g : d # 0 => Is(g, d - 1)
    <3> HIDE DEF Is
    <3>1. d # 0 => d - 1 \in S /\ d - 1 <= N
      BY <1>3
    <3> QED
      BY <3>1
  <2>2. PICK k \in Nat : k = (N + 1) - d
    OBVIOUS
  <2>3. PICK x : x = ManyFrom(pgs, cbp, as, g, k)
    OBVIOUS
  <2>4. PICK h : h = [m \in k .. N + 1 |-> IF m = k THEN x ELSE g[m]]
    OBVIOUS
  <2>5. ASSUME NEW m \in k .. N + 1 PROVE h[m] = ManyFrom(pgs, cbp, as, h, m)
    <3>1. m <= N => m + 1 \in k + 1 .. N + 1
      BY <2>2
    <3>2. m <= N => g[m + 1] = h[m + 1]
      BY <2>2, <2>4, <3>1
    <3>3. ~(m > Len(as)) => m <= N
      BY <1>2, <2>2
    <3>4. ManyFrom(pgs, cbp, as, g, m) = ManyFrom(pgs, cbp, as, h, m)
      BY <3>2, <3>3 DEF ManyFrom
    <3>5. CASE m = k
      BY <2>3, <2>4, <3>4, <3>5
    <3>6. CASE m # k
      <4>1. d # 0 /\ m \in (N + 1) - (d - 1) .. N + 1
        BY <2>2, <3>6
      <4>2. g[m] = ManyFrom(pgs, cbp, as, g, m)
        BY <2>1, <4>1
      <4> QED
        BY <2>4, <3>4, <3>6, <4>2
    <3> QED
      BY <3>5, <3>6
  <2>6. Is(h, d)
    BY <2>2, <2>4, <2>5
  <2> HIDE DEF Is
  <2> QED
    BY <2>6
<1>4. \E g : Is(g, N)
  <2> HIDE DEF Is
  <2>1. Nat \subseteq S
    <3> HIDE DEF S
    <3> QED
      BY <1>3, ByInduction
  <2> QED
    BY <2>1
<1> DEFINE Rest == CHOOSE g : g = [k \in 1 .. Len(Addrs(from, to)) + 1 |-> ManyFrom(pgs, cbp, Addrs(from, to), g, k)]
<1>5. FetchMany(pgs, cbp, from, to) = Rest[1]
  BY DEF FetchMany, ManyFrom
<1>6. Rest = [k \in 1 .. N + 1 |-> ManyFrom(pgs, cbp, as, Rest, k)]
  <2>1. (N + 1) - N = 1
    OBVIOUS
  <2>2. PICK g : g = [k \in 1 .. N + 1 |-> ManyFrom(pgs, cbp, as, g, k)]
    BY <1>4, <2>1
  <2> QED
    BY <1>1, <1>2, <2>2
<1> HIDE DEF Rest
<1> QED
  BY <1>1, <1>5, <1>6

\* fetchMany() reads words that are in one page each,
LEMMA ManyServed ==
  ASSUME NEW pgs \in Seq(Pages), NEW cbp, NEW from, NEW to, NEW N \in Nat, Len(Addrs(from, to)) = N,
         \A k \in 1 .. N : LET a == Addrs(from, to)[k] IN a \in Nat /\ Whole(a) /\ ~Misaligned(cbp, a)
  PROVE  FetchMany(pgs, cbp, from, to) = {[k \in 1 .. N |-> WordIn(pgs, Addrs(from, to)[k])]}
<1>1. PICK as : as = Addrs(from, to)
  OBVIOUS
<1>2. Len(as) = N
  BY <1>1
<1>3. \A k \in 1 .. N : Fetch(pgs, cbp, as[k]) = {WordIn(pgs, as[k])}
  BY <1>1, WordServed
<1>4. PICK g : /\ g = [k \in 1 .. N + 1 |-> ManyFrom(pgs, cbp, as, g, k)]
               /\ FetchMany(pgs, cbp, from, to) = g[1]
  BY <1>1, ManyUnfolds
<1> DEFINE From(k, n) == [m \in 1 .. n |-> WordIn(pgs, as[k + m - 1])]
           S == {d \in Nat : d <= N => g[(N + 1) - d] = {From((N + 1) - d, d)}}
<1>5. ASSUME NEW d \in Nat, \A e \in Nat : e < d => e \in S PROVE d \in S
  <2> SUFFICES ASSUME d <= N PROVE g[(N + 1) - d] = {From((N + 1) - d, d)}
    OBVIOUS
  <2>1. PICK k \in 1 .. N + 1 : k = (N + 1) - d
    OBVIOUS
  <2>2. g[k] = ManyFrom(pgs, cbp, as, g, k)
    BY <1>4
  <2>3. CASE d = 0
    <3>1. g[k] = {<<>>}
      <4>1. k > Len(as)
        BY <1>2, <2>1, <2>3
      <4> QED
        BY <2>2, <4>1 DEF ManyFrom
    <3>2. From(k, d) = <<>>
      BY <2>3
    <3> QED
      BY <2>1, <3>1, <3>2
  <2>4. CASE d # 0
    <3>1. PICK e \in Nat : e = d - 1 /\ e < d /\ e <= N /\ (N + 1) - e = k + 1
      <4>1. d - 1 \in Nat /\ d - 1 < d /\ d - 1 <= N /\ (N + 1) - (d - 1) = k + 1
        BY <2>1, <2>4
      <4> QED
        BY <4>1
    <3>2. g[k + 1] = {From(k + 1, e)}
      <4>1. e \in S
        BY <1>5, <3>1
      <4> QED
        BY <3>1, <4>1
    <3>3. k \in 1 .. N /\ ~(k > Len(as))
      BY <1>2, <2>1, <2>4
    <3>4. g[k] = Joined({WordIn(pgs, as[k])}, {From(k + 1, e)})
      <4>1. g[k] = Joined(Fetch(pgs, cbp, as[k]), g[k + 1])
        BY <2>2, <3>3 DEF ManyFrom
      <4> QED
        BY <1>3, <3>2, <3>3, <4>1
    <3>5. g[k] = {<<WordIn(pgs, as[k])>> \o From(k + 1, e)}
      BY <3>4, JoinedOne
    <3>6. <<WordIn(pgs, as[k])>> \o From(k + 1, e) = From(k, d)
      <4>1. PICK w : w = WordIn(pgs, as[k])
        OBVIOUS
      <4>2. PICK r : r = From(k + 1, e)
        OBVIOUS
      <4>3. r = [m \in 1 .. e |-> WordIn(pgs, as[(k + 1) + m - 1])]
        BY <4>2
      <4>4. From(k, d) = [m \in 1 .. d |-> WordIn(pgs, as[k + m - 1])]
        OBVIOUS
      <4> HIDE DEF From
      <4>5. <<w>> \o r = [m \in 1 .. e + 1 |-> IF m = 1 THEN w ELSE r[m - 1]]
        <5>1. r = [m \in 1 .. e |-> r[m]]
          BY <4>3
        <5> QED
          BY <5>1, HeadJoined
      <4>6. ASSUME NEW m \in 1 .. d
            PROVE  (IF m = 1 THEN w ELSE r[m - 1]) = WordIn(pgs, as[k + m - 1])
        <5>1. CASE m = 1
          <6>1. k + m - 1 = k
            BY <5>1
          <6> QED
            BY <4>1, <5>1, <6>1
        <5>2. CASE m # 1
          <6>1. m - 1 \in 1 .. e /\ (k + 1) + (m - 1) - 1 = k + m - 1
            BY <3>1, <5>2
          <6> QED
            BY <4>3, <5>2, <6>1
        <5> QED
          BY <5>1, <5>2
      <4>7. e + 1 = d
        BY <3>1
      <4> QED
        BY <4>1, <4>2, <4>4, <4>5, <4>6, <4>7
    <3> QED
      BY <2>1, <3>5, <3>6
  <2> QED
    BY <2>3, <2>4
<1>6. g[1] = {From(1, N)}
  <2>1. Nat \subseteq S
    <3> HIDE DEF S
    <3> QED
      BY <1>5, ByInduction
  <2>2. (N + 1) - N = 1
    OBVIOUS
  <2> HIDE DEF From
  <2>3. N \in S
    BY <2>1
  <2> QED
    BY <2>2, <2>3
<1>7. From(1, N) = [k \in 1 .. N |-> WordIn(pgs, as[k])]
  <2>1. \A m \in 1 .. N : 1 + m - 1 = m
    OBVIOUS
  <2> QED
    BY <2>1
<1> QED
  BY <1>1, <1>4, <1>6, <1>7

\* and nothing when an address is misaligned.
LEMMA ManyRefused ==
  ASSUME NEW pgs, NEW cbp, NEW from, NEW to, NEW N \in Nat, Len(Addrs(from, to)) = N,
         NEW l \in 1 .. N, Misaligned(cbp, Addrs(from, to)[l])
  PROVE  FetchMany(pgs, cbp, from, to) = {}
<1>1. PICK as : as = Addrs(from, to)
  OBVIOUS
<1>2. Len(as) = N
  BY <1>1
<1>3. Fetch(pgs, cbp, as[l]) = {}
  BY <1>1 DEF Fetch
<1>4. PICK g : /\ g = [k \in 1 .. N + 1 |-> ManyFrom(pgs, cbp, as, g, k)]
               /\ FetchMany(pgs, cbp, from, to) = g[1]
  BY <1>1, ManyUnfolds
<1> DEFINE S == {d \in Nat : d < l => g[l - d] = {}}
<1>5. ASSUME NEW d \in Nat, \A e \in Nat : e < d => e \in S PROVE d \in S
  <2> SUFFICES ASSUME d < l PROVE g[l - d] = {}
    OBVIOUS
  <2>1. PICK k \in 1 .. N : k = l - d
    OBVIOUS
  <2>2. ~(k > Len(as)) /\ k \in 1 .. N + 1
    BY <1>2
  <2>3. g[k] = Joined(Fetch(pgs, cbp, as[k]), g[k + 1])
    BY <1>4, <2>2 DEF ManyFrom
  <2>4. CASE d = 0
    <3>1. k = l
      BY <2>1, <2>4
    <3> QED
      BY <1>3, <2>1, <2>3, <3>1, JoinedNone
  <2>5. CASE d # 0
    <3>1. PICK e \in Nat : e < d /\ e < l /\ l - e = k + 1
      <4>1. d - 1 \in Nat /\ d - 1 < d /\ d - 1 < l /\ l - (d - 1) = k + 1
        BY <2>1, <2>5
      <4> QED
        BY <4>1
    <3>2. g[k + 1] = {}
      <4>1. e \in S
        BY <1>5, <3>1
      <4> QED
        BY <3>1, <4>1
    <3> QED
      BY <2>1, <2>3, <3>2, JoinedNone
  <2> QED
    BY <2>4, <2>5
<1>6. Nat \subseteq S
  <2> HIDE DEF S
  <2> QED
    BY <1>5, ByInduction
<1>7. l - 1 \in Nat /\ l - 1 < l /\ l - (l - 1) = 1
  OBVIOUS
<1> QED
  BY <1>4, <1>6, <1>7

\* A region of n words, up and down.
LEMMA RegionAddrs ==
  ASSUME NEW a \in Nat, NEW n \in Nat
  PROVE  /\ Addrs(a, a + 4 * n) = [k \in 1 .. n |-> a + 4 * (k - 1)]
         /\ Addrs(a + 4 * n, a) = [k \in 1 .. n |-> a + 4 * (n - k + 1)]
<1>1. (((a + 4 * n) - a) + 3) \div 4 = n /\ a <= a + 4 * n
  OBVIOUS
<1>2. Addrs(a, a + 4 * n) = [k \in 1 .. n |-> a + 4 * (k - 1)]
  BY <1>1 DEF Addrs
<1>3. CASE n = 0
  <2>1. Addrs(a + 4 * n, a) = Addrs(a, a + 4 * n)
    BY <1>3
  <2> QED
    BY <1>2, <1>3, <2>1
<1>4. CASE n # 0
  <2>1. ~(a + 4 * n <= a)
    BY <1>4
  <2>2. Addrs(a + 4 * n, a) = [k \in 1 .. n |-> (a + 4 * n) + -1 * 4 * (k - 1)]
    BY <1>1, <2>1 DEF Addrs
  <2>3. \A k \in 1 .. n : (a + 4 * n) + -1 * 4 * (k - 1) = a + 4 * (n - k + 1)
    OBVIOUS
  <2> QED
    BY <1>2, <2>2, <2>3
<1> QED
  BY <1>3, <1>4

\* A string of which the length was stored before it is read back.
LEMMA StringServed ==
  ASSUME NEW pgs \in Seq(Pages), NEW cbp, NEW a \in Nat, NEW text \in Seq(0 .. 255), Len(text) >= 4,
         Number(text) = Len(text) - 4, Whole(a), ~Misaligned(cbp, a),
         \A k \in 1 .. Len(text) : text[k] = MemByte(pgs, a + k - 1),
         \A h \in 1 .. Len(text) - 1 : ~Hole(pgs, a, h)
  PROVE  FetchString(pgs, cbp, a) = {SubSeq(text, 5, Len(text))}
<1>1. Fetch(pgs, cbp, a) = {WordIn(pgs, a)}
  BY WordServed
<1>2. PICK N \in Nat : Len(text) = N + 4
  <2>1. Len(text) - 4 \in Nat /\ Len(text) = (Len(text) - 4) + 4
    OBVIOUS
  <2> QED
    BY <2>1
<1>3. Number(WordIn(pgs, a)) = N
  <2>1. \A k \in 1 .. 3 : WordIn(pgs, a)[k] = text[k]
    BY <1>2 DEF WordIn
  <2>2. Number(WordIn(pgs, a)) = Number(text)
    BY <2>1 DEF Number
  <2> QED
    BY <1>2, <2>2
<1>4. FetchString(pgs, cbp, a) = {FetchBytes(pgs, a + 4, Buffer(N))}
  BY <1>1, <1>3 DEF FetchString
<1>5. PICK got : got = FetchBytes(pgs, a + 4, Buffer(N))
  OBVIOUS
<1>6. Served(pgs, a + 4, N, 0, got)
  <2>1. a + 4 \in Nat
    OBVIOUS
  <2> QED
    BY <1>5, <2>1, BytesServed
<1>7. got \in Seq(0 .. 255) /\ Len(got) = N
  BY <1>6 DEF Served
<1>8. ASSUME NEW k \in 1 .. N PROVE got[k] = text[k + 4]
  <2>1. PICK h \in 0 .. N - 1 : h = k - 1 /\ h - 0 + 1 = k
    <3>1. k - 1 \in 0 .. N - 1 /\ (k - 1) - 0 + 1 = k
      OBVIOUS
    <3> QED
      BY <3>1
  <2>2. h + 4 \in 1 .. Len(text) - 1 /\ a + (h + 4) = (a + 4) + h
        /\ a + (h + 4) - 1 = (a + 4) + h - 1
    BY <1>2
  <2>3. ~Hole(pgs, a, h + 4)
    BY <2>2
  <2>4. ~Hole(pgs, a + 4, h)
    BY <2>2, <2>3 DEF Hole
  <2>5. got[k] = MemByte(pgs, (a + 4) + h)
    BY <1>6, <2>1, <2>4 DEF Served
  <2>6. k + 4 \in 1 .. Len(text) /\ a + (k + 4) - 1 = (a + 4) + h
    BY <1>2, <2>1
  <2>7. text[k + 4] = MemByte(pgs, a + (k + 4) - 1)
    BY <2>6
  <2> QED
    BY <2>5, <2>6, <2>7
<1>9. SubSeq(text, 5, Len(text)) = [k \in 1 .. N |-> text[k + 4]]
  <2>1. SubSeq(text, 5, Len(text)) = [k \in 1 .. (Len(text) - 5) + 1 |-> text[(5 + k) - 1]]
    OBVIOUS
  <2>2. (Len(text) - 5) + 1 = N /\ \A k \in 1 .. N : (5 + k) - 1 = k + 4
    BY <1>2
  <2> QED
    BY <2>1, <2>2
<1>10. got = [k \in 1 .. N |-> got[k]]
  BY <1>7
<1>11. got = SubSeq(text, 5, Len(text))
  BY <1>8, <1>9, <1>10
<1> QED
  BY <1>4, <1>5, <1>11

-----------------------------------------------------------------------------
\* The holes of a read are those of the property.
LEMMA HolesAre ==
  ASSUME pages \in Seq(Pages), NEW a \in Nat, NEW n \in Nat, NEW h \in 1 .. n - 1, h \notin Holes(a, n)
  PROVE  ~Hole(pages, a, h)
BY DEF Holes, Hole, Gone

\* fetchBytes() reads every byte that it does not skip.
LEMMA ReadsBytes ==
  ASSUME pages \in Seq(Pages), NEW a \in Nat, NEW n \in Nat
  PROVE  LET got == FetchBytes(pages, a, Buffer(n)) IN
         Len(got) = n /\ \A k \in 1 .. n : k - 1 \notin Holes(a, n) => got[k] = MemByte(pages, a + k - 1)
<1>1. PICK got : got = FetchBytes(pages, a, Buffer(n))
  OBVIOUS
<1>2. Served(pages, a, n, 0, got)
  BY <1>1, BytesServed
<1>3. Len(got) = n
  BY <1>2 DEF Served
<1>4. ASSUME NEW k \in 1 .. n, k - 1 \notin Holes(a, n) PROVE got[k] = MemByte(pages, a + k - 1)
  <2>1. PICK h \in 0 .. n - 1 : h = k - 1 /\ h - 0 + 1 = k /\ a + k - 1 = a + h
    <3>1. k - 1 \in 0 .. n - 1 /\ (k - 1) - 0 + 1 = k /\ a + k - 1 = a + (k - 1)
      OBVIOUS
    <3> QED
      BY <3>1
  <2>2. ~Hole(pages, a, h)
    <3>1. CASE h = 0
      BY <3>1 DEF Hole
    <3>2. CASE h # 0
      <4>1. h \in 1 .. n - 1
        BY <3>2
      <4> QED
        BY <1>4, <2>1, <4>1, HolesAre
    <3> QED
      BY <3>1, <3>2
  <2> QED
    BY <1>2, <2>1, <2>2 DEF Served
<1> QED
  BY <1>1, <1>3, <1>4

\* fetchMany() reads every region.
LEMMA ReadsWords ==
  ASSUME pages \in Seq(Pages), NEW a \in Nat, NEW n \in Nat
  PROVE  LET as == {a + 4 * k : k \in 0 .. n}  word(k) == ReadAt(a + 4 * (k - 1), 4) IN
         IF n > 0 /\ \E b \in as \ {a + 4 * n} : Misaligned(Cbp, b) THEN FetchMany(pages, Cbp, a, a + 4 * n) = {}
         ELSE (\A b \in as : Whole(b) /\ ~Misaligned(Cbp, b)) =>
                /\ FetchMany(pages, Cbp, a, a + 4 * n) = {[k \in 1 .. n |-> word(k)]}
                /\ FetchMany(pages, Cbp, a + 4 * n, a) = {[k \in 1 .. n |-> word(n - k + 2)]}
<1> DEFINE as == {a + 4 * k : k \in 0 .. n}
           word(k) == ReadAt(a + 4 * (k - 1), 4)
<1>1. PICK up : up = Addrs(a, a + 4 * n)
  OBVIOUS
<1>2. PICK down : down = Addrs(a + 4 * n, a)
  OBVIOUS
<1>3. up = [k \in 1 .. n |-> a + 4 * (k - 1)] /\ down = [k \in 1 .. n |-> a + 4 * (n - k + 1)]
  BY <1>1, <1>2, RegionAddrs
<1>4. Len(up) = n /\ Len(down) = n
  BY <1>3
<1>5. ASSUME n > 0, NEW b \in as \ {a + 4 * n}, Misaligned(Cbp, b)
      PROVE  FetchMany(pages, Cbp, a, a + 4 * n) = {}
  <2>1. PICK k \in 0 .. n : b = a + 4 * k
    BY <1>5
  <2>2. k # n
    BY <1>5, <2>1
  <2>3. k + 1 \in 1 .. n /\ up[k + 1] = b
    <3>1. k + 1 \in 1 .. n /\ (k + 1) - 1 = k
      BY <2>2
    <3> QED
      BY <1>3, <2>1, <3>1
  <2>4. Misaligned(Cbp, Addrs(a, a + 4 * n)[k + 1])
    BY <1>1, <1>5, <2>3
  <2>5. Len(Addrs(a, a + 4 * n)) = n
    BY <1>1, <1>4
  <2> QED
    BY <2>3, <2>4, <2>5, ManyRefused
<1>6. ASSUME \A b \in as : Whole(b) /\ ~Misaligned(Cbp, b)
      PROVE  /\ FetchMany(pages, Cbp, a, a + 4 * n) = {[k \in 1 .. n |-> word(k)]}
             /\ FetchMany(pages, Cbp, a + 4 * n, a) = {[k \in 1 .. n |-> word(n - k + 2)]}
  <2>0. pages \in Seq(Pages)
    OBVIOUS
  <2>1. ASSUME NEW x \in Nat PROVE ReadAt(x, 4) = WordIn(pages, x)
    BY DEF ReadAt, WordIn
  <2>2. ASSUME NEW k \in 0 .. n
        PROVE  a + 4 * k \in Nat /\ Whole(a + 4 * k) /\ ~Misaligned(Cbp, a + 4 * k)
    <3>1. a + 4 * k \in as
      OBVIOUS
    <3> QED
      BY <1>6, <3>1
  <2>3. ASSUME NEW k \in 1 .. n
        PROVE  /\ up[k] \in Nat /\ Whole(up[k]) /\ ~Misaligned(Cbp, up[k])
               /\ WordIn(pages, up[k]) = word(k)
    <3>1. PICK l \in 0 .. n : l = k - 1
      OBVIOUS
    <3>2. up[k] = a + 4 * l /\ a + 4 * (k - 1) = a + 4 * l
      BY <1>3, <3>1
    <3> QED
      BY <2>1, <2>2, <3>2
  <2>4. ASSUME NEW k \in 1 .. n
        PROVE  /\ down[k] \in Nat /\ Whole(down[k]) /\ ~Misaligned(Cbp, down[k])
               /\ WordIn(pages, down[k]) = word(n - k + 2)
    <3>1. PICK l \in 0 .. n : l = n - k + 1
      OBVIOUS
    <3>2. down[k] = a + 4 * l /\ a + 4 * ((n - k + 2) - 1) = a + 4 * l
      BY <1>3, <3>1
    <3> QED
      BY <2>1, <2>2, <3>2
  <2>5. FetchMany(pages, Cbp, a, a + 4 * n) = {[k \in 1 .. n |-> WordIn(pages, up[k])]}
    <3>1. PICK from, to : from = a /\ to = a + 4 * n /\ up = Addrs(from, to)
      BY <1>1
    <3>2. Len(Addrs(from, to)) = n
      BY <1>4, <3>1
    <3>3. \A k \in 1 .. n : LET b == Addrs(from, to)[k] IN b \in Nat /\ Whole(b) /\ ~Misaligned(Cbp, b)
      BY <2>3, <3>1
    <3>4. FetchMany(pages, Cbp, from, to) = {[k \in 1 .. n |-> WordIn(pages, Addrs(from, to)[k])]}
      BY <2>0, <3>2, <3>3, ManyServed
    <3> QED
      BY <3>1, <3>4
  <2>6. FetchMany(pages, Cbp, a + 4 * n, a) = {[k \in 1 .. n |-> WordIn(pages, down[k])]}
    <3>1. PICK from, to : from = a + 4 * n /\ to = a /\ down = Addrs(from, to)
      BY <1>2
    <3>2. Len(Addrs(from, to)) = n
      BY <1>4, <3>1
    <3>3. \A k \in 1 .. n : LET b == Addrs(from, to)[k] IN b \in Nat /\ Whole(b) /\ ~Misaligned(Cbp, b)
      BY <2>4, <3>1
    <3>4. FetchMany(pages, Cbp, from, to) = {[k \in 1 .. n |-> WordIn(pages, Addrs(from, to)[k])]}
      BY <2>0, <3>2, <3>3, ManyServed
    <3> QED
      BY <3>1, <3>4
  <2>7. [k \in 1 .. n |-> WordIn(pages, up[k])] = [k \in 1 .. n |-> word(k)]
    <3> HIDE DEF word
    <3> QED
      BY <2>3
  <2>8. [k \in 1 .. n |-> WordIn(pages, down[k])] = [k \in 1 .. n |-> word(n - k + 2)]
    <3> HIDE DEF word
    <3> QED
      BY <2>4
  <2> QED
    BY <2>5, <2>6, <2>7, <2>8
<1> QED
  BY <1>5, <1>6

\* fetchString() reads back a string of which the length was stored before it.
LEMMA ReadsString ==
  ASSUME pages \in Seq(Pages), NEW a \in Nat, NEW text \in Seq(0 .. 255), Len(text) >= 4,
         Number(text) = Len(text) - 4,
         Holds(a, text), Whole(a), ~Misaligned(Cbp, a), Holes(a, Len(text)) = {}
  PROVE  FetchString(pages, Cbp, a) = {SubSeq(text, 5, Len(text))}
<1>1. \A k \in 1 .. Len(text) : text[k] = MemByte(pages, a + k - 1)
  <2>1. text = [k \in 1 .. Len(text) |-> MemByte(pages, a + k - 1)]
    BY DEF Holds, ReadAt
  <2> QED
    BY <2>1
<1>2. \A h \in 1 .. Len(text) - 1 : ~Hole(pages, a, h)
  BY HolesAre
<1> QED
  BY <1>1, <1>2, StringServed

\* Whatever was stored, in pages of any size, fetchBytes(), fetchMany() and fetchString() read what
\* the flat memory has, where the code finds it.
THEOREM ReadsAreServed == MemSpec => []ReadsServed
<1>1. MemTypeOK => ReadsServed
  <2> SUFFICES ASSUME MemTypeOK PROVE ReadsServed
    OBVIOUS
  <2>1. pages \in Seq(Pages)
    BY DEF MemTypeOK
  <2>2. Seen \subseteq Nat /\ Lengths \subseteq Nat
    BY DEF Seen, Lengths
  <2>3. BytesRead
    BY <2>1, <2>2, ReadsBytes DEF BytesRead
  <2>4. WordsRead
    <3>1. \A n \in 0 .. 2 : n \in Nat
      OBVIOUS
    <3> QED
      BY <2>1, <2>2, <3>1, ReadsWords DEF WordsRead
  <2>5. StringsRead
    <3>1. ASSUME NEW text \in Strings
          PROVE  text \in Seq(0 .. 255) /\ Len(text) >= 4 /\ Number(text) = Len(text) - 4
      <4>1. CASE text = <<0, 0, 0, 0>>
        BY <4>1 DEF Number
      <4>2. CASE text = <<2, 0, 0, 0, 1, 2>>
        BY <4>2 DEF Number
      <4> QED
        BY <4>1, <4>2 DEF Strings
    <3> QED
      BY <2>1, <2>2, <3>1, ReadsString DEF StringsRead
  <2> QED
    BY <2>3, <2>4, <2>5 DEF ReadsServed
<1> QED
  BY <1>1, MemTypeCorrect, PTL

-----------------------------------------------------------------------------
(* Builder *)

Marks == {"spanOpen", "spanClose"}

BuilderType ==
  mb \in [base : Nat, cbp : Nat, csp : Nat, ip : Nat, limit : Nat, queueSize : Nat, maxCopies : Nat,
          queue : Nat, copies : Nat, inputs : Seq(Regions), outputs : Seq(Regions), nextIn : Nat,
          labels : UNION {[S -> Seq(Labels)] : S \in SUBSET Entries},
          annos : UNION {[S -> SUBSET Marks] : S \in SUBSET Entries}, pages : Seq(Pages)]

Arg(opt) ==
  CASE opt \in {"version", "stackSize", "queueSize", "maxOps", "maxCopies"} -> Nat
    [] opt \in {"entry", "spanOpen", "spanClose"} -> Entries
    [] opt \in {"input", "output"} -> Regions
    [] opt = "addrLabels" -> Labelled

BTypeOK ==
  /\ use \in Uses
  /\ BuilderType
  /\ DOMAIN given = Opts /\ \A opt \in Opts : given[opt] \in Seq(Arg(opt))
  /\ prog \in Seq(0 .. 255)
  /\ calls \in Seq([name : {<<>>} \cup Names, vals : Vals])
  /\ ran \in [err : {"nil", "halt0", "halt1", "error"}, cs : {<<>>} \cup Results]
  /\ pc \in {"opts", "calls", "ran", "failed"}

-----------------------------------------------------------------------------
LEMMA WithType ==
  ASSUME NEW D, NEW V, NEW f \in UNION {[S -> V] : S \in SUBSET D}, NEW a \in D, NEW v \in V
  PROVE  With(f, a, v) \in UNION {[S -> V] : S \in SUBSET D}
<1>1. PICK S \in SUBSET D : f \in [S -> V]
  OBVIOUS
<1>2. With(f, a, v) \in [S \cup {a} -> V]
  BY <1>1 DEF With
<1>3. S \cup {a} \in SUBSET D
  BY <1>1
<1> QED
  BY <1>2, <1>3

LEMMA AtType ==
  ASSUME NEW D, NEW V, NEW f \in UNION {[S -> V] : S \in SUBSET D}, NEW a, NEW v \in V
  PROVE  At(f, a, v) \in V
BY DEF At

LEMMA AtWith ==
  ASSUME NEW f, NEW a, NEW v, NEW b, NEW default
  PROVE  At(With(f, a, v), b, default) = IF a = b THEN v ELSE At(f, b, default)
BY DEF At, With

-----------------------------------------------------------------------------
(* Labels *)

\* A function that is defined by its value at the number before.
Follows(g, n, V, base, step) ==
  g \in [0 .. n -> V] /\ g[0] = base /\ \A k \in 1 .. n : g[k] = step[<<g[k - 1], k>>]

LEMMA Recursion ==
  ASSUME NEW n \in Nat, NEW V, NEW base \in V, NEW step, step \in [V \X (1 .. n) -> V]
  PROVE  \E g : Follows(g, n, V, base, step)
<1> DEFINE Is(g, d) == g \in [0 .. d -> V] /\ g[0] = base /\ \A k \in 1 .. d : g[k] = step[<<g[k - 1], k>>]
           S == {d \in Nat : d <= n => \E g : Is(g, d)}
<1>1. ASSUME NEW d \in Nat, \A e \in Nat : e < d => e \in S PROVE d \in S
  <2> SUFFICES ASSUME d <= n PROVE \E g : Is(g, d)
    OBVIOUS
  <2>1. CASE d = 0
    <3>1. PICK g : g = [k \in 0 .. 0 |-> base]
      OBVIOUS
    <3>2. g \in [0 .. 0 -> V] /\ g[0] = base
      BY <3>1
    <3>3. Is(g, 0)
      BY <3>2
    <3> QED
      BY <2>1, <3>3
  <2>2. CASE d # 0
    <3>1. d - 1 \in Nat /\ d - 1 < d /\ d - 1 <= n /\ d \in 1 .. n
      BY <2>2
    <3>2. PICK g : Is(g, d - 1)
      <4> HIDE DEF Is
      <4> QED
        BY <1>1, <3>1
    <3>3. g[d - 1] \in V
      BY <3>1, <3>2
    <3>4. PICK h : h = [k \in 0 .. d |-> IF k = d THEN step[<<g[d - 1], d>>] ELSE g[k]]
      OBVIOUS
    <3>5. step[<<g[d - 1], d>>] \in V
      BY <3>1, <3>3
    <3>6. h \in [0 .. d -> V]
      <4>1. ASSUME NEW k \in 0 .. d PROVE (IF k = d THEN step[<<g[d - 1], d>>] ELSE g[k]) \in V
        BY <3>2, <3>5
      <4> QED
        BY <3>4, <4>1
    <3>7. h[0] = base
      BY <2>2, <3>2, <3>4
    <3>8. ASSUME NEW k \in 1 .. d PROVE h[k] = step[<<h[k - 1], k>>]
      <4>1. k - 1 \in 0 .. d /\ k - 1 # d /\ h[k - 1] = g[k - 1]
        BY <3>4
      <4>2. CASE k = d
        BY <3>4, <4>1, <4>2
      <4>3. CASE k # d
        <5>1. k \in 1 .. d - 1 /\ h[k] = g[k]
          BY <3>4, <4>3
        <5> QED
          BY <3>2, <4>1, <5>1
      <4> QED
        BY <4>2, <4>3
    <3>9. Is(h, d)
      BY <3>6, <3>7, <3>8
    <3> QED
      BY <3>9
  <2> HIDE DEF Is
  <2> QED
    BY <2>1, <2>2
<1>2. Nat \subseteq S
  <2> HIDE DEF S
  <2> QED
    BY <1>1, ByInduction
<1>3. n \in S
  BY <1>2
<1> QED
  BY <1>3 DEF Follows

LabelMaps == UNION {[S -> Seq(Labels)] : S \in SUBSET Entries}

LEMMA AddLabelType ==
  ASSUME NEW m \in LabelMaps, NEW pair \in Entries \X Labels
  PROVE  AddLabel(m, pair) \in LabelMaps
<1>1. At(m, pair[1], <<>>) \in Seq(Labels)
  <2>1. <<>> \in Seq(Labels) /\ m \in UNION {[S -> Seq(Labels)] : S \in SUBSET Entries}
    BY DEF LabelMaps
  <2> QED
    BY Zenon, <2>1, AtType
<1>2. Append(At(m, pair[1], <<>>), pair[2]) \in Seq(Labels)
  BY <1>1
<1> QED
  BY <1>2, WithType DEF AddLabel, LabelMaps

\* The labels of an option are added one by one.
LEMMA AddUnfolds ==
  ASSUME NEW m \in LabelMaps, NEW pairs \in Seq(Entries \X Labels)
  PROVE  \E f : /\ f \in [0 .. Len(pairs) -> LabelMaps] /\ f[0] = m
                /\ \A k \in 1 .. Len(pairs) : f[k] = AddLabel(f[k - 1], pairs[k])
                /\ AddLabels(m, pairs) = f[Len(pairs)]
<1> DEFINE N == Len(pairs)
           step == [x \in LabelMaps \X (1 .. N) |-> AddLabel(x[1], pairs[x[2]])]
           Eq(f) == f = [k \in 0 .. N |-> IF k = 0 THEN m ELSE AddLabel(f[k - 1], pairs[k])]
           after == CHOOSE f : Eq(f)
<1>1. N \in Nat /\ \A k \in 1 .. N : pairs[k] \in Entries \X Labels
  OBVIOUS
<1>2. step \in [LabelMaps \X (1 .. N) -> LabelMaps]
  BY <1>1, AddLabelType
<1> HIDE DEF N
<1>3. PICK g \in [0 .. N -> LabelMaps] : g[0] = m /\ \A k \in 1 .. N : g[k] = step[<<g[k - 1], k>>]
  <2> HIDE DEF step
  <2>1. N \in Nat
    BY <1>1
  <2>2. \E g : Follows(g, N, LabelMaps, m, step)
    BY Zenon, <2>1, <1>2, Recursion
  <2> QED
    BY <2>2 DEF Follows
<1>4. ASSUME NEW k \in 1 .. N PROVE g[k] = AddLabel(g[k - 1], pairs[k])
  <2>1. k - 1 \in 0 .. N
    BY <1>1
  <2>2. <<g[k - 1], k>> \in LabelMaps \X (1 .. N)
    BY <2>1
  <2> QED
    BY <1>3, <2>2
<1>5. Eq(g)
  <2>1. \A k \in 0 .. N : g[k] = IF k = 0 THEN m ELSE AddLabel(g[k - 1], pairs[k])
    BY <1>1, <1>3, <1>4
  <2> QED
    BY <1>3, <2>1
<1>6. Eq(after)
  <2> HIDE DEF Eq
  <2> QED
    BY <1>5
<1>7. AddLabels(m, pairs) = after[N]
  BY DEF AddLabels, N
<1> HIDE DEF after
<1>8. after[0] = m /\ \A k \in 1 .. N : after[k] = AddLabel(after[k - 1], pairs[k])
  BY <1>1, <1>6
<1>9. \A k \in 0 .. N : after[k] \in LabelMaps
  <2> DEFINE S == {k \in Nat : k <= N => after[k] \in LabelMaps}
  <2>1. ASSUME NEW k \in Nat, \A e \in Nat : e < k => e \in S PROVE k \in S
    <3> SUFFICES ASSUME k <= N PROVE after[k] \in LabelMaps
      OBVIOUS
    <3>1. CASE k = 0
      BY <1>8, <3>1
    <3>2. CASE k # 0
      <4>1. k - 1 \in Nat /\ k - 1 < k /\ k - 1 <= N /\ k \in 1 .. N
        BY <3>2, <1>1
      <4>2. after[k - 1] \in LabelMaps
        BY <2>1, <4>1
      <4> QED
        BY <4>1, <4>2, <1>1, <1>8, AddLabelType
    <3> QED
      BY <3>1, <3>2
  <2>2. Nat \subseteq S
    <3> HIDE DEF S
    <3> QED
      BY <2>1, ByInduction
  <2> QED
    BY <1>1, <2>2
<1>10. after \in [0 .. N -> LabelMaps]
  BY <1>6, <1>9
<1> QED
  BY <1>7, <1>8, <1>10 DEF N

\* The labels of one address, among those of an option.
LEMMA LabelsUnfold ==
  ASSUME NEW pairs \in Seq(Entries \X Labels), NEW a
  PROVE  \E f : /\ f \in [0 .. Len(pairs) -> Seq(Labels)] /\ f[0] = <<>>
                /\ \A k \in 1 .. Len(pairs) :
                     f[k] = IF pairs[k][1] = a THEN Append(f[k - 1], pairs[k][2]) ELSE f[k - 1]
                /\ LabelsOf(pairs, a) = f[Len(pairs)]
<1> DEFINE N == Len(pairs)
           next(v, k) == IF pairs[k][1] = a THEN Append(v, pairs[k][2]) ELSE v
           step == [x \in Seq(Labels) \X (1 .. N) |-> next(x[1], x[2])]
           Eq(f) == f = [k \in 0 .. N |-> IF k = 0 THEN <<>> ELSE next(f[k - 1], k)]
           upTo == CHOOSE f : Eq(f)
<1>1. N \in Nat /\ \A k \in 1 .. N : pairs[k] \in Entries \X Labels
  OBVIOUS
<1>0. ASSUME NEW v \in Seq(Labels), NEW k \in 1 .. N PROVE next(v, k) \in Seq(Labels)
  BY <1>1
<1>2. step \in [Seq(Labels) \X (1 .. N) -> Seq(Labels)]
  <2> HIDE DEF next
  <2>1. ASSUME NEW x \in Seq(Labels) \X (1 .. N) PROVE next(x[1], x[2]) \in Seq(Labels)
    <3>1. x[1] \in Seq(Labels) /\ x[2] \in 1 .. N
      OBVIOUS
    <3> QED
      BY <1>0, <3>1
  <2> QED
    BY <2>1
<1>7. LabelsOf(pairs, a) = upTo[N]
  BY DEF LabelsOf
<1> HIDE DEF N
<1>3. PICK g \in [0 .. N -> Seq(Labels)] : g[0] = <<>> /\ \A k \in 1 .. N : g[k] = step[<<g[k - 1], k>>]
  <2> HIDE DEF step
  <2>1. <<>> \in Seq(Labels) /\ N \in Nat
    BY <1>1
  <2>2. \E g : Follows(g, N, Seq(Labels), <<>>, step)
    BY Zenon, <2>1, <1>2, Recursion
  <2> QED
    BY <2>2 DEF Follows
<1>4. ASSUME NEW k \in 1 .. N PROVE g[k] = next(g[k - 1], k)
  <2>1. k - 1 \in 0 .. N
    BY <1>1
  <2>2. <<g[k - 1], k>> \in Seq(Labels) \X (1 .. N)
    BY <2>1
  <2> HIDE DEF next
  <2> QED
    BY <1>3, <2>2
<1>5. Eq(g)
  <2> HIDE DEF next
  <2>1. \A k \in 0 .. N : g[k] = IF k = 0 THEN <<>> ELSE next(g[k - 1], k)
    BY <1>1, <1>3, <1>4
  <2> QED
    BY <1>3, <2>1
<1>6. Eq(upTo)
  <2> HIDE DEF Eq
  <2> QED
    BY <1>5
<1> HIDE DEF upTo
<1>8. upTo[0] = <<>> /\ \A k \in 1 .. N : upTo[k] = next(upTo[k - 1], k)
  <2> HIDE DEF next
  <2> QED
    BY <1>1, <1>6
<1>9. \A k \in 0 .. N : upTo[k] \in Seq(Labels)
  <2> HIDE DEF next
  <2> DEFINE S == {k \in Nat : k <= N => upTo[k] \in Seq(Labels)}
  <2>1. ASSUME NEW k \in Nat, \A e \in Nat : e < k => e \in S PROVE k \in S
    <3> SUFFICES ASSUME k <= N PROVE upTo[k] \in Seq(Labels)
      OBVIOUS
    <3>1. CASE k = 0
      <4>1. <<>> \in Seq(Labels)
        OBVIOUS
      <4> QED
        BY <1>8, <3>1, <4>1
    <3>2. CASE k # 0
      <4>1. k - 1 \in Nat /\ k - 1 < k /\ k - 1 <= N /\ k \in 1 .. N
        BY <3>2, <1>1
      <4>2. upTo[k - 1] \in Seq(Labels)
        BY <2>1, <4>1
      <4> QED
        BY <4>1, <4>2, <1>0, <1>8
    <3> QED
      BY <3>1, <3>2
  <2>2. Nat \subseteq S
    <3> HIDE DEF S
    <3> QED
      BY <2>1, ByInduction
  <2> QED
    BY <1>1, <2>2
<1>10. upTo \in [0 .. N -> Seq(Labels)]
  <2> HIDE DEF next
  <2> QED
    BY <1>6, <1>9
<1> QED
  BY <1>7, <1>8, <1>10 DEF N

LEMMA LabelsOfType ==
  ASSUME NEW pairs \in Seq(Entries \X Labels), NEW a
  PROVE  LabelsOf(pairs, a) \in Seq(Labels)
<1>1. PICK f : f \in [0 .. Len(pairs) -> Seq(Labels)] /\ LabelsOf(pairs, a) = f[Len(pairs)]
  BY LabelsUnfold
<1> QED
  BY <1>1

\* The labels of one address, among those of all options.
LEMMA AllUnfolds ==
  ASSUME NEW opts \in Seq(Labelled), NEW a
  PROVE  \E f : /\ f \in [0 .. Len(opts) -> Seq(Labels)] /\ f[0] = <<>>
                /\ \A k \in 1 .. Len(opts) : f[k] = f[k - 1] \o LabelsOf(opts[k], a)
                /\ AllLabelsOf(opts, a) = f[Len(opts)]
<1> DEFINE N == Len(opts)
           next(v, k) == v \o LabelsOf(opts[k], a)
           step == [x \in Seq(Labels) \X (1 .. N) |-> next(x[1], x[2])]
           Eq(f) == f = [k \in 0 .. N |-> IF k = 0 THEN <<>> ELSE next(f[k - 1], k)]
           upTo == CHOOSE f : Eq(f)
<1>1. N \in Nat /\ \A k \in 1 .. N : opts[k] \in Seq(Entries \X Labels)
  BY OptionsAssumption
<1>0. ASSUME NEW v \in Seq(Labels), NEW k \in 1 .. N PROVE next(v, k) \in Seq(Labels)
  <2>1. opts[k] \in Seq(Entries \X Labels)
    BY <1>1
  <2>2. LabelsOf(opts[k], a) \in Seq(Labels)
    BY Zenon, <2>1, LabelsOfType
  <2> QED
    BY <2>2
<1>2. step \in [Seq(Labels) \X (1 .. N) -> Seq(Labels)]
  <2> HIDE DEF next
  <2>1. ASSUME NEW x \in Seq(Labels) \X (1 .. N) PROVE next(x[1], x[2]) \in Seq(Labels)
    <3>1. x[1] \in Seq(Labels) /\ x[2] \in 1 .. N
      OBVIOUS
    <3> QED
      BY <1>0, <3>1
  <2> QED
    BY <2>1
<1>7. AllLabelsOf(opts, a) = upTo[N]
  BY DEF AllLabelsOf
<1> HIDE DEF N
<1>3. PICK g \in [0 .. N -> Seq(Labels)] : g[0] = <<>> /\ \A k \in 1 .. N : g[k] = step[<<g[k - 1], k>>]
  <2> HIDE DEF step
  <2>1. <<>> \in Seq(Labels) /\ N \in Nat
    BY <1>1
  <2>2. \E g : Follows(g, N, Seq(Labels), <<>>, step)
    BY Zenon, <2>1, <1>2, Recursion
  <2> QED
    BY <2>2 DEF Follows
<1>4. ASSUME NEW k \in 1 .. N PROVE g[k] = next(g[k - 1], k)
  <2>1. k - 1 \in 0 .. N
    BY <1>1
  <2>2. <<g[k - 1], k>> \in Seq(Labels) \X (1 .. N)
    BY <2>1
  <2> HIDE DEF next
  <2> QED
    BY <1>3, <2>2
<1>5. Eq(g)
  <2> HIDE DEF next
  <2>1. \A k \in 0 .. N : g[k] = IF k = 0 THEN <<>> ELSE next(g[k - 1], k)
    BY <1>1, <1>3, <1>4
  <2> QED
    BY <1>3, <2>1
<1>6. Eq(upTo)
  <2> HIDE DEF Eq
  <2> QED
    BY <1>5
<1> HIDE DEF upTo
<1>8. upTo[0] = <<>> /\ \A k \in 1 .. N : upTo[k] = next(upTo[k - 1], k)
  <2> HIDE DEF next
  <2> QED
    BY <1>1, <1>6
<1>9. \A k \in 0 .. N : upTo[k] \in Seq(Labels)
  <2> HIDE DEF next
  <2> DEFINE S == {k \in Nat : k <= N => upTo[k] \in Seq(Labels)}
  <2>1. ASSUME NEW k \in Nat, \A e \in Nat : e < k => e \in S PROVE k \in S
    <3> SUFFICES ASSUME k <= N PROVE upTo[k] \in Seq(Labels)
      OBVIOUS
    <3>1. CASE k = 0
      <4>1. <<>> \in Seq(Labels)
        OBVIOUS
      <4> QED
        BY <1>8, <3>1, <4>1
    <3>2. CASE k # 0
      <4>1. k - 1 \in Nat /\ k - 1 < k /\ k - 1 <= N /\ k \in 1 .. N
        BY <3>2, <1>1
      <4>2. upTo[k - 1] \in Seq(Labels)
        BY <2>1, <4>1
      <4> QED
        BY <4>1, <4>2, <1>0, <1>8
    <3> QED
      BY <3>1, <3>2
  <2>2. Nat \subseteq S
    <3> HIDE DEF S
    <3> QED
      BY <2>1, ByInduction
  <2> QED
    BY <1>1, <2>2
<1>10. upTo \in [0 .. N -> Seq(Labels)]
  <2> HIDE DEF next
  <2> QED
    BY <1>6, <1>9
<1> QED
  BY <1>7, <1>8, <1>10 DEF N

\* What is appended behind two sequences is appended to the second.
AppendsBehind(s, t, x) == Append(s \o t, x) = s \o Append(t, x)

LEMMA AppendBehind ==
  ASSUME NEW T, NEW s \in Seq(T), NEW t \in Seq(T), NEW x \in T
  PROVE  AppendsBehind(s, t, x)
<1>1. Append(s \o t, x) = s \o Append(t, x)
  OBVIOUS
<1> QED
  BY <1>1 DEF AppendsBehind

\* An option's labels come behind those that an address has, in order.
LEMMA LabelsAdded ==
  ASSUME NEW m \in LabelMaps, NEW pairs \in Seq(Entries \X Labels), NEW a \in Entries
  PROVE  At(AddLabels(m, pairs), a, <<>>) = At(m, a, <<>>) \o LabelsOf(pairs, a)
<1>1. PICK N \in Nat : N = Len(pairs)
  OBVIOUS
<1>2. PICK f : /\ f \in [0 .. N -> LabelMaps] /\ f[0] = m
               /\ \A k \in 1 .. N : f[k] = AddLabel(f[k - 1], pairs[k])
               /\ AddLabels(m, pairs) = f[N]
  BY <1>1, AddUnfolds
<1>0. PICK u : /\ u \in [0 .. Len(pairs) -> Seq(Labels)] /\ u[0] = <<>>
               /\ \A k \in 1 .. Len(pairs) :
                    u[k] = IF pairs[k][1] = a THEN Append(u[k - 1], pairs[k][2]) ELSE u[k - 1]
               /\ LabelsOf(pairs, a) = u[Len(pairs)]
  BY LabelsUnfold
<1>3. /\ u \in [0 .. N -> Seq(Labels)] /\ u[0] = <<>>
      /\ \A k \in 1 .. N : u[k] = IF pairs[k][1] = a THEN Append(u[k - 1], pairs[k][2]) ELSE u[k - 1]
      /\ LabelsOf(pairs, a) = u[N]
  BY Zenon, <1>0, <1>1
<1>4. PICK first \in Seq(Labels) : first = At(m, a, <<>>)
  <2>1. <<>> \in Seq(Labels) /\ m \in UNION {[S -> Seq(Labels)] : S \in SUBSET Entries}
    BY DEF LabelMaps
  <2>2. At(m, a, <<>>) \in Seq(Labels)
    BY Zenon, <2>1, AtType
  <2> QED
    BY <2>2
<1> DEFINE S == {k \in Nat : k <= N => At(f[k], a, <<>>) = first \o u[k]}
<1>5. ASSUME NEW k \in Nat, \A e \in Nat : e < k => e \in S PROVE k \in S
  <2> SUFFICES ASSUME k <= N PROVE At(f[k], a, <<>>) = first \o u[k]
    OBVIOUS
  <2>1. CASE k = 0
    BY <2>1, <1>2, <1>3, <1>4
  <2>2. CASE k # 0
    <3>1. k - 1 \in Nat /\ k - 1 < k /\ k - 1 <= N /\ k \in 1 .. N /\ k - 1 \in 0 .. N
      BY <2>2
    <3>2. At(f[k - 1], a, <<>>) = first \o u[k - 1]
      BY <1>5, <3>1
    <3>3. pairs[k] \in Entries \X Labels /\ pairs[k][2] \in Labels
      BY <1>1, <3>1
    <3>4. f[k] = With(f[k - 1], pairs[k][1], Append(At(f[k - 1], pairs[k][1], <<>>), pairs[k][2]))
      BY <1>2, <3>1 DEF AddLabel
    <3>5. At(f[k], a, <<>>) =
            IF pairs[k][1] = a THEN Append(At(f[k - 1], pairs[k][1], <<>>), pairs[k][2]) ELSE At(f[k - 1], a, <<>>)
      BY <3>4, AtWith
    <3>6. u[k - 1] \in Seq(Labels)
      BY <1>3, <3>1
    <3>7. CASE pairs[k][1] = a
      <4>1. At(f[k], a, <<>>) = Append(first \o u[k - 1], pairs[k][2])
        BY <3>2, <3>5, <3>7
      <4>2. u[k] = Append(u[k - 1], pairs[k][2])
        BY <1>3, <3>1, <3>7
      <4> QED
        <5>1. pairs[k][2] \in Labels
          BY <3>3
        <5>2. Append(first \o u[k - 1], pairs[k][2]) = first \o Append(u[k - 1], pairs[k][2])
          <6>1. PICK t \in Seq(Labels), x \in Labels : t = u[k - 1] /\ x = pairs[k][2]
            BY <5>1, <3>6
          <6>2. AppendsBehind(first, t, x)
            BY Zenon, AppendBehind
          <6> QED
            BY <6>1, <6>2 DEF AppendsBehind
        <5> QED
          BY <4>1, <4>2, <5>2
    <3>8. CASE pairs[k][1] # a
      BY <3>2, <3>5, <3>8, <1>3, <3>1
    <3> QED
      BY <3>7, <3>8
  <2> QED
    BY <2>1, <2>2
<1>6. Nat \subseteq S
  <2> HIDE DEF S
  <2> QED
    BY <1>5, ByInduction
<1>7. N \in S
  BY <1>6
<1> QED
  BY <1>2, <1>3, <1>4, <1>7

LEMMA AllGrows ==
  ASSUME NEW opts \in Seq(Labelled), NEW pairs \in Labelled, NEW a
  PROVE  AllLabelsOf(Append(opts, pairs), a) = AllLabelsOf(opts, a) \o LabelsOf(pairs, a)
<1>1. PICK more \in Seq(Labelled) : more = Append(opts, pairs)
  <2>1. Append(opts, pairs) \in Seq(Labelled)
    OBVIOUS
  <2> QED
    BY <2>1
<1>2. PICK N \in Nat : N = Len(opts) /\ Len(more) = N + 1
  BY <1>1
<1>10. PICK f : /\ f \in [0 .. Len(opts) -> Seq(Labels)] /\ f[0] = <<>>
                /\ \A k \in 1 .. Len(opts) : f[k] = f[k - 1] \o LabelsOf(opts[k], a)
                /\ AllLabelsOf(opts, a) = f[Len(opts)]
  BY AllUnfolds
<1>3. /\ f[0] = <<>>
      /\ \A k \in 1 .. N : f[k] = f[k - 1] \o LabelsOf(opts[k], a)
      /\ AllLabelsOf(opts, a) = f[N]
  BY Zenon, <1>2, <1>10
<1>11. PICK g : /\ g \in [0 .. Len(more) -> Seq(Labels)] /\ g[0] = <<>>
                /\ \A k \in 1 .. Len(more) : g[k] = g[k - 1] \o LabelsOf(more[k], a)
                /\ AllLabelsOf(more, a) = g[Len(more)]
  BY AllUnfolds
<1>4. /\ g[0] = <<>>
      /\ \A k \in 1 .. N + 1 : g[k] = g[k - 1] \o LabelsOf(more[k], a)
      /\ AllLabelsOf(more, a) = g[N + 1]
  BY Zenon, <1>2, <1>11
<1> DEFINE S == {k \in Nat : k <= N => f[k] = g[k]}
<1>5. ASSUME NEW k \in Nat, \A e \in Nat : e < k => e \in S PROVE k \in S
  <2> SUFFICES ASSUME k <= N PROVE f[k] = g[k]
    OBVIOUS
  <2>1. CASE k = 0
    BY <2>1, <1>3, <1>4
  <2>2. CASE k # 0
    <3>1. k - 1 \in Nat /\ k - 1 < k /\ k - 1 <= N /\ k \in 1 .. N /\ k \in 1 .. N + 1
      BY <2>2
    <3>2. f[k - 1] = g[k - 1]
      BY <1>5, <3>1
    <3>3. opts[k] = more[k]
      BY <1>1, <1>2, <3>1
    <3> QED
      BY <1>3, <1>4, <3>1, <3>2, <3>3
  <2> QED
    BY <2>1, <2>2
<1>6. Nat \subseteq S
  <2> HIDE DEF S
  <2> QED
    BY <1>5, ByInduction
<1>7. f[N] = g[N]
  BY <1>6
<1>8. N + 1 \in 1 .. N + 1 /\ (N + 1) - 1 = N /\ more[N + 1] = pairs
  BY <1>1, <1>2
<1>9. g[N + 1] = g[N] \o LabelsOf(pairs, a)
  BY <1>4, <1>8
<1> QED
  BY <1>1, <1>3, <1>4, <1>7, <1>9

-----------------------------------------------------------------------------
(* The inductive invariant *)

\* The stacks are below the program, in whole words.
Placed ==
  pc # "failed" =>
    /\ mb.base = Size
    /\ mb.cbp % 4 = 0 /\ mb.cbp + 4 \in {4} \cup use.sizes
    /\ Size > 0 => mb.cbp = Size - 4
    /\ mb.csp = mb.cbp - 4 * Len(ran.cs)

Entered ==
  LET entry == LastArg("entry", 0) IN
  mb.ip \in IF given["entry"] = <<>> THEN {mb.base}
            ELSE {entry} \cup {mb.base : e \in {entry} \cap (use.sizes \cup {0, 4})}

\* What the options leave for later.
Taken ==
  /\ mb.queueSize = LastArg("queueSize", DefaultQueueSize) /\ mb.maxCopies = LastArg("maxCopies", 0)
  /\ mb.inputs = given["input"] /\ mb.outputs = given["output"]

\* Before the program is loaded, and before it runs.
NotYet ==
  /\ pc = "opts" => mb.pages = <<>> /\ mb.nextIn = 0 /\ mb.queue = 0 /\ mb.copies = 0 /\ prog = <<>> /\ calls = <<>>
  /\ pc # "ran" => ran = NotRun
  /\ pc = "ran" => ran.err # "nil"

\* No page of the program is missing, and it is all that there is before the first input.
Loaded ==
  /\ pc \in {"calls", "ran"} => \A m \in DOMAIN prog : ~Missing(mb.pages, (mb.base + m - 1) \div PageSize)
  /\ NoCall => \A a \in Nat : MemByte(mb.pages, a) = InProg(a)

Declared == BTypeOK /\ Placed /\ Entered /\ Taken /\ HandlerFits /\ DebugKept /\ NotYet /\ Loaded

\* The names of regions are in the program, and nothing was stored into one of them.
NamesSeen ==
  \A i \in DOMAIN given["input"] :
    LET a == given["input"][i].name IN
    a # NoName =>
      /\ mb.base <= a /\ a + 4 + NameLen(a) <= mb.base + Len(prog)
      /\ Whole(a) /\ ~Misaligned(mb.cbp, a)
NamesStay ==
  \A i \in DOMAIN given["input"] :
    LET a == given["input"][i].name IN
    a # NoName => \A k \in DOMAIN calls : \A x \in 0 .. 3 + NameLen(a) : ~Covers(k, a + x)
NamesKept == NamesSeen /\ NamesStay

\* Every input is where it should be, and with it all of the memory.
Landed ==
  pc \in {"calls", "ran"} =>
    /\ mb.nextIn = Numbered(Len(calls))
    /\ NamesKept => AllServed /\ \A a \in Nat : MemByte(mb.pages, a) = Expected(a)

-----------------------------------------------------------------------------
(* Options *)

\* The arguments of an option after one more.
LEMMA ArgsAfter ==
  ASSUME DOMAIN given = Opts, NEW opt \in Opts, NEW T, given[opt] \in Seq(T), NEW arg \in T,
         given' = [given EXCEPT ![opt] = Append(@, arg)]
  PROVE  /\ DOMAIN given' = Opts /\ \A o \in Opts : o # opt => given'[o] = given[o]
         /\ given'[opt] \in Seq(T) /\ given'[opt] # <<>> /\ Last(given'[opt]) = arg
         /\ Range(given'[opt]) = Range(given[opt]) \cup {arg}
<1>1. PICK s \in Seq(T) : s = given[opt]
  OBVIOUS
<1>2. PICK t : t = Append(s, arg)
  OBVIOUS
<1>3. t \in Seq(T) /\ Len(t) = Len(s) + 1 /\ t[Len(s) + 1] = arg /\ \A i \in 1 .. Len(s) : t[i] = s[i]
  BY <1>2
<1>4. given'[opt] = t
  BY <1>1, <1>2
<1>5. t # <<>>
  BY <1>3
<1>6. Last(t) = arg
  BY <1>3 DEF Last
<1>7. Range(t) = Range(s) \cup {arg}
  <2>1. DOMAIN t = 1 .. Len(s) + 1 /\ DOMAIN s = 1 .. Len(s) /\ Len(s) \in Nat
    BY <1>3
  <2>2. ASSUME NEW x \in Range(t) PROVE x \in Range(s) \cup {arg}
    BY <1>3, <2>1 DEF Range
  <2>3. ASSUME NEW x \in Range(s) PROVE x \in Range(t)
    <3>1. PICK j \in 1 .. Len(s) : x = s[j]
      BY <2>1 DEF Range
    <3>2. j \in DOMAIN t /\ t[j] = x
      BY <3>1, <1>3, <2>1
    <3> QED
      BY <3>2 DEF Range
  <2>4. arg \in Range(t)
    BY <1>3, <2>1 DEF Range
  <2> QED
    BY <2>2, <2>3, <2>4
<1>8. DOMAIN given' = Opts /\ \A o \in Opts : o # opt => given'[o] = given[o]
  OBVIOUS
<1> QED
  BY <1>1, <1>3, <1>4, <1>5, <1>6, <1>7, <1>8

\* What every option leaves, and what an option of another kind does.
LEMMA OptionTaken ==
  ASSUME Declared, pc = "opts", UNCHANGED <<use, prog, calls, ran>>, pc' \in {"opts", "failed"},
         NEW opt \in Opts, NEW arg \in Arg(opt), given' = [given EXCEPT ![opt] = Append(@, arg)],
         BuilderType', mb'.pages = mb.pages, mb'.nextIn = mb.nextIn, mb'.queue = mb.queue, mb'.copies = mb.copies
  PROVE  /\ BTypeOK' /\ HandlerFits' /\ NotYet' /\ Loaded'
         /\ opt # "stackSize" /\ mb'.base = mb.base /\ mb'.cbp = mb.cbp /\ mb'.csp = mb.csp => Placed'
         /\ opt # "entry" /\ mb'.base = mb.base /\ mb'.ip = mb.ip => Entered'
         /\ /\ opt \notin {"queueSize", "maxCopies", "input", "output"}
            /\ mb'.queueSize = mb.queueSize /\ mb'.maxCopies = mb.maxCopies
            /\ mb'.inputs = mb.inputs /\ mb'.outputs = mb.outputs
            => Taken'
         /\ opt \notin {"addrLabels", "spanOpen", "spanClose"} /\ mb'.labels = mb.labels /\ mb'.annos = mb.annos
            => DebugKept'
<1>1. /\ DOMAIN given' = Opts /\ \A o \in Opts : o # opt => given'[o] = given[o]
      /\ given'[opt] \in Seq(Arg(opt))
  <2>1. DOMAIN given = Opts /\ given[opt] \in Seq(Arg(opt))
    BY DEF Declared, BTypeOK
  <2> QED
    BY <2>1, ArgsAfter
<1>2. BTypeOK'
  <2>1. \A o \in Opts : given'[o] \in Seq(Arg(o))
    BY <1>1 DEF Declared, BTypeOK
  <2>2. \A o : Arg(o)' = Arg(o)
    BY DEF Arg
  <2> QED
    BY <1>1, <2>1 DEF Declared, BTypeOK
<1>3. NotYet'
  BY DEF Declared, NotYet
<1>4. HandlerFits' /\ Loaded'
  BY DEF Declared, NotYet, HandlerFits, Loaded, NoCall
<1>5. ASSUME opt # "stackSize", mb'.base = mb.base, mb'.cbp = mb.cbp, mb'.csp = mb.csp PROVE Placed'
  <2>1. Size' = Size
    BY <1>1, <1>5 DEF Size, LastArg, Opts
  <2> QED
    BY <1>5, <2>1 DEF Declared, Placed
<1>6. ASSUME opt # "entry", mb'.base = mb.base, mb'.ip = mb.ip PROVE Entered'
  <2>1. given'["entry"] = given["entry"]
    BY <1>1, <1>6 DEF Opts
  <2> QED
    BY <1>6, <2>1 DEF Declared, Entered, LastArg
<1>7. ASSUME opt \notin {"queueSize", "maxCopies", "input", "output"},
             mb'.queueSize = mb.queueSize, mb'.maxCopies = mb.maxCopies,
             mb'.inputs = mb.inputs, mb'.outputs = mb.outputs
      PROVE  Taken'
  <2>1. /\ given'["queueSize"] = given["queueSize"] /\ given'["maxCopies"] = given["maxCopies"]
        /\ given'["input"] = given["input"] /\ given'["output"] = given["output"]
    BY <1>1, <1>7 DEF Opts
  <2> QED
    BY <1>7, <2>1 DEF Declared, Taken, LastArg
<1>8. ASSUME opt \notin {"addrLabels", "spanOpen", "spanClose"}, mb'.labels = mb.labels, mb'.annos = mb.annos
      PROVE  DebugKept'
  <2>1. /\ given'["addrLabels"] = given["addrLabels"] /\ given'["spanOpen"] = given["spanOpen"]
        /\ given'["spanClose"] = given["spanClose"]
    BY <1>1, <1>8 DEF Opts
  <2> QED
    BY <1>8, <2>1 DEF Declared, DebugKept
<1> QED
  BY <1>2, <1>3, <1>4, <1>5, <1>6, <1>7, <1>8

LEMMA VersionTaken ==
  ASSUME Declared, UNCHANGED use, NEW arg \in use.sizes, Version(arg)
  PROVE  Declared'
<1>1. arg \in Arg("version") /\ "version" \in Opts
  BY UsesAssumption DEF Arg, Opts, Declared, BTypeOK
<1>2. mb' = mb /\ pc = "opts" /\ pc' \in {"opts", "failed"} /\ given' = [given EXCEPT !["version"] = Append(@, arg)]
      /\ UNCHANGED <<use, prog, calls, ran>>
  BY DEF Version, Reads
<1>3. BuilderType'
  BY <1>2 DEF Declared, BTypeOK, BuilderType
<1>4. /\ mb'.pages = mb.pages /\ mb'.nextIn = mb.nextIn /\ mb'.queue = mb.queue /\ mb'.copies = mb.copies
      /\ mb'.base = mb.base /\ mb'.cbp = mb.cbp /\ mb'.csp = mb.csp /\ mb'.ip = mb.ip
      /\ mb'.queueSize = mb.queueSize /\ mb'.maxCopies = mb.maxCopies
      /\ mb'.inputs = mb.inputs /\ mb'.outputs = mb.outputs /\ mb'.labels = mb.labels /\ mb'.annos = mb.annos
  BY <1>2
<1> QED
  BY <1>1, <1>2, <1>3, <1>4, OptionTaken DEF Declared

LEMMA StackSizeTaken ==
  ASSUME Declared, UNCHANGED use, NEW arg \in use.sizes, StackSize(arg)
  PROVE  Declared'
<1>1. arg \in Arg("stackSize") /\ "stackSize" \in Opts /\ arg \in Nat
  BY UsesAssumption DEF Arg, Opts, Declared, BTypeOK
<1>2. pc = "opts" /\ pc' \in {"opts", "failed"} /\ given' = [given EXCEPT !["stackSize"] = Append(@, arg)]
      /\ UNCHANGED <<use, prog, calls, ran>>
  BY DEF StackSize, Reads
<1>3. BuilderType
  BY DEF Declared, BTypeOK
<1>4. BuilderType'
  <2>1. CASE arg % 4 = 0
    <3>1. arg > 0 => arg - 4 \in Nat
      BY <1>1, <2>1
    <3>2. PICK cbp \in Nat, csp \in Nat, ip \in Nat :
            /\ cbp = (IF arg > 0 THEN arg - 4 ELSE mb.cbp) /\ csp = (IF arg > 0 THEN arg - 4 ELSE mb.csp)
            /\ ip = IF mb.ip \in {0, mb.cbp + 4} THEN arg ELSE mb.ip
      BY <1>1, <1>3, <3>1 DEF BuilderType
    <3>3. mb' = mb \/ mb' = [mb EXCEPT !.base = arg, !.cbp = cbp, !.csp = csp, !.ip = ip]
      BY <3>2 DEF StackSize, Reads
    <3> QED
      BY <1>1, <1>3, <3>3 DEF BuilderType
  <2>2. CASE arg % 4 # 0
    <3>1. mb' = mb
      BY <2>2 DEF StackSize, Reads
    <3> QED
      BY <1>3, <3>1 DEF BuilderType
  <2> QED
    BY <2>1, <2>2
<1>5. /\ mb'.pages = mb.pages /\ mb'.nextIn = mb.nextIn /\ mb'.queue = mb.queue /\ mb'.copies = mb.copies
      /\ mb'.queueSize = mb.queueSize /\ mb'.maxCopies = mb.maxCopies
      /\ mb'.inputs = mb.inputs /\ mb'.outputs = mb.outputs /\ mb'.labels = mb.labels /\ mb'.annos = mb.annos
  BY <1>3 DEF StackSize, Reads, BuilderType
<1>6. BTypeOK' /\ HandlerFits' /\ NotYet' /\ Loaded' /\ Taken' /\ DebugKept'
  BY <1>1, <1>2, <1>4, <1>5, OptionTaken
<1>7. Last(given'["stackSize"]) = arg /\ given'["stackSize"] # <<>> /\ given'["entry"] = given["entry"]
  <2>1. DOMAIN given = Opts /\ given["stackSize"] \in Seq(Nat) /\ "entry" \in Opts
    BY DEF Declared, BTypeOK, Opts, Arg
  <2> QED
    BY <1>1, <1>2, <2>1, ArgsAfter
<1>8. Size' = arg
  BY <1>7 DEF Size, LastArg
<1>9. mb.base \in Nat /\ mb.cbp \in Nat /\ mb.ip \in Nat /\ (Size > 0 => mb.cbp + 4 = mb.base)
      /\ mb.base = Size /\ ran = NotRun
  BY <1>2, <1>3 DEF BuilderType, Declared, Placed, NotYet
<1>10. CASE pc' = "failed"
  <2>1. mb' = mb
    BY <1>10, <1>2 DEF StackSize, Reads
  <2>2. Placed'
    BY <1>10 DEF Placed
  <2>3. Entered'
    BY <1>2, <1>7, <2>1 DEF Entered, LastArg, Declared
  <2> QED
    BY <1>6, <2>2, <2>3 DEF Declared
<1>11. CASE pc' = "opts"
  <2>1. /\ arg % 4 = 0 /\ mb'.base = arg
        /\ mb'.cbp = (IF arg > 0 THEN arg - 4 ELSE mb.cbp) /\ mb'.csp = (IF arg > 0 THEN arg - 4 ELSE mb.csp)
        /\ mb'.ip = IF mb.ip \in {0, mb.cbp + 4} THEN arg ELSE mb.ip
    BY <1>11, <1>2, <1>3 DEF StackSize, Reads, BuilderType
  <2>2. Placed'
    <3>1. Len(ran'.cs) = 0
      BY <1>2, <1>9 DEF NotRun
    <3>2. /\ mb.cbp % 4 = 0 /\ mb.cbp + 4 \in {4} \cup use.sizes /\ mb.csp = mb.cbp - 4 * Len(ran.cs)
      BY <1>2 DEF Declared, Placed
    <3>3. mb'.cbp % 4 = 0 /\ mb'.cbp + 4 \in {4} \cup use.sizes /\ mb'.csp = mb'.cbp
      <4>1. CASE arg > 0
        <5>1. (arg - 4) % 4 = 0
          BY <1>1, <2>1
        <5> QED
          BY <1>1, <2>1, <4>1, <5>1
      <4>2. CASE ~(arg > 0)
        <5>1. mb'.cbp = mb.cbp /\ mb'.csp = mb.csp /\ use'.sizes = use.sizes
          BY <2>1, <4>2
        <5>2. mb.csp = mb.cbp
          <6>1. Len(ran.cs) = 0
            BY <1>9 DEF NotRun
          <6> QED
            BY <6>1, <3>2, <1>9
        <5> QED
          BY <3>2, <5>1, <5>2
      <4> QED
        BY <4>1, <4>2
    <3> QED
      BY <1>8, <1>1, <2>1, <3>1, <3>3, <1>9 DEF Placed
  <2>3. Entered'
    <3>1. CASE given["entry"] = <<>>
      <4>1. mb.ip = mb.base
        BY <3>1 DEF Declared, Entered
      <4>2. mb.ip \in {0, mb.cbp + 4}
        BY <4>1, <1>9
      <4> QED
        BY <3>1, <2>1, <4>2, <1>7 DEF Entered
    <3>2. CASE given["entry"] # <<>>
      <4> DEFINE e == Last(given["entry"])
      <4>1. LastArg("entry", 0) = e /\ LastArg("entry", 0)' = e
        BY <3>2, <1>7 DEF LastArg
      <4>2. mb.ip = e \/ (mb.ip = mb.base /\ e \in use.sizes \cup {0, 4})
        BY <3>2, <4>1 DEF Declared, Entered
      <4>3. mb.cbp + 4 \in {4} \cup use.sizes
        BY <1>2 DEF Declared, Placed
      <4>4. mb'.ip = e \/ (mb'.ip = mb'.base /\ e \in use.sizes \cup {0, 4})
        BY <2>1, <4>2, <4>3, <1>9
      <4> QED
        BY <3>2, <4>1, <4>4, <1>7 DEF Entered
    <3> QED
      BY <3>1, <3>2
  <2> QED
    BY <1>6, <2>2, <2>3 DEF Declared
<1> QED
  BY <1>2, <1>10, <1>11

LEMMA LimitTaken ==
  ASSUME Declared, UNCHANGED use, NEW n \in Counts, NEW have \in BOOLEAN,
         QueueSize(n) \/ MaxOps(have, n) \/ MaxCopies(have, n)
  PROVE  Declared'
<1>0. n \in Nat /\ BuilderType /\ DOMAIN given = Opts
  BY OptionsAssumption DEF Declared, BTypeOK
<1>1. PICK opt \in {"queueSize", "maxOps", "maxCopies"}, arg \in Nat :
        /\ opt = "queueSize" => QueueSize(n) /\ arg = n
        /\ opt = "maxOps" => MaxOps(have, n) /\ arg = IF have THEN n ELSE 0
        /\ opt = "maxCopies" => MaxCopies(have, n) /\ arg = IF have THEN n ELSE 0
  <2>1. CASE QueueSize(n)
    BY <2>1, <1>0
  <2>2. CASE MaxOps(have, n)
    BY <2>2, <1>0
  <2>3. CASE MaxCopies(have, n)
    BY <2>3, <1>0
  <2> QED
    BY <2>1, <2>2, <2>3
<1>2. opt \in Opts /\ Arg(opt) = Nat /\ given[opt] \in Seq(Nat)
  BY DEF Declared, BTypeOK, Opts, Arg
<1>3. pc = "opts" /\ pc' = "opts" /\ given' = [given EXCEPT ![opt] = Append(@, arg)]
      /\ UNCHANGED <<use, prog, calls, ran>>
  BY <1>1 DEF QueueSize, MaxOps, MaxCopies, Reads
<1>4. mb' = CASE opt = "queueSize" -> [mb EXCEPT !.queueSize = arg]
              [] opt = "maxOps" -> [mb EXCEPT !.limit = arg]
              [] opt = "maxCopies" -> [mb EXCEPT !.maxCopies = arg]
  BY <1>1 DEF QueueSize, MaxOps, MaxCopies, Reads
<1>5. /\ BuilderType'
      /\ mb'.pages = mb.pages /\ mb'.nextIn = mb.nextIn /\ mb'.queue = mb.queue /\ mb'.copies = mb.copies
      /\ mb'.base = mb.base /\ mb'.cbp = mb.cbp /\ mb'.csp = mb.csp /\ mb'.ip = mb.ip
      /\ mb'.inputs = mb.inputs /\ mb'.outputs = mb.outputs /\ mb'.labels = mb.labels /\ mb'.annos = mb.annos
      /\ mb'.queueSize = (IF opt = "queueSize" THEN arg ELSE mb.queueSize)
      /\ mb'.maxCopies = (IF opt = "maxCopies" THEN arg ELSE mb.maxCopies)
  BY <1>0, <1>1, <1>4 DEF BuilderType
<1>6. BTypeOK' /\ HandlerFits' /\ NotYet' /\ Loaded' /\ Placed' /\ Entered' /\ DebugKept'
  BY <1>1, <1>2, <1>3, <1>5, OptionTaken DEF Declared
<1>7. Taken'
  <2>1. /\ \A o \in Opts : o # opt => given'[o] = given[o]
        /\ given'[opt] # <<>> /\ Last(given'[opt]) = arg
    BY <1>0, <1>2, <1>3, ArgsAfter
  <2> QED
    BY <2>1, <1>1, <1>5 DEF Taken, LastArg, Declared, Opts
<1> QED
  BY <1>6, <1>7 DEF Declared

LEMMA EntryTaken ==
  ASSUME Declared, UNCHANGED use, NEW a \in Entries, Entry(a)
  PROVE  Declared'
<1>0. a \in Nat /\ BuilderType /\ DOMAIN given = Opts
  BY OptionsAssumption DEF Declared, BTypeOK
<1>1. "entry" \in Opts /\ Arg("entry") = Entries /\ given["entry"] \in Seq(Entries)
  BY DEF Declared, BTypeOK, Opts, Arg
<1>2. pc = "opts" /\ pc' = "opts" /\ given' = [given EXCEPT !["entry"] = Append(@, a)]
      /\ UNCHANGED <<use, prog, calls, ran>> /\ mb' = [mb EXCEPT !.ip = a]
  BY DEF Entry, Reads
<1>3. /\ BuilderType'
      /\ mb'.pages = mb.pages /\ mb'.nextIn = mb.nextIn /\ mb'.queue = mb.queue /\ mb'.copies = mb.copies
      /\ mb'.base = mb.base /\ mb'.cbp = mb.cbp /\ mb'.csp = mb.csp /\ mb'.ip = a
      /\ mb'.queueSize = mb.queueSize /\ mb'.maxCopies = mb.maxCopies
      /\ mb'.inputs = mb.inputs /\ mb'.outputs = mb.outputs /\ mb'.labels = mb.labels /\ mb'.annos = mb.annos
  BY <1>0, <1>2 DEF BuilderType
<1>4. BTypeOK' /\ HandlerFits' /\ NotYet' /\ Loaded' /\ Placed' /\ Taken' /\ DebugKept'
  BY <1>1, <1>2, <1>3, OptionTaken DEF Declared
<1>5. given'["entry"] # <<>> /\ Last(given'["entry"]) = a
  BY <1>0, <1>1, <1>2, ArgsAfter
<1>6. Entered'
  BY <1>3, <1>5 DEF Entered, LastArg
<1> QED
  BY <1>4, <1>6 DEF Declared

LEMMA RegionTaken ==
  ASSUME Declared, UNCHANGED use, NEW rg \in Regions, InputOpt(rg) \/ OutputOpt(rg)
  PROVE  Declared'
<1>0. BuilderType /\ DOMAIN given = Opts
  BY DEF Declared, BTypeOK
<1>1. PICK opt \in {"input", "output"} :
        (opt = "input" => InputOpt(rg)) /\ (opt = "output" => OutputOpt(rg))
  OBVIOUS
<1>2. opt \in Opts /\ Arg(opt) = Regions /\ given[opt] \in Seq(Regions)
  BY DEF Declared, BTypeOK, Opts, Arg
<1>3. pc = "opts" /\ pc' = "opts" /\ given' = [given EXCEPT ![opt] = Append(@, rg)]
      /\ UNCHANGED <<use, prog, calls, ran>>
  BY <1>1 DEF InputOpt, OutputOpt, Reads
<1>4. mb' = IF opt = "input" THEN [mb EXCEPT !.inputs = Append(@, rg)] ELSE [mb EXCEPT !.outputs = Append(@, rg)]
  BY <1>1 DEF InputOpt, OutputOpt, Reads
<1>5. /\ BuilderType'
      /\ mb'.pages = mb.pages /\ mb'.nextIn = mb.nextIn /\ mb'.queue = mb.queue /\ mb'.copies = mb.copies
      /\ mb'.base = mb.base /\ mb'.cbp = mb.cbp /\ mb'.csp = mb.csp /\ mb'.ip = mb.ip
      /\ mb'.queueSize = mb.queueSize /\ mb'.maxCopies = mb.maxCopies
      /\ mb'.labels = mb.labels /\ mb'.annos = mb.annos
      /\ mb'.inputs = (IF opt = "input" THEN Append(mb.inputs, rg) ELSE mb.inputs)
      /\ mb'.outputs = (IF opt = "output" THEN Append(mb.outputs, rg) ELSE mb.outputs)
  <2>1. PICK inputs \in Seq(Regions), outputs \in Seq(Regions) :
          /\ inputs = (IF opt = "input" THEN Append(mb.inputs, rg) ELSE mb.inputs)
          /\ outputs = (IF opt = "output" THEN Append(mb.outputs, rg) ELSE mb.outputs)
    <3>1. mb.inputs \in Seq(Regions) /\ mb.outputs \in Seq(Regions)
      BY <1>0 DEF BuilderType
    <3>2. Append(mb.inputs, rg) \in Seq(Regions) /\ Append(mb.outputs, rg) \in Seq(Regions)
      BY <3>1
    <3>3. CASE opt = "input"
      BY <3>1, <3>2, <3>3
    <3>4. CASE opt = "output"
      BY <3>1, <3>2, <3>4
    <3> QED
      BY <1>1, <3>3, <3>4
  <2>2. mb' = [mb EXCEPT !.inputs = inputs, !.outputs = outputs]
    BY <1>0, <1>1, <1>4, <2>1 DEF BuilderType
  <2> QED
    BY <1>0, <2>1, <2>2 DEF BuilderType
<1>6. BTypeOK' /\ HandlerFits' /\ NotYet' /\ Loaded' /\ Placed' /\ Entered' /\ DebugKept'
  BY <1>1, <1>2, <1>3, <1>5, OptionTaken DEF Declared
<1>7. Taken'
  <2>1. given'[opt] = Append(given[opt], rg) /\ \A o \in Opts : o # opt => given'[o] = given[o]
    BY <1>0, <1>2, <1>3
  <2> QED
    BY <2>1, <1>1, <1>5 DEF Taken, LastArg, Declared, Opts
<1> QED
  BY <1>6, <1>7 DEF Declared

LEMMA AddLabelsType ==
  ASSUME NEW m \in LabelMaps, NEW pairs \in Seq(Entries \X Labels)
  PROVE  AddLabels(m, pairs) \in LabelMaps
<1>1. PICK f : f \in [0 .. Len(pairs) -> LabelMaps] /\ AddLabels(m, pairs) = f[Len(pairs)]
  BY AddUnfolds
<1> QED
  BY <1>1

LEMMA LabelsTaken ==
  ASSUME Declared, UNCHANGED use, NEW pairs \in Labelled, AddrLabels(pairs)
  PROVE  Declared'
<1>0. BuilderType /\ DOMAIN given = Opts /\ pairs \in Seq(Entries \X Labels) /\ mb.labels \in LabelMaps
  BY OptionsAssumption DEF Declared, BTypeOK, BuilderType, LabelMaps
<1>1. "addrLabels" \in Opts /\ Arg("addrLabels") = Labelled /\ given["addrLabels"] \in Seq(Labelled)
  BY DEF Declared, BTypeOK, Opts, Arg
<1>2. PICK labels \in LabelMaps : labels = AddLabels(mb.labels, pairs)
  BY <1>0, AddLabelsType
<1>3. pc = "opts" /\ pc' = "opts" /\ given' = [given EXCEPT !["addrLabels"] = Append(@, pairs)]
      /\ UNCHANGED <<use, prog, calls, ran>> /\ mb' = [mb EXCEPT !.labels = labels]
  BY <1>2 DEF AddrLabels, Reads
<1>4. /\ BuilderType'
      /\ mb'.pages = mb.pages /\ mb'.nextIn = mb.nextIn /\ mb'.queue = mb.queue /\ mb'.copies = mb.copies
      /\ mb'.base = mb.base /\ mb'.cbp = mb.cbp /\ mb'.csp = mb.csp /\ mb'.ip = mb.ip
      /\ mb'.queueSize = mb.queueSize /\ mb'.maxCopies = mb.maxCopies
      /\ mb'.inputs = mb.inputs /\ mb'.outputs = mb.outputs /\ mb'.labels = labels /\ mb'.annos = mb.annos
  BY <1>0, <1>2, <1>3 DEF BuilderType, LabelMaps
<1>5. BTypeOK' /\ HandlerFits' /\ NotYet' /\ Loaded' /\ Placed' /\ Entered' /\ Taken'
  BY <1>1, <1>3, <1>4, OptionTaken DEF Declared
<1>6. DebugKept'
  <2>1. /\ given'["addrLabels"] = Append(given["addrLabels"], pairs)
        /\ given'["spanOpen"] = given["spanOpen"] /\ given'["spanClose"] = given["spanClose"]
    BY <1>0, <1>3 DEF Opts
  <2>2. pc # "failed" /\ DebugKept
    BY <1>3 DEF Declared
  <2>3. ASSUME NEW a \in Entries
        PROVE  At(labels, a, <<>>) = AllLabelsOf(Append(given["addrLabels"], pairs), a)
    <3>1. At(mb.labels, a, <<>>) = AllLabelsOf(given["addrLabels"], a)
      BY <2>2 DEF DebugKept
    <3>2. At(labels, a, <<>>) = At(mb.labels, a, <<>>) \o LabelsOf(pairs, a)
      BY <1>0, <1>2, LabelsAdded
    <3>3. AllLabelsOf(Append(given["addrLabels"], pairs), a) =
            AllLabelsOf(given["addrLabels"], a) \o LabelsOf(pairs, a)
      BY <1>1, AllGrows
    <3> QED
      BY <3>1, <3>2, <3>3
  <2> QED
    BY <1>4, <2>1, <2>2, <2>3 DEF DebugKept
<1> QED
  BY <1>5, <1>6 DEF Declared

LEMMA MarkTaken ==
  ASSUME Declared, UNCHANGED use, NEW a \in Entries, NEW anno \in Marks, SpanOpt(anno, a)
  PROVE  Declared'
<1>0. BuilderType /\ DOMAIN given = Opts /\ mb.annos \in UNION {[S -> SUBSET Marks] : S \in SUBSET Entries}
  BY DEF Declared, BTypeOK, BuilderType
<1>1. anno \in Opts /\ Arg(anno) = Entries /\ given[anno] \in Seq(Entries)
  BY DEF Declared, BTypeOK, Opts, Arg, Marks
<1>2. PICK annos \in UNION {[S -> SUBSET Marks] : S \in SUBSET Entries} : annos = Annotate(mb.annos, a, anno)
  <2>1. At(mb.annos, a, {}) \in SUBSET Marks
    <3>1. {} \in SUBSET Marks
      OBVIOUS
    <3> QED
      BY Zenon, <1>0, <3>1, AtType
  <2>2. At(mb.annos, a, {}) \cup {anno} \in SUBSET Marks
    BY <2>1
  <2>3. With(mb.annos, a, At(mb.annos, a, {}) \cup {anno}) \in UNION {[S -> SUBSET Marks] : S \in SUBSET Entries}
    BY Zenon, <1>0, <2>2, WithType
  <2> QED
    BY <2>3 DEF Annotate
<1>3. pc = "opts" /\ pc' = "opts" /\ given' = [given EXCEPT ![anno] = Append(@, a)]
      /\ UNCHANGED <<use, prog, calls, ran>> /\ mb' = [mb EXCEPT !.annos = annos]
  BY <1>2 DEF SpanOpt, Reads
<1>4. /\ BuilderType'
      /\ mb'.pages = mb.pages /\ mb'.nextIn = mb.nextIn /\ mb'.queue = mb.queue /\ mb'.copies = mb.copies
      /\ mb'.base = mb.base /\ mb'.cbp = mb.cbp /\ mb'.csp = mb.csp /\ mb'.ip = mb.ip
      /\ mb'.queueSize = mb.queueSize /\ mb'.maxCopies = mb.maxCopies
      /\ mb'.inputs = mb.inputs /\ mb'.outputs = mb.outputs /\ mb'.labels = mb.labels /\ mb'.annos = annos
  BY <1>0, <1>2, <1>3 DEF BuilderType
<1>5. BTypeOK' /\ HandlerFits' /\ NotYet' /\ Loaded' /\ Placed' /\ Entered' /\ Taken'
  BY <1>1, <1>3, <1>4, OptionTaken DEF Declared, Marks
<1>6. DebugKept'
  <2>1. /\ Range(given'[anno]) = Range(given[anno]) \cup {a}
        /\ \A o \in Opts : o # anno => given'[o] = given[o]
    BY <1>0, <1>1, <1>3, ArgsAfter
  <2>2. pc # "failed" /\ DebugKept /\ "addrLabels" \in Opts /\ "addrLabels" # anno /\ Marks \subseteq Opts
    BY <1>3 DEF Declared, Opts, Marks
  <2>3. ASSUME NEW b \in Entries
        PROVE  At(annos, b, {}) = {m \in Marks : b \in Range(given'[m])}
    <3>1. At(mb.annos, b, {}) = {m \in Marks : b \in Range(given[m])}
      BY <2>2 DEF DebugKept, Marks
    <3>2. At(annos, b, {}) = IF a = b THEN At(mb.annos, a, {}) \cup {anno} ELSE At(mb.annos, b, {})
      BY <1>2, AtWith DEF Annotate
    <3>3. \A m \in Marks : b \in Range(given'[m]) <=> (b \in Range(given[m]) \/ (m = anno /\ b = a))
      BY <2>1, <2>2
    <3> QED
      BY <3>1, <3>2, <3>3
  <2> QED
    BY <1>4, <2>1, <2>2, <2>3 DEF DebugKept, Marks
<1> QED
  BY <1>5, <1>6 DEF Declared

LEMMA BadTaken ==
  ASSUME Declared, UNCHANGED use, BadOption
  PROVE  Declared'
<1>1. UNCHANGED <<use, mb, given, prog, calls, ran>> /\ pc = "opts" /\ pc' = "failed"
  BY DEF BadOption
<1>2. BTypeOK'
  BY <1>1 DEF Declared, BTypeOK, BuilderType, Arg
<1>3. Placed' /\ NotYet' /\ Loaded' /\ DebugKept'
  BY <1>1 DEF Declared, Placed, NotYet, Loaded, NoCall, DebugKept
<1>4. Entered' /\ Taken' /\ HandlerFits'
  BY <1>1 DEF Declared, Entered, Taken, HandlerFits, LastArg
<1> QED
  BY <1>2, <1>3, <1>4 DEF Declared

-----------------------------------------------------------------------------
(* The program *)

\* A store makes every page that it goes through, and takes none away.
LEMMA StoreThere ==
  ASSUME NEW pgs \in Seq(Pages), NEW addr \in Nat, NEW text \in Seq(0 .. 255), NEW i \in Nat,
         (addr \div PageSize <= i /\ i <= LastPage(addr, text)) \/ ~Missing(pgs, i)
  PROVE  ~Missing(StoreBytes(pgs, addr, text), i)
<1> DEFINE last == LastPage(addr, text)
           new == StoreBytes(pgs, addr, text)
<1>1. last \in Nat /\ Len(pgs) \in Nat /\ addr \div PageSize \in Nat
  <2>1. last \in Nat
    BY LastType
  <2>2. addr \div PageSize \in Nat
    BY Split
  <2> QED
    BY <2>1, <2>2
<1>2. DOMAIN new = 1 .. Longer(pgs, last)
  BY DEF StoreBytes
<1> HIDE DEF last
<1>3. i + 1 \in 1 .. Longer(pgs, last)
  <2>1. CASE ~Missing(pgs, i)
    BY <2>1, <1>1 DEF Missing, Page, Longer
  <2>2. CASE i <= last
    BY <2>2, <1>1 DEF Longer
  <2> QED
    BY <2>1, <2>2 DEF last
<1>4. Page(new, i) = new[i + 1]
  BY <1>2, <1>3 DEF Page
<1>5. CASE i \in addr \div PageSize .. last
  <2>1. DOMAIN new[i + 1] = 0 .. PageSize - 1
    BY <1>3, <1>5 DEF StoreBytes, last
  <2>2. new[i + 1] # NoPage
    BY <2>1, PageAssumption DEF NoPage
  <2> QED
    BY <1>4, <2>2 DEF Missing
<1>6. CASE i \notin addr \div PageSize .. last
  <2>1. new[i + 1] = Page(pgs, i)
    BY <1>3, <1>6 DEF StoreBytes, last
  <2>2. ~Missing(pgs, i)
    BY <1>1, <1>6 DEF last
  <2> QED
    BY <1>4, <2>1, <2>2 DEF Missing
<1> QED
  BY <1>5, <1>6

LEMMA TextThere ==
  ASSUME NEW pgs \in Seq(Pages), NEW addr \in Nat, NEW text \in Seq(0 .. 255), NEW m \in DOMAIN text
  PROVE  ~Missing(StoreBytes(pgs, addr, text), (addr + m - 1) \div PageSize)
<1>1. PICK n \in Nat : n = Len(text)
  OBVIOUS
<1>2. m \in 1 .. n /\ text # <<>>
  BY <1>1
<1>3. addr + m - 1 \in Nat /\ addr + n - 1 \in Nat /\ addr <= addr + m - 1 /\ addr + m - 1 <= addr + n - 1
  BY <1>2
<1>4. LastPage(addr, text) = (addr + n - 1) \div PageSize
  BY <1>1, <1>2 DEF LastPage
<1>5. /\ addr \div PageSize <= (addr + m - 1) \div PageSize
      /\ (addr + m - 1) \div PageSize <= (addr + n - 1) \div PageSize
  BY <1>3, LaterPage
<1>6. (addr + m - 1) \div PageSize \in Nat
  BY <1>3, Split
<1> QED
  BY <1>4, <1>5, <1>6, StoreThere

LEMMA LoadTaken ==
  ASSUME Declared, UNCHANGED use, NEW p \in use.progs, Load(p)
  PROVE  Declared'
<1>0. BuilderType /\ mb.base \in Nat /\ mb.pages = <<>>
  BY DEF Declared, BTypeOK, BuilderType, Load, NotYet
<1>1. p \in Seq(0 .. 255)
  BY UsesAssumption DEF Declared, BTypeOK
<1>2. <<>> \in Seq(Pages)
  OBVIOUS
<1>3. PICK made \in Seq(Pages) : made = StoreBytes(<<>>, mb.base, p)
  BY <1>0, <1>1, <1>2, StoreType
<1>4. /\ UNCHANGED <<use, given, calls, ran>> /\ pc = "opts" /\ pc' = "calls" /\ prog' = p
      /\ mb' = [mb EXCEPT !.pages = made]
  BY <1>0, <1>3 DEF Load
<1>5. /\ BuilderType'
      /\ mb'.pages = made /\ mb'.nextIn = mb.nextIn /\ mb'.queue = mb.queue /\ mb'.copies = mb.copies
      /\ mb'.base = mb.base /\ mb'.cbp = mb.cbp /\ mb'.csp = mb.csp /\ mb'.ip = mb.ip
      /\ mb'.queueSize = mb.queueSize /\ mb'.maxCopies = mb.maxCopies
      /\ mb'.inputs = mb.inputs /\ mb'.outputs = mb.outputs /\ mb'.labels = mb.labels /\ mb'.annos = mb.annos
  BY <1>0, <1>3, <1>4 DEF BuilderType
<1>6. BTypeOK'
  BY <1>1, <1>4, <1>5 DEF Declared, BTypeOK, Arg
<1>7. Entered' /\ Taken' /\ HandlerFits' /\ DebugKept' /\ NotYet'
  BY <1>4, <1>5 DEF Declared, Entered, Taken, HandlerFits, DebugKept, NotYet, LastArg
<1>8. Placed'
  BY <1>4, <1>5 DEF Declared, Placed, Size, LastArg
<1>9. Loaded'
  <2>1. \A m \in DOMAIN p : ~Missing(made, (mb.base + m - 1) \div PageSize)
    BY <1>0, <1>1, <1>2, <1>3, TextThere
  <2>2. ASSUME NEW a \in Nat
        PROVE  MemByte(made, a) = IF a - mb.base + 1 \in DOMAIN p THEN p[a - mb.base + 1] ELSE 0
    <3>1. MemByte(made, a) = IF a - mb.base + 1 \in DOMAIN p THEN p[a - mb.base + 1] ELSE MemByte(<<>>, a)
      BY <1>0, <1>1, <1>2, <1>3, StoreWrites
    <3>2. MemByte(<<>>, a) = 0
      BY DEF MemByte, Missing, Page, NoPage
    <3> QED
      BY <3>1, <3>2
  <2> QED
    BY <1>4, <1>5, <2>1, <2>2 DEF Loaded, NoCall, InProg
<1> QED
  BY <1>6, <1>7, <1>8, <1>9 DEF Declared

LEMMA HandlerTaken ==
  ASSUME Declared, UNCHANGED use, Handler
  PROVE  Declared'
<1>1. BuilderType /\ UNCHANGED <<use, given, prog, calls, ran, pc>> /\ pc = "calls"
      /\ mb' = [mb EXCEPT !.queue = mb.queueSize, !.copies = mb.maxCopies]
  BY DEF Declared, BTypeOK, Handler
<1>2. /\ BuilderType'
      /\ mb'.pages = mb.pages /\ mb'.nextIn = mb.nextIn /\ mb'.queue = mb.queueSize /\ mb'.copies = mb.maxCopies
      /\ mb'.base = mb.base /\ mb'.cbp = mb.cbp /\ mb'.csp = mb.csp /\ mb'.ip = mb.ip
      /\ mb'.queueSize = mb.queueSize /\ mb'.maxCopies = mb.maxCopies
      /\ mb'.inputs = mb.inputs /\ mb'.outputs = mb.outputs /\ mb'.labels = mb.labels /\ mb'.annos = mb.annos
  BY <1>1 DEF BuilderType
<1>3. BTypeOK'
  BY <1>1, <1>2 DEF Declared, BTypeOK, Arg
<1>4. Entered' /\ Taken' /\ HandlerFits' /\ DebugKept' /\ NotYet'
  BY <1>1, <1>2 DEF Declared, Entered, Taken, HandlerFits, DebugKept, NotYet, LastArg
<1>5. Placed'
  BY <1>1, <1>2 DEF Declared, Placed, Size, LastArg
<1>6. Loaded'
  BY <1>1, <1>2 DEF Declared, Loaded, NoCall, InProg
<1> QED
  BY <1>3, <1>4, <1>5, <1>6 DEF Declared

-----------------------------------------------------------------------------
(* Inputs, and a run *)

LEMMA BytesType ==
  ASSUME NEW vals \in Seq(Word)
  PROVE  Bytes(vals) \in Seq(0 .. 255) /\ Len(Bytes(vals)) = 4 * Len(vals) /\ DOMAIN Bytes(vals) = 1 .. 4 * Len(vals)
<1>1. PICK n \in Nat : n = Len(vals)
  OBVIOUS
<1>2. \A j \in 1 .. n : vals[j] \in Word
  BY <1>1
<1>3. ASSUME NEW i \in 1 .. 4 * n PROVE vals[(i + 3) \div 4][((i + 3) % 4) + 1] \in 0 .. 255
  <2>1. (i + 3) \div 4 \in 1 .. n /\ ((i + 3) % 4) + 1 \in 1 .. 4
    BY <1>1, <1>3
  <2>2. vals[(i + 3) \div 4] \in [1 .. 4 -> 0 .. 255]
    BY <1>2, <2>1 DEF Word
  <2> QED
    BY <2>1, <2>2
<1>4. Bytes(vals) = [i \in 1 .. 4 * n |-> vals[(i + 3) \div 4][((i + 3) % 4) + 1]]
  BY <1>1 DEF Bytes
<1>5. 4 * n \in Nat
  OBVIOUS
<1>6. Bytes(vals) \in Seq(0 .. 255) /\ Len(Bytes(vals)) = 4 * n
  BY <1>3, <1>4, <1>5
<1> QED
  BY <1>1, <1>4, <1>6

LEMMA ReverseType ==
  ASSUME NEW S, NEW s \in Seq(S)
  PROVE  Reverse(s) \in Seq(S) /\ Len(Reverse(s)) = Len(s) /\ \A i \in 1 .. Len(s) : Reverse(s)[i] = s[(Len(s) - i) + 1]
<1>1. PICK n \in Nat : n = Len(s)
  OBVIOUS
<1>2. \A i \in 1 .. n : s[(n - i) + 1] \in S
  BY <1>1
<1>3. Reverse(s) = [i \in 1 .. n |-> s[(n - i) + 1]]
  BY <1>1 DEF Reverse
<1> QED
  BY <1>1, <1>2, <1>3

\* What a call leaves: one that is accepted stores its values in a region.
LEMMA CallTaken ==
  ASSUME Declared, UNCHANGED use, NEW name \in {<<>>} \cup Names, NEW vals \in Vals, Calls(name, vals),
         \/ pc' = "failed" /\ mb' = mb
         \/ pc' = pc /\ \E rg \in Regions, n \in Nat : mb' = Put([mb EXCEPT !.nextIn = n], rg, vals)
  PROVE  Declared'
<1>1. /\ BuilderType /\ UNCHANGED <<use, given, prog, ran>> /\ pc = "calls"
      /\ calls' = Append(calls, [name |-> name, vals |-> vals])
      /\ calls \in Seq([name : {<<>>} \cup Names, vals : Vals])
  BY DEF Declared, BTypeOK, Calls
<1>2. calls' \in Seq([name : {<<>>} \cup Names, vals : Vals]) /\ calls' # <<>>
  <2>1. [name |-> name, vals |-> vals] \in [name : {<<>>} \cup Names, vals : Vals]
    OBVIOUS
  <2> QED
    BY <1>1, <2>1
<1>3. Bytes(vals) \in Seq(0 .. 255)
  BY CallsAssumption, BytesType
<1>4. /\ BuilderType'
      /\ mb'.queue = mb.queue /\ mb'.copies = mb.copies
      /\ mb'.base = mb.base /\ mb'.cbp = mb.cbp /\ mb'.csp = mb.csp /\ mb'.ip = mb.ip
      /\ mb'.queueSize = mb.queueSize /\ mb'.maxCopies = mb.maxCopies
      /\ mb'.inputs = mb.inputs /\ mb'.outputs = mb.outputs /\ mb'.labels = mb.labels /\ mb'.annos = mb.annos
      /\ \A i \in Nat : ~Missing(mb.pages, i) => ~Missing(mb'.pages, i)
  <2>1. CASE mb' = mb
    BY <1>1, <2>1 DEF BuilderType
  <2>2. CASE \E rg \in Regions, n \in Nat : mb' = Put([mb EXCEPT !.nextIn = n], rg, vals)
    <3>1. PICK rg \in Regions, n \in Nat : mb' = Put([mb EXCEPT !.nextIn = n], rg, vals)
      BY <2>2
    <3>2. rg.from \in Nat /\ mb.pages \in Seq(Pages)
      BY <1>1, OptionsAssumption DEF BuilderType
    <3>3. PICK made \in Seq(Pages) : made = StoreBytes(mb.pages, rg.from, Bytes(vals))
      BY <1>3, <3>2, StoreType
    <3>4. mb' = [mb EXCEPT !.nextIn = n, !.pages = made]
      BY <1>1, <3>1, <3>3 DEF Put, BuilderType
    <3>5. \A i \in Nat : ~Missing(mb.pages, i) => ~Missing(made, i)
      BY <1>3, <3>2, <3>3, StoreThere
    <3> QED
      BY <1>1, <3>3, <3>4, <3>5 DEF BuilderType
  <2> QED
    BY <2>1, <2>2
<1>5. pc' \in {"calls", "failed"}
  BY <1>1
<1>6. BTypeOK'
  BY <1>1, <1>2, <1>4, <1>5 DEF Declared, BTypeOK, Arg
<1>7. Entered' /\ Taken' /\ HandlerFits' /\ DebugKept' /\ NotYet'
  BY <1>1, <1>4, <1>5 DEF Declared, Entered, Taken, HandlerFits, DebugKept, NotYet, LastArg
<1>8. Placed'
  BY <1>1, <1>4, <1>5 DEF Declared, Placed, Size, LastArg
<1>9. Loaded'
  <2>1. ASSUME NEW m \in DOMAIN prog PROVE ~Missing(mb'.pages, (mb.base + m - 1) \div PageSize)
    <3>1. mb.base \in Nat /\ m \in Nat /\ m >= 1
      BY <1>1 DEF BuilderType, Declared, BTypeOK
    <3>2. mb.base + m - 1 \in Nat
      BY <3>1
    <3>3. (mb.base + m - 1) \div PageSize \in Nat
      BY <3>2, Split
    <3>4. ~Missing(mb.pages, (mb.base + m - 1) \div PageSize)
      BY <1>1 DEF Declared, Loaded
    <3> QED
      BY <1>4, <3>3, <3>4
  <2> QED
    BY <1>1, <1>2, <1>4, <2>1 DEF Loaded, NoCall
<1> QED
  BY <1>6, <1>7, <1>8, <1>9 DEF Declared

LEMMA InputTaken ==
  ASSUME Declared, UNCHANGED use, NEW vals \in Vals, Input(vals)
  PROVE  Declared'
<1>1. BuilderType
  BY DEF Declared, BTypeOK
<1>2. Calls(<<>>, vals) /\ mb.nextIn + 1 \in Nat
  BY <1>1 DEF Input, BuilderType
<1>3. \/ pc' = "failed" /\ mb' = mb
      \/ pc' = pc /\ \E rg \in Regions, n \in Nat : mb' = Put([mb EXCEPT !.nextIn = n], rg, vals)
  <2>1. CASE mb.nextIn + 1 <= Len(mb.inputs) /\ Fits(mb.inputs[mb.nextIn + 1], vals)
    <3>1. mb.inputs[mb.nextIn + 1] \in Regions
      BY <1>1, <2>1 DEF BuilderType
    <3> QED
      BY <1>2, <2>1, <3>1 DEF Input
  <2>2. CASE ~(mb.nextIn + 1 <= Len(mb.inputs) /\ Fits(mb.inputs[mb.nextIn + 1], vals))
    BY <2>2 DEF Input
  <2> QED
    BY <2>1, <2>2
<1>4. <<>> \in {<<>>} \cup Names
  OBVIOUS
<1> QED
  BY <1>2, <1>3, <1>4, CallTaken

LEMMA NamedTaken ==
  ASSUME Declared, UNCHANGED use, NEW name \in Names, NEW vals \in Vals, NamedInput(name, vals)
  PROVE  Declared'
<1>1. BuilderType /\ Calls(name, vals)
  BY DEF Declared, BTypeOK, NamedInput
<1>2. \/ pc' = "failed" /\ mb' = mb
      \/ pc' = pc /\ \E rg \in Regions, n \in Nat : mb' = Put([mb EXCEPT !.nextIn = n], rg, vals)
  <2>1. SUFFICES ASSUME NEW k \in 1 .. Len(mb.inputs), mb' = Put(mb, mb.inputs[k], vals)
                 PROVE  \E rg \in Regions, n \in Nat : mb' = Put([mb EXCEPT !.nextIn = n], rg, vals)
    BY DEF NamedInput
  <2>2. mb.inputs[k] \in Regions /\ mb.nextIn \in Nat
    BY <1>1 DEF BuilderType
  <2>3. mb = [mb EXCEPT !.nextIn = mb.nextIn]
    BY <1>1 DEF BuilderType
  <2> QED
    BY <2>1, <2>2, <2>3
<1>3. name \in {<<>>} \cup Names
  OBVIOUS
<1> QED
  BY <1>1, <1>2, <1>3, CallTaken

LEMMA RunTaken ==
  ASSUME Declared, UNCHANGED use, NEW err \in {"halt0", "halt1", "error"}, NEW cs \in Results, Run(err, cs)
  PROVE  Declared'
<1>1. /\ BuilderType /\ UNCHANGED <<use, given, prog, calls>> /\ pc = "calls" /\ pc' = "ran"
      /\ ran' = [err |-> err, cs |-> cs] /\ 4 * Len(cs) <= mb.cbp
  BY DEF Declared, BTypeOK, Run
<1>2. cs \in Seq(Word) /\ Len(cs) \in Nat
  BY CallsAssumption
<1>3. Bytes(Reverse(cs)) \in Seq(0 .. 255)
  BY <1>2, ReverseType, BytesType
<1>4. mb.pages \in Seq(Pages) /\ mb.cbp \in Nat /\ mb.cbp - 4 * Len(cs) \in Nat /\ mb.cbp - 4 * Len(cs) + 4 \in Nat
  <2>1. mb.pages \in Seq(Pages) /\ mb.cbp \in Nat
    BY <1>1 DEF BuilderType
  <2>2. PICK l \in Nat, c \in Nat : l = Len(cs) /\ c = mb.cbp
    BY <1>2, <2>1
  <2>3. 4 * l <= c
    BY <1>1, <2>2
  <2>4. c - 4 * l \in Nat /\ c - 4 * l + 4 \in Nat
    BY <2>2, <2>3
  <2> QED
    BY <2>1, <2>2, <2>4
<1>5. PICK made \in Seq(Pages) :
        made = IF cs = <<>> THEN mb.pages ELSE StoreBytes(mb.pages, mb.cbp - 4 * Len(cs) + 4, Bytes(Reverse(cs)))
  <2>1. StoreBytes(mb.pages, mb.cbp - 4 * Len(cs) + 4, Bytes(Reverse(cs))) \in Seq(Pages)
    BY <1>3, <1>4, StoreType
  <2> QED
    BY <1>4, <2>1
<1>6. mb' = [mb EXCEPT !.csp = mb.cbp - 4 * Len(cs), !.pages = made]
  BY <1>5 DEF Run
<1>7. /\ BuilderType'
      /\ mb'.queue = mb.queue /\ mb'.copies = mb.copies
      /\ mb'.base = mb.base /\ mb'.cbp = mb.cbp /\ mb'.csp = mb.cbp - 4 * Len(cs) /\ mb'.ip = mb.ip
      /\ mb'.queueSize = mb.queueSize /\ mb'.maxCopies = mb.maxCopies
      /\ mb'.inputs = mb.inputs /\ mb'.outputs = mb.outputs /\ mb'.labels = mb.labels /\ mb'.annos = mb.annos
      /\ mb'.pages = made
  BY <1>1, <1>4, <1>5, <1>6 DEF BuilderType
<1>8. BTypeOK'
  <2>1. ran' \in [err : {"nil", "halt0", "halt1", "error"}, cs : {<<>>} \cup Results]
    BY <1>1
  <2> QED
    BY <1>1, <1>7, <2>1 DEF Declared, BTypeOK, Arg
<1>9. Entered' /\ Taken' /\ HandlerFits' /\ DebugKept' /\ NotYet'
  BY <1>1, <1>7 DEF Declared, Entered, Taken, HandlerFits, DebugKept, NotYet, LastArg
<1>10. Placed'
  <2>1. ran'.cs = cs
    BY <1>1
  <2> QED
    BY <1>1, <1>7, <2>1 DEF Declared, Placed, Size, LastArg
<1>11. Loaded'
  <2>1. ASSUME NEW m \in DOMAIN prog PROVE ~Missing(made, (mb.base + m - 1) \div PageSize)
    <3>1. mb.base \in Nat /\ m \in Nat /\ m >= 1
      BY <1>1 DEF BuilderType, Declared, BTypeOK
    <3>2. mb.base + m - 1 \in Nat
      BY <3>1
    <3>3. (mb.base + m - 1) \div PageSize \in Nat
      BY <3>2, Split
    <3>4. ~Missing(mb.pages, (mb.base + m - 1) \div PageSize)
      BY <1>1 DEF Declared, Loaded
    <3> QED
      BY <1>3, <1>4, <1>5, <3>3, <3>4, StoreThere
  <2> QED
    BY <1>1, <1>7, <2>1 DEF Loaded, NoCall
<1> QED
  BY <1>8, <1>9, <1>10, <1>11 DEF Declared

LEMMA DeclaredHolds == Spec => []Declared
<1>1. Init => Declared
  <2> SUFFICES ASSUME Init PROVE Declared
    OBVIOUS
  <2>1. BuilderType
    <3>1. [a \in {} |-> <<>>] \in UNION {[S -> Seq(Labels)] : S \in SUBSET Entries}
      <4>1. [a \in {} |-> <<>>] \in [{} -> Seq(Labels)] /\ {} \in SUBSET Entries
        OBVIOUS
      <4> QED
        BY <4>1
    <3>2. [a \in {} |-> {}] \in UNION {[S -> SUBSET Marks] : S \in SUBSET Entries}
      <4>1. [a \in {} |-> {}] \in [{} -> SUBSET Marks] /\ {} \in SUBSET Entries
        OBVIOUS
      <4> QED
        BY <4>1
    <3>3. <<>> \in Seq(Regions) /\ <<>> \in Seq(Pages)
      OBVIOUS
    <3>4. NewBuilder \in
            [base : Nat, cbp : Nat, csp : Nat, ip : Nat, limit : Nat, queueSize : Nat, maxCopies : Nat,
             queue : Nat, copies : Nat, inputs : Seq(Regions), outputs : Seq(Regions), nextIn : Nat,
             labels : UNION {[S -> Seq(Labels)] : S \in SUBSET Entries},
             annos : UNION {[S -> SUBSET Marks] : S \in SUBSET Entries}, pages : Seq(Pages)]
      BY <3>1, <3>2, <3>3 DEF NewBuilder, DefaultQueueSize
    <3> QED
      BY <3>4 DEF Init, BuilderType
  <2>2. DOMAIN given = Opts /\ \A opt \in Opts : given[opt] = <<>>
    BY DEF Init
  <2>3. BTypeOK
    <3>1. ASSUME NEW opt \in Opts PROVE given[opt] \in Seq(Arg(opt))
      <4>1. \A S : <<>> \in Seq(S)
        OBVIOUS
      <4> QED
        BY <2>2, <4>1
    <3> QED
      BY <2>1, <2>2, <3>1 DEF Init, BTypeOK, NotRun
  <2>4. /\ LastArg("stackSize", 0) = 0 /\ LastArg("queueSize", DefaultQueueSize) = DefaultQueueSize
        /\ LastArg("maxCopies", 0) = 0 /\ given["entry"] = <<>> /\ given["input"] = <<>> /\ given["output"] = <<>>
        /\ given["addrLabels"] = <<>> /\ given["spanOpen"] = <<>> /\ given["spanClose"] = <<>>
    BY <2>2 DEF LastArg, Opts
  <2>5. /\ mb.base = 0 /\ mb.cbp = 0 /\ mb.csp = 0 /\ mb.ip = 0 /\ mb.queueSize = DefaultQueueSize
        /\ mb.maxCopies = 0 /\ mb.queue = 0 /\ mb.copies = 0 /\ mb.inputs = <<>> /\ mb.outputs = <<>>
        /\ mb.nextIn = 0 /\ mb.labels = [a \in {} |-> <<>>] /\ mb.annos = [a \in {} |-> {}] /\ mb.pages = <<>>
    BY DEF Init, NewBuilder
  <2>6. Placed
    <3>1. Len(ran.cs) = 0
      BY DEF Init, NotRun
    <3> QED
      BY <2>4, <2>5, <3>1 DEF Placed, Size
  <2>7. Entered /\ Taken /\ HandlerFits
    BY <2>4, <2>5 DEF Entered, Taken, HandlerFits
  <2>8. DebugKept
    <3>1. ASSUME NEW a PROVE AllLabelsOf(<<>>, a) = <<>>
      <4>1. <<>> \in Seq(Labelled) /\ Len(<<>>) = 0
        OBVIOUS
      <4>2. PICK f : f[0] = <<>> /\ AllLabelsOf(<<>>, a) = f[Len(<<>>)]
        BY <4>1, AllUnfolds
      <4> QED
        BY <4>1, <4>2
    <3>2. Range(<<>>) = {}
      BY DEF Range
    <3> QED
      BY <2>4, <2>5, <3>1, <3>2 DEF DebugKept, At
  <2>9. NotYet /\ Loaded
    BY <2>5 DEF Init, NotYet, Loaded, NoCall
  <2> QED
    BY <2>3, <2>6, <2>7, <2>8, <2>9 DEF Declared
<1>2. Declared /\ [Next]_vars => Declared'
  <2> SUFFICES ASSUME Declared, [Next]_vars PROVE Declared'
    OBVIOUS
  <2>1. CASE UNCHANGED vars
    <3>1. UNCHANGED <<use, mb, given, prog, calls, ran, pc>>
      BY <2>1 DEF vars
    <3>2. BTypeOK'
      BY <3>1 DEF Declared, BTypeOK, BuilderType, Arg
    <3>3. Placed' /\ NotYet' /\ Loaded' /\ DebugKept'
      BY <3>1 DEF Declared, Placed, NotYet, Loaded, NoCall, DebugKept, Size, LastArg, InProg
    <3>4. Entered' /\ Taken' /\ HandlerFits'
      BY <3>1 DEF Declared, Entered, Taken, HandlerFits, LastArg
    <3> QED
      BY <3>2, <3>3, <3>4 DEF Declared
  <2>2. CASE Next
    <3> USE <2>2 DEF Next
    <3>0. UNCHANGED use
      OBVIOUS
    <3>1. ASSUME NEW a \in use.sizes, Version(a) \/ StackSize(a) PROVE Declared'
      BY <3>0, <3>1, VersionTaken, StackSizeTaken
    <3>2. ASSUME NEW n \in Counts, QueueSize(n) \/ \E have \in BOOLEAN : MaxOps(have, n) \/ MaxCopies(have, n)
          PROVE  Declared'
      BY <3>0, <3>2, LimitTaken
    <3>3. ASSUME NEW a \in Entries, Entry(a) \/ SpanOpt("spanOpen", a) \/ SpanOpt("spanClose", a)
          PROVE  Declared'
      BY <3>0, <3>3, EntryTaken, MarkTaken DEF Marks
    <3>4. ASSUME NEW rg \in Regions, InputOpt(rg) \/ OutputOpt(rg) PROVE Declared'
      BY <3>0, <3>4, RegionTaken
    <3>5. ASSUME NEW pairs \in Labelled, AddrLabels(pairs) PROVE Declared'
      BY <3>0, <3>5, LabelsTaken
    <3>6. ASSUME NEW p \in use.progs, Load(p) PROVE Declared'
      BY <3>0, <3>6, LoadTaken
    <3>7. ASSUME NEW vals \in Vals, Input(vals) \/ \E name \in Names : NamedInput(name, vals) PROVE Declared'
      BY <3>0, <3>7, InputTaken, NamedTaken
    <3>8. ASSUME NEW err \in {"halt0", "halt1", "error"}, NEW cs \in Results, Run(err, cs) PROVE Declared'
      BY <3>0, <3>8, RunTaken
    <3>9. BadOption \/ Handler => Declared'
      BY <3>0, BadTaken, HandlerTaken
    <3> QED
      BY <3>1, <3>2, <3>3, <3>4, <3>5, <3>6, <3>7, <3>8, <3>9
  <2> QED
    BY <2>1, <2>2
<1> QED
  BY <1>1, <1>2, PTL DEF Spec

-----------------------------------------------------------------------------
(* A machine as the options declare it *)

\* A text of which no page is missing is read as it is.
LEMMA TextRead ==
  ASSUME NEW pgs \in Seq(Pages), NEW addr \in Nat, NEW text \in Seq(0 .. 255),
         \A m \in DOMAIN text :
           ~Missing(pgs, (addr + m - 1) \div PageSize) /\ MemByte(pgs, addr + m - 1) = text[m]
  PROVE  FetchBytes(pgs, addr, Buffer(Len(text))) = text
<1>1. PICK n \in Nat : n = Len(text) /\ DOMAIN text = 1 .. n
  OBVIOUS
<1>2. PICK got : got = FetchBytes(pgs, addr, Buffer(n))
  OBVIOUS
<1>3. Served(pgs, addr, n, 0, got)
  BY <1>2, BytesServed
<1>4. got \in Seq(0 .. 255) /\ Len(got) = n
  BY <1>3 DEF Served
<1>5. ASSUME NEW m \in 1 .. n PROVE got[m] = text[m]
  <2>1. PICK h \in 0 .. n - 1 : h = m - 1
    BY <1>1
  <2>2. ~Hole(pgs, addr, h)
    <3>1. CASE h = 0
      BY <3>1 DEF Hole
    <3>2. CASE h # 0
      <4>1. h \in DOMAIN text
        BY <1>1, <3>2
      <4> QED
        BY <4>1 DEF Hole, Gone
    <3> QED
      BY <3>1, <3>2
  <2>3. got[h - 0 + 1] = MemByte(pgs, addr + h)
    BY <1>3, <2>1, <2>2 DEF Served
  <2>4. h - 0 + 1 = m /\ addr + h = addr + m - 1
    BY <2>1
  <2> QED
    BY <1>1, <2>3, <2>4
<1>6. got = text
  BY <1>1, <1>4, <1>5
<1> QED
  BY <1>1, <1>2, <1>6

\* Where a machine starts: at the beginning of its program, or at its last entry, whatever
\* sizes of stack were given before the entry or after.
THEOREM StartsAsTold == Spec => []Started
<1>1. Declared => Started
  BY DEF Declared, Entered, Started
<1> QED
  BY <1>1, DeclaredHolds, PTL

\* The stacks are below the program, which is there in full; a handler has the limits that
\* were given, and addresses have their labels and marks: whichever option came first.
THEOREM IsAsDeclared == Spec => []AsDeclared
<1>1. Declared => AsDeclared
  <2> SUFFICES ASSUME Declared PROVE AsDeclared
    OBVIOUS
  <2>1. StackPlaced
    <3> SUFFICES ASSUME NoCall, Size > 0
                 PROVE  /\ mb.base = Size /\ mb.cbp = Size - 4 /\ mb.csp = Size - 4
                        /\ FetchBytes(mb.pages, Size, Buffer(Len(prog))) = prog
      BY DEF StackPlaced
    <3>1. mb.base = Size /\ mb.cbp = Size - 4 /\ mb.csp = mb.cbp - 4 * Len(ran.cs) /\ ran = NotRun
      BY DEF Declared, Placed, NoCall, NotYet
    <3>2. Len(ran.cs) = 0
      BY <3>1 DEF NotRun
    <3>3. mb.pages \in Seq(Pages) /\ mb.base \in Nat /\ mb.cbp \in Nat /\ prog \in Seq(0 .. 255)
      BY DEF Declared, BTypeOK, BuilderType
    <3>4. mb.csp = Size - 4
      BY <3>1, <3>2, <3>3
    <3>5. ASSUME NEW m \in DOMAIN prog
          PROVE  ~Missing(mb.pages, (mb.base + m - 1) \div PageSize) /\ MemByte(mb.pages, mb.base + m - 1) = prog[m]
      <4>1. m \in Nat /\ m >= 1
        BY <3>3
      <4>2. mb.base + m - 1 \in Nat /\ (mb.base + m - 1) - mb.base + 1 = m
        BY <3>3, <4>1
      <4>3. MemByte(mb.pages, mb.base + m - 1) = InProg(mb.base + m - 1)
        BY <4>2 DEF Declared, Loaded
      <4>4. ~Missing(mb.pages, (mb.base + m - 1) \div PageSize)
        BY DEF Declared, Loaded, NoCall
      <4> QED
        BY <4>2, <4>3, <4>4 DEF InProg
    <3>6. FetchBytes(mb.pages, mb.base, Buffer(Len(prog))) = prog
      BY <3>3, <3>5, TextRead
    <3> QED
      BY <3>1, <3>4, <3>6
  <2> QED
    BY <2>1 DEF Declared, AsDeclared
<1> QED
  BY <1>1, DeclaredHolds, PTL

-----------------------------------------------------------------------------
(* Where inputs land *)

\* What calls are about does not change while they do not.
LEMMA SameProgram ==
  ASSUME prog' = prog, mb'.base = mb.base
  PROVE  /\ \A a : InProg(a)' = InProg(a)
         /\ \A a : NameLen(a)' = NameLen(a)
         /\ \A name, a : ProgHas(name, a)' = ProgHas(name, a)
<1>1. \A a : InProg(a)' = InProg(a)
  BY DEF InProg
<1>2. \A a : NameLen(a)' = NameLen(a)
  BY <1>1 DEF NameLen
<1> QED
  BY <1>1, <1>2 DEF ProgHas

LEMMA SameCalls ==
  ASSUME prog' = prog, mb'.base = mb.base, mb'.cbp = mb.cbp, UNCHANGED <<given, calls>>
  PROVE  /\ \A k : Numbered(k)' = Numbered(k)
         /\ \A a : Stored(a)' = Stored(a)
         /\ AllServed' = AllServed
         /\ NamesKept' = NamesKept
<1>1. \A k : Numbered(k)' = Numbered(k)
  BY DEF Numbered
<1>2. /\ \A a : InProg(a)' = InProg(a)
      /\ \A a : NameLen(a)' = NameLen(a)
      /\ \A name, a : ProgHas(name, a)' = ProgHas(name, a)
  BY SameProgram
<1>3. \A k : Meant(k)' = Meant(k)
  BY <1>1, <1>2 DEF Meant
<1>4. RegionOf' = RegionOf
  BY <1>3 DEF RegionOf
<1>5. \A k, a : Covers(k, a)' = Covers(k, a)
  BY <1>4 DEF Covers
<1>6. ASSUME NEW a PROVE Stored(a)' = Stored(a)
  <2> DEFINE own == {k \in DOMAIN calls : Covers(k, a)}
             last == Max(own)
             stored == IF own = {} THEN InProg(a) ELSE Bytes(calls[last].vals)[a - RegionOf[last].from + 1]
  <2>1. Stored(a) = stored /\ Stored(a)' = stored'
    BY DEF Stored
  <2>2. own' = own
    BY <1>5
  <2>3. last' = last
    <3> HIDE DEF own
    <3> QED
      BY <2>2
  <2>4. stored' = stored
    <3> HIDE DEF own, last
    <3> QED
      BY <1>2, <1>4, <2>2, <2>3 DEF Bytes
  <2> HIDE DEF stored
  <2> QED
    BY <2>1, <2>4
<1>7. AllServed' = AllServed
  BY <1>3 DEF AllServed
<1>8. NamesSeen' = NamesSeen
  BY <1>2 DEF NamesSeen
<1>9. NamesStay' = NamesStay
  BY <1>2, <1>5 DEF NamesStay
<1> QED
  BY <1>1, <1>6, <1>7, <1>8, <1>9 DEF NamesKept

\* The calls before the last are about what they were about.
LEMMA OneMoreCall ==
  ASSUME prog' = prog, mb'.base = mb.base, given' = given, NEW T, calls \in Seq(T),
         NEW c \in T, calls' = Append(calls, c), NEW N, N = Len(calls) + 1
  PROVE  /\ \A k \in 0 .. Len(calls) : Numbered(k)' = Numbered(k)
         /\ \A k \in DOMAIN calls : Meant(k)' = Meant(k) /\ RegionOf'[k] = RegionOf[k]
         /\ \A k \in DOMAIN calls : \A a : Covers(k, a)' = Covers(k, a)
         /\ Numbered(N)' = (IF c.name = <<>> THEN Numbered(Len(calls)) + 1 ELSE Numbered(Len(calls)))
         /\ Numbered(Len(calls)) \in Nat
<1>1. PICK n \in Nat : n = Len(calls) /\ DOMAIN calls = 1 .. n /\ N = n + 1
  OBVIOUS
<1>2. DOMAIN calls' = 1 .. n + 1 /\ calls'[n + 1] = c /\ \A k \in 1 .. n : calls'[k] = calls[k]
  BY <1>1
<1> DEFINE P(k) == {j \in 1 .. k : calls[j].name = <<>>}
           Q(k) == {j \in 1 .. k : calls'[j].name = <<>>}
<1>3. \A k : Numbered(k) = Cardinality(P(k)) /\ Numbered(k)' = Cardinality(Q(k))
  BY DEF Numbered
<1>4. ASSUME NEW k \in 0 .. n PROVE Q(k) = P(k)
  BY <1>1, <1>2
<1>5. \A k \in 0 .. n : Numbered(k)' = Numbered(k)
  BY <1>3, <1>4
<1>6. IsFiniteSet(P(n)) /\ Numbered(n) \in Nat
  <2>1. IsFiniteSet(1 .. n)
    BY <1>1, FS_Interval
  <2>2. P(n) \in SUBSET (1 .. n)
    OBVIOUS
  <2>3. IsFiniteSet(P(n))
    BY <2>1, <2>2, FS_Subset
  <2> QED
    BY <1>3, <2>3, FS_CardinalityType
<1>7. Numbered(N)' = IF c.name = <<>> THEN Numbered(n) + 1 ELSE Numbered(n)
  <2>1. CASE c.name = <<>>
    <3>1. Q(N) = P(n) \cup {n + 1} /\ n + 1 \notin P(n)
      BY <1>1, <1>2, <2>1
    <3> HIDE DEF P, Q
    <3>2. Cardinality(P(n) \cup {n + 1}) = Cardinality(P(n)) + 1
      BY <1>6, <3>1, FS_AddElement
    <3> QED
      BY <1>3, <2>1, <3>1, <3>2
  <2>2. CASE c.name # <<>>
    <3>1. Q(N) = P(n)
      BY <1>1, <1>2, <2>2
    <3> QED
      BY <1>3, <2>2, <3>1
  <2> QED
    BY <2>1, <2>2
<1>8. \A name, a : ProgHas(name, a)' = ProgHas(name, a)
  BY SameProgram
<1>9. ASSUME NEW k \in 1 .. n PROVE Meant(k)' = Meant(k)
  <2>1. k \in 0 .. n
    OBVIOUS
  <2> QED
    BY <1>2, <1>5, <1>8, <2>1 DEF Meant
<1>10. ASSUME NEW k \in 1 .. n PROVE RegionOf'[k] = RegionOf[k]
  <2>1. k \in DOMAIN calls /\ k \in DOMAIN calls'
    BY <1>1, <1>2
  <2> QED
    BY <1>9, <2>1 DEF RegionOf
<1>11. ASSUME NEW k \in 1 .. n, NEW a PROVE Covers(k, a)' = Covers(k, a)
  BY <1>2, <1>10 DEF Covers
<1> QED
  BY <1>1, <1>5, <1>6, <1>7, <1>9, <1>10, <1>11

LEMMA GreatestNumber ==
  ASSUME NEW n \in Nat, NEW S \in SUBSET (1 .. n), S # {}
  PROVE  \E k \in S : \A i \in S : i <= k
<1> DEFINE R == {n - k : k \in S}
<1>1. R \in SUBSET Nat /\ R # {}
  <2>1. \A k \in S : n - k \in Nat
    OBVIOUS
  <2> QED
    BY <2>1
<1>2. PICK r \in R : \A m \in R : r <= m
  <2> HIDE DEF R
  <2> QED
    BY <1>1, LeastNumber
<1>3. PICK k \in S : r = n - k
  BY <1>2
<1>4. \A i \in S : n - k <= n - i
  BY <1>2, <1>3
<1> QED
  BY <1>4

\* After one more call, a byte is of that call or it is what it was.
LEMMA StoredThen ==
  ASSUME prog' = prog, mb'.base = mb.base, given' = given, NEW T, calls \in Seq(T),
         NEW c \in T, calls' = Append(calls, c), NEW N, N = Len(calls) + 1, NEW a
  PROVE  Stored(a)' = IF Covers(N, a)' THEN Bytes(c.vals)[a - RegionOf'[N].from + 1] ELSE Stored(a)
<1>1. PICK n \in Nat : n = Len(calls) /\ DOMAIN calls = 1 .. n /\ N = n + 1
  OBVIOUS
<1>2. DOMAIN calls' = 1 .. n + 1 /\ calls'[n + 1] = c /\ \A k \in 1 .. n : calls'[k] = calls[k]
  BY <1>1
<1>3. /\ \A k \in 1 .. n : RegionOf'[k] = RegionOf[k]
      /\ \A k \in 1 .. n : Covers(k, a)' = Covers(k, a)
  BY <1>1, OneMoreCall
<1>4. InProg(a)' = InProg(a)
  BY SameProgram
<1> DEFINE own == {k \in DOMAIN calls : Covers(k, a)}
           last == Max(own)
           stored == IF own = {} THEN InProg(a) ELSE Bytes(calls[last].vals)[a - RegionOf[last].from + 1]
<1>5. Stored(a) = stored /\ Stored(a)' = stored'
  BY DEF Stored
<1>6. CASE Covers(N, a)'
  <2>1. own' = own \cup {N}
    BY <1>1, <1>2, <1>3, <1>6
  <2>2. own \in SUBSET (1 .. n)
    BY <1>1
  <2>3. last' = N
    <3>1. last' = CHOOSE k \in own' : \A i \in own' : k >= i
      BY DEF Max
    <3> HIDE DEF last, own
    <3>2. N \in own' /\ \A i \in own' : i <= N
      BY <1>1, <2>1, <2>2
    <3>3. last' \in own' /\ \A i \in own' : i <= last'
      BY <3>1, <3>2
    <3>4. N <= last' /\ last' <= N /\ last' \in Nat
      BY <1>1, <2>1, <2>2, <3>2, <3>3
    <3> QED
      BY <1>1, <3>4
  <2>4. own' # {}
    BY <2>1
  <2>5. stored' = Bytes(calls'[last'].vals)[a - RegionOf'[last'].from + 1]
    <3> HIDE DEF own, last
    <3> QED
      BY <2>4 DEF Bytes
  <2> HIDE DEF own, last, stored
  <2>6. stored' = Bytes(c.vals)[a - RegionOf'[N].from + 1]
    BY <1>1, <1>2, <2>3, <2>5
  <2> QED
    BY <1>5, <1>6, <2>6
<1>7. CASE ~Covers(N, a)'
  <2>1. own' = own
    BY <1>1, <1>2, <1>3, <1>7
  <2>2. own \in SUBSET (1 .. n)
    BY <1>1
  <2>3. last' = last
    <3> HIDE DEF own
    <3> QED
      BY <2>1
  <2>4. CASE own = {}
    <3> HIDE DEF own, last
    <3> QED
      BY <1>4, <2>1, <2>4, <1>5, <1>7
  <2>5. CASE own # {}
    <3>1. last \in 1 .. n
      <4>1. last = CHOOSE k \in own : \A i \in own : k >= i
        BY DEF Max
      <4> HIDE DEF last, own
      <4>2. \E k \in own : \A i \in own : i <= k
        BY <1>1, <2>2, <2>5, GreatestNumber
      <4> QED
        BY <4>1, <4>2, <2>2
    <3> HIDE DEF own, last
    <3>2. calls'[last] = calls[last] /\ RegionOf'[last] = RegionOf[last]
      BY <1>2, <1>3, <3>1
    <3>3. stored' = Bytes(calls'[last'].vals)[a - RegionOf'[last'].from + 1]
      BY <2>1, <2>5 DEF Bytes
    <3>4. stored' = Bytes(calls[last].vals)[a - RegionOf[last].from + 1]
      BY <2>3, <3>2, <3>3
    <3> QED
      BY <1>5, <1>7, <2>5, <3>4
  <2> QED
    BY <2>4, <2>5
<1> QED
  BY <1>6, <1>7

LEMMA InProgType ==
  ASSUME Declared, NEW a \in Nat
  PROVE  InProg(a) \in 0 .. 255
BY DEF Declared, BTypeOK, InProg

\* Before a run, the memory is what the calls stored.
LEMMA StoredBefore ==
  ASSUME ran = NotRun, NEW a
  PROVE  Expected(a) = Stored(a)
<1>1. Reverse(ran.cs) = <<>>
  BY DEF NotRun, Reverse
<1>2. DOMAIN Bytes(<<>>) = {}
  BY DEF Bytes
<1> QED
  BY <1>1, <1>2 DEF Expected

\* A store is one write to the memory.
Writes(new, pgs, addr, text) ==
  \A a \in Nat : MemByte(new, a) = IF a - addr + 1 \in DOMAIN text THEN text[a - addr + 1] ELSE MemByte(pgs, a)

LEMMA StoreIs ==
  ASSUME NEW pgs \in Seq(Pages), NEW addr \in Nat, NEW text \in Seq(0 .. 255)
  PROVE  Writes(StoreBytes(pgs, addr, text), pgs, addr, text)
BY StoreWrites DEF Writes

\* A name that nothing was stored into is read as it is in the program.
LEMMA NameRead ==
  ASSUME Declared, Landed, pc = "calls", NamesKept,
         NEW i \in DOMAIN given["input"], given["input"][i].name # NoName, NEW name \in Names
  PROVE  LET a == given["input"][i].name IN
         (MayBe(name, a) <=> ProgHas(name, a)) /\ (MayDiffer(name, a) <=> ~ProgHas(name, a))
<1> DEFINE rg == given["input"][i]
<1>1. PICK a \in Nat : a = rg.name
  <2>1. given["input"] \in Seq(Regions)
    BY DEF Declared, BTypeOK, Opts, Arg
  <2>2. rg \in Regions
    BY <2>1
  <2> QED
    BY <2>2, OptionsAssumption
<1>2. /\ mb.base <= a /\ a + 4 + NameLen(a) <= mb.base + Len(prog)
      /\ Whole(a) /\ ~Misaligned(mb.cbp, a)
  BY <1>1 DEF NamesKept, NamesSeen
<1>3. /\ mb.base \in Nat /\ mb.pages \in Seq(Pages) /\ prog \in Seq(0 .. 255) /\ ran = NotRun
      /\ name \in Seq(0 .. 255)
  BY CallsAssumption DEF Declared, BTypeOK, BuilderType, NotYet
<1>4. PICK L \in Nat : L = NameLen(a)
  <2>1. \A k \in 1 .. 4 : InProg(a + k - 1) \in 0 .. 255
    <3>1. \A k \in 1 .. 4 : a + k - 1 \in Nat
      BY <1>1
    <3> QED
      BY <3>1, InProgType
  <2>2. \A k \in 1 .. 4 : [j \in 1 .. 4 |-> InProg(a + j - 1)][k] \in 0 .. 255
    BY <2>1
  <2>3. PICK w : w = [j \in 1 .. 4 |-> InProg(a + j - 1)] /\ \A k \in 1 .. 4 : w[k] \in 0 .. 255
    BY <2>2
  <2>4. Number(w) \in Nat
    <3>1. w[1] \in Nat /\ w[2] \in Nat /\ w[3] \in Nat
      BY <2>3
    <3> QED
      BY <3>1 DEF Number
  <2> QED
    BY <2>3, <2>4 DEF NameLen
<1>5. ASSUME NEW x \in 0 .. 3 + L PROVE MemByte(mb.pages, a + x) = InProg(a + x)
  <2>1. a + x \in Nat
    BY <1>1, <1>4
  <2>2. \A k \in DOMAIN calls : ~Covers(k, a + x)
    BY <1>1, <1>4 DEF NamesKept, NamesStay
  <2>3. {k \in DOMAIN calls : Covers(k, a + x)} = {}
    BY <2>2
  <2>4. Stored(a + x) = InProg(a + x)
    BY <2>3 DEF Stored
  <2>5. MemByte(mb.pages, a + x) = Expected(a + x)
    BY <2>1 DEF Landed
  <2> QED
    BY <1>3, <2>4, <2>5, StoredBefore
<1>6. Fetch(mb.pages, mb.cbp, a) = {WordIn(mb.pages, a)}
  BY <1>2, <1>3, WordServed
<1>7. Number(WordIn(mb.pages, a)) = L
  <2>1. ASSUME NEW k \in 1 .. 4 PROVE MemByte(mb.pages, a + k - 1) = InProg(a + k - 1)
    <3>1. k - 1 \in 0 .. 3 + L /\ a + (k - 1) = a + k - 1
      BY <1>1, <1>4
    <3> QED
      BY <1>5, <3>1
  <2>2. WordIn(mb.pages, a) = [k \in 1 .. 4 |-> InProg(a + k - 1)]
    BY <2>1 DEF WordIn
  <2> QED
    BY <1>4, <2>2 DEF NameLen
<1>8. PICK text : text = [m \in 1 .. L |-> InProg(a + 3 + m)]
  OBVIOUS
<1>9. text \in Seq(0 .. 255) /\ Len(text) = L /\ DOMAIN text = 1 .. L
  <2>1. ASSUME NEW m \in 1 .. L PROVE InProg(a + 3 + m) \in 0 .. 255
    <3>1. a + 3 + m \in Nat
      BY <1>1
    <3> QED
      BY <3>1, InProgType
  <2> QED
    BY <1>8, <2>1
<1>10. FetchBytes(mb.pages, a + 4, Buffer(L)) = text
  <2>1. ASSUME NEW m \in 1 .. L
        PROVE  /\ ~Missing(mb.pages, (a + 4 + m - 1) \div PageSize)
               /\ MemByte(mb.pages, a + 4 + m - 1) = text[m]
    <3>1. 3 + m \in 0 .. 3 + L /\ a + (3 + m) = a + 3 + m /\ a + 4 + m - 1 = a + 3 + m
      BY <1>1
    <3>2. PICK q \in DOMAIN prog : q = a + 4 + m - mb.base
      <4>1. PICK e \in Nat : e = Len(prog) /\ DOMAIN prog = 1 .. e
        BY <1>3
      <4>2. a + 4 + m - mb.base \in 1 .. e
        BY <1>2, <1>3, <1>4, <4>1
      <4> QED
        BY <4>1, <4>2
    <3>3. mb.base + q - 1 = a + 4 + m - 1
      <4>1. mb.base \in Nat
        BY <1>3
      <4>2. PICK b \in Nat, p \in Int : b = mb.base /\ p = a + 4 + m - b /\ q = p
        BY <4>1, <3>2
      <4>3. b + p - 1 = a + 4 + m - 1
        BY <4>2
      <4> QED
        BY <4>2, <4>3
    <3>4. ~Missing(mb.pages, (mb.base + q - 1) \div PageSize)
      BY DEF Declared, Loaded
    <3>5. MemByte(mb.pages, a + (3 + m)) = InProg(a + (3 + m))
      BY <1>5, <3>1
    <3> QED
      BY <1>8, <3>1, <3>3, <3>4, <3>5
  <2>2. a + 4 \in Nat
    BY <1>1
  <2>3. FetchBytes(mb.pages, a + 4, Buffer(Len(text))) = text
    BY Zenon, <1>3, <1>9, <2>1, <2>2, TextRead
  <2> QED
    BY <1>9, <2>3
<1>11. Len(name) = L => (text = name <=> \A k \in DOMAIN name : InProg(a + 3 + k) = name[k])
  <2> SUFFICES ASSUME Len(name) = L
               PROVE  text = name <=> \A k \in DOMAIN name : InProg(a + 3 + k) = name[k]
    OBVIOUS
  <2>1. DOMAIN name = 1 .. L
    BY <1>3
  <2>2. text = name <=> \A k \in 1 .. L : text[k] = name[k]
    BY <1>3, <1>9
  <2>3. \A k \in 1 .. L : text[k] = InProg(a + 3 + k)
    BY <1>8
  <2> QED
    BY <2>1, <2>2, <2>3
<1>12. ProgHas(name, a) <=> (L = Len(name) /\ text = name)
  BY <1>4, <1>11 DEF ProgHas
<1>13. MayBe(name, a) <=> (L = Len(name) /\ text = name)
  BY <1>6, <1>7, <1>10 DEF MayBe
<1>14. MayDiffer(name, a) <=> ~(L = Len(name) /\ text = name)
  BY <1>2, <1>6, <1>7, <1>10 DEF MayDiffer
<1> QED
  BY <1>1, <1>12, <1>13, <1>14

\* An input that is stored in the region that it is about.
LEMMA LandsThere ==
  ASSUME Declared, Landed, pc = "calls", pc' = "calls", UNCHANGED <<given, prog, ran>>,
         mb'.base = mb.base, mb'.cbp = mb.cbp,
         NEW c \in [name : {<<>>} \cup Names, vals : Vals], calls' = Append(calls, c), NEW N, N = Len(calls) + 1,
         NEW k \in DOMAIN given["input"],
         mb'.pages = StoreBytes(mb.pages, given["input"][k].from, Bytes(c.vals)),
         mb'.nextIn = Numbered(N)', NamesKept' /\ NamesKept => k \in Meant(N)' /\ k = Min(Meant(N)')
  PROVE  Landed'
<1>1. PICK n \in Nat : n = Len(calls) /\ DOMAIN calls = 1 .. n /\ N = n + 1
  BY DEF Declared, BTypeOK
<1>2. calls \in Seq([name : {<<>>} \cup Names, vals : Vals])
  BY DEF Declared, BTypeOK
<1>3. Len(calls') = N /\ DOMAIN calls' = 1 .. N /\ calls'[N] = c /\ \A j \in 1 .. n : calls'[j] = calls[j]
  BY <1>1, <1>2
<1>4. /\ \A j \in 1 .. n : Meant(j)' = Meant(j)
      /\ \A j \in 1 .. n : \A a : Covers(j, a)' = Covers(j, a)
  BY <1>1, <1>2, OneMoreCall
<1>5. /\ \A a : NameLen(a)' = NameLen(a)
  BY SameProgram
<1>6. SUFFICES ASSUME NamesKept' PROVE AllServed' /\ \A a \in Nat : MemByte(mb'.pages, a) = Expected(a)'
  BY <1>3 DEF Landed
<1>7. NamesKept
  <2>1. NamesSeen
    BY <1>5, <1>6 DEF NamesKept, NamesSeen
  <2>2. NamesStay
    <3> SUFFICES ASSUME NEW i \in DOMAIN given["input"], given["input"][i].name # NoName,
                        NEW j \in DOMAIN calls, NEW x \in 0 .. 3 + NameLen(given["input"][i].name)
                 PROVE  ~Covers(j, given["input"][i].name + x)
      BY DEF NamesStay
    <3>1. j \in DOMAIN calls' /\ x \in 0 .. 3 + NameLen(given["input"][i].name)'
      BY <1>1, <1>3, <1>5
    <3>2. ~Covers(j, given["input"][i].name + x)'
      BY <1>6, <3>1 DEF NamesKept, NamesStay
    <3> QED
      BY <1>1, <1>4, <3>2
  <2> QED
    BY <2>1, <2>2 DEF NamesKept
<1>8. k \in Meant(N)' /\ k = Min(Meant(N)')
  BY <1>6, <1>7
<1>9. AllServed /\ \A a \in Nat : MemByte(mb.pages, a) = Expected(a)
  BY <1>7 DEF Landed
<1>10. AllServed'
  BY <1>1, <1>3, <1>4, <1>8, <1>9 DEF AllServed
<1>11. RegionOf'[N] = given["input"][k]
  <2>1. N \in DOMAIN calls'
    BY <1>1, <1>3
  <2> QED
    BY <1>8, <2>1 DEF RegionOf
<1>12. ASSUME NEW a \in Nat PROVE MemByte(mb'.pages, a) = Expected(a)'
  <2> DEFINE from == given["input"][k].from
  <2>1. mb.pages \in Seq(Pages) /\ from \in Nat /\ Bytes(c.vals) \in Seq(0 .. 255) /\ ran = NotRun
    <3>1. given["input"] \in Seq(Regions)
      BY DEF Declared, BTypeOK, Opts, Arg
    <3>2. given["input"][k] \in Regions
      BY <3>1
    <3>3. c.vals \in Seq(Word)
      BY CallsAssumption
    <3> QED
      BY <3>2, <3>3, OptionsAssumption, BytesType DEF Declared, BTypeOK, BuilderType, NotYet
  <2>2. MemByte(mb'.pages, a) =
          IF a - from + 1 \in DOMAIN Bytes(c.vals) THEN Bytes(c.vals)[a - from + 1] ELSE MemByte(mb.pages, a)
    <3>1. mb'.pages = StoreBytes(mb.pages, from, Bytes(c.vals))
      OBVIOUS
    <3> HIDE DEF from
    <3>2. Writes(StoreBytes(mb.pages, from, Bytes(c.vals)), mb.pages, from, Bytes(c.vals))
      BY Zenon, <2>1, StoreIs
    <3> QED
      BY <3>1, <3>2 DEF Writes
  <2>3. Covers(N, a)' <=> a - from + 1 \in DOMAIN Bytes(c.vals)
    BY <1>3, <1>11 DEF Covers, Bytes
  <2>4. Stored(a)' = IF Covers(N, a)' THEN Bytes(c.vals)[a - RegionOf'[N].from + 1] ELSE Stored(a)
    BY <1>2, StoredThen
  <2>5. Expected(a) = Stored(a) /\ Expected(a)' = Stored(a)'
    <3>1. Expected(a) = Stored(a)
      BY <2>1, StoredBefore
    <3>2. Reverse(ran'.cs) = <<>>
      BY <2>1 DEF NotRun, Reverse
    <3>3. DOMAIN Bytes(<<>>) = {}
      BY DEF Bytes
    <3>4. Expected(a)' = Stored(a)'
      BY <3>2, <3>3 DEF Expected
    <3> QED
      BY <3>1, <3>4
  <2> QED
    BY <1>9, <1>11, <2>2, <2>3, <2>4, <2>5
<1> QED
  BY <1>10, <1>12

\* The next input is stored in the next region.
LEMMA InputLands ==
  ASSUME Declared, Landed, NEW vals \in Vals, Input(vals)
  PROVE  Landed'
<1> DEFINE c == [name |-> <<>>, vals |-> vals]
<1>0. PICK k \in Nat, N \in Nat : k = mb.nextIn + 1 /\ N = Len(calls) + 1
  BY DEF Declared, BTypeOK, BuilderType
<1>1. SUFFICES ASSUME pc' # "failed" PROVE Landed'
  BY DEF Landed
<1>2. /\ BuilderType /\ calls \in Seq([name : {<<>>} \cup Names, vals : Vals]) /\ mb.inputs = given["input"]
      /\ pc = "calls"
  BY DEF Declared, BTypeOK, Taken, Input, Calls
<1>3. /\ UNCHANGED <<given, prog, ran>> /\ calls' = Append(calls, c) /\ pc' = "calls"
      /\ k <= Len(mb.inputs) /\ mb' = Put([mb EXCEPT !.nextIn = k], mb.inputs[k], vals)
  BY <1>0, <1>1, <1>2 DEF Input, Calls
<1>4. c \in [name : {<<>>} \cup Names, vals : Vals] /\ c.vals = vals /\ c.name = <<>>
  OBVIOUS
<1>5. /\ mb'.base = mb.base /\ mb'.cbp = mb.cbp /\ mb'.nextIn = k
      /\ mb'.pages = StoreBytes(mb.pages, mb.inputs[k].from, Bytes(vals))
  BY <1>2, <1>3 DEF BuilderType, Put
<1>6. mb.nextIn = Numbered(Len(calls)) /\ mb.nextIn \in Nat
  BY <1>2 DEF Landed, BuilderType
<1>7. Numbered(N)' = k
  <2>1. Numbered(N)' = IF c.name = <<>> THEN Numbered(Len(calls)) + 1 ELSE Numbered(Len(calls))
    <3> HIDE DEF c
    <3> QED
      BY <1>0, <1>2, <1>3, <1>4, <1>5, OneMoreCall
  <2> QED
    BY <1>0, <1>4, <1>6, <2>1
<1>8. k \in DOMAIN given["input"]
  <2>1. mb.inputs \in Seq(Regions)
    BY <1>2 DEF BuilderType
  <2> QED
    BY <1>0, <1>2, <1>3, <1>6, <2>1
<1>9. Meant(N)' = {k}
  <2>1. calls'[N].name = <<>>
    BY <1>0, <1>2, <1>3
  <2> QED
    BY <1>3, <1>7, <1>8, <2>1 DEF Meant
<1>10. Min({k}) = k
  BY DEF Min
<1> HIDE DEF c
<1> QED
  BY <1>0, <1>2, <1>3, <1>4, <1>5, <1>7, <1>8, <1>9, <1>10, LandsThere

\* A named input is stored in the first region of its name.
LEMMA NamedLands ==
  ASSUME Declared, Landed, NEW name \in Names, NEW vals \in Vals, NamedInput(name, vals)
  PROVE  Landed'
<1> DEFINE c == [name |-> name, vals |-> vals]
           Not(j) == mb.inputs[j].name = NoName \/ MayDiffer(name, mb.inputs[j].name)
<1>0. PICK N \in Nat, rgs \in Seq(Regions) : N = Len(calls) + 1 /\ rgs = given["input"]
  BY DEF Declared, BTypeOK, Opts, Arg
<1>1. SUFFICES ASSUME pc' # "failed" PROVE Landed'
  BY DEF Landed
<1>2. /\ BuilderType /\ calls \in Seq([name : {<<>>} \cup Names, vals : Vals]) /\ mb.inputs = rgs
      /\ pc = "calls"
  BY <1>0 DEF Declared, BTypeOK, Taken, NamedInput, Calls
<1>3. PICK k \in 1 .. Len(mb.inputs) :
        /\ mb.inputs[k].name # NoName /\ MayBe(name, mb.inputs[k].name)
        /\ \A j \in 1 .. k - 1 : Not(j)
        /\ mb' = Put(mb, mb.inputs[k], vals) /\ pc' = "calls"
  BY <1>1, <1>2 DEF NamedInput
<1>4. UNCHANGED <<given, prog, ran>> /\ calls' = Append(calls, c)
  BY DEF NamedInput, Calls
<1>5. c \in [name : {<<>>} \cup Names, vals : Vals] /\ c.vals = vals /\ c.name = name /\ name # <<>>
  BY CallsAssumption
<1>6. /\ mb'.base = mb.base /\ mb'.cbp = mb.cbp /\ mb'.nextIn = mb.nextIn
      /\ mb'.pages = StoreBytes(mb.pages, mb.inputs[k].from, Bytes(vals))
  BY <1>2, <1>3 DEF BuilderType, Put
<1>7. Numbered(N)' = mb'.nextIn
  <2>1. Numbered(N)' = IF c.name = <<>> THEN Numbered(Len(calls)) + 1 ELSE Numbered(Len(calls))
    <3> HIDE DEF c
    <3> QED
      BY <1>0, <1>2, <1>4, <1>5, <1>6, OneMoreCall
  <2>2. mb.nextIn = Numbered(Len(calls))
    BY <1>2 DEF Landed
  <2> QED
    BY <1>5, <1>6, <2>1, <2>2
<1>8. k \in DOMAIN rgs /\ DOMAIN rgs = 1 .. Len(rgs) /\ Len(rgs) \in Nat
  BY <1>0, <1>2, <1>3
<1>9. ASSUME NamesKept PROVE k \in Meant(N)' /\ k = Min(Meant(N)')
  <2>1. calls'[N].name = name
    BY <1>0, <1>2, <1>4
  <2>2. \A a : ProgHas(name, a)' = ProgHas(name, a)
    BY <1>4, <1>6, SameProgram
  <2>3. Meant(N)' = {i \in DOMAIN rgs : rgs[i].name # NoName /\ ProgHas(name, rgs[i].name)}
    BY <1>0, <1>4, <1>5, <2>1, <2>2 DEF Meant
  <2>4. \A i \in DOMAIN rgs :
          rgs[i].name # NoName =>
            /\ MayBe(name, rgs[i].name) <=> ProgHas(name, rgs[i].name)
            /\ MayDiffer(name, rgs[i].name) <=> ~ProgHas(name, rgs[i].name)
    BY <1>0, <1>2, <1>9, NameRead
  <2>5. k \in Meant(N)'
    BY <1>2, <1>3, <1>8, <2>3, <2>4
  <2>6. ASSUME NEW i \in Meant(N)' PROVE k <= i
    <3>1. i \in DOMAIN rgs /\ rgs[i].name # NoName /\ ProgHas(name, rgs[i].name)
      BY <2>3, <2>6
    <3>2. ~Not(i)
      BY <1>2, <2>4, <3>1
    <3> HIDE DEF Not
    <3>3. i \notin 1 .. k - 1
      BY <1>3, <3>2
    <3> QED
      BY <1>8, <3>1, <3>3
  <2>7. Meant(N)' \subseteq Nat
    BY <1>8, <2>3
  <2>8. ASSUME NEW S, S = Meant(N)' PROVE k = Min(S)
    <3>1. k \in S /\ S \subseteq Nat /\ \A i \in S : k <= i
      BY <2>5, <2>6, <2>7, <2>8
    <3>2. PICK m : m = Min(S)
      OBVIOUS
    <3>3. m \in S /\ \A i \in S : m <= i
      BY <3>1, <3>2 DEF Min
    <3>4. k <= m /\ m <= k /\ k \in Nat /\ m \in Nat
      BY <3>1, <3>3
    <3> QED
      BY <3>2, <3>4
  <2> QED
    BY <2>5, <2>8
<1> HIDE DEF c
<1> QED
  BY <1>0, <1>2, <1>3, <1>4, <1>5, <1>6, <1>7, <1>8, <1>9, LandsThere

\* A run leaves its stack above what there was.
LEMMA RunLands ==
  ASSUME Declared, Landed, NEW err, NEW cs \in Results, Run(err, cs)
  PROVE  Landed'
<1>1. /\ BuilderType /\ UNCHANGED <<given, prog, calls>> /\ pc = "calls" /\ pc' = "ran" /\ ran = NotRun
      /\ ran' = [err |-> err, cs |-> cs] /\ 4 * Len(cs) <= mb.cbp
  BY DEF Declared, BTypeOK, NotYet, Run
<1>2. cs \in Seq(Word) /\ Len(cs) \in Nat
  BY CallsAssumption
<1>3. PICK text \in Seq(0 .. 255) : text = Bytes(Reverse(cs))
  <2>1. Bytes(Reverse(cs)) \in Seq(0 .. 255)
    BY <1>2, ReverseType, BytesType
  <2> QED
    BY <2>1
<1>4. mb.pages \in Seq(Pages) /\ mb.cbp \in Nat /\ mb.nextIn \in Nat
  BY <1>1 DEF BuilderType
<1>5. PICK addr \in Nat : addr = mb.cbp - 4 * Len(cs) + 4
  BY <1>1, <1>2, <1>4
<1>6. /\ mb'.base = mb.base /\ mb'.cbp = mb.cbp /\ mb'.nextIn = mb.nextIn /\ mb'.csp = mb.cbp - 4 * Len(cs)
      /\ mb'.pages = IF cs = <<>> THEN mb.pages ELSE StoreBytes(mb.pages, addr, text)
  BY <1>1, <1>3, <1>5 DEF BuilderType, Run
<1>7. /\ \A k : Numbered(k)' = Numbered(k)
      /\ \A a : Stored(a)' = Stored(a)
      /\ AllServed' = AllServed
      /\ NamesKept' = NamesKept
  BY <1>1, <1>6, SameCalls
<1>8. SUFFICES ASSUME NamesKept', NEW a \in Nat PROVE MemByte(mb'.pages, a) = Expected(a)'
  BY <1>1, <1>6, <1>7 DEF Landed
<1>9. MemByte(mb.pages, a) = Stored(a)
  BY <1>1, <1>7, <1>8, StoredBefore DEF Landed
<1>10. Expected(a)' = IF a - addr + 1 \in DOMAIN text THEN text[a - addr + 1] ELSE Stored(a)
  <2>1. a - mb'.csp - 3 = a - addr + 1
    BY <1>2, <1>4, <1>5, <1>6
  <2>2. ran'.cs = cs
    BY <1>1
  <2> QED
    BY <1>3, <1>7, <2>1, <2>2 DEF Expected
<1>11. CASE cs = <<>>
  <2>1. Reverse(cs) = <<>>
    BY <1>11 DEF Reverse
  <2>2. DOMAIN text = {}
    BY <1>3, <2>1 DEF Bytes
  <2> QED
    BY <1>6, <1>9, <1>10, <1>11, <2>2
<1>12. CASE cs # <<>>
  <2>1. Writes(StoreBytes(mb.pages, addr, text), mb.pages, addr, text)
    BY Zenon, <1>4, StoreIs
  <2>2. MemByte(mb'.pages, a) = IF a - addr + 1 \in DOMAIN text THEN text[a - addr + 1] ELSE MemByte(mb.pages, a)
    BY <1>6, <1>12, <2>1 DEF Writes
  <2> QED
    BY <1>9, <1>10, <2>2
<1> QED
  BY <1>11, <1>12

\* The program is all that there is at first.
LEMMA LoadLands ==
  ASSUME Declared, Declared', NEW p, Load(p)
  PROVE  Landed'
<1>1. calls' = <<>> /\ pc' = "calls" /\ mb'.nextIn = 0 /\ ran' = NotRun
  BY DEF Declared, NotYet, Load, BTypeOK, BuilderType
<1>2. Numbered(0)' = 0
  <2>1. {j \in 1 .. 0 : calls'[j].name = <<>>} = {}
    OBVIOUS
  <2> QED
    BY <2>1, FS_EmptySet DEF Numbered
<1>3. Len(calls') = 0 /\ DOMAIN calls' = {}
  BY <1>1
<1>4. ASSUME NEW a \in Nat PROVE MemByte(mb'.pages, a) = Expected(a)'
  <2>1. MemByte(mb'.pages, a) = InProg(a)'
    BY <1>1 DEF Declared, Loaded, NoCall
  <2>2. Stored(a)' = InProg(a)'
    BY <1>3 DEF Stored
  <2>3. Expected(a)' = Stored(a)'
    <3>1. Reverse(ran'.cs) = <<>>
      BY <1>1 DEF NotRun, Reverse
    <3>2. DOMAIN Bytes(<<>>) = {}
      BY DEF Bytes
    <3> QED
      BY <3>1, <3>2 DEF Expected
  <2> QED
    BY <2>1, <2>2, <2>3
<1>5. AllServed'
  BY <1>3 DEF AllServed
<1>6. Numbered(Len(calls))' = 0
  BY <1>2, <1>3 DEF Numbered
<1> QED
  BY <1>1, <1>4, <1>5, <1>6 DEF Landed

\* What changes neither calls nor the memory.
LEMMA StaysLanded ==
  ASSUME Landed, pc' = pc, UNCHANGED <<given, prog, calls, ran>>, mb'.base = mb.base, mb'.cbp = mb.cbp,
         mb'.csp = mb.csp, mb'.nextIn = mb.nextIn, mb'.pages = mb.pages
  PROVE  Landed'
<1>1. /\ \A k : Numbered(k)' = Numbered(k)
      /\ \A a : Stored(a)' = Stored(a)
      /\ AllServed' = AllServed
      /\ NamesKept' = NamesKept
  BY SameCalls
<1>2. ASSUME NEW a PROVE Expected(a)' = Expected(a)
  BY <1>1 DEF Expected
<1> QED
  BY <1>1, <1>2 DEF Landed

LEMMA LandedHolds == Spec => [](Declared /\ Landed)
<1>1. Init => Landed
  BY DEF Init, Landed
<1>2. Declared /\ Declared' /\ Landed /\ [Next]_vars => Landed'
  <2> SUFFICES ASSUME Declared, Declared', Landed, [Next]_vars PROVE Landed'
    OBVIOUS
  <2>1. CASE UNCHANGED vars
    BY <2>1, StaysLanded DEF vars
  <2>2. CASE Next
    <3>1. ASSUME pc' = "opts" \/ pc' = "failed" PROVE Landed'
      BY <3>1 DEF Landed
    <3>2. ASSUME NEW p, Load(p) PROVE Landed'
      BY <3>2, LoadLands
    <3>3. ASSUME Handler PROVE Landed'
      <4>1. /\ mb'.base = mb.base /\ mb'.cbp = mb.cbp /\ mb'.csp = mb.csp /\ mb'.nextIn = mb.nextIn
            /\ mb'.pages = mb.pages /\ pc' = pc /\ UNCHANGED <<given, prog, calls, ran>>
        BY <3>3 DEF Handler, Declared, BTypeOK, BuilderType
      <4> QED
        BY <4>1, StaysLanded
    <3>4. ASSUME NEW vals \in Vals, Input(vals) \/ \E name \in Names : NamedInput(name, vals) PROVE Landed'
      BY <3>4, InputLands, NamedLands
    <3>5. ASSUME NEW err, NEW cs \in Results, Run(err, cs) PROVE Landed'
      BY <3>5, RunLands
    <3>6. \/ \E p : Load(p)
          \/ Handler
          \/ \E vals \in Vals : Input(vals) \/ \E name \in Names : NamedInput(name, vals)
          \/ \E err, cs : cs \in Results /\ Run(err, cs)
          \/ pc' \in {"opts", "failed"}
      BY <2>2 DEF Next, Version, StackSize, QueueSize, MaxOps, MaxCopies, Entry, SpanOpt, InputOpt, OutputOpt,
                  AddrLabels, Reads, BadOption
    <3> QED
      BY <3>1, <3>2, <3>3, <3>4, <3>5, <3>6
  <2> QED
    BY <2>1, <2>2
<1> QED
  BY <1>1, <1>2, DeclaredHolds, PTL DEF Spec

\* Where names stay as they are in the program, every input that is accepted has its region, and
\* the memory is the program, overwritten by the inputs in the order of their calls and by nothing else.
THEOREM InputsLandThere == Spec => [](NamesKept => InputsLand)
<1>1. Declared /\ Landed => (NamesKept => InputsLand)
  <2> SUFFICES ASSUME Declared, Landed, NamesKept, pc = "calls"
               PROVE  AllServed /\ \A a \in 0 .. Len(mb.pages) * PageSize : MemByte(mb.pages, a) = Expected(a)
    BY DEF InputsLand
  <2>1. AllServed /\ \A a \in Nat : MemByte(mb.pages, a) = Expected(a)
    BY DEF Landed
  <2>2. Len(mb.pages) * PageSize \in Nat
    <3>1. mb.pages \in Seq(Pages)
      BY DEF Declared, BTypeOK, BuilderType
    <3>2. Len(mb.pages) \in Nat
      BY <3>1
    <3> QED
      BY <3>2, PageAssumption
  <2> QED
    BY <2>1, <2>2
<1> QED
  BY <1>1, LandedHolds, PTL

-----------------------------------------------------------------------------
(* What a machine has for its outputs *)

LEMMA AddrsType ==
  ASSUME NEW from \in Nat, NEW to \in Nat
  PROVE  \E N \in Nat : /\ Len(Addrs(from, to)) = N /\ DOMAIN Addrs(from, to) = 1 .. N
                        /\ \A i \in 1 .. N : Addrs(from, to)[i] \in Nat
<1> DEFINE up == IF from <= to THEN 1 ELSE -1
           d == IF from <= to THEN to - from ELSE from - to
<1>1. PICK n \in Nat : n = (d + 3) \div 4
  OBVIOUS
<1>2. Addrs(from, to) = [k \in 1 .. n |-> from + up * 4 * (k - 1)]
  BY <1>1 DEF Addrs
<1>3. ASSUME NEW k \in 1 .. n PROVE from + up * 4 * (k - 1) \in Nat
  <2>1. 4 * (n - 1) < d
    BY <1>1
  <2>2. CASE from <= to
    BY <2>2
  <2>3. CASE ~(from <= to)
    <3>1. 4 * (k - 1) < from - to
      BY <2>1, <2>3
    <3> QED
      BY <2>3, <3>1
  <2> QED
    BY <2>2, <2>3
<1>4. Len(Addrs(from, to)) = n /\ DOMAIN Addrs(from, to) = 1 .. n
  BY <1>2
<1> QED
  BY <1>2, <1>3, <1>4

\* A word at a multiple of its size is in one page.
LEMMA AlignedWhole ==
  ASSUME NEW a \in Nat, a % 4 = 0
  PROVE  Whole(a) /\ \A cbp : ~Misaligned(cbp, a)
<1>1. PICK p \in Nat : PageSize = 4 * p
  <2>1. PageSize \div 4 \in Nat /\ PageSize = 4 * (PageSize \div 4)
    BY PageAssumption
  <2> QED
    BY <2>1
<1>2. PICK q \in Nat, r \in 0 .. PageSize - 1 : r = a % PageSize /\ a = q * PageSize + r
  BY Split
<1>3. PICK z \in Nat : z = q * p
  OBVIOUS
<1>4. q * PageSize = 4 * z
  BY <1>1, <1>3
<1>5. r % 4 = 0
  BY <1>2, <1>4
<1>6. r <= PageSize - 4
  BY <1>1, <1>5
<1> QED
  BY <1>2, <1>6 DEF Whole, Misaligned

\* A word of a text, from its place on.
LEMMA BytesAt ==
  ASSUME NEW vals \in Seq(Word), NEW m \in 1 .. Len(vals), NEW j \in 1 .. 4
  PROVE  4 * (m - 1) + j \in DOMAIN Bytes(vals) /\ Bytes(vals)[4 * (m - 1) + j] = vals[m][j]
<1>1. PICK n \in Nat : n = Len(vals)
  OBVIOUS
<1>2. PICK i \in 1 .. 4 * n : i = 4 * (m - 1) + j
  BY <1>1
<1>3. (i + 3) \div 4 = m /\ ((i + 3) % 4) + 1 = j
  BY <1>2
<1> QED
  BY <1>1, <1>2, <1>3 DEF Bytes

\* The control stack is read back as the run left it.
LEMMA StackRead ==
  ASSUME Declared, Landed, NamesKept, pc = "ran"
  PROVE  FetchMany(mb.pages, mb.cbp, mb.cbp, mb.csp) = {ran.cs}
<1>1. PICK cs \in Seq(Word) : cs = ran.cs
  <2>1. ran.cs \in {<<>>} \cup Results /\ <<>> \in Seq(Word)
    BY DEF Declared, BTypeOK
  <2> QED
    BY <2>1, CallsAssumption
<1>2. PICK n \in Nat : n = Len(cs)
  OBVIOUS
<1>3. PICK csp \in Nat, cbp \in Nat : csp = mb.csp /\ cbp = mb.cbp /\ cbp = csp + 4 * n /\ cbp % 4 = 0
  <2>1. mb.csp \in Nat /\ mb.cbp \in Nat
    BY DEF Declared, BTypeOK, BuilderType
  <2>2. mb.csp = mb.cbp - 4 * n /\ mb.cbp % 4 = 0
    BY <1>1, <1>2 DEF Declared, Placed
  <2> QED
    BY <2>1, <2>2
<1>4. mb.pages \in Seq(Pages)
  BY DEF Declared, BTypeOK, BuilderType
<1>5. PICK as : as = Addrs(csp + 4 * n, csp)
  OBVIOUS
<1>6. as = [k \in 1 .. n |-> csp + 4 * (n - k + 1)]
  BY <1>5, RegionAddrs
<1>7. Len(as) = n
  BY <1>6
<1>8. ASSUME NEW k \in 1 .. n PROVE as[k] \in Nat /\ Whole(as[k]) /\ ~Misaligned(cbp, as[k])
  <2>1. PICK a \in Nat : a = csp + 4 * (n - k + 1)
    OBVIOUS
  <2>2. a % 4 = 0
    BY <1>3, <2>1
  <2> QED
    BY <1>6, <2>1, <2>2, AlignedWhole
<1>9. FetchMany(mb.pages, cbp, csp + 4 * n, csp) = {[k \in 1 .. n |-> WordIn(mb.pages, as[k])]}
  BY <1>4, <1>5, <1>7, <1>8, ManyServed
<1>10. ASSUME NEW k \in 1 .. n PROVE WordIn(mb.pages, as[k]) = cs[k]
  <2>1. cs[k] \in [1 .. 4 -> 0 .. 255]
    BY <1>2 DEF Word
  <2>2. ASSUME NEW j \in 1 .. 4 PROVE MemByte(mb.pages, as[k] + j - 1) = cs[k][j]
    <3>1. PICK a \in Nat : a = as[k] + j - 1 /\ a = csp + 4 * (n - k + 1) + j - 1
      BY <1>6
    <3>2. MemByte(mb.pages, a) = Expected(a)
      BY DEF Landed
    <3>3. PICK m \in 1 .. n : m = n - k + 1
      OBVIOUS
    <3>4. a - csp - 3 = 4 * (m - 1) + j
      <4>1. a = csp + 4 * m + j - 1
        BY <3>1, <3>3
      <4> HIDE <3>1, <3>3
      <4> QED
        BY <4>1
    <3>5. PICK rev \in Seq(Word) : rev = Reverse(cs) /\ Len(rev) = n /\ rev[m] = cs[k]
      <4>1. (n - m) + 1 = k
        BY <3>3
      <4>2. Reverse(cs) \in Seq(Word) /\ Len(Reverse(cs)) = n /\ Reverse(cs)[m] = cs[(n - m) + 1]
        BY <1>2, ReverseType
      <4> QED
        BY <4>1, <4>2
    <3>6. 4 * (m - 1) + j \in DOMAIN Bytes(rev) /\ Bytes(rev)[4 * (m - 1) + j] = cs[k][j]
      BY <3>5, BytesAt
    <3>7. Expected(a) = cs[k][j]
      BY <1>1, <1>3, <3>4, <3>5, <3>6 DEF Expected
    <3> QED
      BY <3>1, <3>2, <3>7
  <2>3. WordIn(mb.pages, as[k]) = [j \in 1 .. 4 |-> cs[k][j]]
    BY <2>2 DEF WordIn
  <2> QED
    BY <2>1, <2>3
<1>11. [k \in 1 .. n |-> WordIn(mb.pages, as[k])] = cs
  <2>1. cs = [k \in 1 .. n |-> cs[k]]
    BY <1>2
  <2> QED
    BY <1>10, <2>1
<1> QED
  BY <1>1, <1>3, <1>9, <1>11

\* Of sets that have one element each, the choices are one.
OneOfEach(D, all) == {vs \in [D -> UNION {all[k] : k \in D}] : \A k \in D : vs[k] \in all[k]}

OnlyChoice(D, all, f) == f = [k \in D |-> f[k]] /\ \A k \in D : all[k] = {f[k]}

LEMMA OneChoice ==
  ASSUME NEW D, NEW all, NEW f, OnlyChoice(D, all, f)
  PROVE  OneOfEach(D, all) = {f}
<1> USE DEF OnlyChoice
<1> DEFINE U == UNION {all[k] : k \in D}
<1>1. \A k \in D : f[k] \in U
  OBVIOUS
<1>2. f \in [D -> U] /\ \A k \in D : f[k] \in all[k]
  <2> HIDE DEF U
  <2> QED
    BY <1>1
<1>3. ASSUME NEW vs \in [D -> U], \A k \in D : vs[k] \in all[k] PROVE vs = f
  <2> HIDE DEF U
  <2>1. \A k \in D : vs[k] = f[k]
    BY <1>3
  <2> QED
    BY <2>1
<1>4. {vs \in [D -> U] : \A k \in D : vs[k] \in all[k]} = {f}
  <2> HIDE DEF U
  <2> QED
    BY <1>2, <1>3
<1> QED
  BY <1>4 DEF OneOfEach

\* Words that can be read are read.
CanRead(cbp, from, to, N) ==
  /\ Len(Addrs(from, to)) = N
  /\ \A k \in 1 .. N : LET a == Addrs(from, to)[k] IN a \in Nat /\ Whole(a) /\ ~Misaligned(cbp, a)
AreRead(pgs, cbp, from, to, N) ==
  FetchMany(pgs, cbp, from, to) = {[k \in 1 .. N |-> WordIn(pgs, Addrs(from, to)[k])]}

LEMMA WordsAreRead ==
  ASSUME NEW pgs \in Seq(Pages), NEW cbp, NEW from, NEW to, NEW N \in Nat, CanRead(cbp, from, to, N)
  PROVE  AreRead(pgs, cbp, from, to, N)
<1>1. Len(Addrs(from, to)) = N
  BY DEF CanRead
<1>2. \A k \in 1 .. N : LET a == Addrs(from, to)[k] IN a \in Nat /\ Whole(a) /\ ~Misaligned(cbp, a)
  BY DEF CanRead
<1>3. FetchMany(pgs, cbp, from, to) = {[k \in 1 .. N |-> WordIn(pgs, Addrs(from, to)[k])]}
  BY <1>1, <1>2, ManyServed
<1> QED
  BY Zenon, <1>3 DEF AreRead

\* A region whose words can be read has the words of the memory.
LEMMA RegionRead ==
  ASSUME Declared, Landed, NamesKept, pc = "ran", NEW rg, rg.from \in Nat, rg.to \in Nat, Readable(rg)
  PROVE  FetchMany(mb.pages, mb.cbp, rg.from, rg.to) = {WordsOf(rg)}
<1>1. PICK from, to : from = rg.from /\ to = rg.to /\ from \in Nat /\ to \in Nat
  OBVIOUS
<1>2. PICK as : as = Addrs(from, to)
  OBVIOUS
<1>3. PICK N \in Nat : Len(as) = N /\ DOMAIN as = 1 .. N /\ \A i \in 1 .. N : as[i] \in Nat
  BY <1>1, <1>2, AddrsType
<1>4. \A i \in 1 .. N : as[i] \in Nat /\ Whole(as[i]) /\ ~Misaligned(mb.cbp, as[i])
  BY <1>1, <1>2, <1>3 DEF Readable, Range
<1>5. mb.pages \in Seq(Pages)
  BY DEF Declared, BTypeOK, BuilderType
<1>6. FetchMany(mb.pages, mb.cbp, from, to) = {[i \in 1 .. N |-> WordIn(mb.pages, as[i])]}
  <2>1. PICK pgs, cbp : pgs = mb.pages /\ cbp = mb.cbp
    OBVIOUS
  <2>2. pgs \in Seq(Pages) /\ N \in Nat
    BY <1>5, <2>1
  <2>3. CanRead(cbp, from, to, N)
    BY <1>2, <1>3, <1>4, <2>1 DEF CanRead
  <2>4. AreRead(pgs, cbp, from, to, N)
    BY Zenon, <2>2, <2>3, WordsAreRead
  <2>5. FetchMany(pgs, cbp, from, to) = {[i \in 1 .. N |-> WordIn(pgs, Addrs(from, to)[i])]}
    BY Zenon, <2>4 DEF AreRead
  <2> QED
    BY <1>2, <2>1, <2>5
<1>7. ASSUME NEW i \in 1 .. N
      PROVE  WordIn(mb.pages, as[i]) = [j \in 1 .. 4 |-> Expected(as[i] + j - 1)]
  <2>1. PICK a \in Nat : a = as[i]
    BY <1>4
  <2>2. ASSUME NEW j \in 1 .. 4 PROVE MemByte(mb.pages, a + j - 1) = Expected(a + j - 1)
    <3>1. a + j - 1 \in Nat
      OBVIOUS
    <3> QED
      BY <3>1 DEF Landed
  <2> QED
    BY <2>1, <2>2 DEF WordIn
<1>8. [i \in 1 .. N |-> WordIn(mb.pages, as[i])] = [i \in DOMAIN as |-> [j \in 1 .. 4 |-> Expected(as[i] + j - 1)]]
  BY <1>3, <1>7
<1> QED
  BY <1>1, <1>2, <1>6, <1>8 DEF WordsOf

\* The regions that are left are of words.
LEMMA PairsType ==
  ASSUME NEW cs \in Seq(Word)
  PROVE  /\ Pairs(cs) \in Seq([from : Nat, to : Nat, name : {NoName}])
         /\ Pairs(cs) = [k \in 1 .. Len(cs) \div 2 |-> Region(Number(cs[2 * k - 1]), Number(cs[2 * k]), NoName)]
<1>1. PICK n \in Nat : n = Len(cs)
  OBVIOUS
<1>2. PICK d \in Nat : d = n \div 2 /\ 2 * d <= n
  OBVIOUS
<1>3. ASSUME NEW m \in 1 .. n PROVE Number(cs[m]) \in Nat
  <2>1. cs[m] \in [1 .. 4 -> 0 .. 255]
    BY <1>1 DEF Word
  <2>2. PICK w \in [1 .. 4 -> 0 .. 255] : w = cs[m]
    BY <2>1
  <2>3. w[1] \in Nat /\ w[2] \in Nat /\ w[3] \in Nat
    <3>1. \A j \in 1 .. 4 : w[j] \in 0 .. 255
      OBVIOUS
    <3>2. 1 \in 1 .. 4 /\ 2 \in 1 .. 4 /\ 3 \in 1 .. 4 /\ 0 .. 255 \subseteq Nat
      OBVIOUS
    <3> QED
      BY <3>1, <3>2
  <2>4. Number(w) \in Nat
    BY <2>3 DEF Number
  <2> QED
    BY <2>2, <2>4
<1>4. ASSUME NEW k \in 1 .. d
      PROVE  Region(Number(cs[2 * k - 1]), Number(cs[2 * k]), NoName) \in [from : Nat, to : Nat, name : {NoName}]
  <2>1. 2 * k - 1 \in 1 .. n /\ 2 * k \in 1 .. n
    BY <1>2
  <2>2. Number(cs[2 * k - 1]) \in Nat /\ Number(cs[2 * k]) \in Nat
    BY <1>3, <2>1
  <2> QED
    BY <2>2 DEF Region
<1>5. Pairs(cs) = [k \in 1 .. d |-> Region(Number(cs[2 * k - 1]), Number(cs[2 * k]), NoName)]
  BY <1>1, <1>2 DEF Pairs
<1> QED
  BY <1>1, <1>2, <1>4, <1>5

\* A machine that halted with 0 has the values of its regions, the declared ones first; no other
\* machine has any.
THEOREM ValuesAreServed == Spec => [](NamesKept => ValuesServed)
<1>1. Declared /\ Landed => (NamesKept => ValuesServed)
  <2> SUFFICES ASSUME Declared, Landed, NamesKept, pc = "ran"
               PROVE  ValuesServed
    BY DEF ValuesServed
  <2>1. FetchMany(mb.pages, mb.cbp, mb.cbp, mb.csp) = {ran.cs}
    BY StackRead
  <2>2. ran.err \in {"halt0", "halt1", "error"} /\ mb.outputs = given["output"]
    BY DEF Declared, BTypeOK, NotYet, Taken
  <2>3. PICK cs \in Seq(Word) : cs = ran.cs
    <3>1. ran.cs \in {<<>>} \cup Results /\ <<>> \in Seq(Word)
      BY DEF Declared, BTypeOK
    <3> QED
      BY <3>1, CallsAssumption
  <2>4. CASE ran.err # "halt0" \/ Len(ran.cs) % 2 # 0
    <3>1. Outputs = {}
      <4>1. CASE ran.err # "halt0"
        BY <2>2, <4>1 DEF Outputs
      <4>2. CASE ran.err = "halt0" /\ Len(ran.cs) % 2 # 0
        <5>1. {s \in FetchMany(mb.pages, mb.cbp, mb.cbp, mb.csp) : Len(s) % 2 = 0} = {}
          BY <2>1, <4>2
        <5> QED
          BY <4>2, <5>1 DEF Outputs
      <4> QED
        BY <2>4, <4>1, <4>2
    <3>2. Values = {}
      BY <3>1 DEF Values
    <3> QED
      BY <2>4, <3>2 DEF ValuesServed
  <2>5. CASE ran.err = "halt0" /\ Len(ran.cs) % 2 = 0
    <3>1. PICK left : /\ left = Pairs(cs) /\ left \in Seq([from : Nat, to : Nat, name : {NoName}])
                      /\ left = [k \in 1 .. Len(cs) \div 2 |->
                                  Region(Number(cs[2 * k - 1]), Number(cs[2 * k]), NoName)]
      BY PairsType
    <3>2. PICK rgs : rgs = given["output"] \o left
      OBVIOUS
    <3>3. PICK D : D = DOMAIN rgs /\ \A k \in D : rgs[k].from \in Nat /\ rgs[k].to \in Nat
      <4>1. PICK R : R = [from : Nat, to : Nat, name : Nat] /\ Regions \subseteq R
        BY OptionsAssumption
      <4>2. PICK out : out = given["output"] /\ out \in Seq(Regions)
        BY DEF Declared, BTypeOK, Opts, Arg
      <4>3. out \in Seq(R)
        <5>1. PICK n \in Nat : n = Len(out)
          BY <4>2
        <5>2. out \in [1 .. n -> Regions]
          BY <4>2, <5>1
        <5>3. out \in [1 .. n -> R]
          BY <4>1, <5>2
        <5> QED
          BY <5>1, <5>3
      <4>4. left \in Seq(R)
        <5>1. [from : Nat, to : Nat, name : {NoName}] \subseteq R
          BY <4>1 DEF NoName
        <5> QED
          BY <3>1, <5>1
      <4>5. rgs \in Seq(R)
        BY <3>2, <4>2, <4>3, <4>4
      <4>6. \A k \in DOMAIN rgs : rgs[k] \in R
        BY <4>5
      <4> QED
        BY <4>1, <4>6
    <3>4. Outputs = {rgs}
      <4>1. {s \in FetchMany(mb.pages, mb.cbp, mb.cbp, mb.csp) : Len(s) % 2 = 0} = {cs}
        BY <2>1, <2>3, <2>5
      <4>2. Outputs = {mb.outputs \o Pairs(s) : s \in {cs}}
        BY <2>5, <4>1 DEF Outputs
      <4> QED
        BY <2>2, <3>1, <3>2, <4>2
    <3>5. ASSUME \A k \in D : Readable(rgs[k])
          PROVE  Values = {[k \in D |-> WordsOf(rgs[k])]}
      <4> DEFINE all == [k \in D |-> FetchMany(mb.pages, mb.cbp, rgs[k].from, rgs[k].to)]
                 one == [k \in D |-> WordsOf(rgs[k])]
      <4>1. \A k \in D : FetchMany(mb.pages, mb.cbp, rgs[k].from, rgs[k].to) = {WordsOf(rgs[k])}
        BY <3>3, <3>5, RegionRead
      <4>2. Values = OneOfEach(D, all)
        BY <3>3, <3>4 DEF Values, OneOfEach
      <4>3. \A k \in D : all[k] = {one[k]}
        BY <4>1
      <4>4. OneOfEach(D, all) = {[k \in D |-> one[k]]}
        <5> HIDE DEF all, one
        <5>1. PICK a, f : a = all /\ f = [k \in D |-> one[k]]
          OBVIOUS
        <5>2. OnlyChoice(D, a, f)
          BY <4>3, <5>1 DEF OnlyChoice
        <5>3. OneOfEach(D, a) = {f}
          BY Zenon, <5>2, OneChoice
        <5> QED
          BY Zenon, <5>1, <5>3
      <4>5. [k \in D |-> one[k]] = [k \in D |-> WordsOf(rgs[k])]
        BY DEF one
      <4> QED
        BY <4>2, <4>4, <4>5
    <3>6. rgs = given["output"] \o [k \in 1 .. Len(cs) \div 2 |->
                                     Region(Number(cs[2 * k - 1]), Number(cs[2 * k]), NoName)]
      BY <3>1, <3>2
    <3> QED
      BY Zenon, <2>3, <2>5, <3>3, <3>5, <3>6 DEF ValuesServed
  <2> QED
    BY <2>2, <2>4, <2>5
<1> QED
  BY <1>1, LandedHolds, PTL
=============================================================================
