------------------------------- MODULE OpCache -------------------------------
(***************************************************************************)
(* Decoding (vm.go, encoding.go): where a step finds the operation it      *)
(* executes.  A decoded operation is kept in the cache m.opc, a slice that *)
(* is indexed by address; a copy of a machine has the same slice, so that  *)
(* the machines of a run share its array until one of them grows it.       *)
(*                                                                         *)
(* Memory is a function from addresses to bytes here: Machines.tla shows   *)
(* that pages, sharing and recycling are invisible.  What an operation     *)
(* does is not decided by its code: apart from crash, it may store         *)
(* anywhere, jump, copy the machine, or end it.                            *)
(***************************************************************************)
EXTENDS Integers, SequencesExt

CONSTANTS
  Top,        \* the bytes of the address space: 2^32 in the code
  Cbp,        \* where the stacks end: no jump goes to an address up to it
  Base,       \* where the program is loaded
  ProgLen,    \* the bytes of the program
  WordLen,    \* the bytes of a word
  MaxLen,     \* the most bytes of an operation
  Byte,       \* the values of a byte
  Cont,       \* those with the top bit set: the operation continues
  Zero,       \* the byte 0: of memory never written, and the code of crash
  Undefined,  \* the codes of no operation
  NoImm,      \* the codes of operations that take no immediate
  Array,      \* addresses of the caches' arrays
  QueueCap,   \* the capacity of the run queue
  MaxStores   \* bound on the stores of a run

ASSUME SpaceAssumption ==
  /\ Top \in Nat /\ Cbp \in Nat /\ Base \in Nat /\ ProgLen \in Nat
  /\ Cbp + WordLen <= Base /\ Base + ProgLen <= Top /\ Base < Top
  /\ WordLen \in 1 .. Top /\ MaxLen \in 1 .. Top
ASSUME ByteAssumption == Zero \in Byte /\ Zero \in NoImm /\ Zero \notin Cont \cup Undefined
ASSUME BoundsAssumption == QueueCap \in Nat /\ MaxStores \in Nat

VARIABLES
  cur,      \* the machine that runs
  pending,  \* the copies that wait, the last one to be run first
  cos,      \* what the arrays of the caches hold
  stores,   \* the stores made so far
  apart,    \* ghost: the addresses stored to while copies waited
  decoded,  \* ghost: the addresses of the bytes of cached operations
  stale     \* ghost: those of them that were then stored to

vars == <<cur, pending, cos, stores, apart, decoded, stale>>
ghosts == <<apart, stale>>

Addr == 0 .. Top - 1

\* The result of unsigned arithmetic that leaves the range by less than 2^32.
Wrap(a) == IF a < 0 THEN a + Top ELSE IF a >= Top THEN a - Top ELSE a

-----------------------------------------------------------------------------
(* Decoding *)

\* What fetchBytes() reads: 0 in memory that was never written, and beyond the
\* last address.
ByteAt(mem, a) == IF a \in Addr THEN mem[a] ELSE Zero

\* readVarCode() reads up to the first byte that does not continue.
Ends(mem, a, n) == /\ ByteAt(mem, a + n - 1) \notin Cont
                   /\ \A j \in 1 .. n - 1 : ByteAt(mem, a + j - 1) \in Cont
Span(mem, a) == CHOOSE n \in 1 .. MaxLen : Ends(mem, a, n)

\* validate() accepts the operation of n bytes.
Valid(mem, a, n) == LET code == ByteAt(mem, a + n - 1) IN
                    code \notin Undefined /\ (n = 1 \/ code \notin NoImm)

\* Six bytes hold an operation, and a known one.
Decodable(mem, a) == \E n \in 1 .. MaxLen : Ends(mem, a, n) /\ Valid(mem, a, n)

\* Slip: addresses do not wrap.
ReadUnwrapped(mem, a) ==
  LET n == Span(mem, a) IN
  [ip   |-> a + n,
   code |-> ByteAt(mem, a + n - 1),
   arg  |-> [j \in 1 .. n - 1 |-> ByteAt(mem, a + j - 1)]]

\* What read() finds at a decodable address.
Read(mem, a) ==
  LET n == Span(mem, a) IN
  [ip   |-> Wrap(a + n),
   code |-> ByteAt(mem, a + n - 1),
   arg  |-> [j \in 1 .. n - 1 |-> ByteAt(mem, a + j - 1)]]

-----------------------------------------------------------------------------
(* The cache *)

\* The zero value of a cachedOp: ip = 0 stands for no operation.
NoOp == [ip |-> 0, code |-> Zero, arg |-> <<>>]

\* ck, in step()
Key(ip) == Wrap(ip - Cbp)

\* opCache.get() finds an operation in the slice with array a.
Cached(a, ip) == Key(ip) < cos[a].len /\ cos[a].at[Key(ip)].ip # 0

\* What step() executes, if anything.
CanStep(m) == Cached(m.opc, m.ip) \/ Decodable(m.mem, m.ip)
Op(m) == IF Cached(m.opc, m.ip) THEN cos[m.opc].at[Key(m.ip)] ELSE Read(m.mem, m.ip)

InUse == {cur.opc} \cup {m.opc : m \in Range(pending)}

\* The array that opCache.set() makes where the slice is too short for key k.
Grown(a, k) == [len |-> k + 1,
                at  |-> [j \in Addr |-> IF j < cos[a].len THEN cos[a].at[j] ELSE NoOp]]

\* Slip: ck is computed after the assignment to m.ip.
SetLate(a) ==
  LET k == Key(Op(cur).ip) IN
  \/ /\ k < cos[cur.opc].len /\ a = cur.opc
     /\ cos' = [cos EXCEPT ![a].at[k] = Op(cur)]
  \/ /\ k >= cos[cur.opc].len /\ a \in Array \ InUse
     /\ cos' = [cos EXCEPT ![a] = [Grown(cur.opc, k) EXCEPT !.at[k] = Op(cur)]]

\* opCache.set(), by the running machine: it leaves it the slice with array a.
Set(a) ==
  LET k == Key(cur.ip) IN
  \/ /\ k < cos[cur.opc].len /\ a = cur.opc
     /\ cos' = [cos EXCEPT ![a].at[k] = Op(cur)]
  \/ /\ k >= cos[cur.opc].len /\ a \in Array \ InUse
     /\ cos' = [cos EXCEPT ![a] = [Grown(cur.opc, k) EXCEPT !.at[k] = Op(cur)]]

\* k+1 is 0: the new slice is shorter than the operation's key.
TooShort == LET k == Key(cur.ip) IN
            ~Cached(cur.opc, cur.ip) /\ k >= cos[cur.opc].len /\ k + 1 = Top

OpBytes(mem, a) == {b \in Addr : a <= b /\ b < a + Span(mem, a)}

Stepping == cur.err = "nil" /\ CanStep(cur) /\ ~TooShort

\* step() up to "execute": it leaves the running machine the slice with array a.
Decode(a) ==
  /\ Stepping
  /\ \/ /\ Cached(cur.opc, cur.ip) /\ a = cur.opc
        /\ UNCHANGED <<cos, decoded>>
     \/ /\ ~Cached(cur.opc, cur.ip) /\ Set(a)
        /\ decoded' = decoded \cup OpBytes(cur.mem, cur.ip)

\* The running machine, when it executes.
Decoded(a) == [cur EXCEPT !.ip = Op(cur).ip, !.opc = a]

Executes(a) == Decode(a) /\ Op(cur).code # Zero

-----------------------------------------------------------------------------
Init ==
  /\ \E image \in [Addr -> Byte], ip \in Addr, a \in Array :
       /\ \A b \in Addr : b \notin Base .. Base + ProgLen - 1 => image[b] = Zero
       /\ cur = [mem |-> image, ip |-> ip, opc |-> a, err |-> "nil"]
  /\ pending = <<>>
  /\ cos = [a \in Array |-> [len |-> ProgLen, at |-> [k \in Addr |-> NoOp]]]
  /\ stores = 0 /\ apart = {} /\ decoded = {} /\ stale = {}

\* The limit on operations, and no operation at ip.
NoStep ==
  /\ cur.err = "nil"
  /\ \/ cur' = [cur EXCEPT !.err = "limit"]
     \/ ~CanStep(cur) /\ cur' = [cur EXCEPT !.err = "decode"]
  /\ UNCHANGED <<pending, cos, stores, decoded, ghosts>>

\* An index out of the range of the slice that set() made.
Panic ==
  /\ cur.err = "nil" /\ CanStep(cur) /\ TooShort
  /\ cur' = [cur EXCEPT !.err = "panic"]
  /\ UNCHANGED <<pending, cos, stores, decoded, ghosts>>

\* crash, halting, and an operation that fails.
Stop ==
  /\ \E a \in Array : Decode(a) /\ cur' = [Decoded(a) EXCEPT !.err = "stop"]
  /\ UNCHANGED <<pending, stores, ghosts>>

\* An operation that writes registers only.
Compute ==
  /\ \E a \in Array : Executes(a) /\ cur' = Decoded(a)
  /\ UNCHANGED <<pending, stores, ghosts>>

\* jumpTo(): not into the stacks.
Target == {t \in Addr : t > Cbp}

Jump ==
  /\ \E a \in Array, t \in Target : Executes(a) /\ cur' = [Decoded(a) EXCEPT !.ip = t]
  /\ UNCHANGED <<pending, stores, ghosts>>

Overwritten(mem, w) == [b \in Addr |-> IF b \in DOMAIN w THEN w[b] ELSE mem[b]]

\* store() of a word at any address, aligned within the stacks: by the operations on memory, a push (of the
\* head below it) or a swap; a call then jumps, its store being to a stack.
Store ==
  /\ stores < MaxStores /\ stores' = stores + 1
  /\ \E a \in Array, at \in 0 .. Top - WordLen :
       LET word == at .. at + WordLen - 1 IN
       /\ Executes(a)
       /\ at < Cbp => at % WordLen = 0
       /\ \E w \in [word -> Byte], ip \in {Op(cur).ip} \cup (IF at <= Cbp THEN Target ELSE {}) :
            cur' = [Decoded(a) EXCEPT !.mem = Overwritten(@, w), !.ip = ip]
       /\ stale' = stale \cup (word \cap decoded')
       /\ apart' = IF pending = <<>> THEN apart ELSE apart \cup word
  /\ UNCHANGED pending

\* fork and cfork, where the copy jumps; branch and cbranch, where the original does,
\* or fails to after the copy is queued.
Copy ==
  /\ Len(pending) < QueueCap
  /\ \E a \in Array, t \in Target :
       LET m == Decoded(a) IN
       /\ Executes(a)
       /\ \/ cur' = m /\ pending' = Append(pending, [m EXCEPT !.ip = t])
          \/ cur' = [m EXCEPT !.ip = t] /\ pending' = Append(pending, m)
          \/ cur' = [m EXCEPT !.err = "stop"] /\ pending' = Append(pending, m)
  /\ UNCHANGED <<stores, ghosts>>

\* The handler accepted the machine, and the last copy made takes over.
Resume ==
  /\ cur.err \notin {"nil", "panic"} /\ pending # <<>>
  /\ cur' = Last(pending) /\ pending' = Front(pending)
  /\ UNCHANGED <<cos, stores, decoded, ghosts>>

\* The run has returned, or panicked.
Returned == cur.err # "nil" /\ UNCHANGED vars

Next == \/ NoStep \/ Panic \/ Stop \/ Compute \/ Jump \/ Store \/ Copy
        \/ Resume \/ Returned

Spec == Init /\ [][Next]_vars
-----------------------------------------------------------------------------
(* Properties *)

CachedOp == [ip : Addr, code : Byte, arg : UNION {[1 .. n - 1 -> Cont] : n \in 1 .. MaxLen}]
Machine == [mem : [Addr -> Byte], ip : Addr, opc : Array,
            err : {"nil", "limit", "decode", "panic", "stop"}]

\* Types and capacities; an ip never leaves the address space, by any operation's end.
TypeOK ==
  /\ cur \in Machine
  /\ pending \in Seq(Machine) /\ Len(pending) <= QueueCap
  /\ cos \in [Array -> [len : 0 .. Top, at : [Addr -> CachedOp]]]
  /\ stores \in 0 .. MaxStores
  /\ apart \subseteq Addr /\ decoded \subseteq Addr /\ stale \subseteq Addr

Machines == {cur} \cup Range(pending)

\* As long as no store hit an operation after it was decoded, and copies did not store
\* to the bytes of an operation while others waited, whatever get() finds for a live
\* machine, and wherever it goes, is what the machine's own memory has there: also
\* an operation that another machine set.
Coherent ==
  stale = {} /\ apart \cap decoded = {} =>
    \A m \in Machines, ip \in Addr :
      Cached(m.opc, ip) => /\ Decodable(m.mem, ip)
                           /\ cos[m.opc].at[Key(ip)] = Read(m.mem, ip)
=============================================================================
