---------------------------- MODULE OpCacheProof ----------------------------
(***************************************************************************)
(* Proofs about OpCache, for every address space, program and number of    *)
(* machines.                                                               *)
(***************************************************************************)
EXTENDS OpCache, SequenceTheorems, TLAPS

-----------------------------------------------------------------------------
(* Addresses *)

\* The end of an operation is an address.
LEMMA EndType ==
  ASSUME NEW a \in Addr, NEW n \in 1 .. MaxLen
  PROVE  Wrap(a + n) \in Addr
BY SpaceAssumption DEF Addr, Wrap

\* The keys of the cache are addresses, and no two addresses have one key.
LEMMA Keys ==
  /\ \A a \in Addr : Key(a) \in Addr
  /\ \A a, b \in Addr : Key(a) = Key(b) => a = b
BY SpaceAssumption DEF Addr, Key, Wrap

LEMMA ByteType ==
  ASSUME NEW mem \in [Addr -> Byte], NEW a \in Int
  PROVE  ByteAt(mem, a) \in Byte
BY ByteAssumption DEF ByteAt

-----------------------------------------------------------------------------
(* Decoding *)

\* An operation has one end.
LEMMA OneEnd ==
  ASSUME NEW mem, NEW a \in Addr, NEW n \in 1 .. MaxLen, NEW k \in 1 .. MaxLen,
         Ends(mem, a, n), Ends(mem, a, k)
  PROVE  n = k
<1>1. CASE n < k
  <2>1. n \in 1 .. k - 1
    BY <1>1, SpaceAssumption
  <2>2. ByteAt(mem, a + n - 1) \in Cont
    BY <2>1 DEF Ends
  <2> QED
    BY <2>2 DEF Ends
<1>2. CASE k < n
  <2>1. k \in 1 .. n - 1
    BY <1>2, SpaceAssumption
  <2>2. ByteAt(mem, a + k - 1) \in Cont
    BY <2>1 DEF Ends
  <2> QED
    BY <2>2 DEF Ends
<1> QED
  BY <1>1, <1>2, SpaceAssumption

\* Span() is that end.
LEMMA SpanIs ==
  ASSUME NEW mem, NEW a \in Addr, NEW n \in 1 .. MaxLen, Ends(mem, a, n)
  PROVE  Span(mem, a) = n
<1>1. Span(mem, a) \in 1 .. MaxLen /\ Ends(mem, a, Span(mem, a))
  BY DEF Span
<1> QED
  BY <1>1, OneEnd

\* Where an operation can be decoded, Span() is its length.
LEMMA SpanType ==
  ASSUME NEW mem, NEW a \in Addr, Decodable(mem, a)
  PROVE  /\ Span(mem, a) \in 1 .. MaxLen
         /\ Ends(mem, a, Span(mem, a))
         /\ Valid(mem, a, Span(mem, a))
<1>1. PICK n \in 1 .. MaxLen : Ends(mem, a, n) /\ Valid(mem, a, n)
  BY DEF Decodable
<1>2. Span(mem, a) = n
  BY <1>1, SpanIs
<1> QED
  BY <1>1, <1>2

\* What read() finds can be cached.
LEMMA ReadType ==
  ASSUME NEW mem \in [Addr -> Byte], NEW a \in Addr, Decodable(mem, a)
  PROVE  Read(mem, a) \in CachedOp
<1> DEFINE n == Span(mem, a)
           arg == [j \in 1 .. n - 1 |-> ByteAt(mem, a + j - 1)]
<1>1. n \in 1 .. MaxLen /\ Ends(mem, a, n)
  BY SpanType
<1> HIDE DEF n
<1>2. arg \in [1 .. n - 1 -> Cont]
  BY <1>1 DEF Ends
<1>3. arg \in UNION {[1 .. k - 1 -> Cont] : k \in 1 .. MaxLen}
  BY <1>1, <1>2
<1>4. a + n - 1 \in Int
  BY <1>1, SpaceAssumption DEF Addr
<1>5. Wrap(a + n) \in Addr /\ ByteAt(mem, a + n - 1) \in Byte
  BY <1>1, <1>4, EndType, ByteType
<1>6. Read(mem, a) = [ip |-> Wrap(a + n), code |-> ByteAt(mem, a + n - 1), arg |-> arg]
  BY DEF Read, n
<1> HIDE DEF arg
<1> QED
  BY <1>3, <1>5, <1>6 DEF CachedOp

\* Memories with the same bytes in an operation have the same operation there.
LEMMA ReadSame ==
  ASSUME NEW mem, NEW other, NEW a \in Addr, Decodable(mem, a),
         \A b \in OpBytes(mem, a) : other[b] = mem[b]
  PROVE  /\ Decodable(other, a)
         /\ Read(other, a) = Read(mem, a)
         /\ OpBytes(other, a) = OpBytes(mem, a)
<1> DEFINE n == Span(mem, a)
<1>1. n \in 1 .. MaxLen /\ Ends(mem, a, n) /\ Valid(mem, a, n)
  BY SpanType
<1>2. \A b \in Addr : a <= b /\ b < a + n => other[b] = mem[b]
  BY DEF OpBytes
<1> HIDE DEF n
<1>3. \A j \in 1 .. n : ByteAt(other, a + j - 1) = ByteAt(mem, a + j - 1)
  <2> TAKE j \in 1 .. n
  <2> DEFINE b == a + j - 1
  <2>1. b \in Int /\ a <= b /\ b < a + n
    BY <1>1, SpaceAssumption DEF Addr
  <2> HIDE DEF b
  <2>2. ByteAt(other, b) = ByteAt(mem, b)
    BY <1>2, <2>1 DEF ByteAt
  <2> QED
    BY <2>2 DEF b
<1>4. n \in 1 .. n /\ \A j \in 1 .. n - 1 : j \in 1 .. n
  BY <1>1, SpaceAssumption
<1>5. Ends(other, a, n) /\ Valid(other, a, n)
  BY <1>1, <1>3, <1>4 DEF Ends, Valid
<1>6. Decodable(other, a)
  BY <1>1, <1>5 DEF Decodable
<1>7. Span(other, a) = n
  BY <1>1, <1>5, SpanIs
<1>8. [j \in 1 .. n - 1 |-> ByteAt(other, a + j - 1)] = [j \in 1 .. n - 1 |-> ByteAt(mem, a + j - 1)]
  BY <1>3, <1>4
<1>9. Read(other, a) = Read(mem, a)
  BY <1>3, <1>4, <1>7, <1>8 DEF Read, n
<1> QED
  BY <1>6, <1>7, <1>9 DEF OpBytes, n

-----------------------------------------------------------------------------
(* The queue *)

\* What Dequeue() takes, and what it leaves.
LEMMA Taken ==
  ASSUME NEW S, NEW s \in Seq(S), s # <<>>
  PROVE  /\ Front(s) \in Seq(S) /\ Len(Front(s)) = Len(s) - 1 /\ Last(s) \in S
         /\ {Last(s)} \cup Range(Front(s)) \subseteq Range(s)
<1>1. Len(s) \in Nat \ {0} /\ DOMAIN s = 1 .. Len(s) /\ \A i \in 1 .. Len(s) : s[i] \in S
  BY EmptySeq, LenProperties, ElementOfSeq
<1>2. /\ Front(s) \in Seq(S) /\ Len(Front(s)) = Len(s) - 1
      /\ \A i \in 1 .. Len(s) - 1 : Front(s)[i] = s[i]
  BY <1>1, SubSeqProperties DEF Front
<1>3. DOMAIN Front(s) = 1 .. Len(s) - 1
  BY <1>2, LenProperties
<1>4. Last(s) = s[Len(s)] /\ Len(s) \in 1 .. Len(s)
  BY <1>1 DEF Last
<1> QED
  BY <1>1, <1>2, <1>3, <1>4 DEF Range

\* What Enqueue() makes of the queue.
LEMMA Queued ==
  ASSUME NEW S, NEW s \in Seq(S), NEW e \in S
  PROVE  Range(Append(s, e)) \subseteq Range(s) \cup {e}
<1>1. /\ Len(s) \in Nat /\ DOMAIN s = 1 .. Len(s)
      /\ Append(s, e) \in Seq(S) /\ Len(Append(s, e)) = Len(s) + 1
      /\ \A i \in 1 .. Len(s) : Append(s, e)[i] = s[i]
      /\ Append(s, e)[Len(s) + 1] = e
  BY LenProperties, AppendProperties
<1>2. DOMAIN Append(s, e) = 1 .. Len(s) + 1
  BY <1>1, LenProperties
<1> QED
  BY <1>1, <1>2 DEF Range

-----------------------------------------------------------------------------
(* What the running machine decodes *)

\* The machines of a run are typed.
LEMMA MachineTypes ==
  ASSUME TypeOK
  PROVE  Machines \subseteq Machine
BY DEF TypeOK, Machines, Range

\* An operation that step() executes is a cached one, or could be.
LEMMA OpType ==
  ASSUME TypeOK, CanStep(cur)
  PROVE  Op(cur) \in CachedOp /\ (~Cached(cur.opc, cur.ip) => Decodable(cur.mem, cur.ip))
<1>1. cur \in Machine /\ cur.ip \in Addr /\ cur.mem \in [Addr -> Byte] /\ cur.opc \in Array
  BY DEF TypeOK, Machine
<1>2. CASE Cached(cur.opc, cur.ip)
  <2>1. cos[cur.opc].at[Key(cur.ip)] \in CachedOp
    BY <1>1, Keys DEF TypeOK
  <2> QED
    BY <1>2, <2>1 DEF Op
<1>3. CASE ~Cached(cur.opc, cur.ip)
  <2>1. Decodable(cur.mem, cur.ip)
    BY <1>3 DEF CanStep
  <2> QED
    BY <1>1, <1>3, <2>1, ReadType DEF Op
<1> QED
  BY <1>2, <1>3

\* The zero cachedOp.
LEMMA NoOpType == NoOp \in CachedOp
<1>1. <<>> \in [1 .. 1 - 1 -> Cont]
  OBVIOUS
<1>2. 1 \in 1 .. MaxLen
  BY SpaceAssumption
<1>3. <<>> \in UNION {[1 .. n - 1 -> Cont] : n \in 1 .. MaxLen}
  BY <1>1, <1>2
<1> QED
  BY <1>3, SpaceAssumption, ByteAssumption DEF NoOp, CachedOp, Addr

\* step() leaves caches and the running machine typed.
LEMMA DecodeType ==
  ASSUME TypeOK, NEW a \in Array, Decode(a)
  PROVE  /\ cos' \in [Array -> [len : 0 .. Top, at : [Addr -> CachedOp]]]
         /\ decoded' \subseteq Addr
         /\ Decoded(a) \in Machine
<1>1. cur \in Machine /\ cur.ip \in Addr /\ cur.opc \in Array
  BY DEF TypeOK, Machine
<1>2. CanStep(cur) /\ ~TooShort
  BY DEF Decode, Stepping
<1>3. Op(cur) \in CachedOp
  BY <1>2, OpType
<1>4. Decoded(a) \in Machine
  BY <1>1, <1>3 DEF Decoded, Machine, CachedOp
<1>5. decoded' \subseteq Addr
  BY DEF Decode, OpBytes, TypeOK
<1> DEFINE k == Key(cur.ip)
           Cos == [len : 0 .. Top, at : [Addr -> CachedOp]]
<1>6. k \in Addr /\ k + 1 \in 0 .. Top
  BY <1>1, Keys, SpaceAssumption DEF Addr
<1>7. cos \in [Array -> Cos]
  BY DEF TypeOK
<1>8. Grown(cur.opc, k) \in Cos
  <2> DEFINE at == [j \in Addr |-> IF j < cos[cur.opc].len THEN cos[cur.opc].at[j] ELSE NoOp]
  <2>1. \A j \in Addr : cos[cur.opc].at[j] \in CachedOp
    BY <1>1, <1>7
  <2>2. at \in [Addr -> CachedOp]
    BY <2>1, NoOpType
  <2>3. Grown(cur.opc, k) = [len |-> k + 1, at |-> at]
    BY DEF Grown
  <2> HIDE DEF at, k
  <2> QED
    BY <1>6, <2>2, <2>3
<1> HIDE DEF k
<1>9. cos' \in [Array -> Cos]
  <2>1. CASE UNCHANGED cos
    BY <1>7, <2>1
  <2>2. CASE cos' = [cos EXCEPT ![a].at[k] = Op(cur)]
    <3>1. [cos[a] EXCEPT !.at[k] = Op(cur)] \in Cos
      BY <1>3, <1>6, <1>7
    <3> QED
      BY <1>7, <2>2, <3>1
  <2>3. CASE cos' = [cos EXCEPT ![a] = [Grown(cur.opc, k) EXCEPT !.at[k] = Op(cur)]]
    <3>1. [Grown(cur.opc, k) EXCEPT !.at[k] = Op(cur)] \in Cos
      BY <1>3, <1>6, <1>8
    <3> QED
      BY <1>7, <2>3, <3>1
  <2> QED
    BY <2>1, <2>2, <2>3 DEF Decode, Set, k
<1> QED
  BY <1>4, <1>5, <1>9

-----------------------------------------------------------------------------
(* The types *)

\* The initial states.
LEMMA InitType == Init => TypeOK
<1> SUFFICES ASSUME Init PROVE TypeOK
  OBVIOUS
<1>1. cur \in Machine
  BY DEF Init, Machine
<1>2. pending = <<>> /\ pending \in Seq(Machine) /\ Len(pending) <= QueueCap
  BY BoundsAssumption DEF Init
<1>3. [k \in Addr |-> NoOp] \in [Addr -> CachedOp] /\ ProgLen \in 0 .. Top
  BY NoOpType, SpaceAssumption
<1>4. cos \in [Array -> [len : 0 .. Top, at : [Addr -> CachedOp]]]
  BY <1>3 DEF Init
<1> QED
  BY <1>1, <1>2, <1>4, BoundsAssumption DEF Init, TypeOK

\* Every step.
LEMMA NextType == TypeOK /\ [Next]_vars => TypeOK'
<1> SUFFICES ASSUME TypeOK, [Next]_vars PROVE TypeOK'
  OBVIOUS
<1> USE DEF ghosts
<1>1. \A m \in Machine, e \in {"limit", "decode", "panic", "stop"} : [m EXCEPT !.err = e] \in Machine
  BY DEF Machine
<1>2. \A m \in Machine, ip \in Addr : [m EXCEPT !.ip = ip] \in Machine
  BY DEF Machine
<1>3. cur \in Machine
  BY DEF TypeOK
<1>4. \A a \in Array : Executes(a) => Decode(a)
  BY DEF Executes
<1>5. CASE NoStep
  BY <1>1, <1>3, <1>5 DEF NoStep, TypeOK
<1>6. CASE Panic
  BY <1>1, <1>3, <1>6 DEF Panic, TypeOK
<1>7. CASE Stop
  <2>1. PICK a \in Array : Decode(a) /\ cur' = [Decoded(a) EXCEPT !.err = "stop"]
    BY <1>7 DEF Stop
  <2> QED
    BY <1>1, <1>7, <2>1, DecodeType DEF Stop, TypeOK
<1>8. CASE Compute
  <2>1. PICK a \in Array : Decode(a) /\ cur' = Decoded(a)
    BY <1>4, <1>8 DEF Compute
  <2> QED
    BY <1>8, <2>1, DecodeType DEF Compute, TypeOK
<1>9. CASE Jump
  <2>1. PICK a \in Array, t \in Target : Decode(a) /\ cur' = [Decoded(a) EXCEPT !.ip = t]
    BY <1>4, <1>9 DEF Jump
  <2>2. t \in Addr
    BY DEF Target
  <2> QED
    BY <1>2, <1>9, <2>1, <2>2, DecodeType DEF Jump, TypeOK
<1>10. CASE Store
  <2>1. PICK a \in Array, at \in 0 .. Top - WordLen :
          /\ Decode(a)
          /\ \E w \in [at .. at + WordLen - 1 -> Byte],
                ip \in {Op(cur).ip} \cup (IF at <= Cbp THEN Target ELSE {}) :
               cur' = [Decoded(a) EXCEPT !.mem = Overwritten(@, w), !.ip = ip]
          /\ stale' = stale \cup ((at .. at + WordLen - 1) \cap decoded')
          /\ apart' = IF pending = <<>> THEN apart ELSE apart \cup (at .. at + WordLen - 1)
    BY <1>4, <1>10 DEF Store
  <2> DEFINE word == at .. at + WordLen - 1
  <2>2. PICK w \in [word -> Byte], ip \in {Op(cur).ip} \cup (IF at <= Cbp THEN Target ELSE {}) :
          cur' = [Decoded(a) EXCEPT !.mem = Overwritten(@, w), !.ip = ip]
    BY <2>1
  <2>3. word \subseteq Addr
    BY SpaceAssumption DEF Addr
  <2>4. Decoded(a) \in Machine /\ decoded' \subseteq Addr
        /\ cos' \in [Array -> [len : 0 .. Top, at : [Addr -> CachedOp]]]
    BY <2>1, DecodeType
  <2>5. Overwritten(Decoded(a).mem, w) \in [Addr -> Byte]
    BY <2>4 DEF Overwritten, Machine
  <2>6. Op(cur).ip \in Addr
    BY <2>1, OpType DEF Decode, Stepping, CachedOp
  <2>7. ip \in Addr
    BY <2>6 DEF Target
  <2>8. cur' \in Machine
    BY <2>2, <2>4, <2>5, <2>7 DEF Machine
  <2>9. stores' \in 0 .. MaxStores /\ pending' = pending
    BY <1>10, BoundsAssumption DEF Store, TypeOK
  <2> QED
    BY <2>1, <2>3, <2>4, <2>8, <2>9 DEF TypeOK
<1>11. CASE Copy
  <2>1. PICK a \in Array, t \in Target :
          /\ Decode(a)
          /\ \/ cur' = Decoded(a) /\ pending' = Append(pending, [Decoded(a) EXCEPT !.ip = t])
             \/ cur' = [Decoded(a) EXCEPT !.ip = t] /\ pending' = Append(pending, Decoded(a))
             \/ cur' = [Decoded(a) EXCEPT !.err = "stop"] /\ pending' = Append(pending, Decoded(a))
    BY <1>4, <1>11 DEF Copy
  <2>2. Decoded(a) \in Machine /\ decoded' \subseteq Addr
        /\ cos' \in [Array -> [len : 0 .. Top, at : [Addr -> CachedOp]]]
    BY <2>1, DecodeType
  <2>3. [Decoded(a) EXCEPT !.ip = t] \in Machine /\ [Decoded(a) EXCEPT !.err = "stop"] \in Machine
    BY <1>1, <1>2, <2>2 DEF Target
  <2>4. cur' \in Machine /\ \E m \in Machine : pending' = Append(pending, m)
    BY <2>1, <2>2, <2>3
  <2>5. pending' \in Seq(Machine) /\ Len(pending') <= QueueCap
    BY <1>11, <2>4, BoundsAssumption DEF Copy, TypeOK
  <2> QED
    BY <1>11, <2>2, <2>4, <2>5 DEF Copy, TypeOK
<1>12. CASE Resume
  <2>1. pending \in Seq(Machine) /\ pending # <<>> /\ Len(pending) \in Nat
    BY <1>12 DEF Resume, TypeOK
  <2>2. cur' \in Machine /\ pending' \in Seq(Machine) /\ Len(pending') = Len(pending) - 1
    BY <1>12, <2>1, Taken DEF Resume
  <2> QED
    BY <1>12, <2>1, <2>2, BoundsAssumption DEF Resume, TypeOK
<1>13. CASE UNCHANGED vars
  BY <1>13 DEF vars, TypeOK
<1> QED
  BY <1>5, <1>6, <1>7, <1>8, <1>9, <1>10, <1>11, <1>12, <1>13 DEF Next, Returned

\* Every run keeps the types, and its ip within the address space.
THEOREM TypeCorrect == Spec => []TypeOK
BY InitType, NextType, PTL DEF Spec

-----------------------------------------------------------------------------
(* Coherence: the invariant.                                               *)
(*                                                                         *)
(* Coherent is not inductive: an operation that one machine sets is found  *)
(* by the others that share its array, so their memories have to agree on  *)
(* its bytes, and a store must be known to miss the bytes of every         *)
(* operation in a cache.                                                   *)

\* The program keeps its hands off the code it runs.
Good == stale = {} /\ apart \cap decoded = {}

\* Live machines have the same bytes, but where one stored while another waited.
Agree == \A m, n \in Machines, b \in Addr \ apart : m.mem[b] = n.mem[b]

\* Operation op is the one at ip, and its bytes are known to be decoded.
RightOp(mem, ip, op, bytes) ==
  Decodable(mem, ip) /\ op = Read(mem, ip) /\ OpBytes(mem, ip) \subseteq bytes

\* Whatever is found in a cache is right.
RightIn(mem, co, bytes) ==
  \A ip \in Addr : Key(ip) < co.len /\ co.at[Key(ip)].ip # 0
                     => RightOp(mem, ip, co.at[Key(ip)], bytes)

AllRight == Good => \A m \in Machines : RightIn(m.mem, cos[m.opc], decoded)

IInv == TypeOK /\ Agree /\ AllRight

\* A cache stays right for memories with the same bytes in its operations.
LEMMA RightSame ==
  ASSUME NEW mem, NEW other, NEW co, NEW bytes, RightIn(mem, co, bytes),
         \A b \in bytes : other[b] = mem[b]
  PROVE  RightIn(other, co, bytes)
<1> SUFFICES ASSUME NEW ip \in Addr, Key(ip) < co.len, co.at[Key(ip)].ip # 0
             PROVE  RightOp(other, ip, co.at[Key(ip)], bytes)
  BY DEF RightIn
<1>1. RightOp(mem, ip, co.at[Key(ip)], bytes)
  BY DEF RightIn
<1> QED
  BY <1>1, ReadSame DEF RightOp

\* A cache whose other operations were there before is right if the new one is.
LEMMA RightSet ==
  ASSUME NEW mem, NEW co, NEW bytes, RightIn(mem, co, bytes),
         NEW new, NEW more, bytes \subseteq more,
         NEW i \in Addr, RightOp(mem, i, new.at[Key(i)], more),
         \A k \in Addr : k # Key(i) /\ k < new.len /\ new.at[k].ip # 0
                           => k < co.len /\ new.at[k] = co.at[k]
  PROVE  RightIn(mem, new, more)
<1> SUFFICES ASSUME NEW ip \in Addr, Key(ip) < new.len, new.at[Key(ip)].ip # 0
             PROVE  RightOp(mem, ip, new.at[Key(ip)], more)
  BY DEF RightIn
<1>1. CASE Key(ip) = Key(i)
  BY <1>1, Keys
<1>2. CASE Key(ip) # Key(i)
  <2>1. Key(ip) < co.len /\ new.at[Key(ip)] = co.at[Key(ip)]
    BY <1>2, Keys
  <2>2. RightOp(mem, ip, co.at[Key(ip)], bytes)
    BY <2>1 DEF RightIn
  <2> QED
    BY <2>1, <2>2 DEF RightOp
<1> QED
  BY <1>1, <1>2

\* What step() decodes is right for the machine, and for all that share its array.
LEMMA DecodeRight ==
  ASSUME TypeOK, Agree, \A m \in Machines : RightIn(m.mem, cos[m.opc], decoded),
         NEW a \in Array, Decode(a), apart \cap decoded' = {}
  PROVE  /\ \A m \in Machines : RightIn(m.mem, cos'[m.opc], decoded')
         /\ RightIn(cur.mem, cos'[a], decoded')
<1> DEFINE ip == cur.ip
           k == Key(ip)
           op == Op(cur)
<1>1. cur \in Machines /\ cur \in Machine /\ ip \in Addr /\ cur.opc \in Array
  BY DEF TypeOK, Machines, Machine
<1>2. CASE Cached(cur.opc, ip)
  <2>1. a = cur.opc /\ UNCHANGED <<cos, decoded>>
    BY <1>2 DEF Decode
  <2> QED
    BY <1>1, <2>1
<1>3. CASE ~Cached(cur.opc, ip)
  <2>1. Set(a) /\ decoded' = decoded \cup OpBytes(cur.mem, ip)
    BY <1>3 DEF Decode
  <2>2. Decodable(cur.mem, ip) /\ op = Read(cur.mem, ip)
    BY <1>3, OpType DEF Op, Decode, Stepping
  <2>3. \A b \in OpBytes(cur.mem, ip) : b \in Addr \ apart
    BY <2>1 DEF OpBytes
  <2>4. \A m \in Machines : RightOp(m.mem, ip, op, decoded')
    <3> TAKE m \in Machines
    <3>1. \A b \in OpBytes(cur.mem, ip) : m.mem[b] = cur.mem[b]
      BY <1>1, <2>3 DEF Agree
    <3>2. /\ Decodable(m.mem, ip) /\ Read(m.mem, ip) = Read(cur.mem, ip)
          /\ OpBytes(m.mem, ip) = OpBytes(cur.mem, ip)
      BY <1>1, <2>2, <3>1, ReadSame
    <3> QED
      BY <2>1, <2>2, <3>2 DEF RightOp
  <2>5. k \in Addr
    BY <1>1, Keys
  <2>6. cos[a].at \in [Addr -> CachedOp] /\ cos \in [Array -> [len : 0 .. Top, at : [Addr -> CachedOp]]]
    BY DEF TypeOK
  <2>7. \A m \in Machines : RightIn(m.mem, cos[m.opc], decoded')
    BY <2>1 DEF RightIn, RightOp
  <2>8. CASE k < cos[cur.opc].len /\ a = cur.opc /\ cos' = [cos EXCEPT ![a].at[k] = op]
    <3>1. /\ cos'[a].len = cos[a].len /\ cos'[a].at[k] = op
          /\ \A j \in Addr : j # k => cos'[a].at[j] = cos[a].at[j]
          /\ \A c \in Array : c # a => cos'[c] = cos[c]
      BY <2>5, <2>6, <2>8
    <3>2. \A m \in Machines : m.opc = a => RightIn(m.mem, cos'[a], decoded')
      <4> SUFFICES ASSUME NEW m \in Machines, m.opc = a
                   PROVE  RightIn(m.mem, cos'[a], decoded')
        OBVIOUS
      <4>1. RightIn(m.mem, cos[a], decoded')
        BY <2>7
      <4>2. RightOp(m.mem, ip, cos'[a].at[Key(ip)], decoded')
        BY <2>4, <3>1
      <4> QED
        BY <1>1, <3>1, <4>1, <4>2, RightSet
    <3>3. \A m \in Machines : m.opc \in Array
      BY MachineTypes DEF Machine
    <3> QED
      BY <1>1, <2>7, <2>8, <3>1, <3>2, <3>3
  <2>9. CASE /\ k >= cos[cur.opc].len /\ a \in Array \ InUse
             /\ cos' = [cos EXCEPT ![a] = [Grown(cur.opc, k) EXCEPT !.at[k] = op]]
    <3>1. /\ cos'[a].at[k] = op
          /\ \A j \in Addr : j # k =>
               cos'[a].at[j] = IF j < cos[cur.opc].len THEN cos[cur.opc].at[j] ELSE NoOp
          /\ \A c \in Array : c # a => cos'[c] = cos[c]
      BY <2>5, <2>6, <2>9 DEF Grown
    <3>2. \A m \in Machines : m.opc \in Array /\ m.opc # a
      BY <2>9, MachineTypes DEF Machine, Machines, InUse
    <3>3. RightOp(cur.mem, ip, cos'[a].at[Key(ip)], decoded')
      BY <1>1, <2>4, <3>1
    <3>4. \A j \in Addr : j # Key(ip) /\ j < cos'[a].len /\ cos'[a].at[j].ip # 0
                            => j < cos[cur.opc].len /\ cos'[a].at[j] = cos[cur.opc].at[j]
      BY <3>1 DEF NoOp
    <3>5. RightIn(cur.mem, cos[cur.opc], decoded')
      BY <1>1, <2>7
    <3>6. RightIn(cur.mem, cos'[a], decoded')
      BY <1>1, <3>3, <3>4, <3>5, RightSet
    <3> QED
      BY <2>7, <3>1, <3>2, <3>6
  <2> QED
    BY <2>1, <2>8, <2>9 DEF Set
<1> QED
  BY <1>2, <1>3

\* A step that decodes, stores nothing and leaves machines with what was decoded.
LEMMA DecodeKeeps ==
  ASSUME IInv, NEW a \in Array, Decode(a), UNCHANGED ghosts,
         \A m \in Machines' : m \in Machines \/ (m.mem = cur.mem /\ m.opc = a)
  PROVE  Agree' /\ AllRight'
<1>1. cur \in Machines
  BY DEF Machines
<1>2. \A m \in Machines' : \E n \in Machines : m.mem = n.mem
  BY <1>1
<1>3. Agree'
  BY <1>2 DEF IInv, Agree, ghosts
<1>4. ASSUME Good'
      PROVE  \A m \in Machines' : RightIn(m.mem, cos'[m.opc], decoded')
  <2>1. decoded \subseteq decoded' /\ apart' = apart /\ stale' = stale
    BY DEF Decode, ghosts
  <2>2. Good /\ apart \cap decoded' = {}
    BY <1>4, <2>1 DEF Good
  <2>3. \A m \in Machines : RightIn(m.mem, cos[m.opc], decoded)
    BY <2>2 DEF IInv, AllRight
  <2>4. /\ \A m \in Machines : RightIn(m.mem, cos'[m.opc], decoded')
        /\ RightIn(cur.mem, cos'[a], decoded')
    BY <2>2, <2>3, DecodeRight DEF IInv
  <2> QED
    BY <2>4
<1> QED
  BY <1>3, <1>4 DEF AllRight

\* A step that neither decodes nor stores, of machines there were.
LEMMA OthersKeep ==
  ASSUME IInv, UNCHANGED <<cos, decoded, ghosts>>,
         \A m \in Machines' : \E n \in Machines : m.mem = n.mem /\ m.opc = n.opc
  PROVE  Agree' /\ AllRight'
<1>1. Agree'
  BY DEF IInv, Agree, ghosts
<1>2. AllRight'
  BY DEF IInv, AllRight, Good, ghosts
<1> QED
  BY <1>1, <1>2

\* A store: it must miss what is decoded, and if copies wait, the word is apart.
LEMMA StoreKeeps == IInv /\ Store => Agree' /\ AllRight'
<1> SUFFICES ASSUME IInv, Store PROVE Agree' /\ AllRight'
  OBVIOUS
<1>1. PICK a \in Array, at \in 0 .. Top - WordLen :
        /\ Decode(a)
        /\ \E w \in [at .. at + WordLen - 1 -> Byte],
              ip \in {Op(cur).ip} \cup (IF at <= Cbp THEN Target ELSE {}) :
             cur' = [Decoded(a) EXCEPT !.mem = Overwritten(@, w), !.ip = ip]
        /\ stale' = stale \cup ((at .. at + WordLen - 1) \cap decoded')
        /\ apart' = IF pending = <<>> THEN apart ELSE apart \cup (at .. at + WordLen - 1)
  BY DEF Store, Executes
<1> DEFINE word == at .. at + WordLen - 1
<1>2. PICK w \in [word -> Byte], ip \in {Op(cur).ip} \cup (IF at <= Cbp THEN Target ELSE {}) :
        cur' = [Decoded(a) EXCEPT !.mem = Overwritten(@, w), !.ip = ip]
  BY <1>1
<1>3. cur'.opc = a /\ cur'.mem = Overwritten(cur.mem, w)
  BY <1>2 DEF Decoded, IInv, TypeOK, Machine
<1>4. pending' = pending /\ pending \in Seq(Machine) /\ cur \in Machines
  BY DEF Store, IInv, TypeOK, Machines
<1>5. \A b \in Addr \ word : cur'.mem[b] = cur.mem[b]
  BY <1>3 DEF Overwritten
<1>6. apart \subseteq apart' /\ stale \subseteq stale' /\ decoded \subseteq decoded'
  BY <1>1 DEF Decode
<1> HIDE DEF word
<1>7. Agree'
  <2>1. CASE pending = <<>>
    BY <1>4, <2>1 DEF Agree, Machines, Range
  <2>2. CASE pending # <<>>
    <3>1. apart' = apart \cup word
      BY <1>1, <2>2 DEF word
    <3>2. \A m \in Machines', b \in Addr \ apart' : m.mem[b] = cur.mem[b]
      BY <1>4, <1>5, <3>1 DEF IInv, Agree, Machines
    <3> QED
      BY <3>2 DEF Agree
  <2> QED
    BY <2>1, <2>2
<1>8. ASSUME Good'
      PROVE  \A m \in Machines' : RightIn(m.mem, cos'[m.opc], decoded')
  <2>1. Good /\ apart \cap decoded' = {} /\ word \cap decoded' = {}
    BY <1>1, <1>6, <1>8 DEF Good, word
  <2>2. \A m \in Machines : RightIn(m.mem, cos[m.opc], decoded)
    BY <2>1 DEF IInv, AllRight
  <2>3. /\ \A m \in Machines : RightIn(m.mem, cos'[m.opc], decoded')
        /\ RightIn(cur.mem, cos'[a], decoded')
    BY <1>1, <2>1, <2>2, DecodeRight DEF IInv
  <2>4. decoded' \subseteq Addr
    BY <1>1, DecodeType DEF IInv
  <2>5. \A b \in decoded' : cur'.mem[b] = cur.mem[b]
    BY <1>5, <2>1, <2>4
  <2>6. RightIn(cur'.mem, cos'[a], decoded')
    BY <2>3, <2>5, RightSame
  <2> QED
    BY <1>3, <1>4, <2>3, <2>6 DEF Machines
<1> QED
  BY <1>7, <1>8 DEF AllRight

\* Before anything is decoded there is one machine, and its cache is empty.
LEMMA InitInv == Init => IInv
<1> SUFFICES ASSUME Init PROVE IInv
  OBVIOUS
<1>1. TypeOK
  BY InitType
<1>2. Machines = {cur}
  BY DEF Init, Machines, Range
<1>3. \A k \in Addr : cos[cur.opc].at[k].ip = 0
  BY DEF Init, NoOp
<1>4. RightIn(cur.mem, cos[cur.opc], decoded)
  BY <1>3, Keys DEF RightIn
<1> QED
  BY <1>1, <1>2, <1>4 DEF IInv, Agree, AllRight

\* Every step.
LEMMA NextInv == IInv /\ [Next]_vars => IInv'
<1> SUFFICES ASSUME IInv, [Next]_vars PROVE Agree' /\ AllRight'
  BY NextType DEF IInv
<1> USE DEF ghosts
<1>1. cur \in Machine /\ pending \in Seq(Machine) /\ Machines = {cur} \cup Range(pending)
  BY DEF IInv, TypeOK, Machines
<1>2. ASSUME cur'.mem = cur.mem, cur'.opc = cur.opc, UNCHANGED <<pending, cos, decoded, ghosts>>
      PROVE  Agree' /\ AllRight'
  BY <1>1, <1>2, OthersKeep DEF Machines
<1>3. ASSUME NEW a \in Array, Decode(a), cur'.mem = cur.mem, cur'.opc = a,
             UNCHANGED <<pending, ghosts>>
      PROVE  Agree' /\ AllRight'
  BY <1>1, <1>3, DecodeKeeps DEF Machines
<1>4. CASE NoStep
  BY <1>1, <1>2, <1>4 DEF NoStep, Machine
<1>5. CASE Panic
  BY <1>1, <1>2, <1>5 DEF Panic, Machine
<1>6. CASE Stop
  BY <1>1, <1>3, <1>6 DEF Stop, Decoded, Machine
<1>7. CASE Compute
  BY <1>1, <1>3, <1>7 DEF Compute, Executes, Decoded, Machine
<1>8. CASE Jump
  BY <1>1, <1>3, <1>8 DEF Jump, Executes, Decoded, Machine
<1>9. CASE Store
  BY <1>9, StoreKeeps
<1>10. CASE Copy
  <2>1. PICK a \in Array, t \in Target :
          /\ Decode(a)
          /\ \/ cur' = Decoded(a) /\ pending' = Append(pending, [Decoded(a) EXCEPT !.ip = t])
             \/ cur' = [Decoded(a) EXCEPT !.ip = t] /\ pending' = Append(pending, Decoded(a))
             \/ cur' = [Decoded(a) EXCEPT !.err = "stop"] /\ pending' = Append(pending, Decoded(a))
    BY <1>10 DEF Copy, Executes
  <2>2. Decoded(a) \in Machine /\ [Decoded(a) EXCEPT !.ip = t] \in Machine
    BY <2>1, DecodeType DEF IInv, Machine, Target
  <2> DEFINE New(m) == m.mem = cur.mem /\ m.opc = a
  <2>3. New(cur') /\ \E n \in Machine : New(n) /\ pending' = Append(pending, n)
    BY <1>1, <2>1, <2>2 DEF Decoded, Machine
  <2>4. PICK n \in Machine : New(n) /\ pending' = Append(pending, n)
    BY <2>3
  <2>5. Range(pending') \subseteq Range(pending) \cup {n}
    BY <1>1, <2>4, Queued
  <2>6. \A m \in Machines' : m \in Machines \/ New(m)
    BY <2>3, <2>4, <2>5 DEF Machines
  <2>7. UNCHANGED ghosts
    BY <1>10 DEF Copy
  <2> QED
    BY <2>1, <2>6, <2>7, DecodeKeeps
<1>11. CASE Resume
  <2>1. Machines' \subseteq Machines
    BY <1>1, <1>11, Taken DEF Resume, Machines
  <2> QED
    BY <1>11, <2>1, OthersKeep DEF Resume
<1>12. CASE UNCHANGED vars
  BY <1>2, <1>12 DEF vars, ghosts
<1> QED
  BY <1>4, <1>5, <1>6, <1>7, <1>8, <1>9, <1>10, <1>11, <1>12 DEF Next, Returned

\* For every program that leaves the code it runs alone, in any number of copies, the
\* caches hold what memory does, whoever set an operation and whoever finds it.
THEOREM CacheCoherent == Spec => []Coherent
<1>1. IInv => Coherent
  <2> SUFFICES ASSUME IInv, Good, NEW m \in Machines, NEW ip \in Addr, Cached(m.opc, ip)
               PROVE  Decodable(m.mem, ip) /\ cos[m.opc].at[Key(ip)] = Read(m.mem, ip)
    BY DEF Coherent, Good
  <2>1. RightIn(m.mem, cos[m.opc], decoded)
    BY DEF IInv, AllRight
  <2> QED
    BY <2>1 DEF Cached, RightIn, RightOp
<1> QED
  BY <1>1, InitInv, NextInv, PTL DEF Spec
=============================================================================
