----------------------------- MODULE TraceProof -----------------------------
(***************************************************************************)
(* Proofs about Trace, for every value of its constants.                   *)
(***************************************************************************)
EXTENDS Trace, FiniteSetTheorems, SequenceTheorems, TLAPS

-----------------------------------------------------------------------------
(* Sequences, and functions of machines *)

\* What is taken from the end of a list, and what that leaves.
LEMMA TakeLast ==
  ASSUME NEW S, NEW s \in Seq(S), s # <<>>
  PROVE  /\ Len(s) \in Nat \ {0} /\ Front(s) \in Seq(S) /\ Len(Front(s)) = Len(s) - 1
         /\ \A i \in 1 .. Len(s) - 1 : Front(s)[i] = s[i]
         /\ Last(s) = s[Len(s)] /\ Last(s) \in S
         /\ Range(s) = Range(Front(s)) \cup {Last(s)}
         /\ IsInjective(s) => IsInjective(Front(s)) /\ Last(s) \notin Range(Front(s))
<1>1. /\ Len(s) \in Nat \ {0} /\ DOMAIN s = 1 .. Len(s)
      /\ \A i \in 1 .. Len(s) : s[i] \in S
  BY EmptySeq, LenProperties, ElementOfSeq
<1>2. /\ Front(s) \in Seq(S) /\ Len(Front(s)) = Len(s) - 1
      /\ \A i \in 1 .. Len(s) - 1 : Front(s)[i] = s[i]
  <2>1. /\ SubSeq(s, 1, Len(s) - 1) \in Seq(S)
        /\ Len(SubSeq(s, 1, Len(s) - 1)) = IF 1 <= Len(s) - 1 THEN (Len(s) - 1) - 1 + 1 ELSE 0
        /\ \A i \in 1 .. (Len(s) - 1) - 1 + 1 : SubSeq(s, 1, Len(s) - 1)[i] = s[1 + i - 1]
    <3>1. \A i \in 1 .. Len(s) - 1 : s[i] \in S
      BY <1>1
    <3> QED
      BY <1>1, <3>1, SubSeqProperties
  <2> QED
    BY <1>1, <2>1 DEF Front
<1>3. DOMAIN Front(s) = 1 .. Len(s) - 1
  BY <1>2, LenProperties
<1>4. Last(s) = s[Len(s)] /\ Last(s) \in S
  BY <1>1 DEF Last
<1>5. Range(s) = Range(Front(s)) \cup {Last(s)}
  BY <1>1, <1>2, <1>3, <1>4 DEF Range
<1>6. IsInjective(s) => IsInjective(Front(s)) /\ Last(s) \notin Range(Front(s))
  BY <1>1, <1>2, <1>3, <1>4 DEF IsInjective, Range
<1> QED
  BY <1>1, <1>2, <1>4, <1>5, <1>6

\* What a list is once something is put at its end.
LEMMA PutLast ==
  ASSUME NEW S, NEW s \in Seq(S), NEW e \in S
  PROVE  /\ Len(s) \in Nat /\ DOMAIN s = 1 .. Len(s)
         /\ Append(s, e) \in Seq(S) /\ Len(Append(s, e)) = Len(s) + 1
         /\ DOMAIN Append(s, e) = 1 .. Len(s) + 1
         /\ \A i \in 1 .. Len(s) : Append(s, e)[i] = s[i]
         /\ Append(s, e)[Len(s) + 1] = e
         /\ Range(Append(s, e)) = Range(s) \cup {e}
         /\ IsInjective(s) /\ e \notin Range(s) => IsInjective(Append(s, e))
         /\ Append(s, e) # <<>> /\ Last(Append(s, e)) = e /\ Front(Append(s, e)) = s
<1>1. /\ Len(s) \in Nat /\ DOMAIN s = 1 .. Len(s)
      /\ Append(s, e) \in Seq(S) /\ Len(Append(s, e)) = Len(s) + 1
      /\ \A i \in 1 .. Len(s) : Append(s, e)[i] = s[i]
      /\ Append(s, e)[Len(s) + 1] = e
  BY LenProperties, AppendProperties
<1>2. DOMAIN Append(s, e) = 1 .. Len(s) + 1
  BY <1>1, LenProperties
<1>3. Range(Append(s, e)) = Range(s) \cup {e}
  BY <1>1, <1>2 DEF Range
<1>4. IsInjective(s) /\ e \notin Range(s) => IsInjective(Append(s, e))
  BY <1>1, <1>2 DEF IsInjective, Range
<1>5. Append(s, e) # <<>>
  BY <1>1, EmptySeq
<1>6. Last(Append(s, e)) = e
  BY <1>1 DEF Last
<1>7. Front(Append(s, e)) = s
  <2>1. PICK t \in Seq(S) : t = Append(s, e)
    BY <1>1
  <2>2. /\ t \in Seq(S) /\ t # <<>> /\ Len(t) = Len(s) + 1
        /\ \A i \in 1 .. Len(s) : t[i] = s[i]
    BY <1>1, <1>5, <2>1
  <2>3. /\ Front(t) \in Seq(S) /\ Len(Front(t)) = Len(t) - 1
        /\ \A i \in 1 .. Len(t) - 1 : Front(t)[i] = t[i]
    BY ONLY <2>2, TakeLast
  <2>4. Len(Front(t)) = Len(s) /\ \A i \in 1 .. Len(s) : Front(t)[i] = s[i]
    BY <1>1, <2>2, <2>3
  <2>5. Front(t) = s
    BY <2>3, <2>4, SeqEqual
  <2> QED
    BY <2>1, <2>5
<1> QED
  BY <1>1, <1>2, <1>3, <1>4, <1>5, <1>6, <1>7

\* No sequence is one that has something appended to it.
LEMMA AppendLonger ==
  ASSUME NEW S, NEW s \in Seq(S), NEW e \in S
  PROVE  Append(s, e) # s
<1>1. Len(Append(s, e)) = Len(s) + 1 /\ Len(s) \in Nat
  BY PutLast
<1> QED
  BY <1>1

\* A list has no more elements than places.
LEMMA RangeBound ==
  ASSUME NEW S, NEW s \in Seq(S)
  PROVE  /\ IsFiniteSet(Range(s)) /\ Cardinality(Range(s)) \in Nat
         /\ Cardinality(Range(s)) <= Len(s)
<1>1. Len(s) \in Nat /\ s \in [1 .. Len(s) -> S] /\ DOMAIN s = 1 .. Len(s)
  BY LenProperties
<1>2. s \in Surjection(1 .. Len(s), Range(s))
  BY <1>1 DEF Surjection, Range
<1>3. IsFiniteSet(1 .. Len(s)) /\ Cardinality(1 .. Len(s)) = Len(s)
  BY <1>1, FS_Interval
<1>4. IsFiniteSet(Range(s)) /\ Cardinality(Range(s)) <= Len(s)
  BY <1>2, <1>3, FS_Surjection
<1> QED
  BY <1>4, FS_CardinalityType

\* The tracers' maps of machines.
LEMMA MapLaws ==
  ASSUME NEW f, NEW m, NEW v
  PROVE  /\ DOMAIN With(f, m, v) = DOMAIN f \cup {m}
         /\ With(f, m, v)[m] = v
         /\ \A x \in DOMAIN f : x # m => With(f, m, v)[x] = f[x]
         /\ DOMAIN Without(f, m) = DOMAIN f \ {m}
         /\ \A x \in DOMAIN f : x # m => Without(f, m)[x] = f[x]
BY DEF With, Without

\* They keep their types.
LEMMA WithType ==
  ASSUME NEW T, NEW f, f \in [DOMAIN f -> T], NEW m, NEW v \in T
  PROVE  With(f, m, v) \in [DOMAIN With(f, m, v) -> T]
BY DEF With

LEMMA WithoutType ==
  ASSUME NEW T, NEW f, f \in [DOMAIN f -> T], NEW m
  PROVE  Without(f, m) \in [DOMAIN Without(f, m) -> T]
BY DEF Without

LEMMA KnownType ==
  ASSUME NEW T, NEW f, f \in [DOMAIN f -> T], NEW m, NEW v \in T
  PROVE  Known(f, m, v) \in T
BY DEF Known

-----------------------------------------------------------------------------
(* Types *)

Memories == UNION {[S -> Operations] : S \in SUBSET Nat}
Caches == UNION {[S -> Operations \cup {NotCached}] : S \in SUBSET Nat}
Errs == {"nil", "limit", "decode", "qfull", "halt", "crash"}
Machine == [ip : Nat, mem : Memories, count : Nat, err : Errs, life : Seq(Nat), ran : Nat]
IDs == Nat \X Nat \X Nat
Whats == {"begin", "before", "queue", "after", "end", "handle"}
LogNote == [what : Whats, life : Seq(Nat), id : IDs, count : Nat, ran : Nat,
            op : Operations \cup {NotCached}, child : IDs]

TypeInv ==
  /\ pc \in {"call", "begin", "loop", "step", "after", "end", "handle", "next", "done"}
  /\ mode \in {"trace", "run"} /\ calls \in Nat
  /\ cur \in Mach /\ queue \in Seq(Mach) /\ freeMachs \in Seq(Mach)
  /\ born \in SUBSET Seq(Nat) /\ accepted \in Seq(Seq(Nat)) /\ recycled \in BOOLEAN
  /\ regs \in [Mach -> Machine] /\ cos \in Caches
  /\ traced \in [Mach -> Mach \cup {NoMach}]
  /\ read \in Operations \cup {NotCached} /\ answer \in BOOLEAN
  /\ nextID \in Nat /\ ids \in [DOMAIN ids -> IDs] /\ counts \in [DOMAIN counts -> Nat]
  /\ log \in Seq(LogNote)

-----------------------------------------------------------------------------
(* Where a call is, and whose struct is whose *)

Outside == pc \in {"call", "done"}

\* The calls: only Trace() begins machines and tells of operations, and the first call
\* cannot meet a struct that was recycled.
Control ==
  /\ pc \in {"begin", "step", "after", "end"} => mode = "trace"
  /\ calls = 0 => pc = "call"
  /\ recycled => calls > 1 \/ (calls = 1 /\ Outside)

\* A machine that is handled has ended; a call that returned left its last machine in the
\* caller's struct, and if the handler let it end, no other one.
Held ==
  /\ pc \in {"step", "after"} => regs[cur].err = "nil"
  /\ pc \in {"end", "handle", "next"} => regs[cur].err # "nil"
  /\ Outside /\ calls > 0 => regs[cur].err # "nil" /\ regs[Root] = regs[cur]
  /\ Outside /\ calls > 0 /\ answer => queue = <<>>
  /\ calls = 0 => cur = Root /\ regs[cur].err = "nil" /\ queue = <<>>

\* The machine that the next step is about.
Me == IF Outside THEN Root ELSE cur

\* While the caller's struct was not recycled, no struct is two machines.
Apart ==
  /\ IsInjective(queue) /\ IsInjective(freeMachs)
  /\ Waiting \cap Range(freeMachs) = {}
  /\ Me \notin Waiting
  /\ queue # <<>> \/ regs[Me].err = "nil" => Me \notin Range(freeMachs)

ApartInv == TypeInv /\ Control /\ (~recycled => Held /\ Apart)

-----------------------------------------------------------------------------
(* Lives *)

Life(m) == regs[m].life
Lives == {Life(m) : m \in Waiting}

\* A life is that of one machine; a machine that ran has made no copy that is named
\* as its next one will be.
LivesInv ==
  /\ \A m1, m2 \in Waiting : Life(m1) = Life(m2) => m1 = m2
  /\ Life(cur) \notin Lives
  /\ Life(cur) \in born
  /\ \A l \in Seq(Nat), x \in Nat : Append(l, x) \in born => l \in born
  /\ \A m \in Waiting \cup {cur}, x \in Nat : Append(Life(m), x) \in born => x <= regs[m].ran

AcceptedInv ==
  /\ Lives \cap Range(accepted) = {}
  /\ born = Lives \cup Range(accepted) \cup {Life(cur)}
  /\ Life(cur) \in Range(accepted) =>
       regs[cur].err # "nil" /\ (queue = <<>> \/ (pc = "next" /\ answer))
  /\ (pc = "next" \/ (Outside /\ calls > 0)) /\ answer => Life(cur) \in Range(accepted)
  /\ IsInjective(accepted) \/ (Len(accepted) > Cardinality(born) /\ Life(cur) \in Range(accepted) /\ queue = <<>>)

-----------------------------------------------------------------------------
(* What a step computes is typed *)

\* What a machine can execute: an operation, decoded or not.
LEMMA OperationTypes ==
  ASSUME NEW g \in Machine, NEW c \in Caches
  PROVE  OpAt(g.mem, g.ip) \in Operations /\ Stepped(g, c) \in Operations
<1>1. PICK S \in SUBSET Nat : g.mem \in [S -> Operations]
  BY DEF Machine, Memories
<1>2. PICK T \in SUBSET Nat : c \in [T -> Operations \cup {NotCached}]
  BY DEF Caches
<1>3. Crash \in Operations
  BY DEF Operations, Crash
<1>4. OpAt(g.mem, g.ip) \in Operations
  BY <1>1, <1>3 DEF OpAt
<1>5. CachedOp(c, g.ip) \in Operations \cup {NotCached}
  BY <1>2 DEF CachedOp
<1> QED
  BY <1>4, <1>5 DEF Stepped

\* The cache after an operation.
LEMMA CacheType ==
  ASSUME NEW c \in Caches, NEW ip, NEW o \in Operations
  PROVE  Remembered(c, ip, o) \in Caches
<1>1. PICK T \in SUBSET Nat : c \in [T -> Operations \cup {NotCached}]
  BY DEF Caches
<1>2. Remembered(c, ip, o) \in [T -> Operations \cup {NotCached}]
  BY <1>1 DEF Remembered
<1> QED
  BY <1>2 DEF Caches

\* Memory after an operation is overwritten.
LEMMA MemoryType ==
  ASSUME NEW mem \in Memories, NEW a, NEW o \in Operations
  PROVE  [mem EXCEPT ![a] = o] \in Memories
<1>1. PICK S \in SUBSET Nat : mem \in [S -> Operations]
  BY DEF Memories
<1>2. [mem EXCEPT ![a] = o] \in [S -> Operations]
  BY <1>1
<1> QED
  BY <1>2 DEF Memories

\* A machine that ends or is counted is the machine it was.
LEMMA MachineUpdates ==
  ASSUME NEW g \in Machine
  PROVE  /\ g.life \in Seq(Nat) /\ g.ran \in Nat /\ g.err \in Errs
         /\ \A e \in Errs : LET h == [g EXCEPT !.err = e] IN
              h \in Machine /\ h.err = e /\ h.life = g.life /\ h.ran = g.ran
         /\ LET h == Counted(g) IN
              /\ h \in Machine /\ h.err = g.err /\ h.life = g.life /\ h.ran = g.ran + 1
              /\ h.mem = g.mem /\ h.ip = g.ip
<1>1. PICK ip \in Nat, mem \in Memories, count \in Nat, err \in Errs, life \in Seq(Nat), ran \in Nat :
        g = [ip |-> ip, mem |-> mem, count |-> count, err |-> err, life |-> life, ran |-> ran]
  BY DEF Machine
<1>2. \A e \in Errs : [g EXCEPT !.err = e]
          = [ip |-> ip, mem |-> mem, count |-> count, err |-> e, life |-> life, ran |-> ran]
  BY <1>1
<1>3. Counted(g) = [ip |-> ip, mem |-> mem, count |-> IF Limit = 0 THEN count ELSE count + 1,
                    err |-> err, life |-> life, ran |-> ran + 1]
  <2>1. ASSUME NEW a, NEW b
        PROVE  [g EXCEPT !.count = a, !.ran = b]
          = [ip |-> ip, mem |-> mem, count |-> a, err |-> err, life |-> life, ran |-> b]
    <3>1. PICK f : f = [g EXCEPT !.count = a]
      OBVIOUS
    <3>2. f = [ip |-> ip, mem |-> mem, count |-> a, err |-> err, life |-> life, ran |-> ran]
      BY <1>1, <3>1
    <3>3. [f EXCEPT !.ran = b]
            = [ip |-> ip, mem |-> mem, count |-> a, err |-> err, life |-> life, ran |-> b]
      BY <3>2
    <3> QED
      BY <3>1, <3>3, Zenon
  <2>2. g.count = count /\ g.ran = ran
    BY <1>1
  <2> QED
    BY <2>1, <2>2 DEF Counted
<1>4. (IF Limit = 0 THEN count ELSE count + 1) \in Nat /\ ran + 1 \in Nat
  OBVIOUS
<1> QED
  BY <1>1, <1>2, <1>3, <1>4 DEF Machine

\* An operation changes where a machine goes on, its memory, or ends it.
LEMMA EffectType ==
  ASSUME NEW g \in Machine, NEW o \in Operations, o # Bad
  PROVE  /\ Effect(g, o) \in Machine
         /\ Effect(g, o).life = g.life /\ Effect(g, o).ran = g.ran
         /\ o.op = "fork" => Effect(g, o).err = g.err
<1>1. PICK ip \in Nat, mem \in Memories, count \in Nat, err \in Errs, life \in Seq(Nat), ran \in Nat :
        g = [ip |-> ip, mem |-> mem, count |-> count, err |-> err, life |-> life, ran |-> ran]
  BY DEF Machine
<1> DEFINE Is(a, b, e) == [ip |-> a, mem |-> b, count |-> count, err |-> e, life |-> life, ran |-> ran]
           t == [op |-> "nop", to |-> 0]
<1>2. /\ o.op \in {"nop", "jump", "fork", "spoil", "skip", "halt", "crash"} /\ o.to \in Nat
      /\ t \in Operations /\ Bad \in Operations
  BY DEF Operations, Bad
<1>3. /\ o.op \in {"nop", "fork"} => Effect(g, o) = Is(ip + 1, mem, err)
      /\ o.op = "jump" => Effect(g, o) = Is(o.to, mem, err)
      /\ o.op = "spoil" => Effect(g, o) = Is(ip + 1, [mem EXCEPT ![o.to] = Bad], err)
      /\ o.op = "skip" => Effect(g, o) = Is(ip + 1, [mem EXCEPT ![o.to] = t], err)
      /\ o.op = "halt" => Effect(g, o) = Is(ip + 1, mem, "halt")
      /\ o.op = "crash" => Effect(g, o) = Is(ip + 1, mem, "crash")
  BY <1>1 DEF Effect
<1>4. \A a \in Nat, b \in Memories, e \in Errs :
        Is(a, b, e) \in Machine /\ Is(a, b, e).life = life /\ Is(a, b, e).ran = ran /\ Is(a, b, e).err = e
  BY DEF Machine
<1>5. [mem EXCEPT ![o.to] = Bad] \in Memories /\ [mem EXCEPT ![o.to] = t] \in Memories
  BY <1>2, MemoryType
<1>6. "halt" \in Errs /\ "crash" \in Errs /\ ip + 1 \in Nat
  BY DEF Errs
<1> HIDE DEF Is, t
<1>7. \E a \in Nat, b \in Memories, e \in Errs :
        Effect(g, o) = Is(a, b, e) /\ (o.op = "fork" => e = err)
  BY <1>2, <1>3, <1>5, <1>6
<1> QED
  BY <1>1, <1>4, <1>7

\* The copy that fork makes: what the machine that makes it is, but for its life.
LEMMA ForkedType ==
  ASSUME NEW g \in Machine, NEW o \in Operations
  PROVE  /\ Forked(g, o) \in Machine
         /\ Forked(g, o).life = Append(g.life, g.ran)
         /\ Forked(g, o).ran = g.ran /\ Forked(g, o).err = g.err
<1>1. PICK ip \in Nat, mem \in Memories, count \in Nat, err \in Errs, life \in Seq(Nat), ran \in Nat :
        g = [ip |-> ip, mem |-> mem, count |-> count, err |-> err, life |-> life, ran |-> ran]
  BY DEF Machine
<1>2. Forked(g, o) = [ip |-> o.to, mem |-> mem, count |-> count, err |-> err,
                      life |-> Append(life, ran), ran |-> ran]
  <2>1. ASSUME NEW a, NEW b
        PROVE  [g EXCEPT !.ip = a, !.life = b]
          = [ip |-> a, mem |-> mem, count |-> count, err |-> err, life |-> b, ran |-> ran]
    <3>1. PICK f : f = [g EXCEPT !.ip = a]
      OBVIOUS
    <3>2. f = [ip |-> a, mem |-> mem, count |-> count, err |-> err, life |-> life, ran |-> ran]
      BY <1>1, <3>1
    <3>3. [f EXCEPT !.life = b]
            = [ip |-> a, mem |-> mem, count |-> count, err |-> err, life |-> b, ran |-> ran]
      BY <3>2
    <3> QED
      BY <3>1, <3>3, Zenon
  <2>2. g.life = life /\ g.ran = ran
    BY <1>1
  <2> QED
    BY <2>1, <2>2 DEF Forked
<1>3. o.to \in Nat /\ Append(life, ran) \in Seq(Nat)
  BY PutLast DEF Operations, Bad
<1>4. g.life = life /\ g.ran = ran /\ g.err = err
  BY <1>1
<1>5. \A l \in Seq(Nat) : LET c == [ip |-> o.to, mem |-> mem, count |-> count, err |-> err,
                                   life |-> l, ran |-> ran] IN
        c \in Machine /\ c.life = l /\ c.ran = ran /\ c.err = err
  BY <1>3 DEF Machine
<1> QED
  BY <1>2, <1>3, <1>4, <1>5

-----------------------------------------------------------------------------
(* What a step of the machine does to the run *)

\* A step that makes no copy.
Alone(h) ==
  /\ h \in Machine /\ h.life = Life(cur) /\ h.ran \in {regs[cur].ran, regs[cur].ran + 1}
  /\ h.err = "nil" => h.ran = regs[cur].ran + 1
  /\ regs' = [regs EXCEPT ![cur] = h]
  /\ Goes(h.err)
  /\ UNCHANGED <<queue, freeMachs, lost, born, traced, tracers>>

\* A step that makes the copy c, in the struct n; the machine that makes it is left as h,
\* and was g before the queue was asked.
Copying(g, h, c, n) ==
  /\ g \in Machine /\ h \in Machine /\ c \in Machine
  /\ g.life = Life(cur) /\ g.ran = regs[cur].ran + 1
  /\ h.life = Life(cur) /\ h.ran = regs[cur].ran + 1
  /\ c.life = Append(Life(cur), regs[cur].ran + 1) /\ c.ran = regs[cur].ran + 1 /\ c.err = "nil"
  /\ InBound /\ n = AllocMach
  /\ freeMachs' = IF freeMachs = <<>> THEN freeMachs ELSE Front(freeMachs)
  /\ regs' = [regs EXCEPT ![cur] = h, ![n] = c]
  /\ IF traced[cur] = NoMach THEN traced' = [traced EXCEPT ![n] = NoMach] /\ UNCHANGED tracers
     ELSE TracedEnqueue(g, n)
  /\ \/ lost' = lost \cup {n} /\ UNCHANGED <<queue, born>>
     \/ queue' = Append(queue, n) /\ born' = born \cup {c.life} /\ UNCHANGED lost
  /\ Goes(h.err)

\* A step is one or the other.
LEMMA StepCases ==
  ASSUME TypeInv, Step
  PROVE  /\ Stepping /\ regs[cur].err = "nil" /\ cos' \in Caches
         /\ UNCHANGED <<mode, calls, cur, read, answer, accepted, recycled>>
         /\ (\E h : Alone(h)) \/ (\E g, h, c, n : Copying(g, h, c, n))
<1>1. /\ regs[cur] \in Machine /\ cos \in Caches /\ regs[cur].err = "nil"
      /\ Stepping /\ UNCHANGED <<mode, calls, cur, read, answer, accepted, recycled>>
  BY DEF TypeInv, Step
<1> DEFINE g == regs[cur]
           o == Stepped(g, cos)
           k == Counted(g)
           h == Effect(k, o)
<1>2. /\ o \in Operations /\ g.ran \in Nat
      /\ k \in Machine /\ k.err = "nil" /\ k.life = g.life /\ k.ran = g.ran + 1
  BY <1>1, OperationTypes, MachineUpdates
<1>3. /\ {"limit", "decode", "qfull"} \subseteq Errs /\ "nil" # "limit" /\ "nil" # "decode"
  BY DEF Errs
<1>4. \/ OverLimit(g) /\ StepFails([g EXCEPT !.err = "limit"]) /\ UNCHANGED cos
      \/ o = Bad /\ StepFails([k EXCEPT !.err = "decode"]) /\ UNCHANGED cos
      \/ /\ o # Bad /\ cos' = Remembered(cos, g.ip, o)
         /\ IF o.op = "fork" THEN StepForks(h, o)
            ELSE /\ regs' = [regs EXCEPT ![cur] = h]
                 /\ Goes(h.err)
                 /\ UNCHANGED <<queue, freeMachs, lost, born, traced, tracers>>
  BY DEF Step, StepFails
<1>5. CASE OverLimit(g) /\ StepFails([g EXCEPT !.err = "limit"]) /\ UNCHANGED cos
  <2>1. PICK j : j = [g EXCEPT !.err = "limit"]
    OBVIOUS
  <2>2. j \in Machine /\ j.err = "limit" /\ j.life = g.life /\ j.ran = g.ran
    BY <1>1, <1>3, <2>1, MachineUpdates
  <2>3. Alone(j)
    BY <1>3, <1>5, <2>1, <2>2 DEF Alone, StepFails, Life
  <2> QED
    BY <1>1, <1>5, <2>3
<1>6. CASE o = Bad /\ StepFails([k EXCEPT !.err = "decode"]) /\ UNCHANGED cos
  <2>1. PICK j : j = [k EXCEPT !.err = "decode"]
    OBVIOUS
  <2>2. j \in Machine /\ j.err = "decode" /\ j.life = g.life /\ j.ran = g.ran + 1
    BY <1>2, <1>3, <2>1, MachineUpdates
  <2>3. Alone(j)
    BY <1>3, <1>6, <2>1, <2>2 DEF Alone, StepFails, Life
  <2> QED
    BY <1>1, <1>6, <2>3
<1>7. CASE /\ o # Bad /\ cos' = Remembered(cos, g.ip, o)
           /\ IF o.op = "fork" THEN StepForks(h, o)
              ELSE /\ regs' = [regs EXCEPT ![cur] = h]
                   /\ Goes(h.err)
                   /\ UNCHANGED <<queue, freeMachs, lost, born, traced, tracers>>
  <2>1. cos' \in Caches
    BY <1>1, <1>2, <1>7, CacheType
  <2>2. h \in Machine /\ h.life = g.life /\ h.ran = g.ran + 1
    BY <1>2, <1>7, EffectType
  <2>3. CASE o.op # "fork"
    <3>1. Alone(h)
      BY <1>7, <2>2, <2>3 DEF Alone, Life
    <3> QED
      BY <1>1, <2>1, <3>1
  <2>4. CASE o.op = "fork"
    <3> DEFINE full == Len(queue) >= QueueCap
               j == IF full THEN [h EXCEPT !.err = "qfull"] ELSE h
               n == AllocMach
               c == Forked(h, o)
    <3>1. h.err = "nil"
      BY <1>2, <1>7, <2>4, EffectType
    <3>2. j \in Machine /\ j.life = g.life /\ j.ran = g.ran + 1
      <4>1. \A e \in Errs : LET x == [h EXCEPT !.err = e] IN
              x \in Machine /\ x.err = e /\ x.life = h.life /\ x.ran = h.ran
        BY <2>2, MachineUpdates
      <4> HIDE DEF h
      <4> QED
        BY <1>3, <2>2, <4>1
    <3>3. /\ c \in Machine /\ c.life = Append(g.life, g.ran + 1) /\ c.ran = g.ran + 1
          /\ c.err = "nil"
      BY <1>2, <2>2, <3>1, ForkedType
    <3>4. StepForks(h, o)
      BY <1>7, <2>4
    <3> HIDE DEF h, o, k
    <3>5. Copying(h, j, c, n)
      BY <2>2, <3>2, <3>3, <3>4 DEF StepForks, Copying, Life
    <3> QED
      BY <1>1, <2>1, <3>5
  <2> QED
    BY <2>3, <2>4
<1> QED
  BY <1>4, <1>5, <1>6, <1>7

-----------------------------------------------------------------------------
(* Type correctness *)

\* The struct a copy gets is an address.
LEMMA AllocatedType ==
  ASSUME TypeInv, InBound
  PROVE  /\ AllocMach \in Mach
         /\ (IF freeMachs = <<>> THEN freeMachs ELSE Front(freeMachs)) \in Seq(Mach)
         /\ freeMachs = <<>> => AllocMach \in FreshMachs
         /\ freeMachs # <<>> => AllocMach = Last(freeMachs)
<1>1. CASE freeMachs # <<>>
  BY <1>1, TakeLast DEF AllocMach, TypeInv
<1>2. CASE freeMachs = <<>>
  <2>1. PICK m \in FreshMachs : TRUE
    BY <1>2 DEF InBound
  <2>2. AllocMach \in FreshMachs
    BY <1>2, <2>1 DEF AllocMach
  <2> QED
    BY <1>2, <2>2 DEF TypeInv, FreshMachs
<1> QED
  BY <1>1, <1>2

\* Notes are typed.
LEMMA NoteType ==
  ASSUME TypeInv, NEW what \in Whats, NEW m \in Mach,
         NEW i, i \in [DOMAIN i -> IDs], NEW c, c \in [DOMAIN c -> Nat],
         NEW o \in Operations \cup {NotCached}, NEW child \in IDs
  PROVE  Note(what, m, i, c, o, child) \in LogNote
<1>1. NoID \in IDs
  BY DEF NoID, IDs
<1>2. Known(i, m, NoID) \in IDs /\ Known(c, m, 0) \in Nat
  BY <1>1, KnownType
<1>3. regs[m].life \in Seq(Nat) /\ regs[m].ran \in Nat
  BY MachineUpdates DEF TypeInv
<1> QED
  BY <1>2, <1>3 DEF Note, LogNote

\* What the tracers know after a copy was queued is typed.
LEMMA EnqueueType ==
  ASSUME TypeInv, NEW g \in Machine, NEW n \in Mach, traced[cur] # NoMach, TracedEnqueue(g, n)
  PROVE  /\ nextID' \in Nat /\ ids' \in [DOMAIN ids' -> IDs]
         /\ counts' \in [DOMAIN counts' -> Nat] /\ log' \in Seq(LogNote)
         /\ traced' = [traced EXCEPT ![n] = n]
<1> DEFINE m == traced[cur]
<1>1. /\ m \in Mach /\ m # NoMach
      /\ QueueID(m, n) /\ QueueCount(m, n) /\ FixTracer(n, m)
      /\ Notes([Note("queue", m, ids', counts', NotCached, Known(ids', n, NoID)) EXCEPT !.ran = g.ran])
  BY DEF TracedEnqueue, TypeInv
<1>2. nextID' \in Nat /\ ids' \in [DOMAIN ids' -> IDs]
  <2>1. nextID \in Nat /\ ids \in [DOMAIN ids -> IDs]
    BY DEF TypeInv
  <2>2. CASE m \in DOMAIN ids
    <3>1. ids[m] \in IDs /\ nextID' = nextID + 1
      BY <1>1, <2>1, <2>2 DEF QueueID
    <3>2. PICK id \in IDs : id = <<ids[m][1], ids[m][3], nextID'>>
      <4>1. ids[m][1] \in Nat /\ ids[m][3] \in Nat /\ nextID' \in Nat
        BY <2>1, <3>1 DEF IDs
      <4>2. <<ids[m][1], ids[m][3], nextID'>> \in IDs
        BY <4>1 DEF IDs
      <4> QED
        BY <4>2
    <3>3. With(ids, n, id) \in [DOMAIN With(ids, n, id) -> IDs]
      BY <2>1, WithType
    <3>4. ids' = With(ids, n, id)
      BY <1>1, <2>2, <3>2 DEF QueueID
    <3> QED
      BY <2>1, <3>1, <3>3, <3>4
  <2>3. CASE m \notin DOMAIN ids
    <3>1. Without(ids, n) \in [DOMAIN Without(ids, n) -> IDs]
      BY <2>1, WithoutType
    <3>2. ids' = Without(ids, n) /\ nextID' = nextID
      BY <1>1, <2>3 DEF QueueID
    <3> QED
      BY <2>1, <3>1, <3>2
  <2> QED
    BY <2>2, <2>3
<1>3. counts' \in [DOMAIN counts' -> Nat]
  <2>1. Known(counts, m, 0) \in Nat
    BY KnownType DEF TypeInv
  <2> QED
    BY <1>1, <2>1, WithType DEF QueueCount, TypeInv
<1>4. log' \in Seq(LogNote)
  <2>1. NoID \in IDs
    BY DEF NoID, IDs
  <2>2. Known(ids', n, NoID) \in IDs
    BY <1>2, <2>1, KnownType
  <2>3. Note("queue", m, ids', counts', NotCached, Known(ids', n, NoID)) \in LogNote
    BY <1>1, <1>2, <1>3, <2>2, NoteType DEF Whats
  <2>4. g.ran \in Nat
    BY MachineUpdates
  <2>5. \A note \in LogNote : [note EXCEPT !.ran = g.ran] \in LogNote
    BY <2>4 DEF LogNote
  <2> QED
    BY <1>1, <2>3, <2>5, PutLast DEF Notes, TypeInv
<1>5. traced' = [traced EXCEPT ![n] = n]
  BY <1>1 DEF FixTracer
<1> QED
  BY <1>2, <1>3, <1>4, <1>5

\* The machines that New() leaves are typed.
LEMMA InitType == Init => TypeInv
<1> SUFFICES ASSUME Init PROVE TypeInv
  OBVIOUS
<1>1. PICK mem \in Progs : regs = [m \in Mach |-> Loaded(mem)] /\ cos = NoneCached(mem)
  BY DEF Init
<1>2. DOMAIN mem \subseteq Nat /\ mem \in [DOMAIN mem -> Operations]
  BY ProgramAssumption
<1>3. mem \in Memories
  BY <1>2 DEF Memories
<1>4. Loaded(mem) \in Machine
  <2>1. <<>> \in Seq(Nat)
    OBVIOUS
  <2> QED
    BY <1>3, <2>1 DEF Loaded, Machine, Errs
<1>5. cos \in Caches
  BY <1>1, <1>2 DEF NoneCached, Caches
<1>6. {<<>>} \in SUBSET Seq(Nat) /\ <<>> \in Seq(Mach) /\ <<>> \in Seq(Seq(Nat)) /\ <<>> \in Seq(LogNote)
  OBVIOUS
<1> QED
  BY <1>1, <1>4, <1>5, <1>6, TraceAssumption DEF Init, TypeInv

\* Every step keeps the state typed.
LEMMA StepType == TypeInv /\ [Next]_vars => TypeInv'
<1> SUFFICES ASSUME TypeInv, [Next]_vars PROVE TypeInv'
  OBVIOUS
<1> USE DEF TypeInv
<1>1. NoID \in IDs /\ NotCached \in Operations \cup {NotCached}
  BY DEF NoID, IDs
<1>2. ASSUME NEW what \in Whats, NEW o \in Operations \cup {NotCached},
             ids' \in [DOMAIN ids' -> IDs], counts' \in [DOMAIN counts' -> Nat],
             Notes(Note(what, cur, ids', counts', o, NoID))
      PROVE  log' \in Seq(LogNote)
  BY <1>1, <1>2, NoteType, PutLast DEF Notes
<1>3. CASE CallTrace
  BY <1>3, TraceAssumption DEF CallTrace, FixTracer, ghosts, tracers
<1>4. CASE CallRun
  BY <1>4, TraceAssumption DEF CallRun, ghosts, tracers
<1>5. CASE Begin
  <2>1. nextID' \in Nat /\ ids' \in [DOMAIN ids' -> IDs] /\ counts' = counts
    <3>1. <<nextID + 1, 0, nextID + 1>> \in IDs /\ nextID + 1 \in Nat
      BY DEF IDs
    <3>2. With(ids, cur, <<nextID + 1, 0, nextID + 1>>)
            \in [DOMAIN With(ids, cur, <<nextID + 1, 0, nextID + 1>>) -> IDs]
      BY <3>1, WithType
    <3> QED
      BY <1>5, <3>1, <3>2 DEF Begin
  <2>2. log' \in Seq(LogNote)
    BY <1>1, <1>2, <1>5, <2>1 DEF Begin, Whats
  <2> QED
    BY <1>5, <2>1, <2>2 DEF Begin, runVars
<1>6. CASE Before
  <2> DEFINE o == OpAt(regs[cur].mem, regs[cur].ip)
  <2>1. o \in Operations
    BY OperationTypes
  <2>2. CASE o = Bad
    <3>1. [regs[cur] EXCEPT !.err = "decode"] \in Machine
      <4>1. regs[cur] \in Machine /\ "decode" \in Errs
        BY DEF Errs
      <4> QED
        BY <4>1, MachineUpdates
    <3> QED
      BY <1>6, <2>2, <3>1 DEF Before, runVars, tracers
  <2>3. CASE o # Bad
    <3>1. Known(counts, cur, 0) + 1 \in Nat
      <4>1. Known(counts, cur, 0) \in Nat
        BY KnownType
      <4> QED
        BY <4>1
    <3>2. counts' \in [DOMAIN counts' -> Nat] /\ ids' = ids
      <4>1. PICK k \in Nat : k = Known(counts, cur, 0) + 1
        BY <3>1
      <4>2. With(counts, cur, k) \in [DOMAIN With(counts, cur, k) -> Nat]
        BY WithType
      <4>3. counts' = With(counts, cur, k) /\ ids' = ids
        BY <1>6, <2>3, <4>1 DEF Before
      <4> QED
        BY <4>2, <4>3
    <3>3. Note("before", cur, ids, counts', o, NoID) \in LogNote
      BY <1>1, <2>1, <3>2, NoteType DEF Whats
    <3>4. log' \in Seq(LogNote)
      <4>1. log' = Append(log, Note("before", cur, ids, counts', o, NoID))
        BY <1>6, <2>3 DEF Before, Notes
      <4> QED
        BY <3>3, <4>1, PutLast
    <3> QED
      BY <1>6, <2>1, <2>3, <3>2, <3>4 DEF Before, runVars
  <2> QED
    BY <2>2, <2>3
<1>7. CASE Ended
  BY <1>7 DEF Ended, runVars, tracers
<1>8. CASE Step
  <2>1. /\ cos' \in Caches /\ UNCHANGED <<mode, calls, cur, read, answer, accepted, recycled>>
        /\ (\E h : Alone(h)) \/ (\E g, h, c, n : Copying(g, h, c, n))
    BY <1>8, StepCases
  <2>2. \A e : Goes(e) => pc' \in {"loop", "after", "end"}
    BY DEF Goes
  <2>3. CASE \E h : Alone(h)
    <3>1. PICK h : Alone(h)
      BY <2>3
    <3>2. regs' \in [Mach -> Machine]
      BY <3>1 DEF Alone
    <3> QED
      BY <2>1, <2>2, <3>1, <3>2 DEF Alone, tracers
  <2>4. CASE \E g, h, c, n : Copying(g, h, c, n)
    <3>1. PICK g, h, c, n : Copying(g, h, c, n)
      BY <2>4
    <3>2. n \in Mach /\ freeMachs' \in Seq(Mach)
      BY <3>1, AllocatedType DEF Copying
    <3>3. regs' \in [Mach -> Machine]
      BY <3>1 DEF Copying
    <3>4. queue' \in Seq(Mach) /\ born' \in SUBSET Seq(Nat)
      <4>1. c.life \in Seq(Nat) /\ Append(queue, n) \in Seq(Mach)
        BY <3>1, <3>2, MachineUpdates, PutLast DEF Copying
      <4> QED
        BY <3>1, <4>1 DEF Copying
    <3>5. /\ traced' \in [Mach -> Mach \cup {NoMach}]
          /\ nextID' \in Nat /\ ids' \in [DOMAIN ids' -> IDs]
          /\ counts' \in [DOMAIN counts' -> Nat] /\ log' \in Seq(LogNote)
      <4>1. CASE traced[cur] = NoMach
        BY <3>1, <4>1 DEF Copying, tracers
      <4>2. CASE traced[cur] # NoMach
        <5>1. g \in Machine /\ TracedEnqueue(g, n)
          BY <3>1, <4>2 DEF Copying
        <5>2. traced' = [traced EXCEPT ![n] = n]
          BY <3>2, <4>2, <5>1, EnqueueType
        <5> QED
          BY <3>2, <4>2, <5>1, <5>2, EnqueueType
      <4> QED
        BY <4>1, <4>2
    <3>6. pc' \in {"loop", "after", "end"}
      BY <2>2, <3>1 DEF Copying
    <3> QED
      BY <2>1, <3>2, <3>3, <3>4, <3>5, <3>6
  <2> QED
    BY <2>1, <2>3, <2>4
<1>9. CASE After
  <2>1. log' \in Seq(LogNote)
    BY <1>1, <1>9, NoteType, PutLast DEF After, Notes, Whats
  <2> QED
    BY <1>9, <2>1 DEF After, runVars
<1>10. CASE End
  <2>1. log' \in Seq(LogNote)
    BY <1>1, <1>10, NoteType, PutLast DEF End, Notes, Whats
  <2> QED
    BY <1>10, <2>1 DEF End, runVars
<1>11. CASE Handle
  <2>1. answer' \in BOOLEAN
    BY <1>11 DEF Handle
  <2>2. accepted' \in Seq(Seq(Nat))
    <3>1. regs[cur].life \in Seq(Nat)
      BY MachineUpdates
    <3> QED
      BY <1>11, <3>1, PutLast DEF Handle
  <2>3. /\ nextID' \in Nat /\ ids' \in [DOMAIN ids' -> IDs]
        /\ counts' \in [DOMAIN counts' -> Nat] /\ log' \in Seq(LogNote)
    <3>1. CASE mode = "run"
      BY <1>11, <3>1 DEF Handle, tracers
    <3>2. CASE mode # "run"
      <4>1. /\ Notes(HandleNote) /\ ids' = Without(ids, cur) /\ counts' = Without(counts, cur)
            /\ nextID' = nextID
        BY <1>11, <3>2 DEF Handle, Handled
      <4>2. HandleNote \in LogNote
        BY <1>1, NoteType DEF HandleNote, Whats
      <4>3. ids' \in [DOMAIN ids' -> IDs] /\ counts' \in [DOMAIN counts' -> Nat]
        BY <1>1, <4>1, WithoutType
      <4> QED
        BY <4>1, <4>2, <4>3, PutLast DEF Notes
    <3> QED
      BY <3>1, <3>2
  <2> QED
    BY <1>11, <2>1, <2>2, <2>3 DEF Handle
<1>12. CASE Resume
  <2>1. Last(queue) \in Mach /\ Front(queue) \in Seq(Mach) /\ Append(freeMachs, Freed) \in Seq(Mach)
    BY <1>12, TakeLast, PutLast DEF Resume, Freed
  <2> QED
    BY <1>12, <2>1 DEF Resume, ghosts, tracers
<1>13. CASE Return
  BY <1>13 DEF Return, tracers
<1>14. CASE UNCHANGED vars
  BY <1>14 DEF vars, tracers
<1> QED
  BY <1>3, <1>4, <1>5, <1>6, <1>7, <1>8, <1>9, <1>10, <1>11, <1>12, <1>13, <1>14 DEF Next

-----------------------------------------------------------------------------
(* Structs *)

\* The struct that a copy gets is not one of a machine that runs or waits.
LEMMA CopyApart ==
  ASSUME TypeInv, Apart, ~Outside, regs[cur].err = "nil", NEW g, NEW h, NEW c, NEW n, Copying(g, h, c, n)
  PROVE  /\ n \in Mach /\ n # cur /\ n \notin Waiting /\ n \notin Range(freeMachs')
         /\ IsInjective(freeMachs') /\ Range(freeMachs') \subseteq Range(freeMachs)
         /\ freeMachs' \in Seq(Mach)
         /\ regs'[cur] = h /\ regs'[n] = c
         /\ \A m \in Mach : m # cur /\ m # n => regs'[m] = regs[m]
<1>1. /\ n \in Mach /\ freeMachs' \in Seq(Mach) /\ freeMachs \in Seq(Mach)
      /\ freeMachs = <<>> => n \in FreshMachs /\ freeMachs' = freeMachs
      /\ freeMachs # <<>> => n = Last(freeMachs) /\ freeMachs' = Front(freeMachs)
  BY AllocatedType DEF Copying, TypeInv
<1>2. /\ IsInjective(freeMachs) /\ Waiting \cap Range(freeMachs) = {}
      /\ cur \notin Range(freeMachs)
  BY DEF Apart, Me
<1>3. /\ n # cur /\ n \notin Waiting /\ n \notin Range(freeMachs')
      /\ IsInjective(freeMachs') /\ Range(freeMachs') \subseteq Range(freeMachs)
  <2>1. CASE freeMachs = <<>>
    BY <1>1, <1>2, <2>1 DEF FreshMachs
  <2>2. CASE freeMachs # <<>>
    BY <1>1, <1>2, <2>2, TakeLast
  <2> QED
    BY <2>1, <2>2
<1>4. /\ regs'[cur] = h /\ regs'[n] = c
      /\ \A m \in Mach : m # cur /\ m # n => regs'[m] = regs[m]
  <2>1. regs \in [Mach -> Machine] /\ cur \in Mach
    BY DEF TypeInv
  <2>2. PICK f : f = [regs EXCEPT ![cur] = h]
    OBVIOUS
  <2>3. regs' = [f EXCEPT ![n] = c]
    BY <2>2, Zenon DEF Copying
  <2> QED
    BY <1>1, <1>3, <2>1, <2>2, <2>3
<1> QED
  BY <1>1, <1>3, <1>4

\* The control of calls does not depend on the machines.
LEMMA ControlStep == TypeInv /\ Control /\ [Next]_vars => Control'
<1> SUFFICES ASSUME TypeInv, Control, [Next]_vars PROVE Control'
  OBVIOUS
<1> USE DEF Control, Outside, TypeInv
<1>1. CASE CallTrace
  BY <1>1 DEF CallTrace, ghosts
<1>2. CASE CallRun
  BY <1>2 DEF CallRun, ghosts
<1>3. CASE Begin
  BY <1>3 DEF Begin, runVars
<1>4. CASE Before
  BY <1>4 DEF Before, runVars
<1>5. CASE Ended
  BY <1>5 DEF Ended, runVars
<1>6. CASE Step
  <2>1. Stepping /\ UNCHANGED <<mode, calls, recycled>> /\ \E e : Goes(e)
    BY <1>6, StepCases DEF Alone, Copying
  <2> QED
    BY <2>1 DEF Stepping, Goes
<1>7. CASE After
  BY <1>7 DEF After, runVars
<1>8. CASE End
  BY <1>8 DEF End, runVars
<1>9. CASE Handle
  BY <1>9 DEF Handle
<1>10. CASE Resume
  BY <1>10 DEF Resume, ghosts
<1>11. CASE Return
  BY <1>11 DEF Return
<1>12. CASE UNCHANGED vars
  BY <1>12 DEF vars
<1> QED
  BY <1>1, <1>2, <1>3, <1>4, <1>5, <1>6, <1>7, <1>8, <1>9, <1>10, <1>11, <1>12 DEF Next

\* Once it was recycled, the caller's struct has been.
LEMMA RecycledStays ==
  ASSUME TypeInv, [Next]_vars, ~recycled'
  PROVE  ~recycled
<1>1. Step => recycled' = recycled
  BY StepCases
<1> QED
  BY <1>1 DEF Next, CallTrace, CallRun, Begin, Before, Ended, After, End, Handle, Resume, Return,
        vars, runVars, ghosts

\* What a caller finds, and structs that are apart, stay so while the caller's is not recycled.
LEMMA ApartStep == ApartInv /\ [Next]_vars => ApartInv'
<1> SUFFICES ASSUME ApartInv, [Next]_vars PROVE ApartInv'
  OBVIOUS
<1>1. TypeInv /\ TypeInv' /\ Control /\ Control'
  BY StepType, ControlStep DEF ApartInv
<1> SUFFICES ASSUME ~recycled' PROVE Held' /\ Apart'
  BY <1>1 DEF ApartInv
<1>2. recycled' \in BOOLEAN /\ recycled \in BOOLEAN /\ ~recycled
  BY <1>1, RecycledStays DEF TypeInv
<1>3. Held /\ Apart
  BY <1>2 DEF ApartInv
<1>4. /\ cur \in Mach /\ Root \in Mach /\ regs \in [Mach -> Machine] /\ calls \in Nat
      /\ queue \in Seq(Mach) /\ freeMachs \in Seq(Mach)
  BY <1>1, TraceAssumption DEF TypeInv
<1>5. CASE CallTrace
  BY <1>1, <1>3, <1>4, <1>5 DEF CallTrace, Held, Apart, Me, Outside, Waiting, ghosts
<1>6. CASE CallRun
  BY <1>1, <1>3, <1>4, <1>6 DEF CallRun, Held, Apart, Me, Outside, Waiting, ghosts
<1>7. CASE Begin
  BY <1>1, <1>3, <1>4, <1>7 DEF Begin, Held, Apart, Me, Outside, Waiting, runVars, Control
<1>8. CASE Before
  <2>1. /\ ~Outside /\ calls > 0 /\ regs[cur].err = "nil" /\ pc' \in {"end", "step"}
        /\ UNCHANGED <<cur, queue, freeMachs, calls, answer>>
    BY <1>1, <1>4, <1>8 DEF Before, Outside, Control, runVars
  <2>2. (pc' = "end" => regs'[cur].err = "decode") /\ (pc' = "step" => regs' = regs)
    <3>1. regs[cur] \in Machine /\ "decode" \in Errs
      BY <1>4 DEF Errs
    <3>2. [regs[cur] EXCEPT !.err = "decode"].err = "decode"
      BY <3>1, MachineUpdates
    <3> QED
      BY <1>4, <1>8, <3>2 DEF Before
  <2>3. Me = cur /\ Me' = cur /\ Waiting' = Waiting
    BY <2>1 DEF Me, Outside, Waiting
  <2> QED
    BY <1>3, <2>1, <2>2, <2>3 DEF Held, Apart, Outside
<1>9. CASE Ended
  BY <1>1, <1>3, <1>4, <1>9 DEF Ended, Held, Apart, Me, Outside, Waiting, runVars, Control
<1>10. CASE Step
  <2>1. /\ Stepping /\ regs[cur].err = "nil" /\ ~Outside /\ calls > 0
        /\ UNCHANGED <<mode, calls, cur, answer>>
    BY <1>1, <1>4, <1>10, StepCases DEF Stepping, Control, Outside
  <2>2. ASSUME NEW e, Goes(e)
        PROVE  /\ pc' \in {"loop", "after", "end"}
               /\ pc' = "after" => e = "nil"
               /\ pc' = "end" => e # "nil"
    BY <1>1, <2>2 DEF Goes, TypeInv
  <2>3. ASSUME NEW h, Alone(h) PROVE Held' /\ Apart'
    <3>1. /\ regs'[cur] = h /\ regs[cur].err = "nil" /\ Goes(h.err)
          /\ UNCHANGED <<queue, freeMachs>>
      BY <1>4, <2>1, <2>3 DEF Alone
    <3>2. pc' \in {"loop", "after", "end"} /\ (pc' = "after" => h.err = "nil") /\ (pc' = "end" => h.err # "nil")
      BY <2>2, <3>1
    <3>3. Held'
      BY <2>1, <3>1, <3>2 DEF Held, Outside
    <3>4. Me = cur /\ Me' = cur /\ Waiting' = Waiting
      BY <2>1, <3>1, <3>2 DEF Me, Outside, Waiting
    <3>5. Apart'
      BY <1>3, <2>1, <3>1, <3>4 DEF Apart
    <3> QED
      BY <3>3, <3>5
  <2>4. ASSUME NEW g, NEW h, NEW c, NEW n, Copying(g, h, c, n) PROVE Held' /\ Apart'
    <3>1. /\ n \in Mach /\ n # cur /\ n \notin Waiting /\ n \notin Range(freeMachs')
          /\ IsInjective(freeMachs') /\ Range(freeMachs') \subseteq Range(freeMachs)
          /\ regs'[cur] = h
      BY <1>1, <1>3, <2>1, <2>4, CopyApart
    <3>2. /\ queue' = queue \/ queue' = Append(queue, n)
          /\ pc' \in {"loop", "after", "end"} /\ (pc' = "after" => h.err = "nil") /\ (pc' = "end" => h.err # "nil")
      BY <2>2, <2>4 DEF Copying
    <3>3. Held'
      BY <2>1, <3>1, <3>2 DEF Held, Outside
    <3>4. /\ IsInjective(queue') /\ Waiting' \subseteq Waiting \cup {n}
          /\ cur \notin Waiting'
      <4>1. IsInjective(queue) /\ cur \notin Waiting
        BY <1>3, <2>1 DEF Apart, Me
      <4>2. CASE queue' = queue
        BY <3>1, <4>1, <4>2 DEF Waiting
      <4>3. CASE queue' = Append(queue, n)
        <5>1. /\ Range(Append(queue, n)) = Range(queue) \cup {n}
              /\ n \notin Range(queue) => IsInjective(Append(queue, n))
          BY <1>4, <3>1, <4>1, PutLast
        <5> QED
          BY <3>1, <4>1, <4>3, <5>1 DEF Waiting
      <4> QED
        BY <3>2, <4>2, <4>3
    <3>5. Waiting' \cap Range(freeMachs') = {} /\ cur \notin Range(freeMachs')
      BY <1>3, <2>1, <3>1, <3>4 DEF Apart, Me
    <3>6. Me' = cur
      BY <2>1, <2>2, <3>2 DEF Me, Outside
    <3> QED
      BY <2>1, <3>1, <3>3, <3>4, <3>5, <3>6 DEF Apart
  <2> QED
    BY <1>1, <1>10, <2>3, <2>4, StepCases
<1>11. CASE After
  BY <1>1, <1>3, <1>4, <1>11 DEF After, Held, Apart, Me, Outside, Waiting, runVars, Control
<1>12. CASE End
  BY <1>1, <1>3, <1>4, <1>12 DEF End, Held, Apart, Me, Outside, Waiting, runVars, Control
<1>13. CASE Handle
  BY <1>1, <1>3, <1>4, <1>13 DEF Handle, Held, Apart, Me, Outside, Waiting, Control
<1>14. CASE Resume
  <2>1. /\ queue # <<>> /\ cur' = Last(queue) /\ queue' = Front(queue)
        /\ freeMachs' = Append(freeMachs, cur) /\ pc' \in {"begin", "loop"}
        /\ pc = "next" /\ UNCHANGED <<calls, regs, answer>>
    BY <1>14 DEF Resume, Freed
  <2>2. Held'
    BY <1>1, <1>4, <2>1 DEF Held, Outside, Control
  <2>3. /\ IsInjective(queue) /\ IsInjective(freeMachs) /\ Waiting \cap Range(freeMachs) = {}
        /\ cur \notin Waiting /\ cur \notin Range(freeMachs)
    BY <1>3, <2>1 DEF Apart, Me, Outside
  <2>4. /\ IsInjective(freeMachs') /\ Range(freeMachs') = Range(freeMachs) \cup {cur}
    BY <1>4, <2>1, <2>3, PutLast
  <2>5. /\ IsInjective(queue') /\ cur' \notin Waiting' /\ cur' \in Waiting /\ Waiting' \subseteq Waiting
    <3>1. /\ IsInjective(Front(queue)) /\ Last(queue) \notin Range(Front(queue))
          /\ Range(queue) = Range(Front(queue)) \cup {Last(queue)}
      BY <1>4, <2>1, <2>3, TakeLast
    <3> QED
      BY <2>1, <3>1 DEF Waiting
  <2>6. Me' = cur'
    BY <2>1 DEF Me, Outside
  <2> QED
    BY <2>2, <2>3, <2>4, <2>5, <2>6 DEF Apart
<1>15. CASE Return
  <2>1. /\ pc = "next" /\ (~answer \/ queue = <<>>) /\ pc' \in {"call", "done"}
        /\ regs' = [regs EXCEPT ![Root] = regs[cur]] /\ calls > 0
        /\ ~answer => Root \notin Waiting \cup Range(freeMachs)
        /\ UNCHANGED <<calls, queue, freeMachs, cur, answer>>
    <3>1. calls > 0 /\ pc' \in {"call", "done"}
      BY <1>1, <1>4, <1>15 DEF Return, Control
    <3>2. ~answer => Root \notin Waiting \cup Range(freeMachs)
      BY <1>2, <1>15 DEF Return
    <3> QED
      BY <1>15, <3>1, <3>2 DEF Return
  <2>2. regs'[Root] = regs[cur] /\ regs'[cur] = regs[cur] /\ regs[cur].err # "nil"
    BY <1>3, <1>4, <2>1 DEF Held
  <2>3. Held'
    BY <2>1, <2>2 DEF Held, Outside
  <2>4. Root \notin Waiting
    BY <1>4, <2>1, EmptySeq DEF Waiting, Range
  <2>5. Me' = Root
    BY <2>1 DEF Me, Outside
  <2>6. queue # <<>> => Root \notin Range(freeMachs)
    BY <2>1
  <2> QED
    BY <1>3, <2>1, <2>2, <2>3, <2>4, <2>5, <2>6 DEF Apart, Waiting
<1>16. CASE UNCHANGED vars
  BY <1>3, <1>16 DEF vars, Held, Apart, Me, Outside, Waiting
<1> QED
  BY <1>5, <1>6, <1>7, <1>8, <1>9, <1>10, <1>11, <1>12, <1>13, <1>14, <1>15, <1>16 DEF Next

\* The state that the first call meets.
LEMMA ApartInit == Init => ApartInv
<1> SUFFICES ASSUME Init PROVE ApartInv
  OBVIOUS
<1>1. TypeInv
  BY InitType
<1>2. Control
  BY DEF Init, Control
<1>3. regs[Root].err = "nil"
  BY TraceAssumption DEF Init, Loaded
<1>4. Held
  BY <1>3 DEF Init, Held
<1>5. IsInjective(<<>>) /\ Range(<<>>) = {}
  BY EmptySeq DEF IsInjective, Range
<1>6. Apart
  BY <1>5 DEF Init, Apart, Waiting
<1> QED
  BY <1>1, <1>2, <1>4, <1>6 DEF ApartInv

\* The state of a run and its tracers is typed, and while the caller's struct was not recycled
\* structs are not shared, however calls are made, whatever the handler refuses.
THEOREM StructsApart == Spec => []ApartInv
<1>1. Init => ApartInv
  BY ApartInit
<1>2. ApartInv /\ [Next]_vars => ApartInv'
  BY ApartStep
<1> QED
  BY <1>1, <1>2, PTL DEF Spec

-----------------------------------------------------------------------------
(* Which machines a handler accepts *)

RunInv == ApartInv /\ (~recycled => LivesInv /\ AcceptedInv)

\* Lives of typed machines.
LEMMA LifeType ==
  ASSUME TypeInv, NEW m \in Mach
  PROVE  Life(m) \in Seq(Nat) /\ regs[m].ran \in Nat
BY MachineUpdates DEF TypeInv, Life

\* Where no machine is made or dequeued, lives stay, and machines only execute more.
LEMMA LivesKept ==
  ASSUME TypeInv, TypeInv', LivesInv, Waiting' = Waiting, born' = born,
         \A m \in Waiting : regs'[m].life = regs[m].life /\ regs'[m].ran = regs[m].ran,
         regs'[cur'].life = regs[cur].life, regs'[cur'].ran >= regs[cur].ran
  PROVE  LivesInv' /\ Lives' = Lives /\ Life(cur)' = Life(cur)
<1>1. Waiting \subseteq Mach
  BY DEF TypeInv, Waiting, Range
<1>2. \A m \in Waiting : Life(m)' = Life(m)
  BY DEF Life
<1>3. Life(cur)' = Life(cur)
  BY DEF Life
<1>4. Lives' = Lives
  BY <1>2 DEF Lives
<1>5. /\ \A m1, m2 \in Waiting' : Life(m1)' = Life(m2)' => m1 = m2
      /\ Life(cur)' \notin Lives' /\ Life(cur)' \in born'
      /\ \A l \in Seq(Nat), x \in Nat : Append(l, x) \in born' => l \in born'
  BY <1>2, <1>3, <1>4 DEF LivesInv
<1>6. ASSUME NEW m \in (Waiting \cup {cur})', NEW x \in Nat, (Append(Life(m), x) \in born)'
      PROVE  x <= regs'[m].ran
  <2>1. CASE m \in Waiting
    BY <1>2, <1>6, <2>1 DEF LivesInv
  <2>2. CASE m = cur'
    <3>1. x <= regs[cur].ran
      BY <1>3, <1>6, <2>2 DEF LivesInv
    <3>2. regs[cur].ran \in Nat /\ regs'[cur'].ran \in Nat
      BY MachineUpdates DEF TypeInv
    <3> QED
      BY <2>2, <3>1, <3>2
  <2> QED
    BY <1>6, <2>1, <2>2
<1> QED
  BY <1>3, <1>4, <1>5, <1>6 DEF LivesInv

\* The copy that is queued is named as no machine was.
LEMMA LivesCopied ==
  ASSUME TypeInv, TypeInv', Apart, LivesInv, Lives \subseteq born, ~Outside, regs[cur].err = "nil", cur' = cur,
         NEW g, NEW h, NEW c, NEW n, Copying(g, h, c, n), queue' = Append(queue, n), born' = born \cup {c.life}
  PROVE  /\ LivesInv' /\ Lives' = Lives \cup {c.life} /\ Life(cur)' = Life(cur)
         /\ c.life \notin born
<1> DEFINE l == c.life
<1>0. PICK k : k = regs[cur].ran + 1
  OBVIOUS
<1>1. /\ n \in Mach /\ n # cur /\ n \notin Waiting
      /\ regs'[cur] = h /\ regs'[n] = c
      /\ \A m \in Mach : m # cur /\ m # n => regs'[m] = regs[m]
  BY CopyApart
<1>2. /\ cur \in Mach /\ Waiting \subseteq Mach /\ queue \in Seq(Mach)
      /\ Life(cur) \in Seq(Nat) /\ regs[cur].ran \in Nat /\ k \in Nat
  <2>1. cur \in Mach /\ queue \in Seq(Mach)
    BY DEF TypeInv
  <2>2. Waiting \subseteq Mach
    BY <2>1 DEF Waiting, Range
  <2>3. Life(cur) \in Seq(Nat) /\ regs[cur].ran \in Nat
    BY <2>1, LifeType
  <2> QED
    BY <1>0, <2>1, <2>2, <2>3
<1>3. /\ l = Append(Life(cur), k) /\ c.ran = k /\ h.life = Life(cur) /\ h.ran = k
      /\ l \in Seq(Nat)
  BY <1>0, <1>2, PutLast DEF Copying
<1>4. Waiting' = Waiting \cup {n} /\ cur \notin Waiting
  BY <1>1, <1>2, PutLast DEF Waiting, Apart, Me
<1>5. /\ Life(cur)' = Life(cur) /\ Life(n)' = l
      /\ \A m \in Waiting : Life(m)' = Life(m) /\ regs'[m].ran = regs[m].ran
      /\ regs'[cur].ran = k /\ regs'[n].ran = k
  BY <1>1, <1>2, <1>3, <1>4 DEF Life
<1>14. \A s, t \in Seq(Nat), d, e \in Nat : Append(s, d) = Append(t, e) => s = t /\ d = e
  BY AppendInjective
<1> HIDE DEF l
<1>6. l \notin born
  <2>1. Append(Life(cur), k) \in born => k <= regs[cur].ran
    BY <1>2 DEF LivesInv
  <2> QED
    BY <1>0, <1>2, <1>3, <2>1
<1>7. Lives' = Lives \cup {l}
  BY <1>4, <1>5 DEF Lives
<1>8. l \notin Lives /\ l # Life(cur)
  BY <1>6 DEF LivesInv
<1>9. \A m1, m2 \in Waiting' : Life(m1)' = Life(m2)' => m1 = m2
  <2>1. \A m \in Waiting : Life(m) \in Lives /\ Life(m)' # l
    BY <1>5, <1>8 DEF Lives
  <2> QED
    BY <1>4, <1>5, <2>1 DEF LivesInv
<1>10. Life(cur)' \notin Lives' /\ Life(cur)' \in born'
  BY <1>5, <1>7, <1>8 DEF LivesInv, l
<1>11. ASSUME NEW s \in Seq(Nat), NEW x \in Nat, Append(s, x) \in born' PROVE s \in born'
  <2>1. CASE Append(s, x) \in born
    BY <2>1 DEF LivesInv
  <2>2. CASE Append(s, x) = l
    <3>1. s = Life(cur)
      <4>1. /\ s \in Seq(Nat) /\ Life(cur) \in Seq(Nat) /\ x \in Nat /\ k \in Nat
            /\ Append(s, x) = Append(Life(cur), k)
        BY <1>2, <1>3, <2>2
      <4> QED
        BY <1>14, <4>1, Zenon
    <3> QED
      BY <3>1 DEF LivesInv
  <2> QED
    BY <1>11, <2>1, <2>2 DEF l
<1>12. ASSUME NEW m \in Waiting \cup {cur, n}, NEW x \in Nat, Append(Life(m)', x) \in born'
       PROVE  x <= regs'[m].ran
  <2>1. CASE m \in Waiting
    <3>1. Life(m)' = Life(m) /\ Life(m) # Life(cur) /\ Life(m) \in Seq(Nat) /\ regs'[m].ran = regs[m].ran
      BY <1>2, <1>5, <2>1, LifeType DEF LivesInv, Lives
    <3>2. Append(Life(m), x) # l
      <4>1. ASSUME Append(Life(m), x) = Append(Life(cur), k) PROVE Life(m) = Life(cur)
        <5>1. x \in Nat /\ k \in Nat /\ Life(m) \in Seq(Nat) /\ Life(cur) \in Seq(Nat)
          BY <1>2, <3>1
        <5> QED
          BY ONLY <4>1, <5>1, AppendInjective
      <4> QED
        BY <1>3, <3>1, <4>1
    <3>3. Append(Life(m), x) \in born
      BY <1>12, <3>1, <3>2 DEF l
    <3> QED
      BY <2>1, <3>1, <3>3 DEF LivesInv
  <2>2. CASE m = cur
    <3>1. CASE Append(Life(cur), x) \in born
      <4>1. x <= regs[cur].ran
        BY <3>1 DEF LivesInv
      <4> QED
        BY <1>0, <1>2, <1>5, <2>2, <4>1
    <3>2. CASE Append(Life(cur), x) = l
      <4>1. x = k
        <5>1. x \in Nat /\ k \in Nat /\ Append(Life(cur), x) = Append(Life(cur), k)
          BY <1>2, <1>3, <3>2
        <5> QED
          BY <1>2, <1>14, <5>1, Zenon
      <4> QED
        BY <1>0, <1>2, <1>5, <2>2, <4>1
    <3> QED
      BY <1>5, <1>12, <2>2, <3>1, <3>2 DEF l
  <2>3. CASE m = n
    <3>1. Append(l, x) # l
      BY <1>3, AppendLonger
    <3>2. Append(l, x) \in born
      BY <1>5, <1>12, <2>3, <3>1 DEF l
    <3> QED
      BY <1>3, <1>6, <3>2 DEF LivesInv
  <2> QED
    BY <1>12, <2>1, <2>2, <2>3
<1>13. LivesInv'
  BY <1>4, <1>9, <1>10, <1>11, <1>12 DEF LivesInv
<1> QED
  BY <1>5, <1>6, <1>7, <1>13 DEF l

\* What was accepted stays apart from what is not, where no machine is queued, dequeued or handled.
LEMMA AcceptedKept ==
  ASSUME AcceptedInv, Lives' = Lives, Life(cur)' = Life(cur), UNCHANGED <<queue, born, accepted, answer>>,
         pc' \notin {"next"}, pc' \in {"call", "done"} => pc = "next",
         pc = "next" => queue = <<>> \/ ~answer,
         Life(cur) \in Range(accepted) => (regs'[cur'].err # "nil")
  PROVE  AcceptedInv'
BY DEF AcceptedInv, Outside

\* The handler's answers keep what is accepted once, until all is.
LEMMA AcceptedHandled ==
  ASSUME TypeInv, LivesInv, AcceptedInv, Handle, regs[cur].err # "nil"
  PROVE  LivesInv' /\ AcceptedInv'
<1>1. /\ pc = "handle" /\ pc' = "next" /\ ~Outside
      /\ UNCHANGED <<cur, queue, regs, born>>
  BY DEF Handle, Outside
<1>2. Lives' = Lives /\ Life(cur)' = Life(cur)
  BY <1>1 DEF Lives, Life, Waiting
<1>3. LivesInv'
  BY <1>1, <1>2 DEF LivesInv, Life, Waiting
<1>4. accepted \in Seq(Seq(Nat)) /\ Life(cur) \in Seq(Nat) /\ Life(cur) \notin Lives
  BY LifeType DEF TypeInv, LivesInv
<1>5. CASE answer' = FALSE /\ accepted' = accepted
  BY <1>1, <1>2, <1>3, <1>5 DEF AcceptedInv, Outside
<1>6. CASE answer' = TRUE /\ accepted' = Append(accepted, Life(cur))
  <2>1. /\ Range(accepted') = Range(accepted) \cup {Life(cur)}
        /\ Len(accepted') = Len(accepted) + 1 /\ Len(accepted) \in Nat
        /\ IsInjective(accepted) /\ Life(cur) \notin Range(accepted) => IsInjective(accepted')
    BY <1>4, <1>6, PutLast
  <2>2. CASE Life(cur) \notin Range(accepted)
    BY <1>1, <1>2, <1>3, <1>4, <1>6, <2>1, <2>2 DEF AcceptedInv, Outside
  <2>3. CASE Life(cur) \in Range(accepted)
    <3>1. queue = <<>>
      BY <1>1, <2>3 DEF AcceptedInv
    <3>2. Lives = {}
      BY <3>1, EmptySeq DEF Lives, Waiting, Range
    <3>3. born = Range(accepted)
      BY <2>3, <3>2 DEF AcceptedInv
    <3>4. Cardinality(born) \in Nat /\ Cardinality(born) <= Len(accepted)
      BY <1>4, <3>3, RangeBound
    <3>5. Len(accepted') > Cardinality(born)
      BY <2>1, <3>4
    <3> QED
      BY <1>1, <1>2, <1>3, <1>4, <1>6, <2>1, <2>3, <3>1, <3>5 DEF AcceptedInv, Outside
  <2> QED
    BY <2>2, <2>3
<1> QED
  BY <1>3, <1>5, <1>6 DEF Handle, Life

\* The machine that is dequeued was not accepted.
LEMMA AcceptedResumed ==
  ASSUME TypeInv, TypeInv', Apart, LivesInv, AcceptedInv, Resume
  PROVE  LivesInv' /\ AcceptedInv'
<1>1. /\ pc = "next" /\ answer /\ queue # <<>> /\ cur' = Last(queue) /\ queue' = Front(queue)
      /\ pc' \in {"begin", "loop"} /\ UNCHANGED <<regs, born, accepted, answer>>
  BY DEF Resume, ghosts
<1>2. /\ Waiting = Waiting' \cup {cur'} /\ cur' \notin Waiting'
  <2>1. queue \in Seq(Mach) /\ IsInjective(queue)
    BY DEF TypeInv, Apart
  <2>2. /\ Last(queue) \notin Range(Front(queue))
        /\ Range(queue) = Range(Front(queue)) \cup {Last(queue)}
    BY <1>1, <2>1, TakeLast
  <2> QED
    BY <1>1, <2>2 DEF Waiting
<1>3. \A m : Life(m)' = Life(m)
  <2>1. regs' = regs
    BY <1>1
  <2> QED
    BY <2>1 DEF Life
<1>4. PICK l : l = regs[cur'].life
  OBVIOUS
<1>5. Life(cur)' = l
  BY <1>1, <1>4 DEF Life
<1>6. Lives = Lives' \cup {l} /\ l \notin Lives'
  <2>1. \A m \in Waiting : m # cur' => Life(m) # l
    BY <1>2, <1>4 DEF LivesInv, Life
  <2> QED
    BY <1>2, <1>3, <1>4, <2>1 DEF Lives, Life
<1>7. l \in Lives
  BY <1>6
<1>8. AcceptedInv'
  <2>1. Life(cur) \in Range(accepted) /\ IsInjective(accepted)
    BY <1>1 DEF AcceptedInv
  <2>2. l \notin Range(accepted)
    BY <1>7 DEF AcceptedInv
  <2> QED
    BY <1>1, <1>5, <1>6, <2>1, <2>2 DEF AcceptedInv, Outside
<1>9. LivesInv'
  <2>1. l \in born
    BY <1>7 DEF AcceptedInv
  <2>2. \A m1, m2 \in Waiting' : Life(m1)' = Life(m2)' => m1 = m2
    BY <1>2, <1>3 DEF LivesInv
  <2>3. ASSUME NEW m \in (Waiting \cup {cur})', NEW x \in Nat, (Append(Life(m), x) \in born)'
        PROVE  x <= regs'[m].ran
    BY <1>1, <1>2, <1>3, <2>3 DEF LivesInv
  <2> QED
    BY <1>1, <1>5, <1>6, <2>1, <2>2, <2>3 DEF LivesInv
<1> QED
  BY <1>8, <1>9

\* Calls and steps keep which machines were accepted, while the caller's struct was not recycled.
LEMMA RunStep == RunInv /\ [Next]_vars => RunInv'
<1> SUFFICES ASSUME RunInv, [Next]_vars, ~recycled' PROVE LivesInv' /\ AcceptedInv'
  BY ApartStep DEF RunInv
<1>1. /\ ApartInv /\ ApartInv' /\ TypeInv /\ TypeInv' /\ ~recycled
      /\ Held /\ Held' /\ Apart /\ Apart' /\ Control /\ Control' /\ LivesInv /\ AcceptedInv
  BY ApartStep, RecycledStays DEF RunInv, ApartInv
<1>2. /\ cur \in Mach /\ Root \in Mach /\ regs \in [Mach -> Machine] /\ calls \in Nat
      /\ queue \in Seq(Mach) /\ Waiting \subseteq Mach
  BY <1>1, TraceAssumption DEF TypeInv, Waiting, Range
<1>3. \A m \in Mach : regs[m].ran \in Nat /\ regs[m].ran <= regs[m].ran
  BY <1>1, LifeType
<1>4. ASSUME UNCHANGED <<regs, queue, born, accepted, answer>>, regs[cur'] = regs[cur],
             pc' \notin {"next", "call", "done"}, pc \notin {"next"}
      PROVE  LivesInv' /\ AcceptedInv'
  <2>1. Waiting' = Waiting
    BY <1>4 DEF Waiting
  <2>2. LivesInv' /\ Lives' = Lives /\ Life(cur)' = Life(cur)
    BY <1>1, <1>2, <1>3, <1>4, <2>1, LivesKept
  <2>3. Life(cur) \in Range(accepted) => regs'[cur'].err # "nil"
    BY <1>1, <1>4 DEF AcceptedInv
  <2> QED
    BY <1>1, <1>4, <2>2, <2>3, AcceptedKept
<1>5. CASE CallTrace \/ CallRun
  <2>1. /\ pc = "call" /\ cur' = Root /\ pc' \in {"begin", "loop"}
        /\ UNCHANGED <<regs, queue, born, accepted, answer>>
    BY <1>5 DEF CallTrace, CallRun, ghosts
  <2>2. regs[Root] = regs[cur]
    BY <1>1, <1>2, <2>1 DEF Held, Outside
  <2> QED
    BY <1>4, <2>1, <2>2
<1>6. CASE Begin
  BY <1>4, <1>6 DEF Begin, runVars
<1>7. CASE Before
  <2>1. /\ pc = "loop" /\ pc' \in {"end", "step"} /\ regs[cur].err = "nil"
        /\ UNCHANGED <<cur, queue, born, accepted, answer>>
    BY <1>7 DEF Before, runVars
  <2>2. CASE regs' = regs
    BY <1>4, <2>1, <2>2
  <2>3. CASE regs' = [regs EXCEPT ![cur].err = "decode"]
    <3>1. PICK g : g = [regs[cur] EXCEPT !.err = "decode"]
      OBVIOUS
    <3>2. g.life = regs[cur].life /\ g.ran = regs[cur].ran
      <4>1. regs[cur] \in Machine /\ "decode" \in Errs
        BY <1>2 DEF Errs
      <4> QED
        BY <3>1, <4>1, MachineUpdates
    <3>3. regs' = [regs EXCEPT ![cur] = g]
      BY <1>2, <2>3, <3>1
    <3>4. Waiting' = Waiting /\ cur \notin Waiting
      BY <1>1, <2>1 DEF Waiting, Apart, Me, Outside
    <3>5. /\ \A m \in Waiting : regs'[m].life = regs[m].life /\ regs'[m].ran = regs[m].ran
          /\ regs'[cur'].life = regs[cur].life /\ regs'[cur'].ran >= regs[cur].ran
      BY <1>2, <1>3, <2>1, <3>2, <3>3, <3>4
    <3>6. LivesInv' /\ Lives' = Lives /\ Life(cur)' = Life(cur)
      BY <1>1, <2>1, <3>4, <3>5, LivesKept
    <3>7. Life(cur) \notin Range(accepted)
      BY <1>1, <2>1 DEF AcceptedInv
    <3> QED
      BY <1>1, <2>1, <3>6, <3>7, AcceptedKept
  <2> QED
    BY <1>7, <2>2, <2>3 DEF Before
<1>8. CASE Ended
  BY <1>4, <1>8 DEF Ended, runVars
<1>9. CASE Step
  <2>1. /\ Stepping /\ regs[cur].err = "nil" /\ UNCHANGED <<mode, calls, cur, read, answer, accepted, recycled>>
        /\ (\E h : Alone(h)) \/ (\E g, h, c, n : Copying(g, h, c, n))
    BY <1>1, <1>9, StepCases
  <2>2. ~Outside /\ pc # "next"
    BY <2>1 DEF Stepping, Outside
  <2>3. Life(cur) \notin Range(accepted) /\ Lives \subseteq born
    BY <1>1, <2>1 DEF AcceptedInv
  <2>4. cur \notin Waiting
    BY <1>1, <2>2 DEF Apart, Me
  <2>5. ASSUME NEW h, Alone(h) PROVE LivesInv' /\ AcceptedInv'
    <3>1. /\ regs' = [regs EXCEPT ![cur] = h] /\ h.life = regs[cur].life
          /\ h.ran \in {regs[cur].ran, regs[cur].ran + 1}
          /\ UNCHANGED <<queue, born>> /\ pc' \in {"loop", "after", "end"}
      BY <1>1, <2>5 DEF Alone, Life, Goes, TypeInv
    <3>2. Waiting' = Waiting
      BY <3>1 DEF Waiting
    <3>3. /\ \A m \in Waiting : regs'[m].life = regs[m].life /\ regs'[m].ran = regs[m].ran
          /\ regs'[cur'].life = regs[cur].life /\ regs'[cur'].ran >= regs[cur].ran
      BY <1>2, <1>3, <2>1, <2>4, <3>1
    <3>4. LivesInv' /\ Lives' = Lives /\ Life(cur)' = Life(cur)
      BY <1>1, <3>1, <3>2, <3>3, LivesKept
    <3> QED
      BY <1>1, <2>1, <2>2, <2>3, <3>1, <3>4, AcceptedKept
  <2>6. ASSUME NEW g, NEW h, NEW c, NEW n, Copying(g, h, c, n) PROVE LivesInv' /\ AcceptedInv'
    <3>1. pc' \in {"loop", "after", "end"}
      BY <1>1, <2>6 DEF Copying, Goes, TypeInv
    <3>2. CASE UNCHANGED <<queue, born>>
      <4>1. /\ n # cur /\ n \notin Waiting /\ regs'[cur] = h /\ h.life = regs[cur].life /\ h.ran = regs[cur].ran + 1
            /\ \A m \in Mach : m # cur /\ m # n => regs'[m] = regs[m]
        <5>1. h.life = regs[cur].life /\ h.ran = regs[cur].ran + 1
          BY <2>6 DEF Copying, Life
        <5> QED
          BY <1>1, <2>1, <2>2, <2>6, <5>1, CopyApart
      <4>2. Waiting' = Waiting
        BY <3>2 DEF Waiting
      <4>3. /\ \A m \in Waiting : regs'[m].life = regs[m].life /\ regs'[m].ran = regs[m].ran
            /\ regs'[cur'].life = regs[cur].life /\ regs'[cur'].ran >= regs[cur].ran
        BY <1>2, <1>3, <2>1, <2>4, <4>1
      <4>4. LivesInv' /\ Lives' = Lives /\ Life(cur)' = Life(cur)
        BY <1>1, <3>2, <4>2, <4>3, LivesKept
      <4> QED
        BY <1>1, <2>1, <2>2, <2>3, <3>1, <3>2, <4>4, AcceptedKept
    <3>3. CASE queue' = Append(queue, n) /\ born' = born \cup {c.life}
      <4>1. /\ LivesInv' /\ Lives' = Lives \cup {c.life} /\ Life(cur)' = Life(cur)
            /\ c.life \notin born
        BY <1>1, <2>1, <2>2, <2>3, <2>6, <3>3, LivesCopied
      <4>2. IsInjective(accepted)
        BY <1>1, <2>3 DEF AcceptedInv
      <4>3. c.life \notin Range(accepted)
        BY <1>1, <4>1 DEF AcceptedInv
      <4> QED
        BY <1>1, <2>1, <2>3, <3>1, <3>3, <4>1, <4>2, <4>3 DEF AcceptedInv, Outside
    <3> QED
      BY <2>6, <3>2, <3>3 DEF Copying
  <2> QED
    BY <2>1, <2>5, <2>6
<1>10. CASE After
  BY <1>4, <1>10 DEF After, runVars
<1>11. CASE End
  BY <1>4, <1>11 DEF End, runVars
<1>12. CASE Handle
  <2>1. regs[cur].err # "nil"
    BY <1>1, <1>12 DEF Handle, Held
  <2> QED
    BY <1>1, <1>12, <2>1, AcceptedHandled
<1>13. CASE Resume
  BY <1>1, <1>13, AcceptedResumed
<1>14. CASE Return
  <2>1. /\ pc = "next" /\ (~answer \/ queue = <<>>) /\ pc' \in {"call", "done"}
        /\ regs' = [regs EXCEPT ![Root] = regs[cur]]
        /\ ~answer => Root \notin Waiting
        /\ UNCHANGED <<queue, born, accepted, cur, answer>>
    <3>1. ~answer => Root \notin Waiting
      BY <1>1, <1>14 DEF Return, TypeInv
    <3> QED
      BY <1>14, <3>1 DEF Return
  <2>2. Waiting' = Waiting /\ Root \notin Waiting
    BY <1>2, <2>1, EmptySeq DEF Waiting, Range
  <2>3. /\ \A m \in Waiting : regs'[m].life = regs[m].life /\ regs'[m].ran = regs[m].ran
        /\ regs'[cur'] = regs[cur] /\ regs'[cur'].ran >= regs[cur].ran
    BY <1>2, <1>3, <2>1, <2>2
  <2>4. LivesInv' /\ Lives' = Lives /\ Life(cur)' = Life(cur)
    BY <1>1, <2>1, <2>2, <2>3, LivesKept
  <2>5. regs'[cur'].err # "nil"
    BY <1>1, <2>1, <2>3 DEF Held
  <2> QED
    BY <1>1, <2>1, <2>4, <2>5, AcceptedKept
<1>15. CASE UNCHANGED vars
  <2>1. LivesInv'
    BY <1>1, <1>15 DEF vars, LivesInv, Lives, Life, Waiting
  <2> QED
    BY <1>1, <1>15, <2>1 DEF vars, AcceptedInv, Lives, Life, Waiting, Outside
<1> QED
  BY <1>5, <1>6, <1>7, <1>8, <1>9, <1>10, <1>11, <1>12, <1>13, <1>14, <1>15 DEF Next

\* Before the first call there is one machine, and it was not accepted.
LEMMA RunInit == Init => RunInv
<1> SUFFICES ASSUME Init PROVE RunInv
  OBVIOUS
<1>1. /\ TypeInv /\ queue = <<>> /\ born = {<<>>} /\ accepted = <<>> /\ cur = Root /\ pc = "call" /\ calls = 0
      /\ regs[Root].life = <<>> /\ regs[Root].err = "nil"
  BY InitType, TraceAssumption DEF Init, Loaded
<1>2. Waiting = {} /\ Lives = {} /\ Life(cur) = <<>> /\ Range(accepted) = {} /\ IsInjective(accepted)
  BY <1>1, EmptySeq DEF Waiting, Lives, Life, Range, IsInjective
<1>3. \A s \in Seq(Nat), x \in Nat : Append(s, x) # <<>>
  BY PutLast
<1>4. LivesInv
  <2>1. \A m \in Waiting \cup {cur} : Life(m) \in Seq(Nat)
    BY <1>2
  <2> QED
    BY <1>1, <1>2, <1>3, <2>1 DEF LivesInv
<1>5. AcceptedInv
  BY <1>1, <1>2 DEF AcceptedInv, Outside
<1> QED
  BY <1>4, <1>5, ApartInit DEF RunInv

\* However often Trace() and Run() are called on a machine whose run was refused, and while its
\* struct was not recycled, run()'s handler accepts no machine twice before it accepted them all,
\* and leaves none out of a call that it lets end.
THEOREM NoneLeftNoneTwice == Spec => []AllAccepted
<1>1. Init => RunInv
  BY RunInit
<1>2. RunInv /\ [Next]_vars => RunInv'
  BY RunStep
<1>3. RunInv => AllAccepted
  <2> SUFFICES ASSUME RunInv, ~recycled PROVE AllAccepted
    BY DEF AllAccepted
  <2>1. TypeInv /\ Held /\ LivesInv /\ AcceptedInv
    BY DEF RunInv, ApartInv
  <2>2. Len(accepted) <= Cardinality(born) => IsInjective(accepted)
    <3>1. ASSUME ~IsInjective(accepted) PROVE ~(Len(accepted) <= Cardinality(born))
      <4>1. /\ Len(accepted) > Cardinality(born)
            /\ Life(cur) \in Range(accepted) /\ queue = <<>>
        BY <2>1, <3>1 DEF AcceptedInv
      <4>2. born = Range(accepted)
        <5>1. Lives = {}
          BY <4>1, EmptySeq DEF Lives, Waiting, Range
        <5> QED
          BY <2>1, <4>1, <5>1 DEF AcceptedInv
      <4>3. Cardinality(born) \in Nat /\ Len(accepted) \in Nat
        <5>1. accepted \in Seq(Seq(Nat))
          BY <2>1 DEF TypeInv
        <5> QED
          BY <4>2, <5>1, RangeBound, LenProperties
      <4> QED
        BY <4>1, <4>3
    <3> QED
      BY <3>1
  <2>3. Outside /\ calls > 0 /\ answer => Range(accepted) = born
    <3> SUFFICES ASSUME Outside, calls > 0, answer PROVE Range(accepted) = born
      OBVIOUS
    <3>1. queue = <<>>
      BY <2>1 DEF Held
    <3>2. Lives = {}
      BY <3>1, EmptySeq DEF Lives, Waiting, Range
    <3> QED
      BY <2>1, <3>2 DEF AcceptedInv
  <2> QED
    BY <2>2, <2>3 DEF AllAccepted, Outside
<1> QED
  BY <1>1, <1>2, <1>3, PTL DEF Spec
-----------------------------------------------------------------------------
(* What tracers know in the first call *)

\* No tracer was told anything.
Untold == log = <<>> /\ DOMAIN ids = {} /\ DOMAIN counts = {} /\ \A m \in Mach : traced[m] = NoMach

OwnedInv == (calls = 0 \/ (calls = 1 /\ mode = "run") => Untold) /\ EntriesOwned

Numbered == (Waiting \cup {cur}) \cap DOMAIN ids

\* Of the operation that made a machine there is a note.
Descends(m) ==
  \E k \in DOMAIN log : /\ log[k].what = "queue" /\ log[k].child = ids[m]
                        /\ Life(m) = Append(log[k].life, log[k].ran)

\* Machines that wait have numbers, and the one that runs does once it began.
Numbers ==
  /\ \A m \in Waiting \cup {cur} : traced[m] = m
  /\ Waiting \subseteq DOMAIN ids
  /\ pc \notin {"begin", "next"} => cur \in DOMAIN ids
  /\ pc = "begin" /\ cur \notin DOMAIN ids => log = <<>> /\ Life(cur) = <<>>
  /\ \A m \in Numbered : 0 < ids[m][3] /\ ids[m][3] <= nextID
  /\ \A m1, m2 \in Numbered : ids[m1][3] = ids[m2][3] => m1 = m2

\* No number is of two machines, nor has a machine two.
Noted ==
  /\ \A m \in Numbered, k \in DOMAIN log : log[k].id = ids[m] <=> log[k].life = Life(m)
  /\ \A k \in DOMAIN log : log[k].life \in born /\ log[k].id[3] <= nextID

Descent ==
  /\ \A m \in Waiting : Descends(m)
  /\ pc = "begin" /\ Life(cur) # <<>> => Descends(cur)

\* Only the operation that a note was just told of is counted before it is executed.
Counting ==
  /\ \A m \in Waiting : Known(counts, m, 0) = regs[m].ran
  /\ pc \in {"begin", "loop", "after"} => Known(counts, cur, 0) = regs[cur].ran
  /\ pc = "step" => Known(counts, cur, 0) = regs[cur].ran + 1

Names == Numbers /\ Noted /\ Descent /\ Counting

\* A call of Trace() that has not returned.
Tracing == calls = 1 /\ mode = "trace" /\ ~Outside

NamesInv ==
  /\ calls = 0 => Life(cur) = <<>> /\ regs[cur].ran = 0 /\ queue = <<>>
  /\ Tracing => Names
  /\ Named /\ CountsRan

\* What a copy adds to what the tracers know, and what they note of it.
LEMMA Enqueued ==
  ASSUME TypeInv, NEW g, NEW n, n # cur, TracedEnqueue(g, n), traced[cur] # NoMach
  PROVE  DOMAIN ids' \subseteq DOMAIN ids \cup {n} /\ DOMAIN counts' = DOMAIN counts \cup {n}
<1>1. PICK m : m = traced[cur]
  OBVIOUS
<1>2. QueueID(m, n) /\ QueueCount(m, n)
  BY <1>1 DEF TracedEnqueue
<1>3. DOMAIN counts' = DOMAIN counts \cup {n}
  BY <1>2 DEF QueueCount, With
<1>4. CASE m \in DOMAIN ids
  <2>1. PICK id : ids' = With(ids, n, id)
    BY <1>2, <1>4 DEF QueueID
  <2> QED
    BY <1>3, <2>1 DEF With
<1>5. CASE m \notin DOMAIN ids
  BY <1>2, <1>3, <1>5 DEF QueueID, Without
<1> QED
  BY <1>4, <1>5

\* Entries of machines that are gone are gone, throughout the first call.
LEMMA OwnedStep == ApartInv /\ OwnedInv /\ [Next]_vars => OwnedInv'
<1> SUFFICES ASSUME ApartInv, OwnedInv, [Next]_vars PROVE OwnedInv'
  OBVIOUS
<1>1. TypeInv /\ TypeInv' /\ Control /\ Control' /\ calls \in Nat /\ calls' \in Nat
  BY StepType, ControlStep DEF ApartInv, TypeInv
<1> SUFFICES ASSUME calls' <= 1 PROVE OwnedInv'
  BY <1>1 DEF OwnedInv, EntriesOwned
<1> DEFINE Entries == DOMAIN ids \cup DOMAIN counts
           Running == IF pc \in {"call", "next", "done"} THEN {} ELSE {cur}
<1>2. calls = 0 => pc = "call" /\ Untold
  BY <1>1 DEF Control, OwnedInv
<1>3. calls = 1 => Entries \subseteq Waiting \cup lost \cup Running
  BY DEF OwnedInv, EntriesOwned
<1>4. CASE CallTrace \/ CallRun
  <2>1. calls = 0 /\ calls' = 1 /\ UNCHANGED tracers /\ (mode' = "run" => traced' = traced)
    BY <1>1, <1>4 DEF CallTrace, CallRun
  <2> QED
    BY <1>2, <2>1 DEF OwnedInv, Untold, EntriesOwned, tracers
<1>5. CASE calls = 0 /\ ~(CallTrace \/ CallRun)
  <2>1. UNCHANGED vars
    BY <1>2, <1>5 DEF Next, Begin, Before, Ended, Step, Stepping, After, End, Handle, Resume, Return
  <2> QED
    BY <2>1 DEF vars, OwnedInv, Untold, EntriesOwned, Waiting
<1>6. ASSUME calls = 1, calls' = 1, mode' = mode, mode = "run" => Untold',
             Entries' \subseteq (Waiting \cup lost \cup Running)'
      PROVE  OwnedInv'
  BY <1>6 DEF OwnedInv, EntriesOwned
<1>7. ASSUME calls = 1, UNCHANGED <<calls, mode, traced, tracers>>,
             Running \subseteq (Waiting \cup Running)', Waiting \subseteq (Waiting \cup Running)', lost' = lost
      PROVE  OwnedInv'
  <2>1. Untold' = Untold /\ Entries' = Entries
    BY <1>7 DEF Untold, tracers
  <2>2. mode = "run" => Untold
    BY <1>7 DEF OwnedInv
  <2>3. Entries \subseteq Waiting \cup lost \cup Running
    BY <1>3, <1>7
  <2> QED
    BY <1>6, <1>7, <2>1, <2>2, <2>3
<1>8. CASE Begin /\ calls = 1
  <2>1. /\ Waiting' = Waiting /\ Running' = Running /\ Running = {cur} /\ lost' = lost
        /\ mode = "trace" /\ UNCHANGED <<calls, mode>>
    BY <1>1, <1>8 DEF Begin, runVars, Waiting, Control
  <2>2. Entries' \subseteq Entries \cup {cur}
    <3>1. CASE cur \in DOMAIN ids
      BY <1>8, <3>1 DEF Begin
    <3>2. CASE cur \notin DOMAIN ids
      <4>1. PICK id : ids' = With(ids, cur, id)
        BY <1>8, <3>2 DEF Begin
      <4> QED
        BY <1>8, <4>1 DEF Begin, With
    <3> QED
      BY <3>1, <3>2
  <2> QED
    BY <1>3, <1>6, <1>8, <2>1, <2>2
<1>9. CASE Before /\ calls = 1
  <2>1. /\ Waiting' = Waiting /\ Running' = Running /\ Running = {cur} /\ lost' = lost
        /\ mode = "trace" /\ UNCHANGED <<calls, mode>>
    BY <1>9 DEF Before, runVars, Waiting
  <2>2. Entries' \subseteq Entries \cup {cur}
    <3>1. CASE UNCHANGED tracers
      BY <3>1 DEF tracers
    <3>2. CASE counts' = With(counts, cur, Known(counts, cur, 0) + 1) /\ ids' = ids
      BY <3>2 DEF With
    <3> QED
      BY <1>9, <3>1, <3>2 DEF Before
  <2> QED
    BY <1>3, <1>6, <1>9, <2>1, <2>2
<1>10. CASE Ended /\ calls = 1
  <2>1. Waiting' = Waiting /\ Running' = Running /\ lost' = lost /\ UNCHANGED <<calls, mode, traced, tracers>>
    BY <1>10 DEF Ended, runVars, Waiting
  <2> QED
    BY <1>7, <1>10, <2>1
<1>11. CASE Step /\ calls = 1
  <2>1. /\ Stepping /\ regs[cur].err = "nil" /\ UNCHANGED <<mode, calls, cur>>
        /\ (\E h : Alone(h)) \/ (\E g, h, c, n : Copying(g, h, c, n))
    BY <1>1, <1>11, StepCases
  <2>2. Running = {cur} /\ ~Outside
    BY <2>1 DEF Stepping, Outside
  <2>3. ~recycled /\ Apart
    BY <1>1, <1>11, <2>2 DEF Control, ApartInv, TypeInv
  <2>4. ASSUME NEW h, Alone(h) PROVE OwnedInv'
    <3>1. pc' \in {"loop", "after", "end"} /\ UNCHANGED <<queue, lost, traced, tracers>>
      BY <1>1, <2>4 DEF Alone, Goes, TypeInv
    <3>2. Running' = Running /\ Waiting' = Waiting
      BY <2>1, <2>2, <3>1 DEF Waiting
    <3> QED
      BY <1>7, <1>11, <2>1, <3>1, <3>2
  <2>5. ASSUME NEW g, NEW h, NEW c, NEW n, Copying(g, h, c, n) PROVE OwnedInv'
    <3>1. pc' \in {"loop", "after", "end"}
      BY <1>1, <2>5 DEF Copying, Goes, TypeInv
    <3>2. Running' = {cur}
      BY <2>1, <3>1
    <3>3. n \in Mach /\ n # cur
      BY <1>1, <2>1, <2>2, <2>3, <2>5, CopyApart
    <3>4. (Waiting \cup lost)' = Waiting \cup lost \cup {n}
      <4>1. queue \in Seq(Mach)
        BY <1>1 DEF TypeInv
      <4>2. Range(Append(queue, n)) = Range(queue) \cup {n}
        BY <3>3, <4>1, PutLast
      <4>3. CASE lost' = lost \cup {n} /\ UNCHANGED <<queue, born>>
        BY <4>3 DEF Waiting
      <4>4. CASE queue' = Append(queue, n) /\ UNCHANGED lost
        BY <4>2, <4>4 DEF Waiting
      <4> QED
        BY <2>5, <4>3, <4>4 DEF Copying
    <3>5. CASE traced[cur] = NoMach
      <4>1. traced' = [traced EXCEPT ![n] = NoMach] /\ UNCHANGED tracers
        BY <2>5, <3>5 DEF Copying
      <4>2. mode = "run" => Untold'
        <5>1. traced \in [Mach -> Mach \cup {NoMach}]
          BY <1>1 DEF TypeInv
        <5> QED
          BY <1>11, <4>1, <5>1 DEF OwnedInv, Untold, tracers
      <4>3. Entries' = Entries
        BY <4>1 DEF tracers
      <4> QED
        BY <1>3, <1>6, <1>11, <2>1, <2>2, <3>2, <3>4, <4>2, <4>3
    <3>6. CASE traced[cur] # NoMach
      <4>1. TracedEnqueue(g, n)
        BY <2>5, <3>6 DEF Copying
      <4>2. Entries' \subseteq Entries \cup {n}
        BY <1>1, <3>3, <3>6, <4>1, Enqueued
      <4>3. mode # "run"
        BY <1>1, <1>11, <3>6 DEF OwnedInv, Untold, TypeInv
      <4> QED
        BY <1>3, <1>6, <1>11, <2>1, <2>2, <3>2, <3>4, <4>2, <4>3
    <3> QED
      BY <3>5, <3>6
  <2> QED
    BY <2>1, <2>4, <2>5
<1>12. CASE After /\ calls = 1
  <2>1. /\ Waiting' = Waiting /\ Running' = Running /\ lost' = lost /\ Entries' = Entries
        /\ mode = "trace" /\ UNCHANGED <<calls, mode>>
    BY <1>1, <1>12 DEF After, runVars, Waiting, Control
  <2> QED
    BY <1>3, <1>6, <1>12, <2>1
<1>13. CASE End /\ calls = 1
  <2>1. /\ Waiting' = Waiting /\ Running' = Running /\ lost' = lost /\ Entries' = Entries
        /\ mode = "trace" /\ UNCHANGED <<calls, mode>>
    BY <1>1, <1>13 DEF End, runVars, Waiting, Control
  <2> QED
    BY <1>3, <1>6, <1>13, <2>1
<1>14. CASE Handle /\ calls = 1
  <2>1. /\ Waiting' = Waiting /\ Running' = {} /\ Running = {cur} /\ lost' = lost
        /\ UNCHANGED <<calls, mode, traced>>
    BY <1>14 DEF Handle, Waiting
  <2>2. CASE mode = "run"
    <3>1. UNCHANGED tracers /\ Untold
      BY <1>14, <2>2 DEF Handle, OwnedInv
    <3>2. Untold' /\ Entries' = {}
      BY <2>1, <3>1 DEF Untold, tracers
    <3> QED
      BY <1>6, <1>14, <2>1, <3>2
  <2>3. CASE mode # "run"
    <3>1. ids' = Without(ids, cur) /\ counts' = Without(counts, cur)
      BY <1>14, <2>3 DEF Handle, Handled
    <3>2. Entries' = Entries \ {cur}
      BY <3>1 DEF Without
    <3> QED
      BY <1>3, <1>6, <1>14, <2>1, <2>3, <3>2
  <2> QED
    BY <2>2, <2>3
<1>15. CASE Resume /\ calls = 1
  <2>1. /\ queue # <<>> /\ queue \in Seq(Mach) /\ cur' = Last(queue) /\ queue' = Front(queue)
        /\ Running = {} /\ Running' = {cur'} /\ lost' = lost /\ UNCHANGED <<calls, mode, traced, tracers>>
    BY <1>1, <1>15 DEF Resume, ghosts, TypeInv
  <2>2. Waiting = (Waiting \cup Running)'
    <3>1. Range(queue) = Range(Front(queue)) \cup {Last(queue)}
      BY <2>1, TakeLast
    <3> QED
      BY <2>1, <3>1 DEF Waiting
  <2> QED
    BY <1>7, <1>15, <2>1, <2>2
<1>16. CASE Return /\ calls = 1
  <2>1. /\ Waiting' = Waiting /\ Running = {} /\ Running' = {} /\ lost' = lost
        /\ UNCHANGED <<calls, mode, tracers>> /\ traced' = [traced EXCEPT ![Root] = traced[cur]]
    BY <1>16 DEF Return, Waiting
  <2>2. mode = "run" => Untold'
    <3>1. traced \in [Mach -> Mach \cup {NoMach}] /\ cur \in Mach
      BY <1>1 DEF TypeInv
    <3> QED
      BY <1>16, <2>1, <3>1 DEF OwnedInv, Untold, tracers
  <2>3. Entries' = Entries
    BY <2>1 DEF tracers
  <2> QED
    BY <1>3, <1>6, <1>16, <2>1, <2>2, <2>3
<1>17. CASE UNCHANGED vars
  BY <1>17 DEF vars, OwnedInv, Untold, EntriesOwned, Waiting
<1>18. calls \in {0, 1}
  <2>1. calls' \in {calls, calls + 1}
    <3>1. Step => calls' = calls
      BY <1>1, StepCases
    <3> QED
      BY <1>1, <3>1 DEF Next, CallTrace, CallRun, Begin, Before, Ended, After, End, Handle, Resume, Return, vars, runVars
  <2> QED
    BY <1>1, <2>1
<1> QED
  BY <1>4, <1>5, <1>8, <1>9, <1>10, <1>11, <1>12, <1>13, <1>14, <1>15, <1>16, <1>17, <1>18 DEF Next

\* Tracers know of machines that run, or wait, or that could not be queued, and of no other,
\* throughout the first call of Trace() or Run(), and after it: Handle() of idTracer and
\* countTracer removes the entries of each machine that ends.
THEOREM EntriesAreOwned == Spec => []EntriesOwned
<1>1. Init => OwnedInv
  BY DEF Init, OwnedInv, Untold, EntriesOwned
<1>2. Init => ApartInv
  BY ApartInit
<1>3. ApartInv /\ OwnedInv /\ [Next]_vars => ApartInv' /\ OwnedInv'
  BY ApartStep, OwnedStep
<1>4. OwnedInv => EntriesOwned
  BY DEF OwnedInv
<1> QED
  BY <1>1, <1>2, <1>3, <1>4, PTL DEF Spec

-----------------------------------------------------------------------------
(* Names and counts, in the first call *)

\* What is said of the last note follows from what the note is.
LEMMA NamedTold ==
  ASSUME TypeInv, NEW note \in LogNote, log' = Append(log, note), note.id # NoID,
         \A k \in DOMAIN log : log[k].id = note.id <=> log[k].life = note.life,
         note.what = "queue" => note.child[1] = note.id[1] /\ note.child[2] = note.id[3],
         note.what = "begin" /\ note.life # <<>> =>
           \E k \in DOMAIN log :
             /\ log[k].what = "queue" /\ log[k].child = note.id
             /\ note.life = Append(log[k].life, log[k].ran),
         note.what \in {"begin", "queue", "after"} => note.count = note.ran,
         note.what = "before" => note.count = note.ran + 1
  PROVE  Named' /\ CountsRan'
<1>1. Last(log') = note /\ Front(log') = log
  BY PutLast DEF TypeInv
<1>2. Earlier' = log
  BY <1>1 DEF Earlier
<1> QED
  BY <1>1, <1>2, Zenon DEF Named, CountsRan

\* What is not told of changes no note.
LEMMA NamedUntold ==
  ASSUME log' = log, calls = 1, Named, CountsRan
  PROVE  Named' /\ CountsRan'
<1>1. Earlier' = Earlier
  BY DEF Earlier
<1> QED
  BY <1>1, Zenon DEF Named, CountsRan

\* Notes stay.
LEMMA LogGrows ==
  ASSUME TypeInv, NEW note \in LogNote, log' = Append(log, note)
  PROVE  /\ DOMAIN log' = DOMAIN log \cup {Len(log) + 1}
         /\ log'[Len(log) + 1] = note
         /\ \A k \in DOMAIN log : log'[k] = log[k]
<1>1. /\ Len(log) \in Nat /\ DOMAIN log = 1 .. Len(log)
      /\ DOMAIN Append(log, note) = 1 .. Len(log) + 1
      /\ \A i \in 1 .. Len(log) : Append(log, note)[i] = log[i]
      /\ Append(log, note)[Len(log) + 1] = note
  BY PutLast DEF TypeInv
<1>2. 1 .. Len(log) + 1 = (1 .. Len(log)) \cup {Len(log) + 1}
  BY <1>1
<1> QED
  BY <1>1, <1>2

\* A machine that was told of descends as it did.
LEMMA DescentKept ==
  ASSUME TypeInv, NEW m, ids'[m] = ids[m], Life(m)' = Life(m), Descends(m),
         \A k \in DOMAIN log : k \in DOMAIN log' /\ log'[k] = log[k]
  PROVE  Descends(m)'
<1>1. PICK k \in DOMAIN log : /\ log[k].what = "queue" /\ log[k].child = ids[m]
                              /\ Life(m) = Append(log[k].life, log[k].ran)
  BY DEF Descends
<1>2. k \in DOMAIN log' /\ log'[k] = log[k]
  OBVIOUS
<1> QED
  BY <1>1, <1>2 DEF Descends

\* A note of the machine that runs, by its number, tells it apart from those that wait.
LEMMA NotedTold ==
  ASSUME TypeInv, LivesInv, Numbers, Noted, Descent, cur \in DOMAIN ids, cur' = cur,
         NEW note \in LogNote, log' = Append(log, note), note.id = ids[cur], note.life = Life(cur),
         UNCHANGED <<nextID, queue, born>>,
         \A m \in Waiting \cup {cur} : regs'[m].life = regs[m].life,
         \A m \in Waiting \cup {cur} : m \in DOMAIN ids' => m \in DOMAIN ids /\ ids'[m] = ids[m],
         Waiting \subseteq DOMAIN ids'
  PROVE  Noted' /\ \A m \in Waiting : Descends(m)'
<1>1. /\ DOMAIN log' = DOMAIN log \cup {Len(log) + 1}
      /\ log'[Len(log) + 1] = note
      /\ \A k \in DOMAIN log : log'[k] = log[k]
  BY LogGrows
<1>2. Waiting' = Waiting
  BY DEF Waiting
<1>3. \A m \in Waiting \cup {cur} : Life(m)' = Life(m)
  BY DEF Life
<1>4. cur \in Numbered /\ ids[cur][3] <= nextID /\ Life(cur) \in born
  BY DEF Numbered, Numbers, LivesInv
<1>5. ASSUME NEW m \in Numbered', NEW k \in DOMAIN log'
      PROVE  log'[k].id = ids'[m] <=> log'[k].life = Life(m)'
  <2>1. m \in Numbered /\ ids'[m] = ids[m] /\ Life(m)' = Life(m)
    BY <1>2, <1>3, <1>5 DEF Numbered
  <2>2. CASE k \in DOMAIN log
    BY <1>1, <2>1, <2>2 DEF Noted
  <2>3. CASE k = Len(log) + 1
    <3>1. ids[m] = ids[cur] <=> Life(m) = Life(cur)
      <4>1. CASE m = cur
        BY <4>1
      <4>2. CASE m # cur
        <5>1. m \in Waiting
          BY <2>1, <4>2 DEF Numbered
        <5>2. Life(m) # Life(cur)
          BY <5>1 DEF LivesInv, Lives
        <5>3. ids[m] # ids[cur]
          BY <1>4, <2>1, <4>2 DEF Numbers
        <5> QED
          BY <5>2, <5>3
      <4> QED
        BY <4>1, <4>2
    <3>2. log'[k].id = ids[cur] /\ log'[k].life = Life(cur)
      BY <1>1, <2>3
    <3> QED
      BY <2>1, <3>1, <3>2
  <2> QED
    BY <1>1, <1>5, <2>2, <2>3
<1>6. \A k \in DOMAIN log' : log'[k].life \in born' /\ log'[k].id[3] <= nextID'
  BY <1>1, <1>4 DEF Noted
<1>7. Noted'
  BY <1>5, <1>6 DEF Noted
<1>8. ASSUME NEW m \in Waiting PROVE Descends(m)'
  <2>1. Descends(m) /\ Life(m)' = Life(m) /\ ids'[m] = ids[m]
    BY <1>3 DEF Descent
  <2> QED
    BY <1>1, <2>1, DescentKept
<1> QED
  BY <1>7, <1>8

\* What tracers are not told of changes no names.
LEMMA NamesUntold ==
  ASSUME TypeInv, Names, UNCHANGED <<cur, queue, traced, ids, nextID, log, counts, born>>,
         \A m \in Waiting \cup {cur} : regs'[m].life = regs[m].life,
         \A m \in Waiting : regs'[m].ran = regs[m].ran,
         pc \notin {"begin", "next"}, pc' \notin {"begin", "step"},
         pc' \in {"loop", "after"} => Known(counts, cur, 0) = regs'[cur].ran
  PROVE  Names'
<1>1. Waiting' = Waiting /\ Numbered' = Numbered
  BY DEF Waiting, Numbered
<1>2. \A m \in Waiting \cup {cur} : Life(m)' = Life(m)
  BY DEF Life
<1>3. Numbers'
  BY <1>1 DEF Names, Numbers
<1>4. Noted'
  <2>1. Numbered \subseteq Waiting \cup {cur}
    BY DEF Numbered
  <2> QED
    BY <1>1, <1>2, <2>1 DEF Names, Noted
<1>5. Descent'
  <2>1. \A m \in Waiting : Descends(m)'
    BY <1>2, DescentKept DEF Names, Descent
  <2> QED
    BY <1>1, <2>1 DEF Descent
<1>6. Counting'
  BY <1>1 DEF Names, Counting
<1> QED
  BY <1>3, <1>4, <1>5, <1>6 DEF Names

\* What tracers are told of the machine that runs, they know by its number.
LEMMA NamesTold ==
  ASSUME TypeInv, LivesInv, Names, cur \in DOMAIN ids,
         NEW note \in LogNote, log' = Append(log, note), note.id = ids[cur], note.life = Life(cur),
         UNCHANGED <<cur, nextID, queue, born, regs, traced>>,
         \A m \in Waiting \cup {cur} : m \in DOMAIN ids' => m \in DOMAIN ids /\ ids'[m] = ids[m],
         Waiting \subseteq DOMAIN ids',
         pc' # "begin", pc' # "next" => cur \in DOMAIN ids',
         \A m \in Waiting : Known(counts', m, 0) = Known(counts, m, 0),
         pc' \in {"loop", "after"} => Known(counts', cur, 0) = regs[cur].ran,
         pc' = "step" => Known(counts', cur, 0) = regs[cur].ran + 1
  PROVE  Names'
<1>1. Waiting' = Waiting
  BY DEF Waiting
<1>2. Noted' /\ \A m \in Waiting : Descends(m)'
  BY NotedTold DEF Names
<1>3. Descent'
  BY <1>1, <1>2 DEF Descent
<1>4. Numbers'
  <2>1. \A m \in Numbered' : m \in Numbered /\ ids'[m] = ids[m]
    BY <1>1 DEF Numbered
  <2> QED
    BY <1>1, <2>1 DEF Names, Numbers
<1>5. Counting'
  BY <1>1 DEF Names, Counting
<1> QED
  BY <1>2, <1>3, <1>4, <1>5 DEF Names

\* What a note of the machine that runs holds.
LEMMA NoteOfCur ==
  ASSUME TypeInv, Numbers, Noted, cur \in DOMAIN ids, NEW what \in Whats, NEW c, c \in [DOMAIN c -> Nat],
         NEW o \in Operations \cup {NotCached}, NEW note, note = Note(what, cur, ids, c, o, NoID)
  PROVE  /\ note \in LogNote /\ note.what = what /\ note.id = ids[cur] /\ note.life = Life(cur)
         /\ note.count = Known(c, cur, 0) /\ note.ran = regs[cur].ran
         /\ note.id # NoID
         /\ \A k \in DOMAIN log : log[k].id = note.id <=> log[k].life = note.life
<1>1. NoID \in IDs
  BY DEF NoID, IDs
<1>2. note \in LogNote
  BY <1>1, NoteType DEF TypeInv
<1>3. /\ note.what = what /\ note.id = ids[cur] /\ note.life = Life(cur)
      /\ note.count = Known(c, cur, 0) /\ note.ran = regs[cur].ran
  BY DEF Note, Known, Life
<1>4. cur \in Numbered
  BY DEF Numbered
<1>5. ids[cur] # NoID
  <2>1. 0 < ids[cur][3]
    BY <1>4 DEF Numbers
  <2>2. NoID[3] = 0
    BY DEF NoID
  <2> QED
    BY <2>1, <2>2
<1>6. \A k \in DOMAIN log : log[k].id = ids[cur] <=> log[k].life = Life(cur)
  BY <1>4 DEF Noted
<1> QED
  BY <1>2, <1>3, <1>5, <1>6

\* A machine begins: the first one gets a number, those that were queued have one.
LEMMA NamesBegin ==
  ASSUME TypeInv, TypeInv', Apart, LivesInv, Tracing, Names, Begin
  PROVE  Names' /\ Named' /\ CountsRan'
<1>1. /\ pc = "begin" /\ pc' = "loop"
      /\ UNCHANGED <<counts, cur, regs, traced, queue, born>>
      /\ log' = Append(log, Note("begin", cur, ids', counts, NotCached, NoID))
      /\ Numbers /\ Noted /\ Descent /\ Counting
  BY DEF Begin, Notes, runVars, Names
<1>2. PICK note : note = Note("begin", cur, ids', counts, NotCached, NoID)
  OBVIOUS
<1>3. counts \in [DOMAIN counts -> Nat] /\ "begin" \in Whats /\ NotCached \in Operations \cup {NotCached}
  BY DEF TypeInv, Whats
<1>4. Known(counts, cur, 0) = regs[cur].ran
  BY <1>1 DEF Counting
<1>5. CASE cur \in DOMAIN ids
  <2>1. UNCHANGED <<nextID, ids>>
    BY <1>5 DEF Begin
  <2>2. /\ note \in LogNote /\ note.what = "begin" /\ note.id = ids[cur] /\ note.life = Life(cur)
        /\ note.count = Known(counts, cur, 0) /\ note.ran = regs[cur].ran /\ note.id # NoID
        /\ \A k \in DOMAIN log : log[k].id = note.id <=> log[k].life = note.life
    <3>1. note = Note("begin", cur, ids, counts, NotCached, NoID)
      BY <1>2, <2>1
    <3> QED
      BY <1>1, <1>3, <1>5, <3>1, NoteOfCur
  <2>3. Waiting \subseteq DOMAIN ids
    BY <1>1 DEF Numbers
  <2>4. Names'
    BY <1>1, <1>2, <1>4, <1>5, <2>1, <2>2, <2>3, NamesTold
  <2>5. note.life # <<>> => \E k \in DOMAIN log :
          /\ log[k].what = "queue" /\ log[k].child = note.id
          /\ note.life = Append(log[k].life, log[k].ran)
    BY <1>1, <2>2 DEF Descent, Descends
  <2>6. log' = Append(log, note)
    BY <1>1, <1>2
  <2>7. Named' /\ CountsRan'
    BY <1>4, <2>2, <2>5, <2>6, NamedTold
  <2> QED
    BY <2>4, <2>7
<1>6. CASE cur \notin DOMAIN ids
  <2>1. /\ log = <<>> /\ Life(cur) = <<>> /\ nextID' = nextID + 1
        /\ ids' = With(ids, cur, <<nextID', 0, nextID'>>) /\ nextID \in Nat
    BY <1>1, <1>6 DEF Numbers, Begin, TypeInv
  <2>2. PICK id : id = <<nextID', 0, nextID'>>
    OBVIOUS
  <2>3. ids' = With(ids, cur, id) /\ id[3] = nextID + 1
    BY <2>1, <2>2
  <2>4. /\ DOMAIN ids' = DOMAIN ids \cup {cur} /\ ids'[cur] = id
        /\ \A m \in DOMAIN ids : m # cur => ids'[m] = ids[m]
    BY <2>3 DEF With
  <2>5. note \in LogNote
    BY <1>2, <1>3, NoteType DEF TypeInv, NoID, IDs
  <2>6. /\ note.what = "begin" /\ note.id = id /\ note.life = <<>>
        /\ note.count = Known(counts, cur, 0) /\ note.ran = regs[cur].ran
    BY <1>2, <2>1, <2>4 DEF Note, Known, Life
  <2>7. log' = Append(log, note) /\ DOMAIN log = {}
    <3>1. DOMAIN log = 1 .. Len(log)
      BY LenProperties DEF TypeInv
    <3> QED
      BY <1>1, <1>2, <2>1, <3>1
  <2>8. note.id # NoID
    <3>1. NoID[3] = 0
      BY DEF NoID
    <3> QED
      BY <2>1, <2>3, <2>6, <3>1
  <2>9. Named' /\ CountsRan'
    BY <1>4, <2>5, <2>6, <2>7, <2>8, NamedTold
  <2>10. /\ DOMAIN log' = {Len(log) + 1} /\ log'[Len(log) + 1] = note
    BY <2>5, <2>7, LogGrows
  <2>11. Waiting' = Waiting /\ Numbered' = (Numbered \ {cur}) \cup {cur} /\ cur \notin Waiting
    BY <1>1, <2>4 DEF Waiting, Numbered, Apart, Me, Outside
  <2>12. \A m \in Numbered : m \in Waiting /\ ids'[m] = ids[m] /\ ids[m][3] \in Nat /\ ids[m][3] <= nextID /\ 0 < ids[m][3]
    <3>1. \A m \in DOMAIN ids : ids[m] \in IDs
      BY DEF TypeInv
    <3>2. \A x \in IDs : x[3] \in Nat
      BY DEF IDs
    <3> QED
      BY <1>1, <1>6, <2>4, <3>1, <3>2 DEF Numbers, Numbered
  <2>13. Numbers'
    <3>1. \A m \in Numbered' : 0 < ids'[m][3] /\ ids'[m][3] <= nextID'
      <4>1. ASSUME NEW m \in Numbered' PROVE 0 < ids'[m][3] /\ ids'[m][3] <= nextID'
        <5>1. CASE m = cur
          BY <2>1, <2>3, <2>4, <5>1
        <5>2. CASE m \in Numbered
          <6>1. ids'[m][3] = ids[m][3] /\ ids[m][3] \in Nat /\ ids[m][3] <= nextID /\ 0 < ids[m][3]
            BY <2>12, <5>2
          <6> QED
            BY <2>1, <6>1
        <5> QED
          BY <2>11, <4>1, <5>1, <5>2
      <4> QED
        BY <4>1
    <3>2. \A m1, m2 \in Numbered' : ids'[m1][3] = ids'[m2][3] => m1 = m2
      <4>1. \A m \in Numbered : ids'[m][3] # ids'[cur][3] /\ ids'[m][3] = ids[m][3]
        <5>1. ASSUME NEW m \in Numbered PROVE ids'[m][3] # ids'[cur][3] /\ ids'[m][3] = ids[m][3]
          <6>1. ids'[m][3] = ids[m][3] /\ ids[m][3] \in Nat /\ ids[m][3] <= nextID
            BY <2>12, <5>1
          <6>2. ids'[cur][3] = nextID + 1
            BY <2>3, <2>4
          <6> QED
            BY <2>1, <6>1, <6>2
        <5> QED
          BY <5>1
      <4>2. \A m1, m2 \in Numbered : ids[m1][3] = ids[m2][3] => m1 = m2
        BY <1>1 DEF Numbers
      <4> QED
        BY <2>11, <4>1, <4>2
    <3> QED
      BY <1>1, <2>4, <2>11, <3>1, <3>2 DEF Numbers
  <2>14. Noted'
    <3>1. ASSUME NEW m \in Numbered', NEW k \in DOMAIN log'
          PROVE  log'[k].id = ids'[m] <=> log'[k].life = Life(m)'
      <4>1. log'[k] = note /\ Life(m)' = Life(m)
        BY <1>1, <2>10, <3>1 DEF Life
      <4>2. CASE m = cur
        BY <2>1, <2>4, <2>6, <4>1, <4>2
      <4>3. CASE m # cur
        <5>1. m \in Numbered /\ m \in Waiting
          BY <2>11, <2>12, <3>1, <4>3
        <5>2. ids'[m] # id
          BY <2>3, <2>12, <5>1, <2>1
        <5>3. Life(m) # <<>>
          BY <2>1, <5>1 DEF LivesInv, Lives
        <5> QED
          BY <2>6, <4>1, <5>2, <5>3
      <4> QED
        BY <4>2, <4>3
    <3>2. \A k \in DOMAIN log' : log'[k].life \in born' /\ log'[k].id[3] <= nextID'
      BY <1>1, <2>1, <2>3, <2>6, <2>10 DEF LivesInv
    <3> QED
      BY <3>1, <3>2 DEF Noted
  <2>15. Descent'
    <3>1. Waiting = {}
      BY <1>1, <2>1, <2>7 DEF Descent, Descends
    <3> QED
      BY <1>1, <2>11, <3>1 DEF Descent
  <2>16. Counting'
    BY <1>1, <1>4, <2>11 DEF Counting
  <2> QED
    BY <2>9, <2>13, <2>14, <2>15, <2>16 DEF Names
<1> QED
  BY <1>5, <1>6

\* An operation is told of before it is executed.
LEMMA NamesBefore ==
  ASSUME TypeInv, TypeInv', Apart, LivesInv, Tracing, Names, Named, CountsRan, Before
  PROVE  Names' /\ Named' /\ CountsRan'
<1>1. /\ pc = "loop" /\ UNCHANGED <<cur, traced, queue, born>>
      /\ Numbers /\ Noted /\ Descent /\ Counting
  BY DEF Before, runVars, Names
<1>2. cur \in DOMAIN ids /\ Waiting \subseteq DOMAIN ids /\ cur \notin Waiting /\ cur \in Mach
  BY <1>1 DEF Numbers, Apart, Me, Outside, TypeInv
<1> DEFINE o == OpAt(regs[cur].mem, regs[cur].ip)
<1>3. CASE o = Bad
  <2>1. /\ regs' = [regs EXCEPT ![cur].err = "decode"] /\ pc' = "end"
        /\ UNCHANGED <<ids, nextID, log, counts>>
    BY <1>3 DEF Before, tracers
  <2>2. PICK g : g = [regs[cur] EXCEPT !.err = "decode"]
    OBVIOUS
  <2>3. regs' = [regs EXCEPT ![cur] = g] /\ regs \in [Mach -> Machine] /\ Waiting \subseteq Mach
    BY <2>1, <2>2 DEF TypeInv, Waiting, Range
  <2>4. g.life = regs[cur].life
    <3>1. regs[cur] \in Machine /\ "decode" \in Errs
      BY <1>2, <2>3 DEF Errs
    <3> QED
      BY <2>2, <3>1, MachineUpdates
  <2>5. /\ \A m \in Waiting \cup {cur} : regs'[m].life = regs[m].life
        /\ \A m \in Waiting : regs'[m].ran = regs[m].ran
    BY <1>2, <2>3, <2>4
  <2>6. Names'
    BY <1>1, <2>1, <2>5, NamesUntold
  <2> QED
    BY <2>1, <2>6, NamedUntold DEF Tracing
<1>4. CASE o # Bad
  <2>1. PICK k : k = Known(counts, cur, 0) + 1
    OBVIOUS
  <2>2. /\ counts' = With(counts, cur, k) /\ pc' = "step"
        /\ log' = Append(log, Note("before", cur, ids, counts', o, NoID))
        /\ UNCHANGED <<regs, nextID, ids>>
    BY <1>4, <2>1 DEF Before, Notes
  <2>3. /\ Known(counts', cur, 0) = k /\ \A m \in Waiting : Known(counts', m, 0) = Known(counts, m, 0)
        /\ k = regs[cur].ran + 1
    BY <1>1, <1>2, <2>1, <2>2 DEF With, Known, Counting
  <2>4. PICK note : note = Note("before", cur, ids, counts', o, NoID)
    OBVIOUS
  <2>5. /\ note \in LogNote /\ note.what = "before" /\ note.id = ids[cur] /\ note.life = Life(cur)
        /\ note.count = Known(counts', cur, 0) /\ note.ran = regs[cur].ran /\ note.id # NoID
        /\ \A i \in DOMAIN log : log[i].id = note.id <=> log[i].life = note.life
    <3>1. o \in Operations \cup {NotCached}
      BY <1>2, OperationTypes DEF TypeInv
    <3>2. counts' \in [DOMAIN counts' -> Nat] /\ "before" \in Whats
      BY DEF TypeInv, Whats
    <3> QED
      BY <1>1, <1>2, <2>4, <3>1, <3>2, NoteOfCur
  <2> HIDE DEF o
  <2>6. log' = Append(log, note)
    BY <2>2, <2>4
  <2>7. Names'
    BY <1>1, <1>2, <2>2, <2>3, <2>5, <2>6, NamesTold
  <2>8. Named' /\ CountsRan'
    BY <2>3, <2>5, <2>6, NamedTold
  <2> QED
    BY <2>7, <2>8
<1> QED
  BY <1>3, <1>4

\* After and End are told of the machine that runs.
LEMMA NamesAfter ==
  ASSUME TypeInv, Apart, LivesInv, Tracing, Names, After \/ End
  PROVE  Names' /\ Named' /\ CountsRan'
<1>1. PICK what \in {"after", "end"}, o \in Operations \cup {NotCached} :
        /\ what = pc /\ log' = Append(log, Note(what, cur, ids, counts, o, NoID))
        /\ pc' = IF what = "after" THEN "loop" ELSE "handle"
        /\ UNCHANGED <<cur, queue, born, regs, traced, nextID, ids, counts>>
  BY DEF After, End, Notes, runVars, TypeInv
<1>2. Numbers /\ Noted /\ Descent /\ Counting
  BY DEF Names
<1>3. cur \in DOMAIN ids /\ Waiting \subseteq DOMAIN ids /\ what \in Whats /\ counts \in [DOMAIN counts -> Nat]
  BY <1>1, <1>2 DEF Numbers, Whats, TypeInv
<1>4. PICK note : note = Note(what, cur, ids, counts, o, NoID)
  OBVIOUS
<1>5. /\ note \in LogNote /\ note.what = what /\ note.id = ids[cur] /\ note.life = Life(cur)
      /\ note.count = Known(counts, cur, 0) /\ note.ran = regs[cur].ran /\ note.id # NoID
      /\ \A i \in DOMAIN log : log[i].id = note.id <=> log[i].life = note.life
  BY <1>2, <1>3, <1>4, NoteOfCur
<1>6. log' = Append(log, note)
  BY <1>1, <1>4
<1>7. pc = "after" => Known(counts, cur, 0) = regs[cur].ran
  BY <1>2 DEF Counting
<1>8. Names'
  BY <1>1, <1>3, <1>5, <1>6, <1>7, NamesTold
<1>9. Named' /\ CountsRan'
  BY <1>1, <1>5, <1>6, <1>7, NamedTold
<1> QED
  BY <1>8, <1>9

\* A machine that is handled is told of by its number, and has none afterwards.
LEMMA NamesHandle ==
  ASSUME TypeInv, Apart, LivesInv, Tracing, Names, Handle
  PROVE  Names' /\ Named' /\ CountsRan'
<1>1. /\ pc = "handle" /\ pc' = "next"
      /\ log' = Append(log, HandleNote)
      /\ ids' = Without(ids, cur) /\ counts' = Without(counts, cur)
      /\ UNCHANGED <<cur, queue, born, regs, traced, nextID>>
  BY DEF Handle, Notes, Handled, Tracing
<1>2. Numbers /\ Noted /\ Descent /\ Counting
  BY DEF Names
<1>3. /\ cur \in DOMAIN ids /\ Waiting \subseteq DOMAIN ids /\ cur \notin Waiting
      /\ "handle" \in Whats /\ counts \in [DOMAIN counts -> Nat] /\ NotCached \in Operations \cup {NotCached}
  BY <1>1, <1>2 DEF Numbers, Whats, TypeInv, Apart, Me, Outside
<1>4. PICK note : note = HandleNote
  OBVIOUS
<1>5. /\ note \in LogNote /\ note.what = "handle" /\ note.id = ids[cur] /\ note.life = Life(cur)
      /\ note.id # NoID
      /\ \A i \in DOMAIN log : log[i].id = note.id <=> log[i].life = note.life
  BY <1>2, <1>3, <1>4, NoteOfCur DEF HandleNote
<1>6. log' = Append(log, note)
  BY <1>1, <1>4
<1>7. /\ \A m \in Waiting \cup {cur} : m \in DOMAIN ids' => m \in DOMAIN ids /\ ids'[m] = ids[m]
      /\ Waiting \subseteq DOMAIN ids'
      /\ \A m \in Waiting : Known(counts', m, 0) = Known(counts, m, 0)
  BY <1>1, <1>3 DEF Without, Known
<1>8. Names'
  BY <1>1, <1>3, <1>5, <1>6, <1>7, NamesTold
<1>9. Named' /\ CountsRan'
  BY <1>5, <1>6, NamedTold
<1> QED
  BY <1>8, <1>9

\* A machine that is dequeued begins with the number that it was queued with.
LEMMA NamesResume ==
  ASSUME TypeInv, Apart, Tracing, Names, Named, CountsRan, Resume
  PROVE  Names' /\ Named' /\ CountsRan'
<1>1. /\ pc = "next" /\ queue # <<>> /\ cur' = Last(queue) /\ queue' = Front(queue) /\ pc' = "begin"
      /\ UNCHANGED <<regs, traced, born, nextID, ids, counts, log>>
  BY DEF Resume, Tracing, ghosts, tracers
<1>2. Waiting = Waiting' \cup {cur'}
  <2>1. queue \in Seq(Mach)
    BY DEF TypeInv
  <2>2. Range(queue) = Range(Front(queue)) \cup {Last(queue)}
    BY <1>1, <2>1, TakeLast
  <2> QED
    BY <1>1, <2>2 DEF Waiting
<1>3. Numbers /\ Noted /\ Descent /\ Counting
  BY DEF Names
<1>4. cur' \in DOMAIN ids /\ Numbered' \subseteq Numbered
  BY <1>1, <1>2, <1>3 DEF Numbers, Numbered
<1>5. Numbers'
  BY <1>1, <1>2, <1>3, <1>4 DEF Numbers
<1>6. \A m : Life(m)' = Life(m)
  BY <1>1 DEF Life
<1>7. Noted'
  BY <1>1, <1>3, <1>4, <1>6 DEF Noted
<1>8. Descent'
  <2>1. PICK c : c = cur'
    OBVIOUS
  <2>2. \A m \in Waiting : Descends(m)'
    BY <1>1, <1>3, <1>6, DescentKept DEF Descent
  <2>3. Descends(c)'
    BY <1>2, <2>1, <2>2
  <2>4. Descends(cur)'
    BY <2>1, <2>3 DEF Descends, Life
  <2> QED
    BY <1>2, <2>2, <2>4 DEF Descent
<1>9. Counting'
  BY <1>1, <1>2, <1>3 DEF Counting
<1> QED
  BY <1>1, <1>5, <1>7, <1>8, <1>9, NamedUntold DEF Names, Tracing

\* An operation that makes no copy is told of by After, or not at all.
LEMMA NamesAlone ==
  ASSUME TypeInv, Apart, Tracing, Names, Named, CountsRan, Stepping, cur' = cur, NEW h, Alone(h)
  PROVE  Names' /\ Named' /\ CountsRan'
<1>1. /\ pc = "step" /\ pc' \in {"after", "end"} /\ (pc' = "after" => h.err = "nil")
      /\ UNCHANGED <<queue, born, traced, ids, nextID, log, counts>>
      /\ Numbers /\ Noted /\ Descent /\ Counting
  BY DEF Stepping, Tracing, Alone, Goes, tracers, Names
<1>2. /\ regs \in [Mach -> Machine] /\ cur \in Mach /\ cur \notin Waiting /\ Waiting \subseteq Mach
  BY DEF TypeInv, Apart, Me, Tracing, Waiting, Range
<1>3. /\ regs' = [regs EXCEPT ![cur] = h] /\ h.life = regs[cur].life
      /\ h.err = "nil" => h.ran = regs[cur].ran + 1
  BY DEF Alone, Life
<1>4. /\ \A m \in Waiting \cup {cur} : regs'[m].life = regs[m].life
      /\ \A m \in Waiting : regs'[m].ran = regs[m].ran
      /\ regs'[cur] = h
  BY <1>2, <1>3
<1>5. Known(counts, cur, 0) = regs[cur].ran + 1
  BY <1>1 DEF Counting
<1>6. pc' \in {"loop", "after"} => Known(counts, cur, 0) = regs'[cur].ran
  BY <1>1, <1>3, <1>4, <1>5
<1>7. pc \notin {"begin", "next"} /\ pc' \notin {"begin", "step"}
  BY <1>1
<1>8. Names'
  BY <1>1, <1>4, <1>6, <1>7, NamesUntold
<1> QED
  BY <1>1, <1>8, NamedUntold DEF Tracing

\* A copy is told of by the number it will begin with, and is counted as its original.
LEMMA NamesCopied ==
  ASSUME TypeInv, TypeInv', Apart, LivesInv, LivesInv', Lives \subseteq born, Tracing, Names, Stepping,
         regs[cur].err = "nil", cur' = cur, NEW g, NEW h, NEW c, NEW n, Copying(g, h, c, n),
         c.life \notin born
  PROVE  Names' /\ Named' /\ CountsRan'
<1> DEFINE k == regs[cur].ran + 1
<1>1. /\ pc = "step" /\ pc' \in {"after", "end"}
      /\ Numbers /\ Noted /\ Descent /\ Counting
  BY DEF Stepping, Tracing, Copying, Goes, Names
<1>2. /\ n \in Mach /\ n # cur /\ n \notin Waiting /\ regs'[cur] = h /\ regs'[n] = c
      /\ \A m \in Mach : m # cur /\ m # n => regs'[m] = regs[m]
  BY CopyApart DEF Tracing
<1>3. /\ regs \in [Mach -> Machine] /\ cur \in Mach /\ cur \notin Waiting /\ Waiting \subseteq Mach
      /\ queue \in Seq(Mach) /\ nextID \in Nat
      /\ traced \in [Mach -> Mach \cup {NoMach}]
  BY DEF TypeInv, Apart, Me, Tracing, Waiting, Range
<1>4. /\ cur \in DOMAIN ids /\ Waiting \subseteq DOMAIN ids /\ traced[cur] = cur /\ cur # NoMach
  BY <1>1, <1>3, TraceAssumption DEF Numbers
<1>5. /\ h.life = Life(cur) /\ h.ran = k /\ c.life = Append(Life(cur), k) /\ c.ran = k /\ g.ran = k
      /\ Known(counts, cur, 0) = k
  BY <1>1 DEF Copying, Counting
<1>6. PICK id : id = <<ids[cur][1], ids[cur][3], nextID'>>
  OBVIOUS
<1>7. /\ nextID' = nextID + 1 /\ ids' = With(ids, n, id) /\ counts' = With(counts, n, k)
      /\ traced' = [traced EXCEPT ![n] = n]
      /\ log' = Append(log, [Note("queue", cur, ids', counts', NotCached, Known(ids', n, NoID))
                              EXCEPT !.ran = g.ran])
  <2>1. TracedEnqueue(g, n)
    BY <1>4 DEF Copying
  <2>2. QueueID(cur, n) /\ QueueCount(cur, n) /\ FixTracer(n, cur)
    BY <1>4, <2>1 DEF TracedEnqueue
  <2>3. Notes([Note("queue", cur, ids', counts', NotCached, Known(ids', n, NoID)) EXCEPT !.ran = g.ran])
    BY <1>4, <2>1 DEF TracedEnqueue
  <2> QED
    BY <1>4, <1>5, <1>6, <2>2, <2>3 DEF QueueID, QueueCount, FixTracer, Notes
<1>8. /\ DOMAIN ids' = DOMAIN ids \cup {n} /\ ids'[n] = id
      /\ \A m \in DOMAIN ids : m # n => ids'[m] = ids[m]
      /\ Known(ids', n, NoID) = id /\ Known(ids', cur, NoID) = ids[cur]
      /\ Known(counts', n, 0) = k
      /\ \A m \in Mach : m # n => Known(counts', m, 0) = Known(counts, m, 0)
  BY <1>2, <1>4, <1>7 DEF With, Known
<1>9. id[1] = ids[cur][1] /\ id[2] = ids[cur][3] /\ id[3] = nextID + 1
  BY <1>6, <1>7
<1>10. PICK base : base = Note("queue", cur, ids', counts', NotCached, id)
  OBVIOUS
<1>11. PICK note : note = [base EXCEPT !.ran = k]
  OBVIOUS
<1>12. log' = Append(log, note)
  BY <1>5, <1>7, <1>8, <1>10, <1>11
<1>13. base \in LogNote
  <2>1. \A m \in DOMAIN ids' : ids'[m] \in IDs
    BY DEF TypeInv
  <2>2. id \in IDs
    BY <1>8, <2>1
  <2>3. "queue" \in Whats /\ NotCached \in Operations \cup {NotCached}
    BY DEF Whats
  <2>4. ids' \in [DOMAIN ids' -> IDs] /\ counts' \in [DOMAIN counts' -> Nat]
    BY DEF TypeInv
  <2> QED
    BY <1>3, <1>10, <2>2, <2>3, <2>4, NoteType
<1>14. base.what = "queue" /\ base.life = Life(cur) /\ base.id = ids[cur] /\ base.child = id /\ base.count = k
  BY <1>2, <1>3, <1>5, <1>8, <1>10 DEF Note, Life
<1>15. /\ note \in LogNote /\ note.what = "queue" /\ note.life = Life(cur) /\ note.id = ids[cur]
       /\ note.child = id /\ note.count = k /\ note.ran = k
  <2>1. k \in Nat
    BY <1>3, MachineUpdates
  <2> HIDE DEF k
  <2> QED
    BY <1>11, <1>13, <1>14, <2>1 DEF LogNote
<1> HIDE DEF k
<1>16. cur \in Numbered /\ ids[cur] \in IDs /\ 0 < ids[cur][3] /\ ids[cur][3] <= nextID
  BY <1>1, <1>4 DEF Numbers, Numbered, TypeInv
<1>17. Named' /\ CountsRan'
  <2>1. note.id # NoID
    <3>1. NoID[3] = 0
      BY DEF NoID
    <3> QED
      BY <1>15, <1>16, <3>1
  <2>2. \A i \in DOMAIN log : log[i].id = note.id <=> log[i].life = note.life
    BY <1>1, <1>15, <1>16 DEF Noted
  <2>3. note.child[1] = note.id[1] /\ note.child[2] = note.id[3]
    BY <1>9, <1>15
  <2> QED
    BY <1>12, <1>15, <2>1, <2>2, <2>3, NamedTold
<1>18. /\ DOMAIN log' = DOMAIN log \cup {Len(log) + 1}
       /\ log'[Len(log) + 1] = note
       /\ \A i \in DOMAIN log : log'[i] = log[i]
  BY <1>12, <1>15, LogGrows
<1>19. Waiting' \subseteq Waiting \cup {n} /\ Waiting \subseteq Waiting' /\ born \subseteq born'
  <2>1. Range(Append(queue, n)) = Range(queue) \cup {n}
    BY <1>2, <1>3, PutLast
  <2>2. CASE UNCHANGED <<queue, born>>
    BY <2>2 DEF Waiting
  <2>3. CASE queue' = Append(queue, n) /\ born' = born \cup {c.life}
    BY <2>1, <2>3 DEF Waiting
  <2> QED
    BY <2>2, <2>3 DEF Copying
<1>20. /\ \A m \in Waiting \cup {cur} : m # n /\ Life(m)' = Life(m) /\ ids'[m] = ids[m] /\ m \in Numbered
       /\ Life(n)' = c.life
  BY <1>2, <1>3, <1>4, <1>5, <1>8 DEF Life, Numbered
<1>21. \A m \in Waiting \cup {cur} : ids[m][3] \in Nat /\ 0 < ids[m][3] /\ ids[m][3] <= nextID
  <2>1. \A m \in DOMAIN ids : ids[m] \in IDs
    BY DEF TypeInv
  <2>2. \A x \in IDs : x[3] \in Nat
    BY DEF IDs
  <2> QED
    BY <1>1, <1>4, <1>20, <2>1, <2>2 DEF Numbers
<1>22. Numbers'
  <2>1. \A m \in (Waiting \cup {cur})' : traced'[m] = m
    BY <1>1, <1>2, <1>3, <1>7, <1>19 DEF Numbers
  <2>2. Waiting' \subseteq DOMAIN ids' /\ cur' \in DOMAIN ids'
    BY <1>4, <1>8, <1>19
  <2>3. Numbered' \subseteq Waiting \cup {cur, n}
    BY <1>19 DEF Numbered
  <2>4. \A m \in Numbered' : 0 < ids'[m][3] /\ ids'[m][3] <= nextID'
    <3>1. ASSUME NEW m \in Numbered' PROVE 0 < ids'[m][3] /\ ids'[m][3] <= nextID'
      <4>1. CASE m \in Waiting \cup {cur}
        <5>1. ids'[m][3] = ids[m][3] /\ ids[m][3] \in Nat /\ 0 < ids[m][3] /\ ids[m][3] <= nextID
          BY <1>20, <1>21, <4>1
        <5> QED
          BY <1>3, <1>7, <5>1
      <4>2. CASE m = n
        BY <1>3, <1>7, <1>8, <1>9, <4>2
      <4> QED
        BY <2>3, <3>1, <4>1, <4>2
    <3> QED
      BY <3>1
  <2>5. \A m1, m2 \in Numbered' : ids'[m1][3] = ids'[m2][3] => m1 = m2
    <3>1. ASSUME NEW m \in Waiting \cup {cur}
          PROVE  ids'[m][3] # ids'[n][3] /\ ids'[m][3] = ids[m][3] /\ m \in Numbered
      <4>1. ids'[m][3] = ids[m][3] /\ ids[m][3] \in Nat /\ ids[m][3] <= nextID /\ m \in Numbered
        BY <1>20, <1>21, <3>1
      <4>2. ids'[n][3] = nextID + 1
        BY <1>8, <1>9
      <4> QED
        BY <1>3, <4>1, <4>2
    <3>2. \A m1, m2 \in Numbered : ids[m1][3] = ids[m2][3] => m1 = m2
      BY <1>1 DEF Numbers
    <3> QED
      BY <2>3, <3>1, <3>2
  <2> QED
    BY <1>1, <2>1, <2>2, <2>4, <2>5 DEF Numbers
<1>23. Noted'
  <2>1. ASSUME NEW m \in Numbered', NEW i \in DOMAIN log'
        PROVE  log'[i].id = ids'[m] <=> log'[i].life = Life(m)'
    <3>1. m \in Waiting \cup {cur, n}
      BY <1>19, <2>1 DEF Numbered
    <3>2. CASE m \in Waiting \cup {cur}
      <4>1. m \in Numbered /\ ids'[m] = ids[m] /\ Life(m)' = Life(m)
        BY <1>20, <3>2
      <4>2. CASE i \in DOMAIN log
        BY <1>1, <1>18, <4>1, <4>2 DEF Noted
      <4>3. CASE i = Len(log) + 1
        <5>1. ids[m] = ids[cur] <=> Life(m) = Life(cur)
          <6>1. CASE m = cur
            BY <6>1
          <6>2. CASE m # cur
            <7>1. m \in Waiting
              BY <3>2, <6>2
            <7>2. Life(m) # Life(cur)
              BY <7>1 DEF LivesInv, Lives
            <7>3. ids[m] # ids[cur]
              BY <1>1, <1>16, <4>1, <6>2 DEF Numbers
            <7> QED
              BY <7>2, <7>3
          <6> QED
            BY <6>1, <6>2
        <5> QED
          BY <1>15, <1>18, <4>1, <4>3, <5>1
      <4> QED
        BY <1>18, <2>1, <4>2, <4>3
    <3>3. CASE m = n
      <4>1. log'[i].id[3] \in Nat /\ log'[i].id[3] <= nextID /\ log'[i].life \in born
        <5>1. log'[i] \in LogNote
          <6>1. DOMAIN log' = 1 .. Len(log') /\ log' \in [1 .. Len(log') -> LogNote]
            BY LenProperties DEF TypeInv
          <6> QED
            BY <2>1, <6>1
        <5>2. log'[i].id[3] \in Nat
          BY <5>1 DEF LogNote, IDs
        <5>3. log'[i].id[3] <= nextID /\ log'[i].life \in born
          <6>1. CASE i \in DOMAIN log
            BY <1>1, <1>18, <6>1 DEF Noted
          <6>2. CASE i = Len(log) + 1
            BY <1>15, <1>16, <1>18, <6>2 DEF LivesInv
          <6> QED
            BY <1>18, <2>1, <6>1, <6>2
        <5> QED
          BY <5>2, <5>3
      <4>2. log'[i].id # ids'[n]
        BY <1>3, <1>8, <1>9, <4>1
      <4>3. log'[i].life # Life(n)'
        BY <1>20, <4>1
      <4> QED
        BY <3>3, <4>2, <4>3
    <3> QED
      BY <3>1, <3>2, <3>3
  <2>2. ASSUME NEW i \in DOMAIN log' PROVE log'[i].life \in born' /\ log'[i].id[3] <= nextID'
    <3>1. CASE i \in DOMAIN log
      <4>1. log'[i].life \in born /\ log'[i].id[3] <= nextID /\ log'[i].id[3] \in Nat
        <5>1. log[i] \in LogNote
          <6>1. DOMAIN log = 1 .. Len(log) /\ log \in [1 .. Len(log) -> LogNote]
            BY LenProperties DEF TypeInv
          <6> QED
            BY <3>1, <6>1
        <5>2. log[i].id[3] \in Nat
          BY <5>1 DEF LogNote, IDs
        <5> QED
          BY <1>1, <1>18, <3>1, <5>2 DEF Noted
      <4> QED
        BY <1>3, <1>7, <1>19, <4>1
    <3>2. CASE i = Len(log) + 1
      <4>1. log'[i].life = Life(cur) /\ log'[i].id = ids[cur] /\ Life(cur) \in born
        BY <1>15, <1>18, <3>2 DEF LivesInv
      <4>2. ids[cur][3] \in Nat /\ ids[cur][3] <= nextID
        BY <1>21
      <4> QED
        BY <1>3, <1>7, <1>19, <4>1, <4>2
    <3> QED
      BY <1>18, <2>2, <3>1, <3>2
  <2> QED
    BY <2>1, <2>2 DEF Noted
<1>24. Descent'
  <2>1. ASSUME NEW m \in Waiting PROVE Descends(m)'
    <3>1. Descends(m) /\ ids'[m] = ids[m] /\ Life(m)' = Life(m)
      BY <1>1, <1>20, <2>1 DEF Descent
    <3> QED
      BY <1>18, <3>1, DescentKept
  <2>2. Descends(n)'
    <3>1. PICK i \in DOMAIN log' : i = Len(log) + 1
      BY <1>18
    <3>2. /\ log'[i].what = "queue" /\ log'[i].child = ids'[n]
          /\ Life(n)' = Append(log'[i].life, log'[i].ran)
      BY <1>5, <1>8, <1>15, <1>18, <1>20, <3>1
    <3> QED
      BY <3>2 DEF Descends
  <2> QED
    BY <1>1, <1>19, <2>1, <2>2 DEF Descent
<1>25. Counting'
  <2>1. \A m \in Waiting : Known(counts', m, 0) = regs'[m].ran
    BY <1>1, <1>2, <1>3, <1>8 DEF Counting
  <2>2. Known(counts', n, 0) = regs'[n].ran
    BY <1>2, <1>5, <1>8
  <2>3. Known(counts', cur, 0) = regs'[cur].ran
    BY <1>2, <1>3, <1>5, <1>8
  <2> QED
    BY <1>1, <1>19, <2>1, <2>2, <2>3 DEF Counting
<1> QED
  BY <1>17, <1>22, <1>23, <1>24, <1>25 DEF Names

\* Steps of the first call keep the names; later calls, and a first call of Run(), are not spoken of.
LEMMA NamesStep == RunInv /\ OwnedInv /\ NamesInv /\ [Next]_vars => NamesInv'
<1> SUFFICES ASSUME RunInv, OwnedInv, NamesInv, [Next]_vars PROVE NamesInv'
  OBVIOUS
<1>1. /\ TypeInv /\ TypeInv' /\ Control /\ Control' /\ OwnedInv' /\ RunInv'
      /\ calls \in Nat /\ calls' \in Nat
  BY ApartStep, OwnedStep, RunStep DEF RunInv, ApartInv, TypeInv
<1>2. CASE UNCHANGED vars
  <2>1. NamesInv' = NamesInv
    BY <1>2 DEF vars, NamesInv, Tracing, Outside, Names, Numbers, Numbered, Noted, Descent, Descends, Counting,
                Named, CountsRan, Earlier, Life, Waiting
  <2> QED
    BY <2>1
<1>3. CASE calls' = 1 /\ log' = <<>> /\ ~Tracing'
  <2>1. Named' /\ CountsRan'
    BY <1>3 DEF Named, CountsRan
  <2> QED
    BY <1>3, <2>1 DEF NamesInv
<1>4. CASE calls' \notin {0, 1}
  <2>1. Named' /\ CountsRan' /\ ~Tracing'
    BY <1>4 DEF Named, CountsRan, Tracing
  <2> QED
    BY <1>4, <2>1 DEF NamesInv
<1>5. CASE calls = 0 /\ (CallTrace \/ CallRun)
  <2>1. /\ calls' = 1 /\ UNCHANGED <<queue, regs, tracers>> /\ cur' = Root /\ queue = <<>>
        /\ Life(cur) = <<>> /\ regs[cur].ran = 0 /\ Untold
    BY <1>1, <1>5 DEF CallTrace, CallRun, NamesInv, OwnedInv
  <2>2. ~recycled /\ cur = Root
    BY <1>1, <1>5 DEF Control, RunInv, ApartInv, TypeInv, Held, Outside
  <2>3. log' = <<>> /\ DOMAIN ids' = {} /\ DOMAIN counts' = {}
    BY <2>1 DEF Untold, tracers
  <2>4. CASE CallRun
    <3>1. mode' = "run"
      BY <2>4 DEF CallRun
    <3> QED
      BY <1>3, <2>1, <2>3, <3>1 DEF Tracing
  <2>5. CASE CallTrace
    <3>1. pc' = "begin" /\ traced' = [traced EXCEPT ![Root] = Root] /\ cur' = cur
      BY <2>2, <2>5 DEF CallTrace, FixTracer
    <3>2. Waiting' = {} /\ Numbered' = {}
      BY <2>1, <2>3, EmptySeq DEF Waiting, Range, Numbered
    <3>3. traced'[Root] = Root
      BY <1>1, <3>1, TraceAssumption DEF TypeInv
    <3>4. Life(cur)' = <<>> /\ regs'[cur'].ran = 0
      BY <2>1, <3>1 DEF Life
    <3>5. Numbers'
      BY <2>1, <2>3, <3>1, <3>2, <3>3, <3>4 DEF Numbers
    <3>6. Noted'
      <4>1. DOMAIN log' = {}
        <5>1. DOMAIN log' = 1 .. Len(log')
          BY <1>1, LenProperties DEF TypeInv
        <5> QED
          BY <2>3, <5>1
      <4> QED
        BY <3>2, <4>1 DEF Noted
    <3>7. Descent'
      BY <3>2, <3>4 DEF Descent
    <3>8. Counting'
      BY <2>3, <3>1, <3>2, <3>4 DEF Counting, Known
    <3>9. Named' /\ CountsRan'
      BY <2>3 DEF Named, CountsRan
    <3> QED
      BY <2>1, <3>5, <3>6, <3>7, <3>8, <3>9 DEF NamesInv, Names
  <2> QED
    BY <1>5, <2>4, <2>5
<1>6. CASE Tracing /\ ~(CallTrace \/ CallRun)
  <2>1. ~recycled
    BY <1>1, <1>6 DEF Tracing, Control, TypeInv
  <2>2. Held /\ Apart /\ LivesInv /\ AcceptedInv /\ Names /\ Named /\ CountsRan
    BY <1>6, <2>1 DEF RunInv, ApartInv, NamesInv
  <2>3. calls = 1 /\ mode = "trace" /\ ~Outside
    BY <1>6 DEF Tracing
  <2>4. ASSUME calls' = 1, Names' /\ Named' /\ CountsRan' PROVE NamesInv'
    BY <2>4 DEF NamesInv
  <2>5. CASE Begin
    <3>1. calls' = 1
      BY <2>3, <2>5 DEF Begin, runVars
    <3> QED
      BY <1>1, <1>6, <2>2, <2>4, <2>5, <3>1, NamesBegin
  <2>6. CASE Before
    <3>1. calls' = 1
      BY <2>3, <2>6 DEF Before, runVars
    <3> QED
      BY <1>1, <1>6, <2>2, <2>4, <2>6, <3>1, NamesBefore
  <2>7. CASE Ended
    <3>1. /\ pc = "loop" /\ pc' = "end" /\ calls' = 1
          /\ UNCHANGED <<cur, queue, traced, ids, nextID, log, counts, born, regs>>
      BY <2>3, <2>7 DEF Ended, runVars, tracers
    <3>2. Names'
      BY <1>1, <2>2, <3>1, NamesUntold
    <3> QED
      BY <2>2, <2>3, <2>4, <3>1, <3>2, NamedUntold
  <2>8. CASE Step
    <3>1. /\ Stepping /\ regs[cur].err = "nil" /\ UNCHANGED <<mode, calls, cur, read, answer, accepted, recycled>>
          /\ (\E h : Alone(h)) \/ (\E g, h, c, n : Copying(g, h, c, n))
      BY <1>1, <2>8, StepCases
    <3>2. CASE \E h : Alone(h)
      <4>1. PICK h : Alone(h)
        BY <3>2
      <4> QED
        BY <1>1, <1>6, <2>2, <2>3, <2>4, <3>1, <4>1, NamesAlone
    <3>3. CASE \E g, h, c, n : Copying(g, h, c, n)
      <4>1. PICK g, h, c, n : Copying(g, h, c, n)
        BY <3>3
      <4>2. LivesInv'
        BY <1>1, <2>1, <3>1 DEF RunInv
      <4>3. Lives \subseteq born
        BY <2>2 DEF AcceptedInv
      <4>4. c.life \notin born
        <5>1. Life(cur) \in Seq(Nat) /\ regs[cur].ran \in Nat
          BY <1>1, LifeType DEF TypeInv
        <5>2. PICK k : k = regs[cur].ran + 1
          OBVIOUS
        <5>3. c.life = Append(Life(cur), k)
          BY <4>1, <5>2 DEF Copying
        <5>4. Append(Life(cur), k) \in born => k <= regs[cur].ran
          BY <2>2, <5>1, <5>2 DEF LivesInv
        <5> QED
          BY <5>1, <5>2, <5>3, <5>4
      <4>5. Names' /\ Named' /\ CountsRan'
        BY <1>1, <1>6, <2>2, <3>1, <4>1, <4>2, <4>3, <4>4, NamesCopied
      <4> QED
        BY <2>3, <2>4, <3>1, <4>5
    <3> QED
      BY <3>1, <3>2, <3>3
  <2>9. CASE After \/ End
    <3>1. calls' = 1
      BY <2>3, <2>9 DEF After, End, runVars
    <3> QED
      BY <1>1, <1>6, <2>2, <2>4, <2>9, <3>1, NamesAfter
  <2>10. CASE Handle
    <3>1. calls' = 1
      BY <2>3, <2>10 DEF Handle
    <3> QED
      BY <1>1, <1>6, <2>2, <2>4, <2>10, <3>1, NamesHandle
  <2>11. CASE Resume
    <3>1. calls' = 1
      BY <2>3, <2>11 DEF Resume
    <3> QED
      BY <1>1, <1>6, <2>2, <2>4, <2>11, <3>1, NamesResume
  <2>12. CASE Return
    <3>1. calls' = 1 /\ log' = log /\ ~Tracing'
      BY <2>3, <2>12 DEF Return, tracers, Tracing, Outside
    <3>2. Named' /\ CountsRan'
      BY <2>2, <2>3, <3>1, NamedUntold
    <3> QED
      BY <3>1, <3>2 DEF NamesInv
  <2> QED
    BY <1>2, <1>6, <2>5, <2>6, <2>7, <2>8, <2>9, <2>10, <2>11, <2>12 DEF Next
<1>7. CASE calls = 1 /\ ~Tracing /\ ~(CallTrace \/ CallRun) /\ ~UNCHANGED vars
  <2>1. pc \notin {"call", "done"}
    <3>1. pc # "call" /\ pc # "done"
      <4>1. Step => Stepping
        BY DEF Step
      <4> QED
        BY <1>7, <4>1 DEF Next, Begin, Before, Ended, Stepping, After, End, Handle, Resume, Return
    <3> QED
      BY <3>1
  <2>2. mode = "run"
    BY <1>1, <1>7, <2>1 DEF Tracing, Outside, TypeInv
  <2>3. mode' = "run" /\ calls' = 1
    <3>1. Step => UNCHANGED <<mode, calls>>
      BY <1>1, StepCases
    <3> QED
      BY <1>7, <2>2, <3>1 DEF Next, Begin, Before, Ended, After, End, Handle, Resume, Return, runVars
  <2>4. log' = <<>>
    BY <1>1, <2>3 DEF OwnedInv, Untold
  <2> QED
    BY <1>3, <2>3, <2>4 DEF Tracing
<1>8. CASE calls > 0 /\ (CallTrace \/ CallRun)
  <2>1. calls' = calls + 1
    BY <1>8 DEF CallTrace, CallRun
  <2> QED
    BY <1>1, <1>4, <1>8, <2>1
<1>9. CASE calls = 0 /\ ~(CallTrace \/ CallRun)
  <2>1. pc = "call"
    BY <1>1, <1>9 DEF Control
  <2>2. UNCHANGED vars
    BY <1>9, <2>1 DEF Next, Begin, Before, Ended, Step, Stepping, After, End, Handle, Resume, Return
  <2> QED
    BY <1>2, <2>2
<1>10. CASE calls > 1 /\ ~(CallTrace \/ CallRun)
  <2>1. calls' = calls
    <3>1. Step => calls' = calls
      BY <1>1, StepCases
    <3> QED
      BY <1>10, <3>1 DEF Next, Begin, Before, Ended, After, End, Handle, Resume, Return, runVars, vars
  <2> QED
    BY <1>1, <1>4, <1>10, <2>1
<1> QED
  BY <1>1, <1>2, <1>5, <1>6, <1>7, <1>8, <1>9, <1>10

\* What the first call meets: nothing was told.
LEMMA NamesInit == Init => OwnedInv /\ NamesInv
<1> SUFFICES ASSUME Init PROVE OwnedInv /\ NamesInv
  OBVIOUS
<1>1. OwnedInv
  BY DEF Init, OwnedInv, Untold, EntriesOwned
<1>2. Life(cur) = <<>> /\ regs[cur].ran = 0
  BY TraceAssumption DEF Init, Loaded, Life
<1> QED
  BY <1>1, <1>2 DEF Init, NamesInv, Tracing, Outside, Named, CountsRan

\* The invariant of the tracers.
LEMMA NamesAlways == Spec => [](RunInv /\ OwnedInv /\ NamesInv)
<1>1. Init => RunInv /\ OwnedInv /\ NamesInv
  BY RunInit, NamesInit
<1>2. RunInv /\ OwnedInv /\ NamesInv /\ [Next]_vars => RunInv' /\ OwnedInv' /\ NamesInv'
  BY RunStep, OwnedStep, NamesStep DEF RunInv
<1> QED
  BY <1>1, <1>2, PTL DEF Spec

\* idTracer's numbers are names, although structs are reused: in the first call of Trace() no
\* number is told of two machines and no machine is told of by two, and by its number a machine's
\* parent, and the operation that made it, are found in the log.
THEOREM NumbersName == Spec => []Named
<1>1. NamesInv => Named
  BY DEF NamesInv
<1> QED
  BY <1>1, NamesAlways, PTL

\* countTracer's counts are right at every call of the log tracer in the first call of Trace():
\* the operations that the machine and its ancestors executed, and before one is executed that one too.
THEOREM CountsAreRan == Spec => []CountsRan
<1>1. NamesInv => CountsRan
  BY DEF NamesInv
<1> QED
  BY <1>1, NamesAlways, PTL

-----------------------------------------------------------------------------
(* A run under a tracer is a run *)

\* What RunLoop's variables stand for.
LoopPending == [k \in DOMAIN queue |-> Seen(queue[k])]
LoopDone == pc \in {"call", "done"} /\ calls > 0

\* RunLoop's operators are Program's.
LEMMA SamePrograms ==
  ASSUME NEW g, NEW o, NEW c, NEW ip, NEW mem
  PROVE  /\ Loop!OverLimit(g) = OverLimit(g) /\ Loop!Counted(g) = Counted(g)
         /\ Loop!Stepped(g, c) = Stepped(g, c) /\ Loop!Effect(g, o) = Effect(g, o)
         /\ Loop!Closed(g) = Closed(g) /\ Loop!Forked(g, o) = Forked(g, o)
         /\ Loop!Remembered(c, ip, o) = Remembered(c, ip, o)
         /\ Loop!Loaded(mem) = Loaded(mem) /\ Loop!NoneCached(mem) = NoneCached(mem)
         /\ Loop!Bad = Bad
BY DEF Loop!OverLimit, OverLimit, Loop!Counted, Counted, Loop!Stepped, Stepped, Loop!CachedOp, CachedOp,
       Loop!OpAt, OpAt, Loop!NotCached, NotCached, Loop!Crash, Crash, Loop!Bad, Bad, Loop!Effect, Effect,
       Loop!Closed, Closed, Loop!Forked, Forked, Loop!Remembered, Remembered, Loop!Loaded, Loaded,
       Loop!NoneCached, NoneCached

\* What is left to see of a machine.
LEMMA ClosedLaws ==
  ASSUME NEW g \in Machine
  PROVE  /\ Closed(g).err = g.err /\ (g.err = "nil" => Closed(g) = g)
         /\ \A e \in Errs : e # "nil" =>
              /\ Closed([Counted(g) EXCEPT !.err = e]) = Closed([g EXCEPT !.err = e])
<1>1. PICK ip \in Nat, mem \in Memories, count \in Nat, err \in Errs, life \in Seq(Nat), ran \in Nat :
        g = [ip |-> ip, mem |-> mem, count |-> count, err |-> err, life |-> life, ran |-> ran]
  BY DEF Machine
<1> DEFINE Is(c, e, r) == [ip |-> ip, mem |-> mem, count |-> c, err |-> e, life |-> life, ran |-> r]
<1>2. ASSUME NEW c, NEW e, NEW r PROVE [Is(c, e, r) EXCEPT !.count = 0, !.ran = 0] = Is(0, e, 0)
  <2>1. PICK f : f = [Is(c, e, r) EXCEPT !.count = 0]
    OBVIOUS
  <2>2. f = Is(0, e, r)
    BY <2>1
  <2>3. [f EXCEPT !.ran = 0] = Is(0, e, 0)
    BY <2>2
  <2> HIDE DEF Is
  <2> QED
    BY <2>1, <2>3, Zenon
<1>3. Counted(g) = Is(IF Limit = 0 THEN count ELSE count + 1, err, ran + 1)
  <2>1. ASSUME NEW a, NEW b PROVE [g EXCEPT !.count = a, !.ran = b] = Is(a, err, b)
    <3>1. PICK f : f = [g EXCEPT !.count = a]
      OBVIOUS
    <3>2. f = Is(a, err, ran)
      BY <1>1, <3>1
    <3>3. [f EXCEPT !.ran = b] = Is(a, err, b)
      BY <3>2
    <3> QED
      BY <3>1, <3>3, Zenon
  <2>2. g.count = count /\ g.ran = ran
    BY <1>1
  <2> HIDE DEF Is
  <2> QED
    BY <2>1, <2>2 DEF Counted
<1>4. PICK c, r : Counted(g) = Is(c, err, r)
  BY <1>3
<1>5. \A e : [g EXCEPT !.err = e] = Is(count, e, ran) /\ [Counted(g) EXCEPT !.err = e] = Is(c, e, r)
  BY <1>1, <1>4
<1>6. \A a, e, b : Is(a, e, b).err = e
  OBVIOUS
<1>7. g = Is(count, err, ran) /\ g.err = err
  BY <1>1
<1> HIDE DEF Is
<1>8. ASSUME NEW a, NEW e, NEW b, e # "nil" PROVE Closed(Is(a, e, b)) = Is(0, e, 0)
  <2>1. PICK x : x = Is(a, e, b)
    OBVIOUS
  <2>2. x.err # "nil"
    BY <1>6, <1>8, <2>1
  <2>3. [x EXCEPT !.count = 0, !.ran = 0] = Is(0, e, 0)
    BY <1>2, <2>1, Zenon
  <2>4. Closed(x) = Is(0, e, 0)
    BY <2>2, <2>3 DEF Closed
  <2> QED
    BY <2>1, <2>4
<1>9. Closed(g).err = g.err /\ (g.err = "nil" => Closed(g) = g)
  <2>1. CASE err = "nil"
    BY <1>7, <2>1 DEF Closed
  <2>2. CASE err # "nil"
    <3>1. Closed(g) = Is(0, err, 0)
      BY <1>7, <1>8, <2>2
    <3> QED
      BY <1>6, <1>7, <2>2, <3>1
  <2> QED
    BY <2>1, <2>2
<1>10. \A e \in Errs : e # "nil" => Closed([Counted(g) EXCEPT !.err = e]) = Closed([g EXCEPT !.err = e])
  <2> SUFFICES ASSUME NEW e \in Errs, e # "nil"
               PROVE  Closed([Counted(g) EXCEPT !.err = e]) = Closed([g EXCEPT !.err = e])
    OBVIOUS
  <2>1. Closed([g EXCEPT !.err = e]) = Closed(Is(count, e, ran))
    BY <1>5, Zenon
  <2>2. Closed([Counted(g) EXCEPT !.err = e]) = Closed(Is(c, e, r))
    BY <1>5, Zenon
  <2> QED
    BY <1>8, <2>1, <2>2
<1> QED
  BY <1>9, <1>10

\* Machines that wait look the same after a step that does not write them.
LEMMA PendingKept ==
  ASSUME TypeInv, queue' = queue, \A m \in Waiting : regs'[m] = regs[m]
  PROVE  LoopPending' = LoopPending
<1>1. \A k \in DOMAIN queue : queue[k] \in Waiting
  BY DEF Waiting, Range
<1>2. ASSUME NEW k \in DOMAIN queue PROVE Seen(queue[k])' = Seen(queue[k])
  <2>1. PICK m \in Waiting : m = queue[k] /\ m = queue'[k]
    BY <1>1
  <2>2. Seen(m)' = Seen(m)
    BY DEF Seen
  <2>3. Seen(queue[k])' = Seen(m)'
    BY <2>1 DEF Seen
  <2> QED
    BY <2>1, <2>2, <2>3
<1> QED
  BY <1>2 DEF LoopPending

\* The LIFO of what is seen is as long as the queue.
LEMMA PendingLength ==
  ASSUME TypeInv
  PROVE  /\ Len(queue) \in Nat /\ DOMAIN queue = 1 .. Len(queue)
         /\ LoopPending \in Seq({Seen(m) : m \in Mach}) /\ Len(LoopPending) = Len(queue)
         /\ \A k \in 1 .. Len(queue) : LoopPending[k] = Seen(queue[k]) /\ queue[k] \in Mach
         /\ LoopPending = <<>> <=> queue = <<>>
<1>1. queue \in Seq(Mach)
  BY DEF TypeInv
<1>2. Len(queue) \in Nat /\ DOMAIN queue = 1 .. Len(queue) /\ \A k \in 1 .. Len(queue) : queue[k] \in Mach
  BY <1>1, LenProperties, ElementOfSeq
<1>3. LoopPending \in [1 .. Len(queue) -> {Seen(m) : m \in Mach}]
  BY <1>2 DEF LoopPending
<1>4. LoopPending \in Seq({Seen(m) : m \in Mach}) /\ Len(LoopPending) = Len(queue)
  BY <1>2, <1>3, SeqDef, LenProperties
<1>5. LoopPending = <<>> <=> queue = <<>>
  BY <1>1, <1>4, EmptySeq
<1> QED
  BY <1>2, <1>4, <1>5 DEF LoopPending

\* A copy that is queued is the last of the LIFO.
LEMMA PendingGrows ==
  ASSUME TypeInv, NEW n \in Mach, queue' = Append(queue, n), \A m \in Waiting : regs'[m] = regs[m]
  PROVE  LoopPending' = Append(LoopPending, Closed(regs'[n]))
<1>1. PICK L : L = Len(queue)
  OBVIOUS
<1>2. PICK e : e = Closed(regs'[n])
  OBVIOUS
<1> DEFINE S == {Seen(m) : m \in Mach} \cup {e}
<1>3. /\ L \in Nat /\ DOMAIN queue = 1 .. L /\ Len(LoopPending) = L
      /\ LoopPending \in Seq({Seen(m) : m \in Mach})
      /\ \A k \in 1 .. L : LoopPending[k] = Seen(queue[k])
  BY <1>1, PendingLength
<1>4. /\ DOMAIN queue' = 1 .. L + 1 /\ queue'[L + 1] = n
      /\ \A k \in 1 .. L : queue'[k] = queue[k] /\ queue[k] \in Waiting
  BY <1>1, <1>3, PutLast DEF TypeInv, Waiting, Range
<1>5. ASSUME NEW k \in 1 .. L PROVE LoopPending'[k] = LoopPending[k]
  <2>1. PICK m \in Waiting : m = queue[k] /\ m = queue'[k]
    BY <1>4
  <2>2. Seen(m)' = Seen(m)
    BY DEF Seen
  <2>3. Seen(queue[k])' = Seen(m)'
    BY <2>1 DEF Seen
  <2>4. k \in DOMAIN queue'
    BY <1>3, <1>4
  <2> QED
    BY <1>3, <2>1, <2>2, <2>3, <2>4 DEF LoopPending
<1>6. LoopPending'[L + 1] = e
  <2>1. PICK k : k = L + 1
    OBVIOUS
  <2>2. Seen(queue[k])' = e
    BY <1>2, <1>4, <2>1 DEF Seen
  <2>3. k \in DOMAIN queue'
    BY <1>3, <1>4, <2>1
  <2> QED
    BY <2>1, <2>2, <2>3 DEF LoopPending
<1>7. PICK p, q : p = LoopPending /\ q = LoopPending'
  OBVIOUS
<1>8. p \in Seq(S) /\ Len(p) = L
  <2>1. p \in Seq({Seen(m) : m \in Mach}) /\ Len(p) = L
    BY <1>3, <1>7
  <2>2. p \in [1 .. L -> {Seen(m) : m \in Mach}]
    BY <2>1, LenProperties
  <2>3. p \in [1 .. L -> S]
    BY <2>2
  <2> QED
    BY <1>3, <2>1, <2>3, SeqDef
<1>9. q = [k \in 1 .. L + 1 |-> q[k]]
  <2>1. q = [k \in DOMAIN queue' |-> Seen(queue[k])']
    BY <1>7 DEF LoopPending
  <2> QED
    BY <1>4, <2>1
<1>10. \A k \in 1 .. L + 1 : q[k] = IF k = L + 1 THEN e ELSE p[k]
  BY <1>3, <1>5, <1>6, <1>7
<1>11. q \in Seq(S) /\ Len(q) = L + 1
  <2>1. \A k \in 1 .. L : p[k] \in S
    BY <1>8, LenProperties
  <2>2. \A k \in 1 .. L + 1 : q[k] \in S
    BY <1>3, <1>10, <2>1
  <2>3. q \in [1 .. L + 1 -> S]
    BY <1>9, <2>2
  <2>4. L + 1 \in Nat
    BY <1>3
  <2> QED
    BY <2>3, <2>4, SeqDef, LenProperties
<1>12. /\ Append(p, e) \in Seq(S) /\ Len(Append(p, e)) = L + 1
       /\ \A k \in 1 .. L : Append(p, e)[k] = p[k]
       /\ Append(p, e)[L + 1] = e
  BY <1>8, AppendProperties
<1>13. \A k \in 1 .. L + 1 : Append(p, e)[k] = q[k]
  <2>1. \A k \in 1 .. L + 1 : k = L + 1 \/ k \in 1 .. L
    BY <1>3
  <2> HIDE DEF S
  <2> QED
    BY ONLY <1>10, <1>12, <2>1
<1>14. q = Append(p, e)
  <2> HIDE DEF S
  <2> QED
    BY <1>11, <1>12, <1>13, SeqEqual
<1> QED
  BY <1>2, <1>7, <1>14

\* What is dequeued is the last of the LIFO.
LEMMA PendingShrinks ==
  ASSUME TypeInv, queue # <<>>, queue' = Front(queue), regs' = regs
  PROVE  /\ LoopPending # <<>> /\ Last(LoopPending) = Seen(Last(queue))
         /\ LoopPending' = Front(LoopPending)
<1> DEFINE S == {Seen(m) : m \in Mach}
<1>1. PICK p, q, L : p = LoopPending /\ q = LoopPending' /\ L = Len(queue)
  OBVIOUS
<1>2. /\ L \in Nat \ {0} /\ DOMAIN queue = 1 .. L /\ p \in Seq(S) /\ Len(p) = L /\ p # <<>>
      /\ \A k \in 1 .. L : p[k] = Seen(queue[k]) /\ queue[k] \in Mach
      /\ queue \in Seq(Mach)
  BY <1>1, PendingLength, TakeLast DEF TypeInv
<1>3. Front(queue) \in Seq(Mach) /\ Len(Front(queue)) = L - 1 /\ Last(queue) = queue[L]
      /\ \A k \in 1 .. L - 1 : Front(queue)[k] = queue[k]
  BY <1>1, <1>2, TakeLast
<1>4. DOMAIN queue' = 1 .. L - 1 /\ \A k \in 1 .. L - 1 : queue'[k] = queue[k]
  <2>1. DOMAIN Front(queue) = 1 .. L - 1
    BY <1>3, LenProperties
  <2> QED
    BY <1>3, <2>1
<1>5. q = [k \in 1 .. L - 1 |-> p[k]]
  <2>1. ASSUME NEW k \in 1 .. L - 1 PROVE Seen(queue[k])' = p[k]
    <3>1. p[k] = Seen(queue[k]) /\ queue'[k] = queue[k]
      BY <1>2, <1>4
    <3> QED
      BY <3>1 DEF Seen
  <2>2. q = [k \in 1 .. L - 1 |-> Seen(queue[k])']
    BY <1>1, <1>4 DEF LoopPending
  <2> QED
    BY <2>1, <2>2
<1>6. Last(p) = p[L] /\ Front(p) \in Seq(S) /\ Len(Front(p)) = L - 1
      /\ \A k \in 1 .. L - 1 : Front(p)[k] = p[k]
  <2> HIDE DEF S
  <2> QED
    BY <1>2, TakeLast
<1>7. q = Front(p)
  <2> HIDE DEF S
  <2>1. Front(p) = [k \in 1 .. L - 1 |-> Front(p)[k]]
    BY <1>6, LenProperties
  <2> QED
    BY <1>5, <1>6, <2>1
<1> QED
  BY <1>1, <1>2, <1>3, <1>6, <1>7

\* A step of a machine under a tracer is a step of the machine.
LEMMA StepIsRun ==
  ASSUME TypeInv, Apart, Step
  PROVE  Loop!Next
<1> DEFINE g == regs[cur]
           o == Stepped(g, cos)
           k == Counted(g)
           h == Effect(k, o)
<1>1. /\ Stepping /\ g.err = "nil" /\ cur' = cur /\ calls' = calls
      /\ g \in Machine /\ cos \in Caches /\ regs \in [Mach -> Machine] /\ cur \in Mach
      /\ Waiting \subseteq Mach /\ pc \notin {"call", "done"}
  BY DEF Step, TypeInv, Stepping, Waiting, Range
<1>2. cur \notin Waiting /\ ~LoopDone /\ ~LoopDone' /\ ~Outside
  <2>1. pc' \notin {"call", "done"}
    <3>1. \E e : Goes(e)
      BY StepCases DEF Alone, Copying
    <3> QED
      BY <3>1 DEF Goes, TypeInv
  <2> QED
    BY <1>1, <2>1 DEF Apart, Me, Outside, LoopDone
<1>3. /\ o \in Operations /\ k \in Machine /\ k.err = "nil" /\ "limit" \in Errs /\ "decode" \in Errs /\ "qfull" \in Errs
  BY <1>1, OperationTypes, MachineUpdates DEF Errs
<1>4. Seen(cur) = g /\ Loop!Steps
  <2>1. Seen(cur) = g
    BY <1>1, ClosedLaws DEF Seen
  <2> QED
    BY <1>1, <1>2, <2>1 DEF Loop!Steps, LoopDone
<1>5. ASSUME NEW x, regs' = [regs EXCEPT ![cur] = x], queue' = queue
      PROVE  Seen(cur)' = Closed(x) /\ LoopPending' = LoopPending
  <2>1. regs'[cur] = x /\ \A m \in Waiting : regs'[m] = regs[m]
    BY <1>1, <1>2, <1>5
  <2>2. LoopPending' = LoopPending
    BY <1>5, <2>1, PendingKept
  <2> QED
    BY <1>1, <2>1, <2>2 DEF Seen
<1>6. CASE OverLimit(g)
  <2>1. /\ regs' = [regs EXCEPT ![cur] = [g EXCEPT !.err = "limit"]] /\ queue' = queue /\ cos' = cos
    BY <1>6 DEF Step, StepFails
  <2>2. Seen(cur)' = Closed([Seen(cur) EXCEPT !.err = "limit"]) /\ LoopPending' = LoopPending
    BY <1>4, <1>5, <2>1
  <2>3. Loop!OverLimit(Seen(cur))
    BY <1>4, <1>6, SamePrograms
  <2>4. Loop!Ends("limit")
    BY <1>2, <2>1, <2>2, SamePrograms DEF Loop!Ends, LoopPending, LoopDone
  <2>5. Loop!Limited
    BY <1>4, <2>3, <2>4 DEF Loop!Limited
  <2> QED
    BY <2>5 DEF Loop!Next
<1>7. CASE ~OverLimit(g) /\ o = Bad
  <2>1. /\ regs' = [regs EXCEPT ![cur] = [k EXCEPT !.err = "decode"]] /\ queue' = queue /\ cos' = cos
    BY <1>7 DEF Step, StepFails
  <2>2. Seen(cur)' = Closed([Seen(cur) EXCEPT !.err = "decode"]) /\ LoopPending' = LoopPending
    <3>1. Seen(cur)' = Closed([k EXCEPT !.err = "decode"]) /\ LoopPending' = LoopPending
      BY <1>5, <2>1
    <3>2. Closed([k EXCEPT !.err = "decode"]) = Closed([g EXCEPT !.err = "decode"])
      BY <1>1, <1>3, ClosedLaws
    <3> QED
      BY <1>4, <3>1, <3>2
  <2>3. ~Loop!OverLimit(Seen(cur)) /\ Loop!Stepped(Seen(cur), cos) = Loop!Bad
    BY <1>4, <1>7, SamePrograms
  <2>4. Loop!Ends("decode")
    BY <1>2, <2>1, <2>2, SamePrograms DEF Loop!Ends, LoopPending, LoopDone
  <2>5. Loop!DecodeFails
    BY <1>4, <2>3, <2>4 DEF Loop!DecodeFails
  <2> QED
    BY <2>5 DEF Loop!Next
<1>8. CASE ~OverLimit(g) /\ o # Bad
  <2>1. /\ cos' = Remembered(cos, g.ip, o)
        /\ IF o.op = "fork" THEN StepForks(h, o)
           ELSE regs' = [regs EXCEPT ![cur] = h] /\ UNCHANGED queue
    BY <1>8 DEF Step
  <2>2. h \in Machine /\ (o.op = "fork" => h.err = "nil")
    BY <1>3, <1>8, EffectType
  <2>3. /\ ~Loop!OverLimit(Seen(cur)) /\ Loop!Stepped(Seen(cur), cos) = o /\ o # Loop!Bad
        /\ Loop!Effect(Loop!Counted(Seen(cur)), o) = h
        /\ cos' = Loop!Remembered(cos, Seen(cur).ip, o)
    BY <1>4, <1>8, <2>1, SamePrograms
  <2>4. ASSUME \/ o.op # "fork" /\ Seen(cur)' = Closed(h) /\ LoopPending' = LoopPending
               \/ /\ o.op = "fork" /\ Len(LoopPending) >= QueueCap
                  /\ Seen(cur)' = Closed([h EXCEPT !.err = "qfull"]) /\ LoopPending' = LoopPending
               \/ /\ o.op = "fork" /\ ~(Len(LoopPending) >= QueueCap)
                  /\ Seen(cur)' = h /\ LoopPending' = Append(LoopPending, Forked(h, o))
        PROVE  Loop!Next
    <3>1. /\ Loop!Closed(h) = Closed(h) /\ Loop!Forked(h, o) = Forked(h, o)
          /\ Loop!Closed([h EXCEPT !.err = "qfull"]) = Closed([h EXCEPT !.err = "qfull"])
      BY SamePrograms
    <3>2. LoopDone' = LoopDone
      BY <1>2 DEF LoopDone
    <3> HIDE DEF h, o, g, k
    <3>3. Loop!Step
      BY <1>4, <2>3, <2>4, <3>1, <3>2 DEF Loop!Step, LoopPending, LoopDone
    <3> QED
      BY <3>3 DEF Loop!Next
  <2>5. CASE o.op # "fork"
    BY <1>5, <2>1, <2>4, <2>5
  <2>6. CASE o.op = "fork"
    <3> DEFINE n == AllocMach
               full == Len(queue) >= QueueCap
               j == IF full THEN [h EXCEPT !.err = "qfull"] ELSE h
               c == Forked(h, o)
    <3>1. /\ InBound /\ regs' = [regs EXCEPT ![cur] = j, ![n] = c]
          /\ IF full THEN queue' = queue ELSE queue' = Append(queue, n)
      BY <2>1, <2>6 DEF StepForks
    <3>2. /\ n \in Mach /\ n # cur /\ n \notin Waiting
      <4>1. /\ n \in Mach
            /\ freeMachs = <<>> => n \in FreshMachs
            /\ freeMachs # <<>> => n = Last(freeMachs)
        BY <3>1, AllocatedType
      <4>2. CASE freeMachs = <<>>
        BY <4>1, <4>2 DEF FreshMachs
      <4>3. CASE freeMachs # <<>>
        <5>1. n \in Range(freeMachs)
          BY <4>1, <4>3, TakeLast DEF TypeInv
        <5> QED
          BY <1>1, <1>2, <4>1, <5>1 DEF Apart, Me
      <4> QED
        BY <4>2, <4>3
    <3>3. /\ regs'[cur] = j /\ regs'[n] = c /\ \A m \in Waiting : regs'[m] = regs[m]
      <4>1. PICK f : f = [regs EXCEPT ![cur] = j]
        OBVIOUS
      <4>2. regs' = [f EXCEPT ![n] = c]
        BY <3>1, <4>1, Zenon
      <4> HIDE DEF n, j, c, g, o, k, h
      <4> QED
        BY <1>1, <1>2, <3>2, <4>1, <4>2
    <3>4. Len(LoopPending) = Len(queue)
      BY PendingLength
    <3>5. c \in Machine /\ c.err = "nil" /\ Closed(c) = c /\ Closed(h) = h
      <4>1. h \in Machine /\ h.err = "nil" /\ o \in Operations
        BY <1>3, <2>2, <2>6
      <4>2. c \in Machine /\ c.err = "nil"
        <5> HIDE DEF h, o
        <5> QED
          BY <4>1, ForkedType
      <4> HIDE DEF c, h
      <4> QED
        BY <4>1, <4>2, ClosedLaws
    <3> HIDE DEF n, c, h, o, k, g
    <3>6. CASE full
      <4>1. queue' = queue /\ j = [h EXCEPT !.err = "qfull"]
        BY <3>1, <3>6
      <4>2. LoopPending' = LoopPending
        BY <3>3, <4>1, PendingKept
      <4>3. Seen(cur)' = Closed([h EXCEPT !.err = "qfull"])
        BY <1>1, <3>3, <4>1 DEF Seen
      <4> QED
        BY <2>4, <2>6, <3>4, <3>6, <4>2, <4>3
    <3>7. CASE ~full
      <4>1. queue' = Append(queue, n) /\ j = h
        BY <3>1, <3>7
      <4>2. LoopPending' = Append(LoopPending, Closed(regs'[n]))
        BY <3>2, <3>3, <4>1, PendingGrows
      <4>3. Seen(cur)' = Closed(h)
        BY <1>1, <3>3, <4>1 DEF Seen
      <4>4. LoopPending' = Append(LoopPending, c) /\ Seen(cur)' = h
        BY <3>3, <3>5, <4>2, <4>3
      <4> QED
        BY <2>4, <2>6, <3>4, <3>7, <4>4 DEF c
    <3> QED
      BY <3>6, <3>7
  <2> QED
    BY <2>5, <2>6
<1> QED
  BY <1>6, <1>7, <1>8

\* A step that only the tracers see.
LEMMA UnseenIsRun ==
  ASSUME TypeInv, regs' = regs, queue' = queue, cos' = cos, regs[cur'] = regs[cur], LoopDone' = LoopDone
  PROVE  UNCHANGED Loop!vars
<1>1. LoopPending' = LoopPending
  BY PendingKept
<1>2. PICK x : x = cur'
  OBVIOUS
<1>3. Seen(cur)' = Seen(cur)
  BY <1>2 DEF Seen
<1> QED
  BY <1>1, <1>3 DEF Loop!vars, LoopPending, LoopDone

\* What the run loop's machine is at each step, traced or not, unless Trace() reads ahead.
LEMMA TracedStepIsRun ==
  ASSUME ApartInv, [Next]_vars, ~recycled', ~ReadsAhead
  PROVE  [Loop!Next]_(Loop!vars)
<1>1. /\ TypeInv /\ ~recycled /\ Control /\ Held /\ Apart
      /\ cur \in Mach /\ Root \in Mach /\ regs \in [Mach -> Machine] /\ calls \in Nat
      /\ Waiting \subseteq Mach
  BY RecycledStays, TraceAssumption DEF ApartInv, TypeInv, Waiting, Range
<1>2. Loop!Next \/ UNCHANGED Loop!vars => [Loop!Next]_(Loop!vars)
  OBVIOUS
<1>3. Closed(regs[cur]).err = regs[cur].err /\ (regs[cur].err = "nil" => Closed(regs[cur]) = regs[cur])
  BY <1>1, ClosedLaws
<1>4. ASSUME regs' = regs, queue' = queue, cos' = cos, cur' = cur, calls' = calls, ~Outside, ~Outside'
      PROVE  UNCHANGED Loop!vars
  <2>1. LoopDone' = LoopDone
    BY <1>4 DEF LoopDone, Outside
  <2> QED
    BY <1>1, <1>4, <2>1, UnseenIsRun
<1>5. CASE CallTrace \/ CallRun
  <2>1. /\ pc = "call" /\ cur' = Root /\ pc' \in {"begin", "loop"}
        /\ regs' = regs /\ queue' = queue /\ cos' = cos
    BY <1>5 DEF CallTrace, CallRun
  <2>2. regs[Root] = regs[cur]
    BY <1>1, <2>1 DEF Held, Outside
  <2>3. ~LoopDone'
    BY <2>1 DEF LoopDone
  <2>4. CASE calls > 0
    <3>1. LoopDone
      BY <2>1, <2>4 DEF LoopDone
    <3>2. LoopPending' = LoopPending /\ Seen(cur)' = Seen(cur)
      <4>1. LoopPending' = LoopPending
        BY <1>1, <2>1, PendingKept
      <4>2. Seen(cur)' = Seen(cur)
        BY <1>1, <2>1, <2>2 DEF Seen
      <4> QED
        BY <4>1, <4>2
    <3>3. Loop!Again
      BY <2>1, <2>3, <3>1, <3>2 DEF Loop!Again, LoopPending, LoopDone
    <3> QED
      BY <3>3 DEF Loop!Next
  <2>5. CASE ~(calls > 0)
    <3>1. LoopDone' = LoopDone
      BY <2>3, <2>5 DEF LoopDone
    <3> QED
      BY <1>1, <2>1, <2>2, <3>1, UnseenIsRun
  <2> QED
    BY <2>4, <2>5
<1>6. CASE Begin
  BY <1>4, <1>6 DEF Begin, runVars, Outside
<1>7. CASE Before
  <2>1. /\ pc = "loop" /\ mode = "trace" /\ regs[cur].err = "nil" /\ pc' \in {"end", "step"}
        /\ cur' = cur /\ queue' = queue /\ cos' = cos /\ calls' = calls
    BY <1>7 DEF Before, runVars
  <2>2. CASE OpAt(regs[cur].mem, regs[cur].ip) # Bad
    <3>1. regs' = regs
      BY <1>7, <2>2 DEF Before
    <3> QED
      BY <1>4, <2>1, <3>1 DEF Outside
  <2>3. CASE OpAt(regs[cur].mem, regs[cur].ip) = Bad
    <3> DEFINE g == regs[cur]
    <3>1. ~OverLimit(g) /\ Stepped(g, cos) = Bad
      BY <2>1, <2>3 DEF ReadsAhead
    <3>2. regs' = [regs EXCEPT ![cur].err = "decode"]
      BY <1>7, <2>3 DEF Before
    <3>3. PICK x : x = [g EXCEPT !.err = "decode"]
      OBVIOUS
    <3>4. regs'[cur] = x /\ \A m \in Mach : m # cur => regs'[m] = regs[m]
      BY <1>1, <3>2, <3>3
    <3>5. cur \notin Waiting
      BY <1>1, <2>1 DEF Apart, Me, Outside
    <3>6. LoopPending' = LoopPending
      BY <1>1, <2>1, <3>4, <3>5, PendingKept
    <3>7. Seen(cur) = g /\ Seen(cur)' = Closed([Seen(cur) EXCEPT !.err = "decode"])
      BY <1>3, <2>1, <3>3, <3>4 DEF Seen
    <3>8. ~LoopDone /\ ~LoopDone' /\ LoopDone' = LoopDone
      BY <2>1 DEF LoopDone
    <3>9. Loop!Steps
      BY <2>1, <3>7, <3>8 DEF Loop!Steps, LoopDone
    <3>10. Loop!Ends("decode")
      BY <2>1, <3>6, <3>7, <3>8, SamePrograms DEF Loop!Ends, LoopPending, LoopDone
    <3>11. ~Loop!OverLimit(Seen(cur)) /\ Loop!Stepped(Seen(cur), cos) = Loop!Bad
      BY <3>1, <3>7, SamePrograms
    <3>12. Loop!DecodeFails
      BY <3>9, <3>10, <3>11 DEF Loop!DecodeFails
    <3> QED
      BY <3>12 DEF Loop!Next
  <2> QED
    BY <2>2, <2>3
<1>8. CASE Ended
  <2>1. pc = "loop" /\ pc' \in {"end", "handle"}
    BY <1>8 DEF Ended
  <2> QED
    BY <1>4, <1>8, <2>1 DEF Ended, runVars, Outside
<1>9. CASE Step
  BY <1>1, <1>9, StepIsRun
<1>10. CASE After
  BY <1>4, <1>10 DEF After, runVars, Outside
<1>11. CASE End
  BY <1>4, <1>11 DEF End, runVars, Outside
<1>12. CASE Handle
  BY <1>4, <1>12 DEF Handle, Outside
<1>13. CASE Resume
  <2>1. /\ pc = "next" /\ queue # <<>> /\ cur' = Last(queue) /\ queue' = Front(queue)
        /\ pc' \in {"begin", "loop"} /\ regs' = regs /\ cos' = cos
    BY <1>13 DEF Resume
  <2>2. Seen(cur).err # "nil"
    BY <1>1, <1>3, <2>1 DEF Held, Seen
  <2>3. /\ LoopPending # <<>> /\ Last(LoopPending) = Seen(Last(queue)) /\ LoopPending' = Front(LoopPending)
    BY <1>1, <2>1, PendingShrinks
  <2>4. Seen(cur)' = Last(LoopPending)
    <3>1. PICK x : x = Last(queue)
      OBVIOUS
    <3>2. Seen(cur)' = Seen(x)
      BY <2>1, <3>1 DEF Seen
    <3> QED
      BY <2>3, <3>1, <3>2
  <2>5. ~LoopDone /\ ~LoopDone' /\ LoopDone' = LoopDone
    BY <2>1 DEF LoopDone
  <2>6. Loop!Resume
    BY <2>1, <2>2, <2>3, <2>4, <2>5 DEF Loop!Resume, LoopPending, LoopDone, Loop!Last, Last, Loop!Front, Front
  <2> QED
    BY <2>6 DEF Loop!Next
<1>14. CASE Return
  <2>1. /\ pc = "next" /\ (~answer \/ queue = <<>>) /\ pc' \in {"call", "done"}
        /\ regs' = [regs EXCEPT ![Root] = regs[cur]]
        /\ queue' = queue /\ cos' = cos /\ cur' = cur /\ calls' = calls
        /\ ~answer => Root \notin Waiting
    <3>1. ~answer => Root \notin Waiting
      BY <1>1, <1>14 DEF Return, TypeInv
    <3> QED
      BY <1>14, <3>1 DEF Return
  <2>2. Root \notin Waiting
    BY <1>1, <2>1, EmptySeq DEF Waiting, Range
  <2>3. LoopPending' = LoopPending
    BY <1>1, <2>1, <2>2, PendingKept
  <2>4. Seen(cur)' = Seen(cur) /\ Seen(cur).err # "nil"
    BY <1>1, <1>3, <2>1 DEF Held, Seen
  <2>5. ~LoopDone /\ LoopDone'
    BY <1>1, <2>1 DEF LoopDone, Control
  <2>6. LoopDone' = TRUE
    BY <2>5 DEF LoopDone
  <2>7. Loop!Return
    BY <2>1, <2>3, <2>4, <2>5, <2>6 DEF Loop!Return, LoopPending, LoopDone
  <2> QED
    BY <2>7 DEF Loop!Next
<1>15. CASE UNCHANGED vars
  <2>1. LoopDone' = LoopDone
    BY <1>15 DEF vars, LoopDone
  <2> QED
    BY <1>1, <1>15, <2>1, UnseenIsRun DEF vars
<1> QED
  BY <1>5, <1>6, <1>7, <1>8, <1>9, <1>10, <1>11, <1>12, <1>13, <1>14, <1>15 DEF Next

\* The machine that is called on is loaded, and nothing waits.
LEMMA TracedInitIsRun == Init => Loop!Init
<1> SUFFICES ASSUME Init PROVE Loop!Init
  OBVIOUS
<1>1. PICK mem \in Progs : regs = [m \in Mach |-> Loaded(mem)] /\ cos = NoneCached(mem)
  BY DEF Init
<1>2. TypeInv /\ pc = "call" /\ calls = 0 /\ cur = Root /\ Root \in Mach /\ queue = <<>>
  BY InitType, TraceAssumption DEF Init
<1>3. Seen(cur) = Loaded(mem)
  <2>1. regs[Root] = Loaded(mem)
    BY <1>1, <1>2
  <2>2. Loaded(mem).err = "nil"
    BY DEF Loaded
  <2> QED
    BY <1>2, <2>1, <2>2 DEF Seen, Closed
<1>4. LoopPending = <<>>
  BY <1>2, PendingLength
<1>5. LoopDone = FALSE
  BY <1>2 DEF LoopDone
<1> QED
  BY <1>1, <1>3, <1>4, <1>5, SamePrograms DEF Loop!Init, LoopPending, LoopDone

\* A run under Trace() is a run, and so are calls that follow a handler's refusal: each step of
\* Trace(), Run(), the tracers and the queue is one of run() on machines that are values, or is
\* none at all, until a copy was made in the caller's struct, and but for an operation that
\* Trace() decodes and step() would not have.
THEOREM TracedIsRun == Spec => TraceIsRun
<1>1. Init => Loop!Init
  BY TracedInitIsRun
<1>2. ApartInv /\ [Next]_vars => [~recycled' /\ ~ReadsAhead => [Loop!Next]_(Loop!vars)]_vars
  BY TracedStepIsRun
<1>3. Spec => []ApartInv
  BY StructsApart
<1> QED
  BY <1>1, <1>2, <1>3, PTL DEF Spec, TraceIsRun
=============================================================================
