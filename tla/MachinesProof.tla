---------------------------- MODULE MachinesProof ----------------------------
(***************************************************************************)
(* Proofs about Machines, for every value of its constants.                *)
(***************************************************************************)
EXTENDS Machines, FiniteSetTheorems, SequenceTheorems, TLAPS

-----------------------------------------------------------------------------
(* Lemmas about the operators the specification is built from. *)

\* What Dequeue() and the allocators take from a list is not in what they leave.
LEMMA TakeLast ==
  ASSUME NEW S, NEW s \in Seq(S), s # <<>>
  PROVE  /\ Front(s) \in Seq(S)
         /\ Len(Front(s)) = Len(s) - 1
         /\ Range(s) = Range(Front(s)) \cup {Last(s)}
         /\ Last(s) \in S
         /\ IsInjective(s) => IsInjective(Front(s)) /\ Last(s) \notin Range(Front(s))
<1>1. Len(s) \in Nat \ {0} /\ DOMAIN s = 1 .. Len(s) /\ \A i \in 1 .. Len(s) : s[i] \in S
  BY EmptySeq, LenProperties, ElementOfSeq
<1>2. /\ Front(s) \in Seq(S)
      /\ Len(Front(s)) = Len(s) - 1
      /\ \A i \in 1 .. Len(s) - 1 : Front(s)[i] = s[i]
  <2>1. /\ SubSeq(s, 1, Len(s) - 1) \in Seq(S)
        /\ Len(SubSeq(s, 1, Len(s) - 1)) =
             IF 1 <= Len(s) - 1 THEN (Len(s) - 1) - 1 + 1 ELSE 0
        /\ \A i \in 1 .. (Len(s) - 1) - 1 + 1 :
             SubSeq(s, 1, Len(s) - 1)[i] = s[1 + i - 1]
    <3>1. \A i \in 1 .. Len(s) - 1 : s[i] \in S
      BY <1>1
    <3> QED
      BY <1>1, <3>1, SubSeqProperties
  <2> QED
    BY <1>1, <2>1 DEF Front
<1>3. DOMAIN Front(s) = 1 .. Len(s) - 1
  BY <1>2, LenProperties
<1>4. Last(s) = s[Len(s)] /\ Last(s) \in S
  BY <1>1 DEF Last
<1>5. Range(s) = Range(Front(s)) \cup {Last(s)}
  BY <1>1, <1>2, <1>3, <1>4 DEF Range
<1>6. ASSUME IsInjective(s)
      PROVE  IsInjective(Front(s)) /\ Last(s) \notin Range(Front(s))
  BY <1>1, <1>2, <1>3, <1>4, <1>6 DEF IsInjective, Range
<1> QED
  BY <1>2, <1>4, <1>5, <1>6

\* A list that gets a machine or page it does not have yet has none twice.
LEMMA PutLast ==
  ASSUME NEW S, NEW s \in Seq(S), NEW e \in S
  PROVE  /\ Append(s, e) \in Seq(S)
         /\ Len(Append(s, e)) = Len(s) + 1
         /\ Range(Append(s, e)) = Range(s) \cup {e}
         /\ IsInjective(s) /\ e \notin Range(s) => IsInjective(Append(s, e))
<1>1. /\ Len(s) \in Nat /\ DOMAIN s = 1 .. Len(s)
      /\ Append(s, e) \in Seq(S)
      /\ Len(Append(s, e)) = Len(s) + 1
      /\ \A i \in 1 .. Len(s) : Append(s, e)[i] = s[i]
      /\ Append(s, e)[Len(s) + 1] = e
  BY LenProperties, AppendProperties
<1>2. DOMAIN Append(s, e) = 1 .. Len(s) + 1
  BY <1>1, LenProperties
<1>3. Range(Append(s, e)) = Range(s) \cup {e}
  BY <1>1, <1>2 DEF Range
<1>4. ASSUME IsInjective(s), e \notin Range(s)
      PROVE  IsInjective(Append(s, e))
  BY <1>1, <1>2, <1>4 DEF IsInjective, Range
<1> QED
  BY <1>1, <1>3, <1>4

\* The additional references a page gets are a natural number.
LEMMA ReferencesNat ==
  ASSUME NEW m, NEW p
  PROVE  References(m, p) \in Nat
<1>1. IsFiniteSet(Idx)
  BY NPagesAssumption, FS_Interval DEF Idx
<1>2. IsFiniteSet({i \in Idx : i < plen[m] /\ slots[m][i] = p})
  BY <1>1, FS_Subset
<1> QED
  BY <1>2, FS_CardinalityType DEF References

-----------------------------------------------------------------------------
(* Type correctness *)

\* The run loop frees a machine exactly while it has the next one in its hands.
NextInHand == /\ phase = "free" => next \in Mach
              /\ phase = "run" => next = NoMach
TypeInv == TypeOK /\ NextInHand

\* An operation that is counted leaves the registers well typed.
LEMMA CountedType ==
  ASSUME TypeInv, Stepping
  PROVE  /\ Counted \in Regs
         /\ Counted.err = "nil" /\ Counted.ip \in Code
         /\ Counted.ctl \in 0 .. CtlCap
<1>1. regs[cur] \in Regs /\ regs[cur].err = "nil"
  BY DEF TypeInv, TypeOK, Stepping
<1>2. Limit # 0 => regs[cur].count < Limit
  BY DEF Stepping, InLimit
<1> QED
  BY <1>1, <1>2, BoundsAssumption DEF Counted, Regs

\* ref() and the write through it keep the memory well typed.
LEMMA WriteType ==
  ASSUME TypeInv, NEW m \in Mach, NEW i \in Idx, NEW o \in Off, NEW v \in Val,
         Write(m, i, o, v)
  PROVE  /\ slots' \in [Mach -> [Idx -> Page \cup {NoPage}]]
         /\ plen' \in [Mach -> 0 .. NPages]
         /\ pcap' \in [Mach -> 0 .. NPages]
         /\ r' \in [Page -> Int]
         /\ d' \in [Page -> [Off -> Val]]
         /\ freePages' \in Seq(Page)
<1> USE DEF TypeInv, TypeOK
<1>1. \A p : AllocPage(p) => p \in Page /\ freePages' \in Seq(Page)
  <2> SUFFICES ASSUME NEW p, AllocPage(p)
               PROVE  p \in Page /\ freePages' \in Seq(Page)
    OBVIOUS
  <2>1. CASE freePages # <<>>
    <3>1. Front(freePages) \in Seq(Page) /\ Last(freePages) \in Page
      BY <2>1, TakeLast
    <3> QED
      BY <2>1, <3>1 DEF AllocPage
  <2>2. CASE freePages = <<>>
    BY <2>2 DEF AllocPage, FreshPages
  <2> QED
    BY <2>1, <2>2
<1>2. Blank \in [Off -> Val]
  BY DataAssumption DEF Blank
<1>3. i \in 0 .. NPages - 1 /\ i + 1 \in 0 .. NPages
  BY NPagesAssumption DEF Idx
<1>4. CASE Create(m, i, o, v)
  <2>1. PICK p \in Page :
          /\ AllocPage(p)
          /\ d' = [d EXCEPT ![p] = [Allocated(p) EXCEPT ![o] = v]]
          /\ r' = [r EXCEPT ![p] = 1]
          /\ slots' = [slots EXCEPT ![m] =
                         IF i < plen[m] THEN [@ EXCEPT ![i] = p]
                         ELSE [j \in Idx |-> IF j = i THEN p
                                             ELSE IF j < plen[m] THEN @[j] ELSE NoPage]]
    BY <1>4 DEF Create
  <2>2. d' \in [Page -> [Off -> Val]] /\ r' \in [Page -> Int]
    BY <2>1, <1>2 DEF Allocated
  <2>3. slots' \in [Mach -> [Idx -> Page \cup {NoPage}]]
    BY <2>1
  <2>4. plen' \in [Mach -> 0 .. NPages] /\ pcap' \in [Mach -> 0 .. NPages]
    BY <1>3, <1>4 DEF Create
  <2> QED
    BY <1>1, <2>1, <2>2, <2>3, <2>4
<1>5. CASE CopyOnWrite(m, i, o, v)
  <2>1. slots[m][i] \in Page
    BY <1>5 DEF CopyOnWrite
  <2> QED
    BY <1>1, <1>5, <2>1 DEF CopyOnWrite
<1>6. CASE WriteInPlace(m, i, o, v)
  <2>1. slots[m][i] \in Page
    BY <1>6 DEF WriteInPlace
  <2> QED
    BY <1>6, <2>1 DEF WriteInPlace
<1> QED
  BY <1>4, <1>5, <1>6 DEF Write

\* copy() keeps the memory and the allocators well typed.
LEMMA CopyType ==
  ASSUME TypeInv, NEW m \in Mach, NEW n \in Mach, Copy(m, n)
  PROVE  /\ slots' \in [Mach -> [Idx -> Page \cup {NoPage}]]
         /\ plen' \in [Mach -> 0 .. NPages]
         /\ pcap' \in [Mach -> 0 .. NPages]
         /\ r' \in [Page -> Int]
         /\ UNCHANGED <<d, freePages>>
         /\ freeMachs' \in Seq(Mach)
         /\ copies' \in 0 .. MaxCopies
<1> USE DEF TypeInv, TypeOK
<1>1. freeMachs' \in Seq(Mach)
  BY TakeLast DEF Copy, AllocMach
<1>2. copies' \in 0 .. MaxCopies
  BY BoundsAssumption DEF Copy, AllocMach, CopyAllowed
<1>3. CopiedSlots(m, n) \in [Idx -> Page \cup {NoPage}]
  BY DEF CopiedSlots
<1>4. slots' \in [Mach -> [Idx -> Page \cup {NoPage}]]
  BY <1>3 DEF Copy, CopyPages
<1>5. plen' \in [Mach -> 0 .. NPages] /\ pcap' \in [Mach -> 0 .. NPages]
  BY DEF Copy, CopyPages
<1>6. r' \in [Page -> Int]
  BY ReferencesNat DEF Copy, CopyPages
<1> QED
  BY <1>1, <1>2, <1>4, <1>5, <1>6 DEF Copy, CopyPages

\* What an operation that made the copy n can do with it keeps the registers
\* and the queue well typed.
LEMMA QueueType ==
  ASSUME TypeInv, NEW n \in Mach, NEW orig \in Regs, NEW child \in Regs,
         NEW e \in Errors,
         Enqueue(n, orig, child) \/ Drop(n, orig, e, child)
  PROVE  /\ regs' \in [Mach -> Regs]
         /\ queue' \in Seq(Mach) /\ Len(queue') <= QueueCap
         /\ lost' \subseteq Mach
<1> USE DEF TypeInv, TypeOK
<1>1. CASE Enqueue(n, orig, child)
  <2>1. Append(queue, n) \in Seq(Mach) /\ Len(Append(queue, n)) = Len(queue) + 1
    BY PutLast
  <2>2. Len(queue) \in Nat
    BY LenProperties
  <2>3. ~(Len(queue) >= QueueCap) /\ queue' = Append(queue, n)
    BY <1>1 DEF Enqueue, QueueFull
  <2>4. queue' \in Seq(Mach) /\ Len(queue') <= QueueCap
    BY <2>1, <2>2, <2>3, BoundsAssumption
  <2>5. regs' \in [Mach -> Regs]
    BY <1>1 DEF Enqueue
  <2> QED
    BY <1>1, <2>4, <2>5 DEF Enqueue
<1>2. CASE Drop(n, orig, e, child)
  <2>1. [orig EXCEPT !.err = e] \in Regs
    BY DEF Regs
  <2>2. regs' \in [Mach -> Regs]
    BY <1>2, <2>1 DEF Drop
  <2> QED
    BY <1>2, <2>2 DEF Drop
<1> QED
  BY <1>1, <1>2

\* The registers operations compute from the counted ones.
LEMMA ComputedRegs ==
  ASSUME TypeInv, Stepping
  PROVE  /\ \A t \in Code : [Counted EXCEPT !.ip = t] \in Regs
         /\ \A t \in Target : JumpTo(Counted, t) \in Regs
         /\ Counted.ctl > 0 => /\ Popped(Counted) \in Regs
                               /\ [Popped(Counted) EXCEPT !.err = "crash"] \in Regs
                               /\ \A t \in Target : JumpTo(Popped(Counted), t) \in Regs
         /\ Counted.ctl < CtlCap => [Counted EXCEPT !.ctl = @ + 1] \in Regs
         /\ Counted.ctl < CtlCap =>
              \A t \in Code : [Counted EXCEPT !.ctl = @ + 1, !.ip = t] \in Regs
         /\ \A e \in Errors : [Counted EXCEPT !.err = e] \in Regs
<1>1. Counted \in Regs /\ Counted.ctl \in 0 .. CtlCap
  BY CountedType
<1>2. \A g \in Regs, t \in Target : JumpTo(g, t) \in Regs
  BY DEF JumpTo, Target, Regs, Errors
<1>3. Counted.ctl > 0 => Popped(Counted) \in Regs
  BY <1>1, BoundsAssumption DEF Popped, Regs
<1>4. Counted.ctl < CtlCap =>
        \A t \in Code : [Counted EXCEPT !.ctl = @ + 1, !.ip = t] \in Regs
  <2> SUFFICES ASSUME Counted.ctl < CtlCap, NEW t \in Code
               PROVE  [Counted EXCEPT !.ctl = @ + 1, !.ip = t] \in Regs
    OBVIOUS
  <2>1. Counted.ctl + 1 \in 0 .. CtlCap
    BY <1>1, BoundsAssumption
  <2>2. \A g \in Regs, c \in 0 .. CtlCap : [g EXCEPT !.ctl = c, !.ip = t] \in Regs
    BY DEF Regs
  <2> QED
    BY <1>1, <2>1, <2>2
<1>5. /\ \A t \in Code : [Counted EXCEPT !.ip = t] \in Regs
      /\ \A e \in Errors : [Counted EXCEPT !.err = e] \in Regs
  BY <1>1 DEF Regs
<1>6. Counted.ctl < CtlCap => [Counted EXCEPT !.ctl = @ + 1] \in Regs
  BY <1>1, BoundsAssumption DEF Regs
<1>7. \A g \in Regs : [g EXCEPT !.err = "crash"] \in Regs
  BY DEF Regs, Errors
<1> QED
  BY <1>1, <1>2, <1>3, <1>4, <1>5, <1>6, <1>7

\* The initial states are well typed.
LEMMA InitType == Init => TypeInv
<1> SUFFICES ASSUME Init PROVE TypeInv
  OBVIOUS
<1>1. /\ phase = "run" /\ cur \in Mach /\ next = NoMach /\ fi = 0
      /\ queue = <<>> /\ freeMachs = <<>> /\ freePages = <<>>
      /\ copies = 0 /\ lost = {}
  BY RootAssumption DEF Init
<1>2. queue \in Seq(Mach) /\ freeMachs \in Seq(Mach) /\ freePages \in Seq(Page) /\ Len(queue) = 0
  BY <1>1
<1>3. regs \in [Mach -> Regs]
  BY BoundsAssumption DEF Init, Regs, Errors
<1>4. /\ slots \in [Mach -> [Idx -> Page \cup {NoPage}]]
      /\ plen \in [Mach -> 0 .. NPages] /\ pcap \in [Mach -> 0 .. NPages]
      /\ r \in [Page -> Int] /\ d \in [Page -> [Off -> Val]]
  <2>1. PICK loaded \in [Idx -> Page \cup {NoPage}], last \in Idx :
          /\ slots = [m \in Mach |-> IF m = Root THEN loaded ELSE [i \in Idx |-> NoPage]]
          /\ plen = [m \in Mach |-> IF m = Root THEN last + 1 ELSE 0]
          /\ pcap = plen
          /\ r = [p \in Page |-> IF p \in Range(loaded) THEN 1 ELSE 0]
          /\ d \in [Page -> [Off -> Val]]
    BY DEF Init
  <2>2. last + 1 \in 0 .. NPages /\ 0 \in 0 .. NPages
    BY NPagesAssumption DEF Idx
  <2>3. slots \in [Mach -> [Idx -> Page \cup {NoPage}]]
    BY <2>1
  <2>4. plen \in [Mach -> 0 .. NPages] /\ r \in [Page -> Int]
    BY <2>1, <2>2
  <2> QED
    BY <2>1, <2>3, <2>4
<1> QED
  BY <1>1, <1>2, <1>3, <1>4, BoundsAssumption, NPagesAssumption
  DEF TypeInv, TypeOK, NextInHand

\* What fork(), branch(), cfork() and cbranch() can do: fail before they copied,
\* or copy the running machine and queue or drop the copy.
LEMMA CopyingCases ==
  ASSUME TypeInv, Fork \/ Branch \/ CFork \/ CBranch
  PROVE  \/ \E e \in Errors : Fails(e) /\ UNCHANGED <<machVars, memVars>>
         \/ \E n \in Mach, orig \in Regs, child \in Regs, e \in Errors :
              Copy(cur, n) /\ (Enqueue(n, orig, child) \/ Drop(n, orig, e, child))
<1>1. Stepping
  BY DEF Fork, Branch, CFork, CBranch
<1>2. /\ Counted \in Regs /\ Counted.ctl \in 0 .. CtlCap
      /\ \A t \in Code : [Counted EXCEPT !.ip = t] \in Regs
      /\ Counted.ctl > 0 => /\ Popped(Counted) \in Regs
                            /\ \A t \in Target : JumpTo(Popped(Counted), t) \in Regs
  BY <1>1, CountedType, ComputedRegs
<1>3. "segv" \in Errors /\ "copies" \in Errors /\ "under" \in Errors /\ "qfull" \in Errors
  BY DEF Errors
<1>4. Code \subseteq Target
  BY DEF Target
<1>5. SegFault \/ CopyRefused => \E e \in Errors : Fails(e) /\ UNCHANGED <<machVars, memVars>>
  BY <1>3 DEF SegFault, CopyRefused
<1>6. CASE Fork
  BY <1>2, <1>3, <1>5, <1>6 DEF Fork, EnqueueOrDrop, ForkChild
<1>7. CASE Branch
  BY <1>2, <1>3, <1>5, <1>7 DEF Branch, EnqueueOrDrop, BranchChild
<1>8. CASE CFork
  BY <1>2, <1>3, <1>4, <1>5, <1>8 DEF CFork, EnqueueOrDrop, CForkChild
<1>9. CASE CBranch
  BY <1>2, <1>3, <1>5, <1>9 DEF CBranch, CBranchChild
<1> QED
  BY <1>6, <1>7, <1>8, <1>9

\* Every step keeps the state well typed.
LEMMA StepType == TypeInv /\ [Next]_vars => TypeInv'
<1> SUFFICES ASSUME TypeInv, [Next]_vars PROVE TypeInv'
  OBVIOUS
<1> USE DEF TypeInv, TypeOK, NextInHand
<1>1. CASE LimitHit
  <2>1. [regs[cur] EXCEPT !.err = "limit"] \in Regs
    BY DEF Regs, Errors
  <2> QED
    BY <1>1, <2>1 DEF LimitHit, Runs, loopVars, machVars, memVars
<1>2. CASE Stop
  <2>1. \A e \in Errors : [Counted EXCEPT !.err = e] \in Regs
    BY <1>2, ComputedRegs DEF Stop
  <2>2. \A e \in {"halt", "crash"} : e \in Errors
    BY DEF Errors
  <2>3. regs' \in [Mach -> Regs]
    BY <1>2, <2>1, <2>2 DEF Stop, Fails, Runs
  <2> QED
    BY <1>2, <2>3 DEF Stop, loopVars, machVars, memVars
<1>3. CASE Store
  <2>1. regs' \in [Mach -> Regs]
    BY <1>3, CountedType, ComputedRegs DEF Store, Runs, Fails, Errors
  <2>2. PICK i \in Idx, o \in Off, v \in Val : Write(cur, i, o, v)
    BY <1>3 DEF Store
  <2>3. /\ slots' \in [Mach -> [Idx -> Page \cup {NoPage}]]
        /\ plen' \in [Mach -> 0 .. NPages] /\ pcap' \in [Mach -> 0 .. NPages]
        /\ r' \in [Page -> Int] /\ d' \in [Page -> [Off -> Val]]
        /\ freePages' \in Seq(Page)
    BY <2>2, WriteType
  <2> QED
    BY <1>3, <2>1, <2>3 DEF Store, loopVars, machVars
<1>4. CASE Jump
  <2>1. regs' \in [Mach -> Regs]
    <3>1. /\ \A t \in Code : [Counted EXCEPT !.ip = t] \in Regs
          /\ [Counted EXCEPT !.err = "segv"] \in Regs
      BY <1>4, ComputedRegs DEF Jump, Errors
    <3> QED
      BY <1>4, <3>1 DEF Jump, Fails, Runs
  <2> QED
    BY <1>4, <2>1 DEF Jump, loopVars, machVars, memVars
<1>5. CASE Call
  <2>1. /\ Counted.ctl < CtlCap =>
             \A t \in Code : [Counted EXCEPT !.ctl = @ + 1, !.ip = t] \in Regs
        /\ [Counted EXCEPT !.err = "segv"] \in Regs
        /\ [Counted EXCEPT !.err = "over"] \in Regs
    BY <1>5, ComputedRegs DEF Call, Errors
  <2>2. regs' \in [Mach -> Regs]
    BY <1>5, <2>1 DEF Call, Fails, Runs
  <2>3. /\ slots' \in [Mach -> [Idx -> Page \cup {NoPage}]]
        /\ plen' \in [Mach -> 0 .. NPages] /\ pcap' \in [Mach -> 0 .. NPages]
        /\ r' \in [Page -> Int] /\ d' \in [Page -> [Off -> Val]]
        /\ freePages' \in Seq(Page)
    <3>1. CASE UNCHANGED memVars
      BY <3>1 DEF memVars
    <3>2. CASE \E i \in Idx, o \in Off, v \in Val : Write(cur, i, o, v)
      BY <3>2, WriteType
    <3> QED
      BY <1>5, <3>1, <3>2 DEF Call
  <2> QED
    BY <1>5, <2>2, <2>3 DEF Call, loopVars, machVars
<1>6. CASE CPush
  <2>1. /\ Counted.ctl < CtlCap => [Counted EXCEPT !.ctl = @ + 1] \in Regs
        /\ [Counted EXCEPT !.err = "over"] \in Regs
    BY <1>6, ComputedRegs DEF CPush, Errors
  <2>2. regs' \in [Mach -> Regs]
    BY <1>6, <2>1 DEF CPush, Fails, Runs
  <2>3. /\ slots' \in [Mach -> [Idx -> Page \cup {NoPage}]]
        /\ plen' \in [Mach -> 0 .. NPages] /\ pcap' \in [Mach -> 0 .. NPages]
        /\ r' \in [Page -> Int] /\ d' \in [Page -> [Off -> Val]]
        /\ freePages' \in Seq(Page)
    <3>1. CASE UNCHANGED memVars
      BY <3>1 DEF memVars
    <3>2. CASE \E i \in Idx, o \in Off, v \in Val : Write(cur, i, o, v)
      BY <3>2, WriteType
    <3> QED
      BY <1>6, <3>1, <3>2 DEF CPush
  <2> QED
    BY <1>6, <2>2, <2>3 DEF CPush, loopVars, machVars
<1>7. CASE CPop
  <2>1. /\ Counted.ctl > 0 => /\ Popped(Counted) \in Regs
                              /\ [Popped(Counted) EXCEPT !.err = "crash"] \in Regs
        /\ [Counted EXCEPT !.err = "under"] \in Regs
    BY <1>7, ComputedRegs DEF CPop, Errors
  <2>2. regs' \in [Mach -> Regs]
    BY <1>7, <2>1 DEF CPop, Fails, Runs
  <2>3. /\ slots' \in [Mach -> [Idx -> Page \cup {NoPage}]]
        /\ plen' \in [Mach -> 0 .. NPages] /\ pcap' \in [Mach -> 0 .. NPages]
        /\ r' \in [Page -> Int] /\ d' \in [Page -> [Off -> Val]]
        /\ freePages' \in Seq(Page)
    <3>1. CASE UNCHANGED memVars
      BY <3>1 DEF memVars
    <3>2. CASE \E i \in Idx, o \in Off, v \in Val : Write(cur, i, o, v)
      BY <3>2, WriteType
    <3> QED
      BY <1>7, <3>1, <3>2 DEF CPop
  <2> QED
    BY <1>7, <2>2, <2>3 DEF CPop, loopVars, machVars
<1>8. CASE Ret
  <2>1. /\ [Counted EXCEPT !.err = "under"] \in Regs
        /\ Counted.ctl > 0 => \A t \in Target : JumpTo(Popped(Counted), t) \in Regs
    BY <1>8, ComputedRegs DEF Ret, Errors
  <2>2. regs' \in [Mach -> Regs]
    BY <1>8, <2>1 DEF Ret, Fails, Runs
  <2> QED
    BY <1>8, <2>2 DEF Ret, loopVars, machVars, memVars
<1>9. ASSUME Fork \/ Branch \/ CFork \/ CBranch PROVE TypeInv'
  <2>1. Stepping /\ UNCHANGED loopVars
    BY <1>9 DEF Fork, Branch, CFork, CBranch
  <2> DEFINE G == /\ regs' \in [Mach -> Regs]
                  /\ queue' \in Seq(Mach) /\ Len(queue') <= QueueCap
                  /\ lost' \subseteq Mach
  <2>2. CASE \E e \in Errors : Fails(e) /\ UNCHANGED <<machVars, memVars>>
    <3>1. PICK e \in Errors : Fails(e) /\ UNCHANGED <<machVars, memVars>>
      BY <2>2
    <3>2. [Counted EXCEPT !.err = e] \in Regs
      BY <2>1, ComputedRegs
    <3>3. regs' \in [Mach -> Regs]
      BY <3>1, <3>2 DEF Fails, Runs
    <3> QED
      BY <2>1, <3>1, <3>3 DEF loopVars, machVars, memVars
  <2>3. CASE \E n \in Mach, orig \in Regs, child \in Regs, e \in Errors :
               Copy(cur, n) /\ (Enqueue(n, orig, child) \/ Drop(n, orig, e, child))
    <3>1. PICK n \in Mach, orig \in Regs, child \in Regs, e \in Errors :
               Copy(cur, n) /\ (Enqueue(n, orig, child) \/ Drop(n, orig, e, child))
      BY <2>3
    <3>2. G
      BY <3>1, QueueType
    <3>3. /\ slots' \in [Mach -> [Idx -> Page \cup {NoPage}]]
          /\ plen' \in [Mach -> 0 .. NPages] /\ pcap' \in [Mach -> 0 .. NPages]
          /\ r' \in [Page -> Int] /\ UNCHANGED <<d, freePages>>
          /\ freeMachs' \in Seq(Mach) /\ copies' \in 0 .. MaxCopies
      BY <3>1, CopyType
    <3> QED
      BY <2>1, <3>2, <3>3 DEF loopVars
  <2> QED
    BY <1>9, <2>2, <2>3, CopyingCases
<1>10. CASE Dequeue
  <2>1. Front(queue) \in Seq(Mach) /\ Last(queue) \in Mach /\ Len(Front(queue)) = Len(queue) - 1
    BY <1>10, TakeLast DEF Dequeue
  <2>2. Len(queue) \in Nat
    BY LenProperties
  <2>3. queue' \in Seq(Mach) /\ Len(queue') <= QueueCap
    BY <1>10, <2>1, <2>2, BoundsAssumption DEF Dequeue
  <2>4. next' \in Mach /\ phase' = "free" /\ fi' \in 0 .. NPages
    BY <1>10, <2>1, NPagesAssumption DEF Dequeue
  <2> QED
    BY <1>10, <2>3, <2>4 DEF Dequeue, memVars
<1>11. CASE FreeSlot
  <2>1. fi \in Idx /\ fi + 1 \in 0 .. NPages
    BY <1>11, NPagesAssumption DEF FreeSlot, Idx
  <2>2. slots' \in [Mach -> [Idx -> Page \cup {NoPage}]]
    BY <1>11, <2>1 DEF FreeSlot, Cleared
  <2>3. r' \in [Page -> Int] /\ freePages' \in Seq(Page)
    <3>1. CASE slots[cur][fi] = NoPage
      BY <1>11, <3>1 DEF FreeSlot
    <3>2. CASE slots[cur][fi] # NoPage
      <4>1. slots[cur][fi] \in Page
        BY <2>1, <3>2
      <4>2. Append(freePages, slots[cur][fi]) \in Seq(Page)
        BY <4>1, PutLast
      <4>3. /\ r' = [r EXCEPT ![slots[cur][fi]] = @ - 1]
            /\ \/ freePages' = Append(freePages, slots[cur][fi])
               \/ freePages' = freePages
        BY <1>11, <3>2 DEF FreeSlot
      <4>4. freePages' \in Seq(Page)
        BY <4>2, <4>3
      <4>5. r' \in [Page -> Int]
        BY <4>1, <4>3
      <4> QED
        BY <4>4, <4>5
    <3> QED
      BY <3>1, <3>2
  <2> QED
    BY <1>11, <2>1, <2>2, <2>3 DEF FreeSlot, machVars
<1>12. CASE FreeMach
  <2>1. Append(freeMachs, cur) \in Seq(Mach)
    BY PutLast
  <2> QED
    BY <1>12, <2>1, NPagesAssumption DEF FreeMach
<1>13. CASE Return
  <2>1. /\ regs' \in [Mach -> Regs]
        /\ slots' \in [Mach -> [Idx -> Page \cup {NoPage}]]
        /\ plen' \in [Mach -> 0 .. NPages] /\ pcap' \in [Mach -> 0 .. NPages]
    BY <1>13 DEF Return
  <2> QED
    BY <1>13, <2>1 DEF Return, machVars
<1>14. CASE UNCHANGED vars
  BY <1>14 DEF vars, loopVars, machVars, memVars
<1> QED
  BY <1>1, <1>2, <1>3, <1>4, <1>5, <1>6, <1>7, <1>8, <1>9, <1>10, <1>11, <1>12, <1>13, <1>14
  DEF Next, Returned

\* copy(), push and pop of the two stacks, ref(), free() and the run loop never
\* leave a value outside its range: no index, count or list entry goes astray.
THEOREM TypeCorrect == Spec => []TypeOK
<1>1. Init => TypeInv
  BY InitType
<1>2. TypeInv /\ [Next]_vars => TypeInv'
  BY StepType
<1>3. TypeInv => TypeOK
  BY DEF TypeInv
<1> QED
  BY <1>1, <1>2, <1>3, PTL DEF Spec

-----------------------------------------------------------------------------
(* Reference counts, free lists and spare slots *)

\* The parts of the inductive invariant, true until Return: the reference counts
\* are exact, of finite sets of holders ...
HolderCounts ==
  \A p \in Page : IsFiniteSet(Holders(p)) /\ r[p] = Cardinality(Holders(p))

\* ... a page is at one index, in whatever machine ...
HomeUnique ==
  \A p \in Page, m1, m2 \in Mach, i, j \in Idx :
    slots[m1][i] = p /\ slots[m2][j] = p => i = j

\* ... what the free lists hand out is in nobody's hands ...
MachsApart ==
  /\ IsInjective(queue) /\ IsInjective(freeMachs)
  /\ Queued \cap Range(freeMachs) = {}
  /\ ({cur, next} \cup lost) \cap (Queued \cup Range(freeMachs)) = {}
  /\ cur # next /\ cur \notin lost /\ next \notin lost

PagesApart ==
  /\ IsInjective(freePages)
  /\ \A p \in Range(freePages) : Holders(p) = {}

\* ... slots behind the end of m.pages and of machines not in use are nil ...
SpareNil ==
  \A m \in Mach, i \in Idx :
    i >= plen[m] \/ m \notin Owners \cup lost => slots[m][i] = NoPage

\* ... and free() has cleared the slots its loop index has passed.
ClearedSoFar ==
  phase = "free" => \A i \in Idx : i < fi => slots[cur][i] = NoPage

RefInv == /\ HolderCounts /\ HomeUnique
          /\ MachsApart /\ PagesApart
          /\ SpareNil /\ ClearedSoFar

\* Assigning one slot of one machine, to nil or to a page nobody holds, changes
\* the holders of the two pages that are involved and of no other.
LEMMA SlotChange ==
  ASSUME TypeInv, HomeUnique,
         NEW m \in Mach, NEW i \in Idx, NEW x \in Page \cup {NoPage},
         x \in Page => Holders(x) = {},
         slots' = [slots EXCEPT ![m][i] = x]
  PROVE  /\ \A q \in Page :
              Holders(q)' = IF q = x THEN {m}
                            ELSE IF q = slots[m][i] THEN Holders(q) \ {m}
                            ELSE Holders(q)
         /\ HomeUnique'
<1>1. slots \in [Mach -> [Idx -> Page \cup {NoPage}]]
  BY DEF TypeInv, TypeOK
<1>2. \A k \in Mach, j \in Idx :
        slots'[k][j] = IF k = m /\ j = i THEN x ELSE slots[k][j]
  BY <1>1
<1>3. ASSUME NEW q \in Page
      PROVE  Holders(q)' = IF q = x THEN {m}
                           ELSE IF q = slots[m][i] THEN Holders(q) \ {m}
                           ELSE Holders(q)
  <2>1. CASE q = x
    BY <1>2, <2>1 DEF Holders
  <2>2. CASE q # x /\ q = slots[m][i]
    <3>1. \A j \in Idx : slots[m][j] = q => j = i
      BY <2>2 DEF HomeUnique
    <3> QED
      BY <1>2, <2>2, <3>1 DEF Holders
  <2>3. CASE q # x /\ q # slots[m][i]
    BY <1>2, <2>3 DEF Holders
  <2> QED
    BY <2>1, <2>2, <2>3
<1>4. HomeUnique'
  <2> SUFFICES ASSUME NEW p \in Page, NEW m1 \in Mach, NEW m2 \in Mach,
                      NEW a \in Idx, NEW b \in Idx,
                      slots'[m1][a] = p, slots'[m2][b] = p
               PROVE  a = b
    BY DEF HomeUnique
  <2>1. CASE p = x
    <3>1. \A k \in Mach, j \in Idx : slots[k][j] # p
      BY <2>1 DEF Holders
    <3> QED
      BY <1>2, <3>1
  <2>2. CASE p # x
    BY <1>2, <2>2 DEF HomeUnique
  <2> QED
    BY <2>1, <2>2
<1> QED
  BY <1>3, <1>4

\* AllocPage() returns a page nobody holds and keeps the others in the free list.
LEMMA AllocatedPage ==
  ASSUME TypeInv, PagesApart, NEW p \in Page, AllocPage(p)
  PROVE  /\ Holders(p) = {}
         /\ Range(freePages') \subseteq Range(freePages) \ {p}
         /\ IsInjective(freePages')
<1>1. freePages \in Seq(Page)
  BY DEF TypeInv, TypeOK
<1>2. CASE freePages # <<>>
  <2>1. p = Last(freePages) /\ freePages' = Front(freePages)
    BY <1>2 DEF AllocPage
  <2>2. /\ Range(freePages) = Range(Front(freePages)) \cup {Last(freePages)}
        /\ IsInjective(Front(freePages)) /\ Last(freePages) \notin Range(Front(freePages))
    BY <1>1, <1>2, TakeLast DEF PagesApart
  <2> QED
    BY <2>1, <2>2 DEF PagesApart
<1>3. CASE freePages = <<>>
  BY <1>3 DEF AllocPage, FreshPages, PagesApart
<1> QED
  BY <1>2, <1>3

\* A page that may be written in place has one holder: the reference count is
\* what keeps a write from a machine that shares the page.
LEMMA ExclusiveHolder ==
  ASSUME TypeInv, HolderCounts, NEW p \in Page, r[p] <= 1,
         NEW m \in Holders(p)
  PROVE  Holders(p) = {m} /\ r[p] = 1
<1>1. IsFiniteSet(Holders(p)) /\ r[p] = Cardinality(Holders(p))
  BY DEF HolderCounts
<1>2. Cardinality({m}) = 1 /\ IsFiniteSet({m})
  BY FS_Singleton
<1>3. Cardinality({m}) <= Cardinality(Holders(p))
      /\ (Cardinality(Holders(p)) = Cardinality({m}) => Holders(p) = {m})
  BY <1>1, FS_Subset
<1>4. Cardinality(Holders(p)) \in Nat
  BY <1>1, FS_CardinalityType
<1> QED
  BY <1>1, <1>2, <1>3, <1>4

\* The three outcomes of ref() differ in few ways: either a page in this
\* machine's hands alone is written, or a new page takes slot i.
LEMMA WriteCases ==
  ASSUME TypeInv, RefInv, NEW m \in Mach, NEW i \in Idx, NEW o \in Off,
         NEW v \in Val, Write(m, i, o, v)
  PROVE  \/ /\ UNCHANGED <<slots, plen, r, freePages>>
            /\ \E p \in Page : /\ Holders(p) = {m}
                               /\ \A q \in Page \ {p} : d'[q] = d[q]
         \/ \E p \in Page :
              /\ AllocPage(p)
              /\ slots' = [slots EXCEPT ![m][i] = p]
              /\ plen' = [plen EXCEPT ![m] = IF i < @ THEN @ ELSE i + 1]
              /\ r' = [q \in Page |-> IF q = p THEN 1
                                      ELSE IF q = slots[m][i] THEN r[q] - 1
                                      ELSE r[q]]
              /\ \A q \in Page \ {p} : d'[q] = d[q]
<1>1. /\ slots \in [Mach -> [Idx -> Page \cup {NoPage}]]
      /\ plen \in [Mach -> 0 .. NPages]
      /\ r \in [Page -> Int] /\ d \in [Page -> [Off -> Val]]
  BY DEF TypeInv, TypeOK
<1>2. CASE Create(m, i, o, v)
  <2>1. PICK p \in Page :
          /\ AllocPage(p)
          /\ d' = [d EXCEPT ![p] = [Allocated(p) EXCEPT ![o] = v]]
          /\ r' = [r EXCEPT ![p] = 1]
          /\ slots' = [slots EXCEPT ![m] =
                         IF i < plen[m] THEN [@ EXCEPT ![i] = p]
                         ELSE [j \in Idx |-> IF j = i THEN p
                                             ELSE IF j < plen[m] THEN @[j] ELSE NoPage]]
    BY <1>2 DEF Create
  <2>2. \A j \in Idx : j >= plen[m] => slots[m][j] = NoPage
    BY DEF RefInv, SpareNil
  <2>3. slots[m][i] = NoPage
    BY <1>2, <2>2 DEF Create
  <2>4. slots' = [slots EXCEPT ![m][i] = p]
    <3>1. CASE i < plen[m]
      BY <2>1, <3>1
    <3>2. CASE ~(i < plen[m])
      <4>1. \A j \in Idx : ~(j < plen[m]) => slots[m][j] = NoPage
        BY <1>1, <2>2 DEF Idx
      <4>2. [j \in Idx |-> IF j = i THEN p
                           ELSE IF j < plen[m] THEN slots[m][j] ELSE NoPage]
              = [slots[m] EXCEPT ![i] = p]
        BY <1>1, <4>1
      <4> QED
        BY <1>1, <2>1, <3>2, <4>2
    <3> QED
      BY <3>1, <3>2
  <2>5. r' = [q \in Page |-> IF q = p THEN 1
                             ELSE IF q = slots[m][i] THEN r[q] - 1 ELSE r[q]]
    BY <1>1, <2>1, <2>3, PageAssumption
  <2>6. plen' = [plen EXCEPT ![m] = IF i < @ THEN @ ELSE i + 1]
    BY <1>2 DEF Create
  <2>7. \A q \in Page \ {p} : d'[q] = d[q]
    BY <1>1, <2>1
  <2> QED
    BY <2>1, <2>4, <2>5, <2>6, <2>7
<1>3. CASE CopyOnWrite(m, i, o, v)
  <2>1. PICK p \in Page :
          /\ AllocPage(p)
          /\ d' = [d EXCEPT ![p] = [d[slots[m][i]] EXCEPT ![o] = v]]
          /\ r' = [r EXCEPT ![p] = 1, ![slots[m][i]] = @ - 1]
          /\ slots' = [slots EXCEPT ![m][i] = p]
    BY <1>3 DEF CopyOnWrite
  <2>2. Holders(p) = {}
    BY <2>1, AllocatedPage DEF RefInv
  <2>3. slots[m][i] # p /\ slots[m][i] \in Page
    BY <1>1, <1>3, <2>2 DEF CopyOnWrite, Holders
  <2>4. r' = [q \in Page |-> IF q = p THEN 1
                             ELSE IF q = slots[m][i] THEN r[q] - 1 ELSE r[q]]
    BY <1>1, <2>1, <2>3
  <2>5. plen' = [plen EXCEPT ![m] = IF i < @ THEN @ ELSE i + 1]
    BY <1>1, <1>3 DEF CopyOnWrite
  <2>6. \A q \in Page \ {p} : d'[q] = d[q]
    BY <1>1, <2>1
  <2> QED
    BY <2>1, <2>4, <2>5, <2>6
<1>4. CASE WriteInPlace(m, i, o, v)
  <2>1. /\ slots[m][i] \in Page /\ r[slots[m][i]] <= 1
        /\ m \in Holders(slots[m][i])
    BY <1>1, <1>4 DEF WriteInPlace, Exclusive, Holders
  <2>2. Holders(slots[m][i]) = {m}
    BY <2>1, ExclusiveHolder DEF RefInv
  <2>3. \A q \in Page \ {slots[m][i]} : d'[q] = d[q]
    BY <1>1, <1>4 DEF WriteInPlace
  <2> QED
    BY <1>4, <2>1, <2>2, <2>3 DEF WriteInPlace
<1> QED
  BY <1>2, <1>3, <1>4 DEF Write

\* A step that touches neither pages nor lists keeps the invariant.
LEMMA UntouchedKeeps ==
  ASSUME RefInv,
         UNCHANGED <<slots, plen, r, freePages, phase, cur, next, fi,
                     queue, freeMachs, lost>>
  PROVE  RefInv'
<1>1. \A p : Holders(p)' = Holders(p)
  BY DEF Holders
<1>2. HolderCounts' /\ HomeUnique' /\ PagesApart'
  BY <1>1 DEF RefInv, HolderCounts, HomeUnique, PagesApart
<1>3. MachsApart' /\ SpareNil' /\ ClearedSoFar'
  BY DEF RefInv, MachsApart, SpareNil, ClearedSoFar, Owners, Queued
<1> QED
  BY <1>2, <1>3 DEF RefInv

\* ref() and the write through it keep the invariant.
LEMMA WriteKeeps ==
  ASSUME TypeInv, RefInv, phase = "run",
         NEW i \in Idx, NEW o \in Off, NEW v \in Val, Write(cur, i, o, v),
         UNCHANGED <<loopVars, machVars>>
  PROVE  RefInv'
<1>1. /\ slots \in [Mach -> [Idx -> Page \cup {NoPage}]]
      /\ plen \in [Mach -> 0 .. NPages]
      /\ r \in [Page -> Int] /\ cur \in Mach
  BY DEF TypeInv, TypeOK
<1>2. UNCHANGED <<phase, cur, next, fi, queue, freeMachs, lost>>
  BY DEF loopVars, machVars
<1>3. CASE UNCHANGED <<slots, plen, r, freePages>>
  BY <1>2, <1>3, UntouchedKeeps
<1>4. CASE \E p \in Page :
              /\ AllocPage(p)
              /\ slots' = [slots EXCEPT ![cur][i] = p]
              /\ plen' = [plen EXCEPT ![cur] = IF i < @ THEN @ ELSE i + 1]
              /\ r' = [q \in Page |-> IF q = p THEN 1
                                      ELSE IF q = slots[cur][i] THEN r[q] - 1
                                      ELSE r[q]]
  <2>1. PICK p \in Page :
              /\ AllocPage(p)
              /\ slots' = [slots EXCEPT ![cur][i] = p]
              /\ plen' = [plen EXCEPT ![cur] = IF i < @ THEN @ ELSE i + 1]
              /\ r' = [q \in Page |-> IF q = p THEN 1
                                      ELSE IF q = slots[cur][i] THEN r[q] - 1
                                      ELSE r[q]]
    BY <1>4
  <2>2. /\ Holders(p) = {}
        /\ Range(freePages') \subseteq Range(freePages) \ {p}
        /\ IsInjective(freePages')
    BY <2>1, AllocatedPage DEF RefInv
  <2>3. /\ \A q \in Page :
             Holders(q)' = IF q = p THEN {cur}
                           ELSE IF q = slots[cur][i] THEN Holders(q) \ {cur}
                           ELSE Holders(q)
        /\ HomeUnique'
    BY <1>1, <2>1, <2>2, SlotChange DEF RefInv
  <2>4. HolderCounts'
    <3> SUFFICES ASSUME NEW q \in Page
                 PROVE  IsFiniteSet(Holders(q))' /\ r'[q] = Cardinality(Holders(q))'
      BY DEF HolderCounts
    <3>1. IsFiniteSet(Holders(q)) /\ r[q] = Cardinality(Holders(q))
      BY DEF RefInv, HolderCounts
    <3>2. CASE q = p
      <4>1. IsFiniteSet({cur}) /\ Cardinality({cur}) = 1
        BY FS_Singleton
      <4> QED
        BY <2>1, <2>3, <3>2, <4>1
    <3>3. CASE q # p /\ q = slots[cur][i]
      <4>1. cur \in Holders(q)
        BY <1>1, <3>3 DEF Holders
      <4>2. /\ IsFiniteSet(Holders(q) \ {cur})
            /\ Cardinality(Holders(q) \ {cur}) = Cardinality(Holders(q)) - 1
        BY <3>1, <4>1, FS_RemoveElement
      <4> QED
        BY <2>1, <2>3, <3>1, <3>3, <4>2
    <3>4. CASE q # p /\ q # slots[cur][i]
      BY <2>1, <2>3, <3>1, <3>4
    <3> QED
      BY <3>2, <3>3, <3>4
  <2>5. PagesApart'
    <3>1. ASSUME NEW q \in Range(freePages')
          PROVE  Holders(q)' = {}
      <4>1. q # p /\ Holders(q) = {} /\ q \in Page
        <5>1. q \in Range(freePages) /\ q # p
          BY <2>2, <3>1
        <5>2. freePages \in Seq(Page)
          BY DEF TypeInv, TypeOK
        <5>3. q \in Page
          BY <5>1, <5>2, RangeOfSeq
        <5> QED
          BY <5>1, <5>3 DEF RefInv, PagesApart
      <4>2. q # slots[cur][i]
        BY <1>1, <4>1 DEF Holders
      <4> QED
        BY <2>3, <4>1, <4>2
    <3> QED
      BY <2>2, <3>1 DEF PagesApart
  <2>6. SpareNil'
    <3> SUFFICES ASSUME NEW m \in Mach, NEW j \in Idx,
                        j >= plen'[m] \/ m \notin (Owners \cup lost)'
                 PROVE  slots'[m][j] = NoPage
      BY DEF SpareNil
    <3>1. (Owners \cup lost)' = Owners \cup lost
      BY <1>2 DEF Owners, Queued
    <3>2. CASE m # cur
      BY <1>1, <2>1, <3>1, <3>2 DEF RefInv, SpareNil
    <3>3. CASE m = cur
      <4>1. j >= plen'[cur]
        BY <3>1, <3>3 DEF Owners
      <4>2. j >= plen[cur] /\ j # i
        BY <1>1, <2>1, <4>1 DEF Idx
      <4>3. slots[cur][j] = NoPage
        BY <1>1, <4>2 DEF RefInv, SpareNil
      <4> QED
        BY <1>1, <2>1, <3>3, <4>2, <4>3
    <3> QED
      BY <3>2, <3>3
  <2>7. MachsApart' /\ ClearedSoFar'
    BY <1>2 DEF RefInv, MachsApart, ClearedSoFar, Queued
  <2> QED
    BY <2>3, <2>4, <2>5, <2>6, <2>7 DEF RefInv
<1> QED
  BY <1>1, <1>3, <1>4, WriteCases

\* AllocMach() returns a machine that is in no use and keeps the others.
LEMMA AllocatedMach ==
  ASSUME TypeInv, RefInv, NEW n \in Mach, AllocMach(n)
  PROVE  /\ n \notin Owners \cup lost
         /\ Range(freeMachs') \subseteq Range(freeMachs) \ {n}
         /\ IsInjective(freeMachs')
<1>1. freeMachs \in Seq(Mach)
  BY DEF TypeInv, TypeOK
<1>2. CASE freeMachs # <<>> /\ n = Last(freeMachs) /\ freeMachs' = Front(freeMachs)
  <2>1. /\ Range(freeMachs) = Range(Front(freeMachs)) \cup {Last(freeMachs)}
        /\ IsInjective(Front(freeMachs))
        /\ Last(freeMachs) \notin Range(Front(freeMachs))
    BY <1>1, <1>2, TakeLast DEF RefInv, MachsApart
  <2> QED
    BY <1>2, <2>1 DEF RefInv, MachsApart, Owners
<1>3. CASE n \in FreshMachs /\ UNCHANGED freeMachs
  BY <1>3 DEF FreshMachs, RefInv, MachsApart
<1> QED
  BY <1>2, <1>3 DEF AllocMach

\* copy() assigns the slots of the copy so that they equal the original's,
\* whatever the machine was used for before.
LEMMA CopyEffect ==
  ASSUME TypeInv, RefInv, NEW m \in Mach, NEW n \in Mach, n # m,
         n \notin Owners \cup lost, CopyPages(m, n)
  PROVE  /\ slots' = [slots EXCEPT ![n] = slots[m]]
         /\ \A p \in Page : Holders(p)' = IF m \in Holders(p) THEN Holders(p) \cup {n}
                                          ELSE Holders(p)
         /\ \A p \in Page : n \notin Holders(p)
         /\ HomeUnique'
         /\ \A p \in Page : References(m, p) = IF m \in Holders(p) THEN 1 ELSE 0
<1>1. /\ slots \in [Mach -> [Idx -> Page \cup {NoPage}]]
      /\ plen \in [Mach -> 0 .. NPages]
  BY DEF TypeInv, TypeOK
<1>2. /\ \A i \in Idx : slots[n][i] = NoPage
      /\ \A i \in Idx : ~(i < plen[m]) => slots[m][i] = NoPage
  BY <1>1 DEF RefInv, SpareNil, Idx
<1>3. CopiedSlots(m, n) = slots[m]
  BY <1>1, <1>2 DEF CopiedSlots
<1>4. slots' = [slots EXCEPT ![n] = slots[m]]
  BY <1>3 DEF CopyPages
<1>5. \A p \in Page : n \notin Holders(p)
  BY <1>2, PageAssumption DEF Holders
<1>6. \A k \in Mach : slots'[k] = IF k = n THEN slots[m] ELSE slots[k]
  BY <1>1, <1>4
<1>7. \A p \in Page : Holders(p)' = IF m \in Holders(p) THEN Holders(p) \cup {n}
                                    ELSE Holders(p)
  BY <1>5, <1>6 DEF Holders
<1>8. HomeUnique'
  BY <1>6 DEF RefInv, HomeUnique
<1>9. ASSUME NEW p \in Page
      PROVE  References(m, p) = IF m \in Holders(p) THEN 1 ELSE 0
  <2>1. CASE m \in Holders(p)
    <3>1. PICK i \in Idx : slots[m][i] = p
      BY <2>1 DEF Holders
    <3>2. {j \in Idx : j < plen[m] /\ slots[m][j] = p} = {i}
      BY <1>2, <3>1, PageAssumption DEF RefInv, HomeUnique
    <3> QED
      BY <2>1, <3>2, FS_Singleton DEF References
  <2>2. CASE m \notin Holders(p)
    <3>1. {j \in Idx : j < plen[m] /\ slots[m][j] = p} = {}
      BY <2>2 DEF Holders
    <3> QED
      BY <2>2, <3>1, FS_EmptySet DEF References
  <2> QED
    BY <2>1, <2>2
<1> QED
  BY <1>4, <1>5, <1>7, <1>8, <1>9

\* fork(), branch(), cfork() and cbranch() keep the invariant, whether the copy
\* is queued or dropped.
LEMMA CopyKeeps ==
  ASSUME TypeInv, RefInv, phase = "run", NEW n \in Mach, Copy(cur, n),
         UNCHANGED loopVars,
         \/ queue' = Append(queue, n) /\ UNCHANGED lost
         \/ lost' = lost \cup {n} /\ UNCHANGED queue
  PROVE  RefInv'
<1>1. /\ slots \in [Mach -> [Idx -> Page \cup {NoPage}]]
      /\ plen \in [Mach -> 0 .. NPages]
      /\ r \in [Page -> Int] /\ cur \in Mach /\ queue \in Seq(Mach)
  BY DEF TypeInv, TypeOK
<1>2. /\ n \notin Owners \cup lost
      /\ Range(freeMachs') \subseteq Range(freeMachs) \ {n}
      /\ IsInjective(freeMachs')
  BY AllocatedMach DEF Copy
<1>3. n # cur /\ n # next /\ n \notin Queued /\ n \notin lost
  BY <1>2 DEF Owners
<1>4. /\ slots' = [slots EXCEPT ![n] = slots[cur]]
      /\ \A p \in Page : Holders(p)' = IF cur \in Holders(p) THEN Holders(p) \cup {n}
                                       ELSE Holders(p)
      /\ \A p \in Page : n \notin Holders(p)
      /\ HomeUnique'
      /\ \A p \in Page : References(cur, p) = IF cur \in Holders(p) THEN 1 ELSE 0
  BY <1>1, <1>2, <1>3, CopyEffect DEF Copy
<1>5. /\ plen' = [plen EXCEPT ![n] = plen[cur]]
      /\ r' = [p \in Page |-> r[p] + References(cur, p)]
      /\ UNCHANGED <<freePages, phase, cur, next, fi>>
  BY DEF Copy, CopyPages, loopVars
<1>6. HolderCounts'
  <2> SUFFICES ASSUME NEW p \in Page
               PROVE  IsFiniteSet(Holders(p))' /\ r'[p] = Cardinality(Holders(p))'
    BY DEF HolderCounts
  <2>1. IsFiniteSet(Holders(p)) /\ r[p] = Cardinality(Holders(p))
    BY DEF RefInv, HolderCounts
  <2>2. Cardinality(Holders(p)) \in Nat
    BY <2>1, FS_CardinalityType
  <2>3. CASE cur \in Holders(p)
    <3>1. /\ IsFiniteSet(Holders(p) \cup {n})
          /\ Cardinality(Holders(p) \cup {n}) = Cardinality(Holders(p)) + 1
      BY <1>4, <2>1, FS_AddElement
    <3> QED
      BY <1>4, <1>5, <2>1, <2>3, <3>1
  <2>4. CASE cur \notin Holders(p)
    BY <1>4, <1>5, <2>1, <2>2, <2>4
  <2> QED
    BY <2>3, <2>4
<1>7. PagesApart'
  <2>1. freePages \in Seq(Page)
    BY DEF TypeInv, TypeOK
  <2>2. \A p \in Range(freePages) : p \in Page /\ Holders(p) = {}
    BY <2>1, RangeOfSeq DEF RefInv, PagesApart
  <2>3. \A p \in Range(freePages) : Holders(p)' = {}
    BY <1>4, <2>2
  <2> QED
    BY <1>5, <2>3 DEF RefInv, PagesApart
<1>8. Queued' \subseteq Queued \cup {n} /\ Queued \subseteq Queued' /\ lost \subseteq lost'
      /\ lost' \subseteq lost \cup {n}
      /\ n \in Queued' \cup lost'
      /\ (n \in Queued' => n \notin lost')
  <2>1. CASE queue' = Append(queue, n) /\ UNCHANGED lost
    BY <1>1, <1>3, <2>1, PutLast DEF Queued
  <2>2. CASE lost' = lost \cup {n} /\ UNCHANGED queue
    BY <1>3, <2>2 DEF Queued
  <2> QED
    BY <2>1, <2>2
<1>9. IsInjective(queue')
  <2>1. IsInjective(queue) /\ IsInjective(Append(queue, n))
    BY <1>1, <1>3, PutLast DEF RefInv, MachsApart, Queued
  <2> QED
    BY <2>1
<1>10. MachsApart'
  BY <1>2, <1>3, <1>5, <1>8, <1>9 DEF RefInv, MachsApart
<1>11. SpareNil'
  <2> SUFFICES ASSUME NEW m \in Mach, NEW j \in Idx,
                      j >= plen'[m] \/ m \notin (Owners \cup lost)'
               PROVE  slots'[m][j] = NoPage
    BY DEF SpareNil
  <2>1. (Owners \cup lost)' = Owners \cup lost \cup {n}
    BY <1>5, <1>8 DEF Owners
  <2>2. CASE m # n
    BY <1>1, <1>4, <1>5, <2>1, <2>2 DEF RefInv, SpareNil
  <2>3. CASE m = n
    BY <1>1, <1>4, <1>5, <2>1, <2>3 DEF RefInv, SpareNil
  <2> QED
    BY <2>2, <2>3
<1>12. ClearedSoFar'
  BY <1>5 DEF ClearedSoFar
<1> QED
  BY <1>4, <1>6, <1>7, <1>10, <1>11, <1>12 DEF RefInv

\* Dequeue() keeps the invariant: the machine it returns stays in one place.
LEMMA DequeueKeeps ==
  ASSUME TypeInv, RefInv, Dequeue
  PROVE  RefInv'
<1>1. /\ queue \in Seq(Mach) /\ queue # <<>>
      /\ next' = Last(queue) /\ queue' = Front(queue)
      /\ UNCHANGED <<cur, freeMachs, lost, slots, plen, r, freePages>> /\ fi' = 0
      /\ next = NoMach
  BY DEF TypeInv, TypeOK, NextInHand, Dequeue, Handling, memVars
<1>2. /\ Range(queue) = Range(Front(queue)) \cup {Last(queue)}
      /\ Last(queue) \in Mach
      /\ IsInjective(Front(queue)) /\ Last(queue) \notin Range(Front(queue))
  BY <1>1, TakeLast DEF RefInv, MachsApart
<1>3. \A p : Holders(p)' = Holders(p)
  BY <1>1 DEF Holders
<1>4. HolderCounts' /\ HomeUnique' /\ PagesApart'
  BY <1>1, <1>3 DEF RefInv, HolderCounts, HomeUnique, PagesApart
<1>5. MachsApart'
  BY <1>1, <1>2 DEF RefInv, MachsApart, Queued
<1>6. SpareNil'
  BY <1>1, <1>2, RootAssumption DEF RefInv, SpareNil, Owners, Queued
<1>7. ClearedSoFar'
  BY <1>1 DEF ClearedSoFar, Idx
<1> QED
  BY <1>4, <1>5, <1>6, <1>7 DEF RefInv

\* One iteration of free() keeps the invariant: the page goes to the free list
\* when no machine holds it any more, and not before.
LEMMA FreeSlotKeeps ==
  ASSUME TypeInv, RefInv, FreeSlot
  PROVE  RefInv'
<1>1. /\ slots \in [Mach -> [Idx -> Page \cup {NoPage}]]
      /\ plen \in [Mach -> 0 .. NPages]
      /\ r \in [Page -> Int] /\ cur \in Mach /\ freePages \in Seq(Page)
  BY DEF TypeInv, TypeOK
<1>2. /\ phase = "free" /\ fi \in Idx
      /\ slots' = [slots EXCEPT ![cur][fi] = NoPage]
      /\ fi' = fi + 1
      /\ UNCHANGED <<phase, cur, next, queue, freeMachs, lost, plen>>
  BY NPagesAssumption DEF TypeInv, TypeOK, FreeSlot, Cleared, Idx, machVars
<1>3. /\ \A q \in Page : Holders(q)' = IF q = slots[cur][fi] THEN Holders(q) \ {cur}
                                       ELSE Holders(q)
      /\ HomeUnique'
  <2>1. NoPage \in Page \cup {NoPage} /\ NoPage \notin Page
    BY PageAssumption
  <2>2. HomeUnique
    BY DEF RefInv
  <2>3. /\ \A q \in Page : Holders(q)' = IF q = NoPage THEN {cur}
                                         ELSE IF q = slots[cur][fi] THEN Holders(q) \ {cur}
                                         ELSE Holders(q)
        /\ HomeUnique'
    BY <1>1, <1>2, <2>1, <2>2, SlotChange
  <2> QED
    BY <2>1, <2>3
<1>4. HolderCounts' /\ PagesApart'
  <2>1. CASE slots[cur][fi] = NoPage
    <3>1. UNCHANGED <<r, freePages>>
      BY <2>1 DEF FreeSlot
    <3>2. \A q \in Page : Holders(q)' = Holders(q)
      BY <1>3, <2>1, PageAssumption
    <3>3. Range(freePages) \subseteq Page
      BY <1>1, RangeOfSeq
    <3> QED
      BY <3>1, <3>2, <3>3 DEF RefInv, HolderCounts, PagesApart
  <2>2. CASE slots[cur][fi] # NoPage
    <3>0. PICK p \in Page : p = slots[cur][fi]
      BY <1>1, <1>2, <2>2
    <3>1. p \in Page /\ cur \in Holders(p)
      BY <1>1, <1>2, <3>0 DEF Holders
    <3>2. /\ r' = [r EXCEPT ![p] = @ - 1]
          /\ freePages' = IF Dead(r[p] - 1) THEN Append(freePages, p) ELSE freePages
      BY <2>2, <3>0 DEF FreeSlot
    <3>3. IsFiniteSet(Holders(p)) /\ r[p] = Cardinality(Holders(p))
      BY <3>1 DEF RefInv, HolderCounts
    <3>4. /\ IsFiniteSet(Holders(p) \ {cur})
          /\ Cardinality(Holders(p) \ {cur}) = Cardinality(Holders(p)) - 1
      BY <3>1, <3>3, FS_RemoveElement
    <3>5. HolderCounts'
      <4> SUFFICES ASSUME NEW q \in Page
                   PROVE  IsFiniteSet(Holders(q))' /\ r'[q] = Cardinality(Holders(q))'
        BY DEF HolderCounts
      <4>1. CASE q = p
        BY <1>1, <1>3, <3>0, <3>2, <3>3, <3>4, <4>1
      <4>2. CASE q # p
        BY <1>1, <1>3, <3>0, <3>2, <4>2 DEF RefInv, HolderCounts
      <4> QED
        BY <4>1, <4>2
    <3>6. p \notin Range(freePages)
      BY <3>1 DEF RefInv, PagesApart
    <3>7. \A q \in Range(freePages) : Holders(q)' = {}
      <4>1. Range(freePages) \subseteq Page
        BY <1>1, RangeOfSeq
      <4> QED
        BY <1>3, <4>1 DEF RefInv, PagesApart
    <3>8. CASE Dead(r[p] - 1)
      <4>1. r[p] <= 1
        BY <1>1, <3>1, <3>8 DEF Dead
      <4>2. Holders(p)' = {}
        <5>1. Holders(p) = {cur}
          BY <3>1, <4>1, ExclusiveHolder DEF RefInv
        <5> QED
          BY <1>3, <3>0, <5>1
      <4>3. /\ Range(Append(freePages, p)) = Range(freePages) \cup {p}
            /\ IsInjective(Append(freePages, p))
        BY <1>1, <3>1, <3>6, PutLast DEF RefInv, PagesApart
      <4>4. freePages' = Append(freePages, p)
        BY <3>2, <3>8
      <4> QED
        BY <3>5, <3>7, <4>2, <4>3, <4>4 DEF PagesApart
    <3>9. CASE ~Dead(r[p] - 1)
      BY <3>2, <3>5, <3>7, <3>9 DEF RefInv, PagesApart
    <3> QED
      BY <3>8, <3>9
  <2> QED
    BY <2>1, <2>2
<1>5. MachsApart'
  BY <1>2 DEF RefInv, MachsApart, Queued
<1>6. SpareNil'
  <2>1. (Owners \cup lost)' = Owners \cup lost
    BY <1>2 DEF Owners, Queued
  <2>2. \A m \in Mach, j \in Idx : slots'[m][j] = IF m = cur /\ j = fi THEN NoPage
                                                  ELSE slots[m][j]
    BY <1>1, <1>2
  <2> QED
    BY <1>2, <2>1, <2>2 DEF RefInv, SpareNil
<1>7. ClearedSoFar'
  <2>1. \A j \in Idx : slots'[cur][j] = IF j = fi THEN NoPage ELSE slots[cur][j]
    BY <1>1, <1>2
  <2>2. \A j \in Idx : j < fi + 1 => j = fi \/ j < fi
    BY <1>2 DEF Idx
  <2> QED
    BY <1>2, <2>1, <2>2 DEF RefInv, ClearedSoFar
<1> QED
  BY <1>3, <1>4, <1>5, <1>6, <1>7 DEF RefInv

\* The end of free() keeps the invariant: the machine it gives to the free list
\* has no page left.
LEMMA FreeMachKeeps ==
  ASSUME TypeInv, RefInv, FreeMach
  PROVE  RefInv'
<1>1. /\ plen \in [Mach -> 0 .. NPages] /\ fi \in 0 .. NPages
      /\ cur \in Mach /\ next \in Mach /\ freeMachs \in Seq(Mach)
  BY DEF TypeInv, TypeOK, NextInHand, FreeMach
<1>2. /\ phase = "free" /\ fi >= plen[cur]
      /\ plen' = [plen EXCEPT ![cur] = 0]
      /\ freeMachs' = Append(freeMachs, cur)
      /\ cur' = next /\ next' = NoMach /\ phase' = "run"
      /\ UNCHANGED <<queue, lost, slots, r, freePages>>
  BY DEF FreeMach
<1>3. \A i \in Idx : slots[cur][i] = NoPage
  <2>1. \A i \in Idx : i < fi \/ i >= plen[cur]
    BY <1>1, <1>2 DEF Idx
  <2> QED
    BY <1>1, <1>2, <2>1 DEF RefInv, ClearedSoFar, SpareNil
<1>4. \A p : Holders(p)' = Holders(p)
  BY <1>2 DEF Holders
<1>5. HolderCounts' /\ HomeUnique' /\ PagesApart'
  BY <1>2, <1>4 DEF RefInv, HolderCounts, HomeUnique, PagesApart
<1>6. /\ Range(freeMachs') = Range(freeMachs) \cup {cur}
      /\ IsInjective(freeMachs')
  BY <1>1, <1>2, PutLast DEF RefInv, MachsApart
<1>7. NoMach \notin Queued /\ NoMach \notin lost /\ NoMach \notin Range(freeMachs)
  <2>1. Queued \subseteq Mach /\ Range(freeMachs) \subseteq Mach /\ lost \subseteq Mach
    BY RangeOfSeq DEF TypeInv, TypeOK, Queued
  <2> QED
    BY <2>1, RootAssumption
<1>8. MachsApart'
  BY <1>1, <1>2, <1>6, <1>7, RootAssumption DEF RefInv, MachsApart, Queued
<1>9. SpareNil'
  BY <1>1, <1>2, <1>3 DEF RefInv, SpareNil, Owners, Queued
<1>10. ClearedSoFar'
  BY <1>2 DEF ClearedSoFar
<1> QED
  BY <1>5, <1>8, <1>9, <1>10 DEF RefInv

\* The invariant holds where a run begins.
LEMMA InitRefInv == Init => RefInv
<1> SUFFICES ASSUME Init PROVE RefInv
  OBVIOUS
<1>1. /\ phase = "run" /\ cur = Root /\ next = NoMach
      /\ queue = <<>> /\ freeMachs = <<>> /\ freePages = <<>> /\ lost = {}
  BY DEF Init
<1>2. PICK loaded \in [Idx -> Page \cup {NoPage}], last \in Idx :
        /\ \A i, j \in Idx : loaded[i] # NoPage /\ loaded[i] = loaded[j] => i = j
        /\ \A i \in Idx : i > last => loaded[i] = NoPage
        /\ slots = [m \in Mach |-> IF m = Root THEN loaded ELSE [i \in Idx |-> NoPage]]
        /\ plen = [m \in Mach |-> IF m = Root THEN last + 1 ELSE 0]
        /\ r = [p \in Page |-> IF p \in Range(loaded) THEN 1 ELSE 0]
  BY DEF Init
<1>3. Range(loaded) = {loaded[i] : i \in Idx}
  BY <1>2 DEF Range
<1>4. \A q \in Page : Holders(q) = IF q \in Range(loaded) THEN {Root} ELSE {}
  BY <1>2, <1>3, RootAssumption, PageAssumption DEF Holders
<1>5. HolderCounts
  <2>1. IsFiniteSet({Root}) /\ Cardinality({Root}) = 1
    BY FS_Singleton
  <2>2. IsFiniteSet({}) /\ Cardinality({}) = 0
    BY FS_EmptySet
  <2> QED
    BY <1>2, <1>4, <2>1, <2>2 DEF HolderCounts
<1>6. HomeUnique
  BY <1>2, PageAssumption DEF HomeUnique
<1>7. Queued = {} /\ Range(freeMachs) = {} /\ Range(freePages) = {}
  BY <1>1 DEF Queued, Range
<1>8. IsInjective(queue) /\ IsInjective(freeMachs) /\ IsInjective(freePages)
  BY <1>1 DEF IsInjective
<1>9. MachsApart /\ PagesApart
  BY <1>1, <1>7, <1>8, RootAssumption DEF MachsApart, PagesApart
<1>10. SpareNil
  BY <1>1, <1>2 DEF SpareNil, Owners, Idx
<1>11. ClearedSoFar
  BY <1>1 DEF ClearedSoFar
<1> QED
  BY <1>5, <1>6, <1>9, <1>10, <1>11 DEF RefInv

\* The inductive invariant: while the run has not returned, RefInv.
SafeInv == TypeInv /\ (Running => RefInv)

\* Every step before Return keeps the invariant.
LEMMA StepRefInv ==
  ASSUME TypeInv, RefInv, [Next]_vars, Running, Running'
  PROVE  RefInv'
<1>1. CASE LimitHit \/ Stop \/ Jump \/ Ret
  BY <1>1, UntouchedKeeps DEF LimitHit, Stop, Jump, Ret, loopVars, machVars, memVars
<1>2. CASE Store
  <2>1. phase = "run" /\ UNCHANGED <<loopVars, machVars>>
    BY <1>2 DEF Store, Stepping
  <2> QED
    BY <1>2, <2>1, WriteKeeps DEF Store
<1>3. CASE Call \/ CPush \/ CPop
  <2>1. phase = "run" /\ UNCHANGED <<loopVars, machVars>>
    BY <1>3 DEF Call, CPush, CPop, Stepping
  <2>2. CASE \E i \in Idx, o \in Off, v \in Val : Write(cur, i, o, v)
    BY <2>1, <2>2, WriteKeeps
  <2>3. CASE UNCHANGED memVars
    BY <2>1, <2>3, UntouchedKeeps DEF loopVars, machVars, memVars
  <2> QED
    BY <1>3, <2>2, <2>3 DEF Call, CPush, CPop
<1>4. CASE Fork \/ Branch \/ CFork \/ CBranch
  <2>1. phase = "run" /\ UNCHANGED loopVars
    BY <1>4 DEF Fork, Branch, CFork, CBranch, Stepping
  <2>2. CASE UNCHANGED <<machVars, memVars>>
    BY <2>1, <2>2, UntouchedKeeps DEF loopVars, machVars, memVars
  <2>3. CASE \E n \in Mach, orig \in Regs, child \in Regs, e \in Errors :
               Copy(cur, n) /\ (Enqueue(n, orig, child) \/ Drop(n, orig, e, child))
    BY <2>1, <2>3, CopyKeeps DEF Enqueue, Drop
  <2> QED
    BY <1>4, <2>2, <2>3, CopyingCases
<1>5. CASE Dequeue
  BY <1>5, DequeueKeeps
<1>6. CASE FreeSlot
  BY <1>6, FreeSlotKeeps
<1>7. CASE FreeMach
  BY <1>7, FreeMachKeeps
<1>8. CASE Return
  BY <1>8 DEF Return, Running
<1>9. CASE UNCHANGED vars
  BY <1>9, UntouchedKeeps DEF vars, loopVars, machVars, memVars
<1> QED
  BY <1>1, <1>2, <1>3, <1>4, <1>5, <1>6, <1>7, <1>8, <1>9 DEF Next, Returned

\* A run that has returned takes no further step.
LEMMA NeverResumed == ASSUME TypeInv, [Next]_vars, Running' PROVE Running
<1> SUFFICES ASSUME phase = "done" PROVE phase' = "done"
  BY DEF Running
<1> QED
  BY DEF Next, LimitHit, Stop, Store, Jump, Call, CPush, CPop, Ret, Fork, Branch, CFork, CBranch,
         Stepping, Dequeue, Handling, FreeSlot, FreeMach, Return, Returned,
         vars, loopVars

\* The inductive invariant of the specification.
THEOREM Safety == Spec => []SafeInv
<1>1. Init => SafeInv
  BY InitType, InitRefInv DEF SafeInv
<1>2. SafeInv /\ [Next]_vars => SafeInv'
  BY StepType, StepRefInv, NeverResumed DEF SafeInv
<1> QED
  BY <1>1, <1>2, PTL DEF Spec

\* copy(), ref(), free() and the operations that fail after they copied keep the
\* reference count of every page equal to the number of machines that hold it.
THEOREM RefCountCorrect == Spec => []RefCountExact
<1>1. SafeInv => RefCountExact
  BY DEF SafeInv, RefInv, HolderCounts, RefCountExact
<1> QED
  BY <1>1, Safety, PTL

\* copy() and ref() never put a page at a second index.
THEOREM OneHomeCorrect == Spec => []OneHome
<1>1. SafeInv => OneHome
  BY DEF SafeInv, RefInv, HomeUnique, OneHome
<1> QED
  BY <1>1, Safety, PTL

\* The allocators never hand out a machine or a page that is in use.
THEOREM PoolsCorrect == Spec => []PoolsDisjoint
<1>1. SafeInv => PoolsDisjoint
  BY DEF SafeInv, RefInv, MachsApart, PagesApart, PoolsDisjoint
<1> QED
  BY <1>1, Safety, PTL

\* free() and the growth of m.pages leave no page pointer where copy(), which
\* does not assign nil slots, would let it show up again.
THEOREM SpareSlotsCorrect == Spec => []SpareSlotsNil
<1>1. SafeInv => SpareSlotsNil
  BY DEF SafeInv, RefInv, SpareNil, SpareSlotsNil
<1> QED
  BY <1>1, Safety, PTL

-----------------------------------------------------------------------------
(* Isolation of the copies *)

\* A step that leaves a machine's slice of pages, and the data of the pages it
\* holds, alone does not change what it reads.
LEMMA MemoryUnchanged ==
  ASSUME TypeInv, NEW m \in Mach,
         slots'[m] = slots[m], plen'[m] = plen[m],
         \A p \in Page : m \in Holders(p) => d'[p] = d[p]
  PROVE  Memory(m)' = Memory(m)
<1>1. \A i \in Idx : slots[m][i] # NoPage =>
        slots[m][i] \in Page /\ m \in Holders(slots[m][i])
  BY DEF TypeInv, TypeOK, Holders
<1>2. \A i \in Idx : (IF i < plen'[m] /\ slots'[m][i] # NoPage
                      THEN d'[slots'[m][i]] ELSE Blank)
                   = (IF i < plen[m] /\ slots[m][i] # NoPage
                      THEN d[slots[m][i]] ELSE Blank)
  BY <1>1
<1> QED
  BY <1>2 DEF Memory

\* A write of the running machine does not reach a machine that waits.
LEMMA WriteIsolated ==
  ASSUME TypeInv, RefInv, NEW i \in Idx, NEW o \in Off, NEW v \in Val,
         Write(cur, i, o, v), NEW m \in Mach, m # cur
  PROVE  Memory(m)' = Memory(m)
<1>1. /\ slots \in [Mach -> [Idx -> Page \cup {NoPage}]]
      /\ plen \in [Mach -> 0 .. NPages] /\ cur \in Mach
  BY DEF TypeInv, TypeOK
<1>2. /\ slots'[m] = slots[m] /\ plen'[m] = plen[m]
      /\ \E p \in Page : m \notin Holders(p) /\ \A q \in Page \ {p} : d'[q] = d[q]
  <2>1. CASE /\ UNCHANGED <<slots, plen, r, freePages>>
             /\ \E p \in Page : /\ Holders(p) = {cur}
                                /\ \A q \in Page \ {p} : d'[q] = d[q]
    BY <2>1
  <2>2. CASE \E p \in Page :
               /\ AllocPage(p)
               /\ slots' = [slots EXCEPT ![cur][i] = p]
               /\ plen' = [plen EXCEPT ![cur] = IF i < @ THEN @ ELSE i + 1]
               /\ \A q \in Page \ {p} : d'[q] = d[q]
    <3>1. PICK p \in Page :
               /\ AllocPage(p)
               /\ slots' = [slots EXCEPT ![cur][i] = p]
               /\ plen' = [plen EXCEPT ![cur] = IF i < @ THEN @ ELSE i + 1]
               /\ \A q \in Page \ {p} : d'[q] = d[q]
      BY <2>2
    <3>2. Holders(p) = {}
      BY <3>1, AllocatedPage DEF RefInv
    <3> QED
      BY <1>1, <3>1, <3>2
  <2> QED
    BY <1>1, <2>1, <2>2, WriteCases
<1>3. \A p \in Page : m \in Holders(p) => d'[p] = d[p]
  BY <1>2
<1> QED
  BY <1>2, <1>3, MemoryUnchanged

\* fork(), branch(), cfork() and cbranch() change the slice of no machine in use.
LEMMA CopyIsolated ==
  ASSUME TypeInv, RefInv, NEW n \in Mach, Copy(cur, n),
         NEW m \in Mach, m \in Owners
  PROVE  Memory(m)' = Memory(m)
<1>1. /\ slots \in [Mach -> [Idx -> Page \cup {NoPage}]]
      /\ plen \in [Mach -> 0 .. NPages]
  BY DEF TypeInv, TypeOK
<1>2. n \notin Owners
  BY AllocatedMach DEF Copy
<1>3. slots'[m] = slots[m] /\ plen'[m] = plen[m] /\ d' = d
  BY <1>1, <1>2 DEF Copy, CopyPages
<1> QED
  BY <1>3, MemoryUnchanged

\* No step changes the memory of a machine that waits to run.
LEMMA StepIsolated ==
  ASSUME TypeInv, RefInv, [Next]_vars, NEW m \in Waiting, Running'
  PROVE  Memory(m)' = Memory(m)
<1>1. /\ slots \in [Mach -> [Idx -> Page \cup {NoPage}]]
      /\ plen \in [Mach -> 0 .. NPages]
  BY DEF TypeInv, TypeOK
<1>2. m \in Mach /\ m \in Owners /\ m # cur
  <2>1. Queued \subseteq Mach
    BY RangeOfSeq DEF TypeInv, TypeOK, Queued
  <2> QED
    BY <2>1 DEF Waiting, Owners, TypeInv, TypeOK, RefInv, MachsApart
<1>3. CASE UNCHANGED <<slots, plen, d>>
  BY <1>2, <1>3, MemoryUnchanged
<1>4. CASE \E i \in Idx, o \in Off, v \in Val : Write(cur, i, o, v)
  BY <1>2, <1>4, WriteIsolated
<1>5. CASE \E n \in Mach : Copy(cur, n)
  BY <1>2, <1>5, CopyIsolated
<1>6. CASE FreeSlot
  <2>1. slots'[m] = slots[m] /\ plen' = plen /\ d' = d
    BY <1>1, <1>2, <1>6 DEF FreeSlot, Cleared
  <2> QED
    BY <1>2, <2>1, MemoryUnchanged
<1>7. CASE FreeMach
  <2>1. slots' = slots /\ plen'[m] = plen[m] /\ d' = d
    BY <1>1, <1>2, <1>7 DEF FreeMach
  <2> QED
    BY <1>2, <2>1, MemoryUnchanged
<1>8. CASE LimitHit \/ Stop \/ Jump \/ Ret \/ Dequeue \/ UNCHANGED vars
  BY <1>3, <1>8 DEF LimitHit, Stop, Jump, Ret, Dequeue, vars, memVars
<1>9. CASE Store \/ Call \/ CPush \/ CPop
  BY <1>3, <1>4, <1>9 DEF Store, Call, CPush, CPop, memVars
<1>10. CASE Fork \/ Branch \/ CFork \/ CBranch
  <2>1. CASE UNCHANGED <<machVars, memVars>>
    BY <1>3, <2>1 DEF memVars
  <2> QED
    BY <1>5, <1>10, <2>1, CopyingCases
<1>11. CASE Return
  BY <1>11 DEF Return, Running
<1> QED
  BY <1>6, <1>7, <1>8, <1>9, <1>10, <1>11 DEF Next, Returned

\* The copies a run has made share pages, yet a step of one machine is never
\* seen by another that waits for its turn.
THEOREM IsolationCorrect == Spec => Isolation
<1>1. SafeInv /\ SafeInv' /\ [Next]_vars
        => [\A m \in Waiting : Running' => Memory(m)' = Memory(m)]_vars
  BY StepIsolated, NeverResumed DEF SafeInv
<1> QED
  BY <1>1, Safety, PTL DEF Spec, Isolation

\* A copy that is queued reads what the original reads at that moment.
LEMMA StepSnapshot ==
  ASSUME TypeInv, RefInv, [Next]_vars, NEW m \in Queued', m \notin Queued
  PROVE  Memory(m)' = Memory(cur)'
<1>1. /\ slots \in [Mach -> [Idx -> Page \cup {NoPage}]]
      /\ plen \in [Mach -> 0 .. NPages] /\ cur \in Mach /\ queue \in Seq(Mach)
  BY DEF TypeInv, TypeOK
<1>2. CASE Fork \/ Branch \/ CFork \/ CBranch
  <2>1. CASE UNCHANGED <<machVars, memVars>>
    BY <2>1 DEF machVars, Queued
  <2>2. CASE \E n \in Mach, orig \in Regs, child \in Regs, e \in Errors :
               Copy(cur, n) /\ (Enqueue(n, orig, child) \/ Drop(n, orig, e, child))
    <3>1. PICK n \in Mach : /\ Copy(cur, n)
                            /\ queue' = Append(queue, n) \/ queue' = queue
      BY <2>2 DEF Enqueue, Drop
    <3>2. Range(Append(queue, n)) = Range(queue) \cup {n}
      BY <1>1, PutLast
    <3>3. m = n
      BY <3>1, <3>2 DEF Queued
    <3>4. n \notin Owners \cup lost /\ n # cur
      BY <3>1, AllocatedMach DEF Copy, Owners
    <3>5. slots' = [slots EXCEPT ![n] = slots[cur]]
      BY <1>1, <3>1, <3>4, CopyEffect DEF Copy
    <3>6. plen' = [plen EXCEPT ![n] = plen[cur]] /\ d' = d
      BY <3>1 DEF Copy, CopyPages
    <3>7. cur' = cur
      BY <1>2 DEF Fork, Branch, CFork, CBranch, loopVars
    <3>8. /\ slots'[n] = slots[cur] /\ plen'[n] = plen[cur]
          /\ slots'[cur] = slots[cur] /\ plen'[cur] = plen[cur]
      BY <1>1, <3>1, <3>4, <3>5, <3>6
    <3> QED
      BY <3>3, <3>7, <3>8 DEF Memory
  <2> QED
    BY <1>2, <2>1, <2>2, CopyingCases
<1>3. CASE Dequeue
  <2>1. Range(queue) = Range(Front(queue)) \cup {Last(queue)}
    BY <1>1, <1>3, TakeLast DEF Dequeue
  <2> QED
    BY <1>3, <2>1 DEF Dequeue, Queued
<1>4. CASE UNCHANGED queue
  BY <1>4 DEF Queued
<1> QED
  BY <1>2, <1>3, <1>4
  DEF Next, LimitHit, Stop, Store, Jump, Call, CPush, CPop, Ret, FreeSlot, FreeMach, Return,
      Returned, vars, machVars

\* A run that has returned queues nothing.
LEMMA NoneQueuedDone ==
  ASSUME TypeInv, [Next]_vars, ~Running
  PROVE  Queued' = Queued
<1>1. phase = "done"
  BY DEF Running
<1> QED
  BY <1>1 DEF Next, LimitHit, Stop, Store, Jump, Call, CPush, CPop, Ret, Fork, Branch, CFork, CBranch,
         Stepping, Dequeue, Handling, FreeSlot, FreeMach, Return, Returned,
         vars, machVars, Queued

\* What fork, branch, cfork and cbranch queue is an exact snapshot, even when the
\* struct and the pages it is made of were used before.
THEOREM SnapshotCorrect == Spec => CopyIsSnapshot
<1>1. SafeInv /\ [Next]_vars
        => [\A m \in Queued' \ Queued : Memory(m)' = Memory(cur)']_vars
  BY StepSnapshot, NoneQueuedDone DEF SafeInv
<1> QED
  BY <1>1, Safety, PTL DEF Spec, CopyIsSnapshot

-----------------------------------------------------------------------------
(***************************************************************************)
(* Machines implements AbsRun, for every value of the constants: to the    *)
(* program, a run of machines with copy-on-write pages, reference counts   *)
(* and recycled structs is one of machines that own their memory.          *)
(***************************************************************************)

(* What AbsRun's variables stand for *)

AbsRunning == Seen(IF phase = "free" THEN next ELSE cur)
AbsPending == IF Running THEN [i \in 1 .. Len(queue) |-> Seen(queue[i])] ELSE <<>>
AbsResult == IF Running THEN [returned |-> FALSE] ELSE Seen(Root)

\* A machine with the memory mem and the registers g.
View(mem, g) == [mem |-> mem, ip |-> g.ip, ctl |-> g.ctl, err |-> g.err, count |-> g.count]

\* A sequence that is one longer and agrees up to its last element.
LEMMA Appended ==
  ASSUME NEW L \in Nat, NEW s, NEW t, NEW e, s = [i \in 1 .. L |-> s[i]],
         t = [i \in 1 .. L + 1 |-> IF i = L + 1 THEN e ELSE s[i]]
  PROVE  t = Append(s, e)
<1> DEFINE S == {s[i] : i \in 1 .. L} \cup {e}
<1>1. s \in Seq(S) /\ Len(s) = L
  BY SeqDef, LenProperties, s \in [1 .. L -> S]
<1>2. t \in Seq(S) /\ Len(t) = L + 1
  BY SeqDef, LenProperties, t \in [1 .. L + 1 -> S]
<1>3. /\ Append(s, e) \in Seq(S) /\ Len(Append(s, e)) = L + 1
      /\ \A i \in 1 .. L : Append(s, e)[i] = s[i]
      /\ Append(s, e)[L + 1] = e
  BY <1>1, AppendProperties
<1>4. \A i \in 1 .. L + 1 : Append(s, e)[i] = t[i]
  <2>1. \A i \in 1 .. L + 1 : t[i] = IF i = L + 1 THEN e ELSE s[i]
    OBVIOUS
  <2>2. \A i \in 1 .. L + 1 : i = L + 1 \/ i \in 1 .. L
    OBVIOUS
  <2> HIDE DEF S
  <2> QED
    BY ONLY <1>3, <2>1, <2>2
<1> HIDE DEF S
<1> QED
  BY <1>2, <1>3, <1>4, SeqEqual

\* A machine whose memory and registers a step leaves alone looks the same.
LEMMA SeenSame ==
  ASSUME NEW m, Memory(m)' = Memory(m), regs'[m] = regs[m]
  PROVE  Seen(m)' = Seen(m)
BY DEF Seen

\* Machines in the queue look the same after a step that does not write theirs.
LEMMA PendingSame ==
  ASSUME TypeInv, Running, Running', queue' = queue,
         \A m \in Queued : Seen(m)' = Seen(m)
  PROVE  AbsPending' = AbsPending
<1>1. queue \in Seq(Mach) /\ DOMAIN queue = 1 .. Len(queue)
  BY LenProperties DEF TypeInv, TypeOK
<1>2. \A i \in 1 .. Len(queue) : queue[i] \in Queued
  BY <1>1 DEF Queued, Range
<1>3. \A i \in 1 .. Len(queue) : Seen(queue[i])' = Seen(queue[i])
  <2> SUFFICES ASSUME NEW i \in 1 .. Len(queue) PROVE Seen(queue[i])' = Seen(queue[i])
    OBVIOUS
  <2> DEFINE m == queue[i]
  <2>1. Seen(m)' = Seen(m)
    BY <1>2
  <2> QED
    BY <2>1
<1> QED
  BY <1>3 DEF AbsPending

\* The abstract LIFO is as long as the queue.
LEMMA PendingLen ==
  ASSUME TypeInv, Running
  PROVE  /\ Len(queue) \in Nat /\ DOMAIN queue = 1 .. Len(queue)
         /\ Len(AbsPending) = Len(queue)
         /\ AbsPending = <<>> <=> queue = <<>>
         /\ AbsPending \in Seq({Seen(m) : m \in Mach})
         /\ \A i \in 1 .. Len(queue) : AbsPending[i] = Seen(queue[i])
<1>1. queue \in Seq(Mach)
  BY DEF TypeInv, TypeOK
<1>2. Len(queue) \in Nat /\ DOMAIN queue = 1 .. Len(queue) /\ \A i \in 1 .. Len(queue) : queue[i] \in Mach
  BY <1>1, LenProperties, ElementOfSeq
<1> DEFINE P == [i \in 1 .. Len(queue) |-> Seen(queue[i])]
<1>3. P \in Seq({Seen(m) : m \in Mach}) /\ Len(P) = Len(queue)
  <2>1. P \in [1 .. Len(queue) -> {Seen(m) : m \in Mach}]
    BY <1>2
  <2> QED
    BY <1>2, <2>1, SeqDef, LenProperties
<1>4. P = <<>> <=> queue = <<>>
  BY <1>1, <1>3, EmptySeq
<1> QED
  BY <1>2, <1>3, <1>4 DEF AbsPending

-----------------------------------------------------------------------------
(* What an operation does to the machine that executes it *)

\* Whether a write goes to the page in place, to a copy of it or to a new page,
\* the machine finds the word it wrote and every other word as it was.
LEMMA WriteView ==
  ASSUME TypeInv, RefInv, NEW m \in Mach, NEW i \in Idx, NEW o \in Off, NEW v \in Val,
         Write(m, i, o, v)
  PROVE  Memory(m)' = [Memory(m) EXCEPT ![i][o] = v]
<1>1. /\ slots \in [Mach -> [Idx -> Page \cup {NoPage}]]
      /\ plen \in [Mach -> 0 .. NPages]
      /\ d \in [Page -> [Off -> Val]]
      /\ i \in Int /\ Idx \subseteq Int
  BY NPagesAssumption DEF TypeInv, TypeOK, Idx
<1>2. Blank \in [Off -> Val]
  BY DataAssumption DEF Blank
<1>3. \A j \in Idx : j >= plen[m] => slots[m][j] = NoPage
  BY DEF RefInv, SpareNil
<1>4. \A j, k \in Idx : slots[m][j] # NoPage /\ slots[m][j] = slots[m][k] => j = k
  BY <1>1 DEF RefInv, HomeUnique
<1> DEFINE Was(j) == IF j < plen[m] /\ slots[m][j] # NoPage THEN d[slots[m][j]] ELSE Blank
           Is(j) == IF j < plen'[m] /\ slots'[m][j] # NoPage THEN d'[slots'[m][j]] ELSE Blank
<1>5. /\ Memory(m) = [j \in Idx |-> Was(j)]
      /\ Memory(m)' = [j \in Idx |-> Is(j)]
  BY DEF Memory
<1>6. \A j \in Idx : Was(j) \in [Off -> Val]
  BY <1>1, <1>2
<1>7. \A j \in Idx : Is(j) = IF j = i THEN [Was(j) EXCEPT ![o] = v] ELSE Was(j)
  <2>1. CASE Create(m, i, o, v)
    <3>1. PICK p \in Page :
            /\ AllocPage(p)
            /\ d' = [d EXCEPT ![p] = [Allocated(p) EXCEPT ![o] = v]]
            /\ slots' = [slots EXCEPT ![m] =
                           IF i < plen[m] THEN [@ EXCEPT ![i] = p]
                           ELSE [j \in Idx |-> IF j = i THEN p
                                               ELSE IF j < plen[m] THEN @[j] ELSE NoPage]]
      BY <2>1 DEF Create
    <3>2. \A j \in Idx : slots[m][j] # p
      BY <3>1, AllocatedPage DEF RefInv, Holders
    <3>3. slots[m][i] = NoPage
      BY <1>3, <2>1 DEF Create
    <3>4. \A j \in Idx : slots'[m][j] = IF j = i THEN p ELSE slots[m][j]
      BY <1>1, <1>3, <3>1
    <3>5. plen'[m] = IF i < plen[m] THEN plen[m] ELSE i + 1
      BY <1>1, <2>1 DEF Create
    <3>6. p # NoPage /\ d'[p] = [Blank EXCEPT ![o] = v]
      BY <1>1, <3>1, PageAssumption DEF Allocated
    <3>7. \A q \in Page \ {p} : d'[q] = d[q]
      BY <1>1, <3>1
    <3>8. Is(i) = [Was(i) EXCEPT ![o] = v]
      BY <1>1, <3>3, <3>4, <3>5, <3>6
    <3>9. ASSUME NEW j \in Idx, j # i PROVE Is(j) = Was(j)
      BY <1>1, <1>3, <3>2, <3>4, <3>5, <3>7, <3>9
    <3> QED
      BY <3>8, <3>9
  <2>2. CASE CopyOnWrite(m, i, o, v)
    <3>1. PICK p \in Page :
            /\ AllocPage(p)
            /\ d' = [d EXCEPT ![p] = [d[slots[m][i]] EXCEPT ![o] = v]]
            /\ slots' = [slots EXCEPT ![m][i] = p]
      BY <2>2 DEF CopyOnWrite
    <3>2. \A j \in Idx : slots[m][j] # p
      BY <3>1, AllocatedPage DEF RefInv, Holders
    <3>3. /\ plen' = plen /\ i < plen[m] /\ slots[m][i] # NoPage /\ p # NoPage
          /\ \A j \in Idx : slots'[m][j] = IF j = i THEN p ELSE slots[m][j]
      BY <1>1, <2>2, <3>1, PageAssumption DEF CopyOnWrite
    <3>4. /\ d'[p] = [d[slots[m][i]] EXCEPT ![o] = v]
          /\ \A q \in Page \ {p} : d'[q] = d[q]
      BY <1>1, <3>1
    <3>5. Is(i) = [Was(i) EXCEPT ![o] = v]
      BY <3>3, <3>4
    <3>6. ASSUME NEW j \in Idx, j # i PROVE Is(j) = Was(j)
      BY <1>1, <3>2, <3>3, <3>4, <3>6
    <3> QED
      BY <3>5, <3>6
  <2>3. CASE WriteInPlace(m, i, o, v)
    <3>1. /\ plen' = plen /\ slots' = slots /\ i < plen[m] /\ slots[m][i] \in Page
          /\ d' = [d EXCEPT ![slots[m][i]][o] = v]
      BY <1>1, <2>3 DEF WriteInPlace
    <3>2. /\ d'[slots[m][i]] = [d[slots[m][i]] EXCEPT ![o] = v]
          /\ \A q \in Page \ {slots[m][i]} : d'[q] = d[q]
      BY <1>1, <3>1
    <3>3. Is(i) = [Was(i) EXCEPT ![o] = v]
      BY <3>1, <3>2, PageAssumption
    <3>4. ASSUME NEW j \in Idx, j # i PROVE Is(j) = Was(j)
      BY <1>1, <1>4, <3>1, <3>2, <3>4
    <3> QED
      BY <3>3, <3>4
  <2> QED
    BY <2>1, <2>2, <2>3 DEF Write
<1> HIDE DEF Was, Is
<1> QED
  BY <1>5, <1>6, <1>7

\* The other machines keep their registers while one executes.
LEMMA QueuedApart ==
  ASSUME TypeInv, RefInv, NEW m \in Queued
  PROVE  m \in Mach /\ m # cur /\ m # next /\ m \in Waiting /\ m \in Owners
<1>1. Queued \subseteq Mach
  BY RangeOfSeq DEF TypeInv, TypeOK, Queued
<1> QED
  BY <1>1 DEF RefInv, MachsApart, Waiting, Owners

\* An operation that makes no copy shows only in the machine that executes it.
LEMMA Executes ==
  ASSUME TypeInv, RefInv, [Next]_vars, phase = "run",
         UNCHANGED <<loopVars, queue>>,
         NEW g, Runs(g), NEW mem, Memory(cur)' = mem
  PROVE  /\ AbsRunning = View(Memory(cur), regs[cur]) /\ AbsRunning' = View(mem, g)
         /\ AbsPending' = AbsPending /\ AbsResult' = AbsResult /\ Running /\ Running'
<1>1. cur \in Mach /\ regs \in [Mach -> Regs] /\ cur' = cur /\ phase' = "run"
  BY DEF TypeInv, TypeOK, loopVars
<1>2. regs'[cur] = g /\ \A m \in Mach : m # cur => regs'[m] = regs[m]
  BY <1>1 DEF Runs
<1>3. AbsRunning = View(Memory(cur), regs[cur]) /\ AbsRunning' = View(mem, g)
  BY <1>1, <1>2 DEF AbsRunning, Seen, View
<1>4. Running /\ Running'
  BY <1>1 DEF Running
<1>5. ASSUME NEW m \in Queued PROVE Seen(m)' = Seen(m)
  <2>1. m \in Mach /\ m # cur /\ m \in Waiting
    BY QueuedApart
  <2>2. Memory(m)' = Memory(m)
    BY <1>4, <2>1, StepIsolated
  <2> QED
    BY <1>2, <2>1, <2>2, SeenSame
<1>6. queue' = queue
  OBVIOUS
<1>7. AbsPending' = AbsPending
  BY <1>4, <1>5, <1>6, PendingSame
<1> QED
  BY <1>3, <1>4, <1>7 DEF AbsResult

\* The copy that is queued is the last of the LIFO, with the memory that the
\* original has; nothing else shows, and a copy that is dropped does not.
LEMMA Copies ==
  ASSUME TypeInv, RefInv, phase = "run", UNCHANGED loopVars,
         NEW n \in Mach, Copy(cur, n), NEW orig, NEW child, NEW e
  PROVE  /\ AbsRunning = View(Memory(cur), regs[cur]) /\ AbsResult' = AbsResult
         /\ Running /\ Running' /\ Len(AbsPending) = Len(queue)
         /\ Enqueue(n, orig, child) =>
              /\ AbsRunning' = View(Memory(cur), orig)
              /\ AbsPending' = Append(AbsPending, View(Memory(cur), child))
         /\ Drop(n, orig, e, child) =>
              /\ AbsRunning' = View(Memory(cur), [orig EXCEPT !.err = e])
              /\ AbsPending' = AbsPending
<1>1. /\ cur \in Mach /\ regs \in [Mach -> Regs] /\ cur' = cur /\ phase' = "run"
      /\ queue \in Seq(Mach)
      /\ slots \in [Mach -> [Idx -> Page \cup {NoPage}]]
      /\ plen \in [Mach -> 0 .. NPages]
  BY DEF TypeInv, TypeOK, loopVars
<1>2. /\ n # cur /\ n \notin Queued /\ n \notin Owners \cup lost
      /\ Memory(cur)' = Memory(cur)
  BY <1>1, AllocatedMach, CopyIsolated DEF Copy, Owners
<1>3. Running /\ Running' /\ AbsResult' = AbsResult
      /\ AbsRunning = View(Memory(cur), regs[cur])
  BY <1>1 DEF Running, AbsResult, AbsRunning, Seen, View
<1>4. Len(AbsPending) = Len(queue)
  BY <1>3, PendingLen
<1>5. Memory(n)' = Memory(cur)
  <2>1. slots' = [slots EXCEPT ![n] = slots[cur]]
    BY <1>1, <1>2, CopyEffect DEF Copy
  <2>2. slots'[n] = slots[cur] /\ plen'[n] = plen[cur] /\ d' = d
    BY <1>1, <2>1 DEF Copy, CopyPages
  <2> QED
    BY <2>2 DEF Memory
<1>6. ASSUME \A m \in Mach \ {n, cur} : regs'[m] = regs[m], NEW m \in Queued
      PROVE  Seen(m)' = Seen(m)
  <2>1. m \in Mach /\ m # cur /\ m # n /\ m \in Owners
    BY <1>2, QueuedApart
  <2>2. Memory(m)' = Memory(m)
    BY <2>1, CopyIsolated
  <2> QED
    BY <1>6, <2>1, <2>2, SeenSame
<1>7. ASSUME Enqueue(n, orig, child)
      PROVE  /\ AbsRunning' = View(Memory(cur), orig)
             /\ AbsPending' = Append(AbsPending, View(Memory(cur), child))
  <2>1. /\ regs' = [regs EXCEPT ![cur] = orig, ![n] = child]
        /\ queue' = Append(queue, n)
    BY <1>7 DEF Enqueue
  <2>2. /\ regs'[cur] = orig /\ regs'[n] = child
        /\ \A m \in Mach \ {n, cur} : regs'[m] = regs[m]
    BY <1>1, <1>2, <2>1
  <2>3. AbsRunning' = View(Memory(cur), orig)
    BY <1>1, <1>2, <2>2 DEF AbsRunning, Seen, View
  <2>4. Seen(n)' = View(Memory(cur), child)
    BY <1>5, <2>2 DEF Seen, View
  <2> DEFINE L == Len(queue)
             new == View(Memory(cur), child)
  <2>5. /\ L \in Nat /\ DOMAIN queue = 1 .. L /\ Len(queue') = L + 1
        /\ \A i \in 1 .. L : queue'[i] = queue[i]
        /\ queue'[L + 1] = n
    BY <1>1, <2>1, LenProperties, AppendProperties
  <2>6. ASSUME NEW i \in 1 .. L PROVE Seen(queue[i])' = Seen(queue[i])
    <3>1. PICK m \in Queued : m = queue[i] /\ m = queue'[i]
      BY <2>5 DEF Queued, Range
    <3>2. Seen(m)' = Seen(m)
      BY <1>6, <2>2
    <3>3. Seen(queue[i])' = Seen(m)'
      BY <3>1 DEF Seen, Memory
    <3> QED
      BY <3>1, <3>2, <3>3
  <2>7. /\ AbsPending' = [i \in 1 .. L + 1 |-> Seen(queue[i])']
        /\ AbsPending = [i \in 1 .. L |-> Seen(queue[i])]
    BY <1>3, <2>5 DEF AbsPending
  <2>8. ASSUME NEW i, i = L + 1 PROVE Seen(queue[i])' = new
    <3>1. PICK m \in Mach : m = n /\ m = queue'[i]
      BY <2>5, <2>8
    <3>2. Seen(queue[i])' = Seen(m)'
      BY <3>1 DEF Seen, Memory
    <3> QED
      BY <2>4, <3>1, <3>2
  <2>9. AbsPending' = Append(AbsPending, new)
    <3>1. \A i \in 1 .. L + 1 : AbsPending'[i] = IF i = L + 1 THEN new ELSE AbsPending[i]
      BY <2>5, <2>6, <2>7, <2>8
    <3>2. /\ AbsPending = [i \in 1 .. L |-> AbsPending[i]]
          /\ AbsPending' = [i \in 1 .. L + 1 |-> IF i = L + 1 THEN new ELSE AbsPending[i]]
      BY <2>7, <3>1
    <3> QED
      BY <2>5, <3>2, Appended
  <2> QED
    BY <2>3, <2>9
<1>8. ASSUME Drop(n, orig, e, child)
      PROVE  /\ AbsRunning' = View(Memory(cur), [orig EXCEPT !.err = e])
             /\ AbsPending' = AbsPending
  <2>1. /\ regs' = [regs EXCEPT ![cur] = [orig EXCEPT !.err = e], ![n] = child]
        /\ queue' = queue
    BY <1>8 DEF Drop
  <2>2. /\ regs'[cur] = [orig EXCEPT !.err = e]
        /\ \A m \in Mach \ {n, cur} : regs'[m] = regs[m]
    BY <1>1, <1>2, <2>1
  <2>3. AbsRunning' = View(Memory(cur), [orig EXCEPT !.err = e])
    BY <1>1, <1>2, <2>2 DEF AbsRunning, Seen, View
  <2>4. AbsPending' = AbsPending
    BY <1>3, <1>6, <2>1, <2>2, PendingSame
  <2> QED
    BY <2>3, <2>4
<1> QED
  BY <1>3, <1>4, <1>7, <1>8

-----------------------------------------------------------------------------
(* Every step is a step of the abstract run, or none *)

\* A machine that executes an operation is live in the abstract run, and counted.
LEMMA LiveNow ==
  ASSUME TypeInv, Stepping
  PROVE  /\ Abs!Live /\ Abs!InLimit
         /\ Abs!Counted = View(Memory(cur), Counted)
         /\ Counted \in Regs /\ Counted.err = "nil" /\ phase = "run"
         /\ AbsRunning = View(Memory(cur), regs[cur])
         /\ AbsRunning.ctl = Counted.ctl
<1>1. /\ phase = "run" /\ Running /\ regs[cur] \in Regs /\ regs[cur].err = "nil"
      /\ AbsRunning = View(Memory(cur), regs[cur])
  BY DEF Stepping, TypeInv, TypeOK, Running, AbsRunning, Seen, View
<1>2. Abs!Live /\ Abs!InLimit
  BY <1>1 DEF Abs!Live, Abs!InLimit, Stepping, InLimit, Seen
<1>3. Abs!Counted = [AbsRunning EXCEPT !.count = IF Limit = 0 THEN @ ELSE @ + 1]
  BY DEF Abs!Counted, AbsRunning
<1>4. Abs!Counted = View(Memory(cur), Counted) /\ AbsRunning.ctl = Counted.ctl
  BY <1>1, <1>3 DEF View, Counted, Regs
<1> QED
  BY <1>1, <1>2, <1>4, CountedType

\* What Machines assigns, field by field.
Erred(g, e) == [g EXCEPT !.err = e]
Gone(g, t) == [g EXCEPT !.ip = t]
Deeper(g) == [g EXCEPT !.ctl = @ + 1]
Written(mem, i, o, v) == [mem EXCEPT ![i][o] = v]

\* Assignments to the registers and to a word are assignments to what is seen.
LEMMA ViewUpdate ==
  ASSUME NEW mem, NEW g \in Regs
  PROVE  /\ \A e : Abs!Failed(View(mem, g), e) = View(mem, Erred(g, e))
         /\ \A t : Abs!Jumped(View(mem, g), t) = View(mem, Gone(g, t))
         /\ Abs!Popped(View(mem, g)) = View(mem, Popped(g))
         /\ Abs!Pushed(View(mem, g)) = View(mem, Deeper(g))
         /\ \A i, o, v : Abs!Stored(View(mem, g), i, o, v) = View(Written(mem, i, o, v), g)
<1>1. PICK ip, ctl, err, count : g = [ip |-> ip, ctl |-> ctl, err |-> err, count |-> count]
  BY DEF Regs
<1>2. \A e : Abs!Failed(View(mem, g), e) = View(mem, Erred(g, e))
  BY <1>1 DEF View, Erred, Abs!Failed
<1>3. \A t : Abs!Jumped(View(mem, g), t) = View(mem, Gone(g, t))
  BY <1>1 DEF View, Gone, Abs!Jumped
<1>4. /\ Abs!Popped(View(mem, g)) = View(mem, Popped(g))
      /\ Abs!Pushed(View(mem, g)) = View(mem, Deeper(g))
  BY <1>1 DEF View, Popped, Deeper, Abs!Popped, Abs!Pushed
<1>5. \A i, o, v : Abs!Stored(View(mem, g), i, o, v) = View(Written(mem, i, o, v), g)
  BY <1>1 DEF View, Written, Abs!Stored
<1> QED
  BY <1>2, <1>3, <1>4, <1>5

\* The registers that operations compute are well typed.
LEMMA ComputedViews ==
  ASSUME TypeInv, Stepping
  PROVE  /\ Counted \in Regs
         /\ Counted.ctl > 0 => Popped(Counted) \in Regs
         /\ Counted.ctl < CtlCap => Deeper(Counted) \in Regs
BY CountedType, ComputedRegs DEF Deeper

\* LimitHit, Stop, Store, Jump, Call, CPush, CPop and Ret are those of the
\* abstract run.
LEMMA OperationAbs ==
  ASSUME TypeInv, RefInv, [Next]_vars,
         LimitHit \/ Stop \/ Store \/ Jump \/ Call \/ CPush \/ CPop \/ Ret
  PROVE  Abs!Next
<1> DEFINE mem == Memory(cur)
<1>1. /\ cur \in Mach /\ phase = "run" /\ UNCHANGED loopVars /\ UNCHANGED machVars
      /\ cur' = cur /\ queue' = queue /\ copies' = copies
      /\ slots \in [Mach -> [Idx -> Page \cup {NoPage}]] /\ plen \in [Mach -> 0 .. NPages]
  BY DEF TypeInv, TypeOK, LimitHit, Stop, Store, Jump, Call, CPush, CPop, Ret, Stepping,
         loopVars, machVars
<1>2. ASSUME NEW g, Runs(g), NEW new, Memory(cur)' = new
      PROVE  /\ AbsRunning' = View(new, g) /\ AbsPending' = AbsPending
             /\ AbsResult' = AbsResult /\ Running /\ Running'
             /\ AbsRunning = View(mem, regs[cur])
  BY <1>1, <1>2, Executes
<1>3. ASSUME UNCHANGED memVars PROVE Memory(cur)' = mem
  BY <1>1, <1>3 DEF Memory, memVars
<1>4. ASSUME NEW i \in Idx, NEW o \in Off, NEW v \in Val, Write(cur, i, o, v)
      PROVE  Memory(cur)' = Written(mem, i, o, v)
  <2>1. PICK m \in Mach : m = cur /\ m = cur'
    BY <1>1
  <2>2. Memory(m)' = [Memory(m) EXCEPT ![i][o] = v]
    BY <1>4, <2>1, WriteView
  <2>3. Memory(cur)' = Memory(m)'
    BY <2>1 DEF Memory
  <2> QED
    BY <2>1, <2>2, <2>3 DEF Written
<1>5. ASSUME NEW g, Runs(g), NEW new, Memory(cur)' = new
      PROVE  Abs!Runs(View(new, g)) /\ UNCHANGED <<AbsPending, copies>>
  BY <1>1, <1>2, <1>5 DEF Abs!Runs, AbsRunning, AbsResult
<1>6. ASSUME Stepping
      PROVE  /\ Abs!Live /\ Abs!InLimit /\ Abs!Counted = View(mem, Counted)
             /\ Counted \in Regs /\ Counted.err = "nil" /\ AbsRunning.ctl = Counted.ctl
             /\ Counted.ctl \in 0 .. CtlCap
  BY <1>6, LiveNow, CountedType
<1>7. ASSUME Stepping, UNCHANGED memVars, NEW e, Fails(e)
      PROVE  Abs!Fails(e) /\ UNCHANGED <<AbsPending, copies>>
  <2>1. Abs!Failed(Abs!Counted, e) = View(mem, Erred(Counted, e))
    BY <1>6, <1>7, ComputedViews, ViewUpdate
  <2>2. Abs!Runs(View(mem, Erred(Counted, e))) /\ UNCHANGED <<AbsPending, copies>>
    BY <1>3, <1>5, <1>7 DEF Fails, Erred
  <2> QED
    BY <2>1, <2>2 DEF Abs!Fails
<1>8. Idx = Abs!Idx
  BY DEF Idx, Abs!Idx
<1>9. CASE LimitHit
  <2>1. /\ Running /\ regs[cur] \in Regs /\ regs[cur].err = "nil" /\ ~InLimit(cur)
        /\ UNCHANGED memVars /\ Runs(Erred(regs[cur], "limit"))
    BY <1>1, <1>9 DEF LimitHit, Running, TypeInv, TypeOK, Erred
  <2>2. AbsRunning = View(mem, regs[cur])
    BY <1>2, <1>3, <2>1
  <2>3. Abs!Failed(AbsRunning, "limit") = View(mem, Erred(regs[cur], "limit"))
    BY <2>1, <2>2, ViewUpdate
  <2>4. /\ Abs!Runs(View(mem, Erred(regs[cur], "limit")))
        /\ UNCHANGED <<AbsPending, copies>>
    BY <1>3, <1>5, <2>1
  <2>5. AbsRunning.err = "nil" /\ AbsRunning.count = regs[cur].count
    BY <2>1, <2>2 DEF View
  <2>6. Abs!LimitHit
    BY <2>1, <2>3, <2>4, <2>5
    DEF Abs!LimitHit, Abs!Live, Abs!InLimit, AbsRunning, AbsPending, InLimit
  <2> QED
    BY <2>6 DEF Abs!Next
<1>10. CASE Stop
  <2>1. PICK e \in {"halt", "crash"} : Stepping /\ Fails(e) /\ UNCHANGED memVars
    BY <1>10 DEF Stop
  <2>2. Abs!Live /\ Abs!InLimit /\ Abs!Fails(e) /\ UNCHANGED <<AbsPending, copies>>
    BY <1>6, <1>7, <2>1
  <2>3. Abs!Stop
    BY <2>2 DEF Abs!Stop, AbsPending
  <2> QED
    BY <2>3 DEF Abs!Next
<1>11. CASE Store
  <2>1. PICK i \in Idx, o \in Off, v \in Val : Write(cur, i, o, v)
    BY <1>11 DEF Store
  <2>2. PICK e \in {"nil", "crash"} : Stepping /\ Runs(Erred(Counted, e))
    <3>1. PICK g : g = Counted
      OBVIOUS
    <3>2. g = [g EXCEPT !.err = "nil"]
      BY <1>6, <1>11, <3>1 DEF Store, Regs
    <3>3. Counted = Erred(Counted, "nil")
      BY <3>1, <3>2 DEF Erred
    <3> QED
      BY <1>11, <3>3 DEF Store, Fails, Erred
  <2>3. /\ Abs!Runs(View(Written(mem, i, o, v), Erred(Counted, e)))
        /\ UNCHANGED <<AbsPending, copies>>
    BY <1>4, <1>5, <2>1, <2>2
  <2>4. Abs!Failed(Abs!Stored(Abs!Counted, i, o, v), e)
          = View(Written(mem, i, o, v), Erred(Counted, e))
    BY <1>6, <2>2, ComputedViews, ViewUpdate
  <2>5. Abs!Store
    BY <1>6, <1>8, <2>2, <2>3, <2>4 DEF Abs!Store, AbsPending
  <2> QED
    BY <2>5 DEF Abs!Next
<1>12. CASE Jump
  <2>1. Stepping /\ UNCHANGED memVars
    BY <1>12 DEF Jump
  <2>2. CASE Fails("segv")
    <3>1. Abs!Jump
      BY <1>6, <1>7, <2>1, <2>2 DEF Abs!Jump, AbsPending
    <3> QED
      BY <3>1 DEF Abs!Next
  <2>3. CASE \E t \in Code : Runs(Gone(Counted, t))
    <3>1. PICK t \in Code : Runs(Gone(Counted, t))
      BY <2>3
    <3>2. Abs!Runs(View(mem, Gone(Counted, t))) /\ UNCHANGED <<AbsPending, copies>>
      BY <1>3, <1>5, <2>1, <3>1
    <3>3. Abs!Jumped(Abs!Counted, t) = View(mem, Gone(Counted, t))
      BY <1>6, <2>1, ComputedViews, ViewUpdate
    <3>4. Abs!Jump
      BY <1>6, <2>1, <3>2, <3>3 DEF Abs!Jump, AbsPending
    <3> QED
      BY <3>4 DEF Abs!Next
  <2> QED
    BY <1>12, <2>2, <2>3 DEF Jump, Gone
<1>13. CASE Call
  <2>1. Stepping
    BY <1>13 DEF Call
  <2>2. CASE (Fails("over") \/ Fails("segv")) /\ UNCHANGED memVars
    <3>1. Abs!Call
      BY <1>6, <1>7, <2>1, <2>2 DEF Abs!Call, AbsPending
    <3> QED
      BY <3>1 DEF Abs!Next
  <2>3. CASE /\ Counted.ctl < CtlCap
             /\ \E i \in Idx, o \in Off, v \in Val : Write(cur, i, o, v)
             /\ \E t \in Code : Runs(Gone(Deeper(Counted), t))
    <3>1. PICK i \in Idx, o \in Off, v \in Val, t \in Code :
            /\ Write(cur, i, o, v)
            /\ Runs(Gone(Deeper(Counted), t))
      BY <2>3
    <3>2. /\ Abs!Runs(View(Written(mem, i, o, v), Gone(Deeper(Counted), t)))
          /\ UNCHANGED <<AbsPending, copies>>
      BY <1>4, <1>5, <3>1
    <3>3. Abs!Jumped(Abs!Pushed(Abs!Stored(Abs!Counted, i, o, v)), t)
            = View(Written(mem, i, o, v), Gone(Deeper(Counted), t))
      BY <1>6, <2>1, <2>3, ComputedViews, ViewUpdate
    <3>4. Abs!Call
      BY <1>6, <1>8, <2>1, <2>3, <3>2, <3>3 DEF Abs!Call, AbsPending, AbsRunning
    <3> QED
      BY <3>4 DEF Abs!Next
  <2>4. \A t : [Counted EXCEPT !.ctl = @ + 1, !.ip = t] = Gone(Deeper(Counted), t)
    BY DEF Gone, Deeper
  <2>5. CASE Counted.ctl < CtlCap /\ \E t \in Code : Runs([Counted EXCEPT !.ctl = @ + 1, !.ip = t])
    <3>1. PICK t \in Code : Runs([Counted EXCEPT !.ctl = @ + 1, !.ip = t])
      BY <2>5
    <3>2. Runs(Gone(Deeper(Counted), t))
      BY <2>4, <3>1
    <3> QED
      BY <1>13, <2>2, <2>3, <2>5, <3>2 DEF Call
  <2> QED
    BY <1>13, <2>2, <2>5 DEF Call
<1>14. CASE CPush
  <2>1. Stepping
    BY <1>14 DEF CPush
  <2>2. CASE Fails("over") /\ UNCHANGED memVars
    <3>1. Abs!CPush
      BY <1>6, <1>7, <2>1, <2>2 DEF Abs!CPush, AbsPending
    <3> QED
      BY <3>1 DEF Abs!Next
  <2>3. CASE /\ Counted.ctl < CtlCap
             /\ \E i \in Idx, o \in Off, v \in Val : Write(cur, i, o, v)
             /\ Runs(Deeper(Counted))
    <3>1. PICK i \in Idx, o \in Off, v \in Val : Write(cur, i, o, v)
      BY <2>3
    <3>2. /\ Abs!Runs(View(Written(mem, i, o, v), Deeper(Counted)))
          /\ UNCHANGED <<AbsPending, copies>>
      BY <1>4, <1>5, <2>3, <3>1
    <3>3. Abs!Pushed(Abs!Stored(Abs!Counted, i, o, v))
            = View(Written(mem, i, o, v), Deeper(Counted))
      BY <1>6, <2>1, ComputedViews, ViewUpdate
    <3>4. Abs!CPush
      BY <1>6, <1>8, <2>1, <2>3, <3>2, <3>3 DEF Abs!CPush, AbsPending, AbsRunning
    <3> QED
      BY <3>4 DEF Abs!Next
  <2> QED
    BY <1>14, <2>2, <2>3 DEF CPush, Deeper
<1>15. CASE CPop
  <2>1. Stepping
    BY <1>15 DEF CPop
  <2>2. CASE Counted.ctl = 0 /\ Fails("under") /\ UNCHANGED memVars
    <3>1. Abs!CPop
      BY <1>6, <1>7, <2>1, <2>2 DEF Abs!CPop, AbsPending, AbsRunning
    <3> QED
      BY <3>1 DEF Abs!Next
  <2>3. CASE /\ Counted.ctl > 0 /\ UNCHANGED memVars
             /\ Runs(Popped(Counted)) \/ Runs(Erred(Popped(Counted), "crash"))
    <3>1. Popped(Counted) \in Regs /\ Popped(Counted).err = "nil"
      BY <1>6, <2>1, <2>3, ComputedRegs DEF Popped, Regs
    <3>2. PICK e \in {"nil", "crash"} : Runs(Erred(Popped(Counted), e))
      <4>1. PICK g : g = Popped(Counted)
        OBVIOUS
      <4>2. [g EXCEPT !.err = "nil"] = g
        BY <3>1, <4>1 DEF Regs
      <4>3. Erred(Popped(Counted), "nil") = Popped(Counted)
        BY <4>1, <4>2 DEF Erred
      <4> QED
        BY <2>3, <4>3
    <3>3. /\ Abs!Runs(View(mem, Erred(Popped(Counted), e)))
          /\ UNCHANGED <<AbsPending, copies>>
      BY <1>3, <1>5, <2>3, <3>2
    <3>4. Abs!Failed(Abs!Popped(Abs!Counted), e) = View(mem, Erred(Popped(Counted), e))
      BY <1>6, <2>1, <2>3, ComputedViews, ViewUpdate
    <3>5. Abs!CPop
      BY <1>6, <2>1, <2>3, <3>3, <3>4 DEF Abs!CPop, AbsPending, AbsRunning
    <3> QED
      BY <3>5 DEF Abs!Next
  <2>4. CASE /\ Counted.ctl > 0 /\ Runs(Popped(Counted))
             /\ \E i \in Idx, o \in Off, v \in Val : Write(cur, i, o, v)
    <3>1. PICK i \in Idx, o \in Off, v \in Val : Write(cur, i, o, v)
      BY <2>4
    <3>2. /\ Abs!Runs(View(Written(mem, i, o, v), Popped(Counted)))
          /\ UNCHANGED <<AbsPending, copies>>
      BY <1>4, <1>5, <2>4, <3>1
    <3>3. Abs!Popped(Abs!Stored(Abs!Counted, i, o, v))
            = View(Written(mem, i, o, v), Popped(Counted))
      BY <1>6, <2>1, ComputedViews, ViewUpdate
    <3>4. Abs!CPop
      BY <1>6, <1>8, <2>1, <2>4, <3>2, <3>3 DEF Abs!CPop, AbsPending, AbsRunning
    <3> QED
      BY <3>4 DEF Abs!Next
  <2> QED
    BY <1>15, <2>2, <2>3, <2>4 DEF CPop, Erred
<1>16. CASE Ret
  <2>1. Stepping /\ UNCHANGED memVars
    BY <1>16 DEF Ret
  <2>2. CASE Counted.ctl = 0 /\ Fails("under")
    <3>1. Abs!Ret
      BY <1>6, <1>7, <2>1, <2>2 DEF Abs!Ret, AbsPending, AbsRunning
    <3> QED
      BY <3>1 DEF Abs!Next
  <2>3. CASE Counted.ctl > 0 /\ \E t \in Target : Runs(JumpTo(Popped(Counted), t))
    <3>1. PICK t \in Target : Runs(JumpTo(Popped(Counted), t))
      BY <2>3
    <3>3. CASE t = InStack
      <4>1. Runs(Erred(Popped(Counted), "segv"))
        BY <3>1, <3>3 DEF JumpTo, Erred
      <4>2. /\ Abs!Runs(View(mem, Erred(Popped(Counted), "segv")))
            /\ UNCHANGED <<AbsPending, copies>>
        BY <1>3, <1>5, <2>1, <4>1
      <4>3. Abs!Failed(Abs!Popped(Abs!Counted), "segv")
              = View(mem, Erred(Popped(Counted), "segv"))
        BY <1>6, <2>1, <2>3, ComputedViews, ViewUpdate
      <4>4. Abs!Ret
        BY <1>6, <2>1, <2>3, <4>2, <4>3 DEF Abs!Ret, AbsPending, AbsRunning
      <4> QED
        BY <4>4 DEF Abs!Next
    <3>4. CASE t # InStack
      <4>1. t \in Code /\ Runs(Gone(Popped(Counted), t))
        BY <3>1, <3>4 DEF JumpTo, Target, Gone
      <4>2. /\ Abs!Runs(View(mem, Gone(Popped(Counted), t)))
            /\ UNCHANGED <<AbsPending, copies>>
        BY <1>3, <1>5, <2>1, <4>1
      <4>3. Abs!Jumped(Abs!Popped(Abs!Counted), t)
              = View(mem, Gone(Popped(Counted), t))
        BY <1>6, <2>1, <2>3, ComputedViews, ViewUpdate
      <4>4. Abs!Ret
        BY <1>6, <2>1, <2>3, <4>1, <4>2, <4>3 DEF Abs!Ret, AbsPending, AbsRunning
      <4> QED
        BY <4>4 DEF Abs!Next
    <3> QED
      BY <3>3, <3>4
  <2> QED
    BY <1>16, <2>2, <2>3 DEF Ret
<1> QED
  BY <1>9, <1>10, <1>11, <1>12, <1>13, <1>14, <1>15, <1>16

\* Fork, Branch, CFork and CBranch are those of the abstract run: a copy that is
\* queued is the last of the LIFO, and one that is dropped was only counted.
LEMMA CopyAbs ==
  ASSUME TypeInv, RefInv, [Next]_vars, Fork \/ Branch \/ CFork \/ CBranch
  PROVE  Abs!Next
<1> DEFINE mem == Memory(cur)
<1>1. /\ cur \in Mach /\ phase = "run" /\ UNCHANGED loopVars /\ Stepping
      /\ cur' = cur
      /\ Len(queue) \in Nat /\ QueueCap \in Nat
  BY LenProperties, BoundsAssumption
  DEF TypeInv, TypeOK, Fork, Branch, CFork, CBranch, Stepping, loopVars
<1>2. /\ Abs!Live /\ Abs!InLimit /\ Abs!Counted = View(mem, Counted)
      /\ Counted \in Regs /\ AbsRunning.ctl = Counted.ctl
      /\ Counted.ctl \in 0 .. CtlCap
  BY <1>1, LiveNow, CountedType
<1>3. ASSUME NEW e, Fails(e), UNCHANGED <<machVars, memVars>>
      PROVE  Abs!Fails(e) /\ UNCHANGED <<AbsPending, copies>>
  <2>1. UNCHANGED <<loopVars, queue>> /\ Memory(cur)' = mem /\ copies' = copies
    BY <1>1, <1>3 DEF Memory, machVars, memVars
  <2>2. /\ AbsRunning' = View(mem, Erred(Counted, e)) /\ AbsPending' = AbsPending
        /\ AbsResult' = AbsResult /\ Running /\ Running'
    BY <1>1, <1>3, <2>1, Executes DEF Fails, Erred
  <2>3. Abs!Failed(Abs!Counted, e) = View(mem, Erred(Counted, e))
    BY <1>2, ViewUpdate
  <2> QED
    BY <2>1, <2>2, <2>3 DEF Abs!Fails, Abs!Runs, AbsRunning, AbsResult
<1>4. ASSUME CopyRefused PROVE Abs!CopyRefused
  <2>1. ~CopyAllowed /\ Abs!Fails("copies") /\ UNCHANGED <<AbsPending, copies>>
    BY <1>3, <1>4 DEF CopyRefused
  <2> QED
    BY <2>1 DEF CopyAllowed, Abs!CanCopy, Abs!CopyRefused, AbsPending
<1>5. ASSUME SegFault PROVE Abs!Fails("segv") /\ UNCHANGED <<AbsPending, copies>>
  BY <1>3, <1>5 DEF SegFault
<1>6. ASSUME NEW n \in Mach, Copy(cur, n) PROVE Abs!CanCopy /\ Abs!CopyCounted
  BY <1>6 DEF Copy, AllocMach, CopyAllowed, Abs!CanCopy, Abs!CopyCounted
<1>7. ASSUME NEW n \in Mach, Copy(cur, n), NEW orig, NEW child, Enqueue(n, orig, child)
      PROVE  /\ Len(AbsPending) < QueueCap /\ Abs!Runs(View(mem, orig))
             /\ AbsPending' = Append(AbsPending, View(mem, child))
  <2>1. /\ AbsRunning' = View(mem, orig)
        /\ AbsPending' = Append(AbsPending, View(mem, child))
        /\ AbsResult' = AbsResult /\ Running /\ Running' /\ Len(AbsPending) = Len(queue)
    BY <1>1, <1>7, Copies
  <2>2. Len(queue) < QueueCap
    BY <1>1, <1>7 DEF Enqueue, QueueFull
  <2> QED
    BY <2>1, <2>2 DEF Abs!Runs, AbsRunning, AbsResult
<1>8. ASSUME NEW n \in Mach, Copy(cur, n), NEW orig, NEW child, NEW e, Drop(n, orig, e, child)
      PROVE  /\ Abs!Runs(View(mem, Erred(orig, e))) /\ AbsPending' = AbsPending
             /\ QueueFull => Len(AbsPending) >= QueueCap
  <2>1. /\ AbsRunning' = View(mem, Erred(orig, e)) /\ AbsPending' = AbsPending
        /\ AbsResult' = AbsResult /\ Running /\ Running' /\ Len(AbsPending) = Len(queue)
    BY <1>1, <1>8, Copies DEF Erred
  <2> QED
    BY <2>1 DEF Abs!Runs, AbsRunning, AbsResult, QueueFull
<1>9. ASSUME NEW n \in Mach, Copy(cur, n), NEW orig \in Regs, NEW child,
             EnqueueOrDrop(n, orig, child)
      PROVE  Abs!Queued(View(mem, orig), View(mem, child))
  <2>1. CASE Enqueue(n, orig, child)
    BY <1>7, <1>9, <2>1 DEF Abs!Queued, AbsPending
  <2>2. CASE QueueFull /\ Drop(n, orig, "qfull", child)
    <3>1. /\ Abs!Runs(View(mem, Erred(orig, "qfull"))) /\ AbsPending' = AbsPending
          /\ Len(AbsPending) >= QueueCap
      BY <1>8, <1>9, <2>2
    <3>2. Abs!Failed(View(mem, orig), "qfull") = View(mem, Erred(orig, "qfull"))
      BY <1>9, ViewUpdate
    <3> QED
      BY <3>1, <3>2 DEF Abs!Queued, AbsPending
  <2> QED
    BY <1>9, <2>1, <2>2 DEF EnqueueOrDrop
<1>10. /\ \A t : Abs!Jumped(Abs!Counted, t) = View(mem, Gone(Counted, t))
       /\ \A t \in Code : Gone(Counted, t) \in Regs
       /\ Counted.ctl > 0 =>
            /\ Popped(Counted) \in Regs
            /\ Abs!Popped(Abs!Counted) = View(mem, Popped(Counted))
            /\ \A t : Abs!Jumped(Abs!Popped(Abs!Counted), t) = View(mem, Gone(Popped(Counted), t))
            /\ \A e : Abs!Failed(Abs!Popped(Abs!Counted), e) = View(mem, Erred(Popped(Counted), e))
            /\ \A t \in Code : Gone(Popped(Counted), t) \in Regs
  BY <1>1, <1>2, ViewUpdate, ComputedViews DEF Gone, Regs
<1>11. CASE Fork
  <2>1. CASE SegFault
    BY <1>2, <1>5, <2>1 DEF Abs!Fork, Abs!Next, AbsPending
  <2>2. CASE CopyRefused
    BY <1>2, <1>4, <2>2 DEF Abs!Fork, Abs!Next
  <2>3. CASE \E t \in Code, n \in Mach : Copy(cur, n) /\ EnqueueOrDrop(n, Counted, ForkChild(t))
    <3>1. PICK t \in Code, n \in Mach :
            Copy(cur, n) /\ EnqueueOrDrop(n, Counted, Gone(Counted, t))
      BY <2>3 DEF ForkChild, Gone
    <3>2. Abs!Queued(Abs!Counted, Abs!Jumped(Abs!Counted, t))
      BY <1>2, <1>9, <1>10, <3>1
    <3> QED
      BY <1>2, <1>6, <3>1, <3>2 DEF Abs!Fork, Abs!Next
  <2> QED
    BY <1>11, <2>1, <2>2, <2>3 DEF Fork
<1>12. CASE Branch
  <2>1. CASE SegFault
    BY <1>2, <1>5, <2>1 DEF Abs!Branch, Abs!Next, AbsPending
  <2>2. CASE CopyRefused
    BY <1>2, <1>4, <2>2 DEF Abs!Branch, Abs!Next
  <2>3. CASE \E t \in Code, n \in Mach :
               Copy(cur, n) /\ EnqueueOrDrop(n, [Counted EXCEPT !.ip = t], BranchChild(t))
    <3>1. PICK t \in Code, n \in Mach :
            Copy(cur, n) /\ EnqueueOrDrop(n, Gone(Counted, t), Counted)
      BY <2>3 DEF BranchChild, Gone
    <3>2. Abs!Queued(Abs!Jumped(Abs!Counted, t), Abs!Counted)
      BY <1>2, <1>9, <1>10, <3>1
    <3> QED
      BY <1>2, <1>6, <3>1, <3>2 DEF Abs!Branch, Abs!Next
  <2> QED
    BY <1>12, <2>1, <2>2, <2>3 DEF Branch
<1> DEFINE Child(t) == JumpTo(Popped(Counted), t)
<1>13. \A t \in Code : Child(t) = Gone(Popped(Counted), t)
  BY DataAssumption DEF JumpTo, Gone
<1>14. CASE CFork
  <2>1. CASE CopyRefused
    BY <1>2, <1>4, <2>1 DEF Abs!CFork, Abs!Next
  <2>2. CASE \E t \in Target, n \in Mach :
               /\ Copy(cur, n)
               /\ \/ Counted.ctl = 0 /\ Drop(n, Counted, "under", Counted)
                  \/ Counted.ctl > 0 /\ t = InStack /\ Drop(n, Counted, "segv", Popped(Counted))
                  \/ Counted.ctl > 0 /\ t \in Code /\ EnqueueOrDrop(n, Counted, CForkChild(t))
    <3>1. PICK t \in Target, n \in Mach :
               /\ Copy(cur, n)
               /\ \/ Counted.ctl = 0 /\ Drop(n, Counted, "under", Counted)
                  \/ Counted.ctl > 0 /\ t = InStack /\ Drop(n, Counted, "segv", Popped(Counted))
                  \/ Counted.ctl > 0 /\ t \in Code /\ EnqueueOrDrop(n, Counted, CForkChild(t))
      BY <2>2
    <3>2. Abs!CanCopy /\ Abs!CopyCounted
      BY <1>6, <3>1
    <3>3. ASSUME NEW e, NEW child, Drop(n, Counted, e, child)
          PROVE  Abs!Fails(e) /\ AbsPending' = AbsPending
      <4>1. Abs!Failed(Abs!Counted, e) = View(mem, Erred(Counted, e))
        BY <1>2, ViewUpdate
      <4> QED
        BY <1>8, <3>1, <3>3, <4>1 DEF Abs!Fails
    <3>4. CASE Counted.ctl = 0 /\ Drop(n, Counted, "under", Counted)
      BY <1>2, <3>2, <3>3, <3>4 DEF Abs!CFork, Abs!Next, AbsPending, AbsRunning
    <3>5. CASE Counted.ctl > 0 /\ Drop(n, Counted, "segv", Popped(Counted))
      BY <1>2, <3>2, <3>3, <3>5 DEF Abs!CFork, Abs!Next, AbsPending, AbsRunning
    <3>6. CASE Counted.ctl > 0 /\ t \in Code /\ EnqueueOrDrop(n, Counted, CForkChild(t))
      <4>1. EnqueueOrDrop(n, Counted, Gone(Popped(Counted), t))
        BY <1>13, <3>6 DEF CForkChild
      <4>2. Abs!Queued(Abs!Counted, Abs!Jumped(Abs!Popped(Abs!Counted), t))
        BY <1>2, <1>9, <1>10, <3>1, <3>6, <4>1
      <4> QED
        BY <1>2, <3>2, <3>6, <4>2 DEF Abs!CFork, Abs!Next, AbsRunning
    <3> QED
      BY <3>1, <3>4, <3>5, <3>6
  <2> QED
    BY <1>14, <2>1, <2>2 DEF CFork
<1>15. CASE CBranch
  <2>1. CASE CopyRefused
    BY <1>2, <1>4, <2>1 DEF Abs!CBranch, Abs!Next
  <2>2. CASE \E t \in Target, n \in Mach :
               /\ Copy(cur, n)
               /\ \/ Counted.ctl = 0 /\ Drop(n, Counted, "under", CBranchChild)
                  \/ Counted.ctl > 0 /\ Enqueue(n, Child(t), CBranchChild)
                  \/ Counted.ctl > 0 /\ QueueFull
                       /\ Drop(n, Popped(Counted), "qfull", CBranchChild)
    <3>1. PICK t \in Target, n \in Mach :
               /\ Copy(cur, n)
               /\ \/ Counted.ctl = 0 /\ Drop(n, Counted, "under", Counted)
                  \/ Counted.ctl > 0 /\ Enqueue(n, Child(t), Counted)
                  \/ Counted.ctl > 0 /\ QueueFull
                       /\ Drop(n, Popped(Counted), "qfull", Counted)
      BY <2>2 DEF CBranchChild
    <3>2. Abs!CanCopy /\ Abs!CopyCounted
      BY <1>6, <3>1
    <3>3. CASE Counted.ctl = 0 /\ Drop(n, Counted, "under", Counted)
      <4>1. Abs!Failed(Abs!Counted, "under") = View(mem, Erred(Counted, "under"))
        BY <1>2, ViewUpdate
      <4>2. Abs!Fails("under") /\ AbsPending' = AbsPending
        BY <1>8, <3>1, <3>3, <4>1 DEF Abs!Fails
      <4> QED
        BY <1>2, <3>2, <3>3, <4>2 DEF Abs!CBranch, Abs!Next, AbsPending, AbsRunning
    <3>4. CASE Counted.ctl > 0 /\ Enqueue(n, Child(t), Counted)
      <4>1. /\ Len(AbsPending) < QueueCap /\ Abs!Runs(View(mem, Child(t)))
            /\ AbsPending' = Append(AbsPending, View(mem, Counted))
        BY <1>7, <3>1, <3>4
      <4>2. \/ /\ t \in Code
               /\ View(mem, Child(t)) = Abs!Jumped(Abs!Popped(Abs!Counted), t)
            \/ View(mem, Child(t)) = Abs!Failed(Abs!Popped(Abs!Counted), "segv")
        <5>1. CASE t \in Code
          BY <1>10, <1>13, <3>4, <5>1
        <5>2. CASE t = InStack
          <6>1. Child(t) = Erred(Popped(Counted), "segv")
            BY <5>2 DEF JumpTo, Erred
          <6> QED
            BY <1>10, <3>4, <6>1
        <5> QED
          BY <5>1, <5>2 DEF Target
      <4>3. \/ \E u \in Code : Abs!Runs(Abs!Jumped(Abs!Popped(Abs!Counted), u))
            \/ Abs!Runs(Abs!Failed(Abs!Popped(Abs!Counted), "segv"))
        BY <4>1, <4>2
      <4>4. Abs!CBranch
        BY <1>2, <3>2, <3>4, <4>1, <4>3 DEF Abs!CBranch, AbsPending, AbsRunning
      <4> QED
        BY <4>4 DEF Abs!Next
    <3>5. CASE Counted.ctl > 0 /\ QueueFull /\ Drop(n, Popped(Counted), "qfull", Counted)
      <4>1. /\ Abs!Runs(View(mem, Erred(Popped(Counted), "qfull")))
            /\ AbsPending' = AbsPending /\ Len(AbsPending) >= QueueCap
        BY <1>8, <3>1, <3>5
      <4>2. Abs!Runs(Abs!Failed(Abs!Popped(Abs!Counted), "qfull"))
        BY <1>10, <3>5, <4>1
      <4>3. Abs!CBranch
        BY <1>2, <3>2, <3>5, <4>1, <4>2 DEF Abs!CBranch, AbsPending, AbsRunning
      <4> QED
        BY <4>3 DEF Abs!Next
    <3> QED
      BY <3>1, <3>3, <3>4, <3>5
  <2> QED
    BY <1>15, <2>1, <2>2 DEF CBranch
<1> QED
  BY <1>11, <1>12, <1>14, <1>15

\* AbsRun's Front and Last are the ones Machines uses.
LEMMA SameLifo == \A s : Abs!Front(s) = Front(s) /\ Abs!Last(s) = Last(s)
BY DEF Abs!Front, Abs!Last, Front, Last

\* What Dequeue() takes is the last element, and it leaves the others in place.
LEMMA FrontLast ==
  ASSUME NEW S, NEW s \in Seq(S), s # <<>>
  PROVE  /\ Len(s) \in Nat \ {0} /\ Front(s) \in Seq(S) /\ Len(Front(s)) = Len(s) - 1
         /\ \A i \in 1 .. Len(s) - 1 : Front(s)[i] = s[i]
         /\ Last(s) = s[Len(s)]
<1>1. Len(s) \in Nat \ {0} /\ \A i \in 1 .. Len(s) - 1 : s[i] \in S
  BY EmptySeq, LenProperties, ElementOfSeq
<1>2. \A i \in 1 .. (Len(s) - 1) - 1 + 1 : SubSeq(s, 1, Len(s) - 1)[i] = s[1 + i - 1]
  BY <1>1, SubSeqProperties
<1>3. \A i \in 1 .. Len(s) - 1 : SubSeq(s, 1, Len(s) - 1)[i] = s[i]
  BY <1>1, <1>2
<1> QED
  BY <1>1, <1>3, TakeLast DEF Front, Last

\* A step that changes nothing shows nothing.
LEMMA StutterAbs == UNCHANGED vars => UNCHANGED Abs!vars
BY DEF vars, loopVars, machVars, memVars, Abs!vars, Seen, Memory, Running

\* Dequeue() takes the machine that was queued last, as the LIFO does.
LEMMA DequeueAbs ==
  ASSUME TypeInv, RefInv, Dequeue
  PROVE  Abs!Resume
<1>1. /\ phase = "run" /\ phase' = "free" /\ Running /\ Running' /\ cur \in Mach
      /\ regs[cur].err # "nil" /\ queue \in Seq(Mach) /\ queue # <<>>
      /\ next' = Last(queue) /\ queue' = Front(queue)
      /\ UNCHANGED <<copies, slots, plen, d, regs>>
  BY DEF Dequeue, Handling, TypeInv, TypeOK, Running, memVars
<1>2. \A m : Seen(m)' = Seen(m)
  BY <1>1 DEF Seen, Memory
<1>3. /\ Len(queue) \in Nat \ {0} /\ DOMAIN queue = 1 .. Len(queue)
      /\ Len(AbsPending) = Len(queue) /\ AbsPending # <<>>
      /\ AbsPending \in Seq({Seen(m) : m \in Mach})
      /\ \A i \in 1 .. Len(queue) : AbsPending[i] = Seen(queue[i])
  BY <1>1, PendingLen, EmptySeq, LenProperties
<1> DEFINE L == Len(queue)
<1>4. /\ Len(queue') = L - 1
      /\ \A i \in 1 .. L - 1 : queue'[i] = queue[i]
      /\ next' = queue[L]
  BY <1>1, <1>3, FrontLast
<1>5. AbsRunning' = Last(AbsPending)
  <2>1. PICK m \in Mach : m = queue[L] /\ m = next'
    BY <1>1, <1>4, TakeLast
  <2>2. AbsRunning' = Seen(m)'
    BY <1>1, <2>1 DEF AbsRunning, Seen, Memory
  <2>3. Last(AbsPending) = AbsPending[L]
    BY <1>3, FrontLast
  <2>4. Last(AbsPending) = Seen(m)
    <3>1. L \in 1 .. L
      BY <1>3
    <3> QED
      BY <1>3, <2>1, <2>3, <3>1
  <2> QED
    BY <1>2, <2>2, <2>4
<1>6. AbsPending' = Front(AbsPending)
  <2>1. AbsPending' = [i \in 1 .. L - 1 |-> Seen(queue[i])']
    BY <1>1, <1>4 DEF AbsPending
  <2>2. ASSUME NEW i \in 1 .. L - 1 PROVE Seen(queue[i])' = Seen(queue[i])
    <3>1. PICK m \in Mach : m = queue[i] /\ m = queue'[i]
      BY <1>1, <1>3, <1>4, ElementOfSeq
    <3>2. Seen(queue[i])' = Seen(m)'
      BY <3>1 DEF Seen, Memory
    <3> QED
      BY <1>2, <3>1, <3>2
  <2>3. AbsPending' = [i \in 1 .. L - 1 |-> AbsPending[i]]
    BY <1>3, <2>1, <2>2
  <2>4. /\ Front(AbsPending) \in Seq({Seen(m) : m \in Mach}) /\ Len(Front(AbsPending)) = L - 1
        /\ \A i \in 1 .. L - 1 : Front(AbsPending)[i] = AbsPending[i]
    BY <1>3, FrontLast
  <2>5. Front(AbsPending) = [i \in 1 .. L - 1 |-> Front(AbsPending)[i]]
    BY <2>4, LenProperties
  <2> QED
    BY <2>3, <2>4, <2>5
<1>7. AbsRunning.err = regs[cur].err
  BY <1>1 DEF AbsRunning, Seen
<1>8. AbsResult' = AbsResult
  BY <1>1 DEF AbsResult
<1> QED
  BY <1>1, <1>3, <1>5, <1>6, <1>7, <1>8, SameLifo DEF Abs!Resume, AbsRunning, AbsPending, AbsResult

\* run() returns with the machine it handled last, and Run() assigns it to the
\* one that it was called on.
LEMMA ReturnAbs ==
  ASSUME TypeInv, Return
  PROVE  Abs!Return
<1>1. /\ phase = "run" /\ phase' = "done" /\ Running /\ ~Running' /\ cur \in Mach
      /\ regs[cur].err # "nil" /\ UNCHANGED <<cur, copies, d>> /\ Root \in Mach
      /\ regs \in [Mach -> Regs]
      /\ slots \in [Mach -> [Idx -> Page \cup {NoPage}]] /\ plen \in [Mach -> 0 .. NPages]
  BY RootAssumption DEF Return, Handling, TypeInv, TypeOK, Running, machVars
<1>2. /\ regs'[Root] = regs[cur] /\ slots'[Root] = slots[cur] /\ plen'[Root] = plen[cur]
      /\ regs'[cur] = regs[cur] /\ slots'[cur] = slots[cur] /\ plen'[cur] = plen[cur]
  BY <1>1 DEF Return
<1>3. Seen(Root)' = Seen(cur) /\ Seen(cur)' = Seen(cur)
  BY <1>1, <1>2 DEF Seen, Memory
<1>4. /\ AbsRunning = Seen(cur) /\ AbsRunning' = Seen(cur) /\ AbsRunning.err # "nil"
      /\ AbsResult' = Seen(cur) /\ AbsPending' = <<>>
  BY <1>1, <1>3 DEF AbsRunning, AbsResult, AbsPending, Seen
<1> QED
  BY <1>1, <1>4 DEF Abs!Return, AbsRunning, AbsResult, AbsPending

\* While free() clears the machine that was handled, nothing shows; nor does
\* the assignment of the machine that takes its place.
LEMMA FreeAbs ==
  ASSUME TypeInv, RefInv, FreeSlot \/ FreeMach
  PROVE  UNCHANGED Abs!vars
<1>1. /\ phase = "free" /\ Running /\ Running' /\ cur \in Mach /\ next \in Mach
      /\ UNCHANGED <<queue, copies, d, regs>>
      /\ slots \in [Mach -> [Idx -> Page \cup {NoPage}]] /\ plen \in [Mach -> 0 .. NPages]
  BY DEF FreeSlot, FreeMach, TypeInv, TypeOK, NextInHand, Running, machVars
<1>2. ASSUME NEW m \in Mach, m # cur PROVE Seen(m)' = Seen(m)
  <2>1. slots'[m] = slots[m] /\ plen'[m] = plen[m]
    BY <1>1, <1>2 DEF FreeSlot, FreeMach, Cleared
  <2> QED
    BY <1>1, <2>1 DEF Seen, Memory
<1>3. \A m \in Queued : Seen(m)' = Seen(m)
  BY <1>2, QueuedApart
<1>4. AbsPending' = AbsPending
  BY <1>1, <1>3, PendingSame
<1>5. AbsRunning' = AbsRunning
  <2>1. PICK m \in Mach : m = next
    BY <1>1
  <2>2. Seen(m)' = Seen(m)
    BY <1>2, <2>1 DEF RefInv, MachsApart
  <2>3. AbsRunning = Seen(m)
    BY <1>1, <2>1 DEF AbsRunning
  <2>4. AbsRunning' = Seen(m)'
    BY <1>1, <2>1 DEF FreeSlot, FreeMach, AbsRunning, Seen, Memory
  <2> QED
    BY <2>2, <2>3, <2>4
<1>6. AbsResult' = AbsResult
  BY <1>1 DEF AbsResult
<1> QED
  BY <1>1, <1>4, <1>5, <1>6 DEF Abs!vars, AbsRunning, AbsPending, AbsResult

\* Every step of a run that has not returned is one of the abstract run, or none.
LEMMA StepAbs ==
  ASSUME TypeInv, RefInv, [Next]_vars
  PROVE  [Abs!Next]_(Abs!vars)
<1>1. CASE LimitHit \/ Stop \/ Store \/ Jump \/ Call \/ CPush \/ CPop \/ Ret
  BY <1>1, OperationAbs
<1>2. CASE Fork \/ Branch \/ CFork \/ CBranch
  BY <1>2, CopyAbs
<1>3. CASE Dequeue
  BY <1>3, DequeueAbs DEF Abs!Next
<1>4. CASE FreeSlot \/ FreeMach
  BY <1>4, FreeAbs
<1>5. CASE Return
  BY <1>5, ReturnAbs DEF Abs!Next
<1>6. CASE UNCHANGED vars
  BY <1>6, StutterAbs
<1> QED
  BY <1>1, <1>2, <1>3, <1>4, <1>5, <1>6 DEF Next, Returned

\* New's machine is one with a memory, nothing pending and nothing counted.
LEMMA InitAbs ==
  ASSUME Init
  PROVE  Abs!Init
<1>1. TypeInv /\ Running /\ phase = "run" /\ cur = Root /\ queue = <<>> /\ copies = 0
  BY InitType DEF Init, Running
<1>2. AbsPending = <<>>
  BY <1>1, PendingLen
<1>3. PICK ip \in Code : regs[Root] = [ip |-> ip, ctl |-> 0, err |-> "nil", count |-> 0]
  BY RootAssumption DEF Init
<1>4. Memory(Root) \in Abs!Memory
  <2>1. /\ slots \in [Mach -> [Idx -> Page \cup {NoPage}]] /\ d \in [Page -> [Off -> Val]]
        /\ Root \in Mach
    BY <1>1, RootAssumption DEF TypeInv, TypeOK
  <2>2. Blank \in [Off -> Val]
    BY DataAssumption DEF Blank
  <2>3. \A i \in Idx : (IF i < plen[Root] /\ slots[Root][i] # NoPage
                       THEN d[slots[Root][i]] ELSE Blank) \in [Off -> Val]
    BY <2>1, <2>2
  <2>4. Memory(Root) \in [Idx -> [Off -> Val]]
    BY <2>3 DEF Memory
  <2> QED
    BY <2>4 DEF Abs!Memory, Idx, Abs!Idx
<1>5. AbsRunning = [mem |-> Memory(Root), ip |-> ip, ctl |-> 0, err |-> "nil", count |-> 0]
  BY <1>1, <1>3 DEF AbsRunning, Seen
<1>6. AbsResult = Abs!NoResult
  BY <1>1 DEF AbsResult, Abs!NoResult
<1> QED
  BY <1>1, <1>2, <1>4, <1>5, <1>6 DEF Abs!Init, AbsRunning, AbsPending, AbsResult

\* Paging, sharing, reference counts and the recycling of machines and pages do
\* not show: a run, from New to the machine Run() leaves its caller with, is a run
\* of machines that own their memory.
THEOREM RunRefines == Spec => AbsSpec
<1>1. Init => Abs!Init
  BY InitAbs
<1>2. SafeInv /\ [Next]_vars => [Abs!Next]_(Abs!vars)
  <2> SUFFICES ASSUME SafeInv, [Next]_vars PROVE [Abs!Next]_(Abs!vars)
    OBVIOUS
  <2>1. CASE Running
    BY <2>1, StepAbs DEF SafeInv
  <2>2. CASE ~Running
    <3>1. UNCHANGED vars
      BY <2>2 DEF Running, Next, LimitHit, Stop, Store, Jump, Call, CPush, CPop, Ret,
                  Fork, Branch, CFork, CBranch, Stepping, Dequeue, Handling, FreeSlot,
                  FreeMach, Return, Returned
    <3> QED
      BY <3>1, StutterAbs
  <2> QED
    BY <2>1, <2>2
<1> QED
  BY <1>1, <1>2, Safety, PTL DEF Spec, AbsSpec, Abs!Spec

=============================================================================
