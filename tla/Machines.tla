------------------------------ MODULE Machines ------------------------------
(***************************************************************************)
(* One run of a machine and of all the copies it makes (vm.go, alloc.go,   *)
(* queue.go): the run loop, the operations that write memory, jump, copy   *)
(* and terminate, the copy-on-write pages with their reference counts, the *)
(* free lists machines and pages are recycled through, and the run queue.  *)
(*                                                                         *)
(* A program may do anything its operations allow, so an operation's       *)
(* operands are chosen here by \E.  A Mach value stands for the address of *)
(* a Mach struct and a Page value for the address of a page struct: both   *)
(* are reused, which is what the reference counts have to get right.  The  *)
(* slice m.pages is its backing array slots[m], its length plen[m] and its *)
(* capacity pcap[m].                                                       *)
(***************************************************************************)
EXTENDS Integers, FiniteSets, SequencesExt

CONSTANTS
  Mach,       \* addresses of Mach structs
  Root,       \* the machine New returned and Run was called on
  NoMach,     \* a nil *Mach
  Page,       \* addresses of page structs
  NoPage,     \* a nil *page
  NPages,     \* page indices a program may address: 0 .. NPages - 1
  Off,        \* the words of a page
  Val,        \* the values of a word
  Zero,       \* the value of a cleared word
  Code,       \* the addresses a jump may go to
  InStack,    \* an address within the stacks, [pbp, cbp]
  CtlCap,     \* the most words the control stack may hold
  QueueCap,   \* the capacity of the run queue; 0 stands for noQueue too
  MaxCopies,  \* the max copies option; 0 when it is not set
  Limit       \* the max ops option; 0 when it is not set

ASSUME RootAssumption == Root \in Mach /\ NoMach \notin Mach
ASSUME PageAssumption == NoPage \notin Page
ASSUME NPagesAssumption == NPages \in Nat \ {0}
ASSUME DataAssumption == Zero \in Val /\ InStack \notin Code
ASSUME BoundsAssumption == /\ CtlCap \in Nat /\ QueueCap \in Nat
                           /\ MaxCopies \in Nat /\ Limit \in Nat

VARIABLES
  phase,      \* "run", "free" while the run loop frees a handled machine, "done"
  cur,        \* the variable m of the run loop
  next,       \* its variable n: the dequeued machine, while m is being freed
  fi,         \* the loop index of free()
  queue,      \* runq.q
  freeMachs,  \* machFreeList.f
  freePages,  \* pageFreeList.f
  copies,     \* _maxMachCopiesAllocator.copies
  regs,       \* of each machine, the fields of Mach that are not its memory
  slots,      \* of each machine, the backing array of m.pages
  plen,       \* of each machine, len(m.pages)
  pcap,       \* of each machine, cap(m.pages)
  r,          \* of each page, its reference count
  d,          \* of each page, its data
  lost        \* ghost: copies dropped by an operation that failed after copy()

memVars  == <<slots, plen, pcap, r, d, freePages>>
machVars == <<queue, freeMachs, copies, lost>>
loopVars == <<phase, cur, next, fi>>
vars == <<loopVars, machVars, memVars, regs>>

Idx == 0 .. NPages - 1
Errors == {"nil", "halt", "limit", "crash", "segv", "under", "over",
           "copies", "qfull"}
Regs == [ip : Code, ctl : 0 .. CtlCap, err : Errors, count : 0 .. Limit]
Blank == [o \in Off |-> Zero]

\* The memory a program sees: fetch() reads 0 where there is no page.
Memory(m) == [i \in Idx |-> IF i < plen[m] /\ slots[m][i] # NoPage
                            THEN d[slots[m][i]] ELSE Blank]

\* Machines the run loop will still execute, and those it may be handed anew.
Queued == Range(queue)
Owners == {cur, next} \cup Queued
FreshMachs == Mach \ (Owners \cup lost \cup Range(freeMachs))

Holders(p) == {m \in Mach : \E i \in Idx : slots[m][i] = p}
FreshPages == {p \in Page \ Range(freePages) : Holders(p) = {}}

-----------------------------------------------------------------------------
\* New leaves a machine with the pages that the program, loaded wherever the
\* stacks end, and its inputs occupy: at least one.
Init ==
  /\ phase = "run" /\ cur = Root /\ next = NoMach /\ fi = 0
  /\ queue = <<>> /\ freeMachs = <<>> /\ freePages = <<>>
  /\ copies = 0 /\ lost = {}
  /\ \E ip \in Code : regs = [m \in Mach |-> [ip |-> ip, ctl |-> 0,
                                              err |-> "nil", count |-> 0]]
  /\ \E loaded \in [Idx -> Page \cup {NoPage}], last \in Idx :
       /\ \A i, j \in Idx : loaded[i] # NoPage /\ loaded[i] = loaded[j] => i = j
       /\ loaded[last] # NoPage /\ \A i \in Idx : i > last => loaded[i] = NoPage
       /\ slots = [m \in Mach |-> IF m = Root THEN loaded ELSE [i \in Idx |-> NoPage]]
       /\ plen = [m \in Mach |-> IF m = Root THEN last + 1 ELSE 0]
       /\ pcap = plen
       /\ r = [p \in Page |-> IF p \in Range(loaded) THEN 1 ELSE 0]
       /\ d \in [Page -> [Off -> Val]]
       /\ \A p \in Page \ Range(loaded) : d[p] = Blank

-----------------------------------------------------------------------------
(* Pages *)

\* AllocPage(): the page that was freed last, or a new one.
AllocPage(p) ==
  \/ freePages # <<>> /\ p = Last(freePages) /\ freePages' = Front(freePages)
  \/ freePages = <<>> /\ p \in FreshPages /\ UNCHANGED freePages

\* Slip: a recycled page is returned as it was freed.
AllocatedDirty(p) == d[p]

\* The contents AllocPage() returns page p with: a recycled page is cleared.
Allocated(p) == Blank

\* Slip: off by one, a page held twice is written in place.
ExclusiveTwice(p) == r[p] <= 2

\* May a write go to a page without copying it first?
Exclusive(p) == r[p] <= 1

\* The write at [i][o] finds no page: one is created.  A machine whose pages
\* end before i gets a new, longer backing array.
Create(m, i, o, v) ==
  /\ i >= plen[m] \/ slots[m][i] = NoPage
  /\ \E p \in Page :
       /\ AllocPage(p)
       /\ d' = [d EXCEPT ![p] = [Allocated(p) EXCEPT ![o] = v]]
       /\ r' = [r EXCEPT ![p] = 1]
       /\ slots' = [slots EXCEPT ![m] =
                      IF i < plen[m] THEN [@ EXCEPT ![i] = p]
                      ELSE [j \in Idx |-> IF j = i THEN p
                                          ELSE IF j < plen[m] THEN @[j] ELSE NoPage]]
  /\ plen' = [plen EXCEPT ![m] = IF i < @ THEN @ ELSE i + 1]
  /\ pcap' = [pcap EXCEPT ![m] = IF i < plen[m] THEN @ ELSE i + 1]

\* The write at [i][o] finds a page that others may hold: it is copied.
CopyOnWrite(m, i, o, v) ==
  /\ i < plen[m] /\ slots[m][i] # NoPage /\ ~Exclusive(slots[m][i])
  /\ \E p \in Page :
       /\ AllocPage(p)
       /\ d' = [d EXCEPT ![p] = [d[slots[m][i]] EXCEPT ![o] = v]]
       /\ r' = [r EXCEPT ![p] = 1, ![slots[m][i]] = @ - 1]
       /\ slots' = [slots EXCEPT ![m][i] = p]
  /\ UNCHANGED <<plen, pcap>>

WriteInPlace(m, i, o, v) ==
  /\ i < plen[m] /\ slots[m][i] # NoPage /\ Exclusive(slots[m][i])
  /\ d' = [d EXCEPT ![slots[m][i]][o] = v]
  /\ UNCHANGED <<slots, plen, pcap, r, freePages>>

\* ref() and the write through the pointer it returns.
Write(m, i, o, v) == \/ Create(m, i, o, v)
                     \/ CopyOnWrite(m, i, o, v)
                     \/ WriteInPlace(m, i, o, v)

-----------------------------------------------------------------------------
(* Machines *)

\* Slip: off by one, one more copy than the option allows.
CopyAllowedOneMore == MaxCopies = 0 \/ copies <= MaxCopies

\* AllocMach(): the machine that was freed last, or a new one.
CopyAllowed == MaxCopies = 0 \/ copies < MaxCopies

AllocMach(n) ==
  /\ CopyAllowed
  /\ copies' = IF MaxCopies = 0 THEN copies ELSE copies + 1
  /\ \/ freeMachs # <<>> /\ n = Last(freeMachs) /\ freeMachs' = Front(freeMachs)
     \/ freeMachs = <<>> /\ n \in FreshMachs /\ UNCHANGED freeMachs

\* Slip: the copied pages are not counted.
ReferencesForgotten(m, p) == 0

\* How many more references a page has once machine m is copied.
References(m, p) ==
  Cardinality({i \in Idx : i < plen[m] /\ slots[m][i] = p})

\* Slip: the pages are appended to n.pages, so that nil slots are squeezed out.
CopiedSlotsSqueezed(m, n) ==
  LET held == SelectSeq([i \in 1 .. plen[m] |-> slots[m][i - 1]],
                        LAMBDA p : p # NoPage)
  IN  [i \in Idx |-> IF i < Len(held) THEN held[i + 1] ELSE NoPage]

\* The backing array that n is left with by copy(): its own one, when that is
\* long enough, and then only the slots of m's pages are assigned.
CopiedSlots(m, n) ==
  [i \in Idx |-> IF i < plen[m] /\ slots[m][i] # NoPage THEN slots[m][i]
                 ELSE IF plen[m] <= pcap[n] THEN slots[n][i] ELSE NoPage]

\* copy(), as far as the pages go.
CopyPages(m, n) ==
  /\ slots' = [slots EXCEPT ![n] = CopiedSlots(m, n)]
  /\ plen' = [plen EXCEPT ![n] = plen[m]]
  /\ pcap' = [pcap EXCEPT ![n] = IF plen[m] <= @ THEN @ ELSE plen[m]]
  /\ r' = [p \in Page |-> r[p] + References(m, p)]
  /\ UNCHANGED <<d, freePages>>

-----------------------------------------------------------------------------
(* Operations: one iteration of the loop "for m.err == nil { m.step() }" *)

InLimit(m) == Limit = 0 \/ regs[m].count < Limit

Stepping == phase = "run" /\ regs[cur].err = "nil" /\ InLimit(cur)

\* The registers of the machine once the operation has been counted.
Counted == [regs[cur] EXCEPT !.count = IF Limit = 0 THEN @ ELSE @ + 1]

Runs(g) == regs' = [regs EXCEPT ![cur] = g]
Fails(e) == Runs([Counted EXCEPT !.err = e])

LimitHit ==
  /\ phase = "run" /\ regs[cur].err = "nil"
  /\ ~InLimit(cur)
  /\ Runs([regs[cur] EXCEPT !.err = "limit"])
  /\ UNCHANGED <<loopVars, machVars, memVars>>

\* Halting, the crash op, and everything else that can stop a machine before
\* it changes anything: an undecodable op, a stack range or alignment error.
Stop ==
  /\ Stepping
  /\ \E e \in {"halt", "crash"} : Fails(e)
  /\ UNCHANGED <<loopVars, machVars, memVars>>

\* store, storeto, swap, the bit array ops, and the spill of the stack head by
\* push.  dup refers to the word it copies, which may create its page, before the
\* push that may overflow.
Store ==
  /\ Stepping
  /\ \E i \in Idx, o \in Off, v \in Val : Write(cur, i, o, v)
  /\ Runs(Counted) \/ Fails("crash")
  /\ UNCHANGED <<loopVars, machVars>>

Jump ==
  /\ Stepping
  /\ \/ \E t \in Code : Runs([Counted EXCEPT !.ip = t])
     \/ Fails("segv")
  /\ UNCHANGED <<loopVars, machVars, memVars>>

\* call(): the target is checked first, then the return address is stored
\* where the control stack ends.  The parameter stack may leave the control
\* stack less than CtlCap words.
Call ==
  /\ Stepping
  /\ \/ /\ Counted.ctl < CtlCap
        /\ \E i \in Idx, o \in Off, v \in Val : Write(cur, i, o, v)
        /\ \E t \in Code : Runs([Counted EXCEPT !.ctl = @ + 1, !.ip = t])
     \/ /\ Fails("over") \/ Fails("segv")
        /\ UNCHANGED memVars
  /\ UNCHANGED <<loopVars, machVars>>

\* Where ret, cjump, cfork and cbranch go: what cpop() finds may be any word.
Target == Code \cup {InStack}
JumpTo(g, t) == IF t = InStack THEN [g EXCEPT !.err = "segv"]
                               ELSE [g EXCEPT !.ip = t]
Popped(g) == [g EXCEPT !.ctl = @ - 1]

\* mark, cpush and p2c, of one word: it is stored where the control stack ends.
CPush ==
  /\ Stepping
  /\ \/ /\ Counted.ctl < CtlCap
        /\ \E i \in Idx, o \in Off, v \in Val : Write(cur, i, o, v)
        /\ Runs([Counted EXCEPT !.ctl = @ + 1])
     \/ /\ Fails("over")
        /\ UNCHANGED memVars
  /\ UNCHANGED <<loopVars, machVars>>

\* cpop and c2p, of one word: c2p pushes it on the parameter stack, which spills
\* that stack's head or overflows.
CPop ==
  /\ Stepping
  /\ \/ Counted.ctl = 0 /\ Fails("under") /\ UNCHANGED memVars
     \/ /\ Counted.ctl > 0
        /\ \/ Runs(Popped(Counted))
           \/ Runs([Popped(Counted) EXCEPT !.err = "crash"])
        /\ UNCHANGED memVars
     \/ /\ Counted.ctl > 0
        /\ Runs(Popped(Counted))
        /\ \E i \in Idx, o \in Off, v \in Val : Write(cur, i, o, v)
  /\ UNCHANGED <<loopVars, machVars>>

Ret ==
  /\ Stepping
  /\ \/ Counted.ctl = 0 /\ Fails("under")
     \/ Counted.ctl > 0 /\ \E t \in Target : Runs(JumpTo(Popped(Counted), t))
  /\ UNCHANGED <<loopVars, machVars, memVars>>

\* copy(): refused when no machine may be allocated, or n gets the pages of m.
CopyRefused == /\ ~CopyAllowed
               /\ Fails("copies")
               /\ UNCHANGED <<machVars, memVars>>
Copy(m, n) == AllocMach(n) /\ CopyPages(m, n)

QueueFull == Len(queue) >= QueueCap

\* The copy n is queued with the registers child; orig are the original's.
Enqueue(n, orig, child) ==
  /\ ~QueueFull
  /\ queue' = Append(queue, n)
  /\ regs' = [regs EXCEPT ![cur] = orig, ![n] = child]
  /\ UNCHANGED lost

\* The copy n is dropped because the operation that made it failed.
Drop(n, orig, e, child) ==
  /\ lost' = lost \cup {n}
  /\ regs' = [regs EXCEPT ![cur] = [orig EXCEPT !.err = e], ![n] = child]
  /\ UNCHANGED queue

EnqueueOrDrop(n, orig, child) ==
  \/ Enqueue(n, orig, child)
  \/ QueueFull /\ Drop(n, orig, "qfull", child)

SegFault == Fails("segv") /\ UNCHANGED <<machVars, memVars>>

\* fork(off): the copy jumps.
ForkChild(t) == [Counted EXCEPT !.ip = t]
Fork ==
  /\ Stepping
  /\ \/ SegFault
     \/ CopyRefused
     \/ \E t \in Code, n \in Mach :
          Copy(cur, n) /\ EnqueueOrDrop(n, Counted, ForkChild(t))
  /\ UNCHANGED loopVars

\* branch(off): the original jumps, before the copy is queued.
BranchChild(t) == Counted
Branch ==
  /\ Stepping
  /\ \/ SegFault
     \/ CopyRefused
     \/ \E t \in Code, n \in Mach :
          Copy(cur, n) /\ EnqueueOrDrop(n, [Counted EXCEPT !.ip = t], BranchChild(t))
  /\ UNCHANGED loopVars

\* cfork(): the copy pops its target from its own control stack.
CForkChild(t) == JumpTo(Popped(Counted), t)
CFork ==
  /\ Stepping
  /\ \/ CopyRefused
     \/ \E t \in Target, n \in Mach :
          /\ Copy(cur, n)
          /\ \/ Counted.ctl = 0 /\ Drop(n, Counted, "under", Counted)
             \/ Counted.ctl > 0 /\ t = InStack /\ Drop(n, Counted, "segv", Popped(Counted))
             \/ Counted.ctl > 0 /\ t \in Code /\ EnqueueOrDrop(n, Counted, CForkChild(t))
  /\ UNCHANGED loopVars

\* Slip: the copy starts counting anew.
CBranchChildUncounted == [Counted EXCEPT !.count = 0]

\* Slip: the copy is made after the original popped its target.
CBranchChildPopped == Popped(Counted)

\* cbranch(): the copy is made before the original pops its target, and queued
\* before the original jumps.
CBranchChild == Counted
CBranch ==
  /\ Stepping
  /\ \/ CopyRefused
     \/ \E t \in Target, n \in Mach :
          /\ Copy(cur, n)
          /\ \/ Counted.ctl = 0 /\ Drop(n, Counted, "under", CBranchChild)
             \/ Counted.ctl > 0 /\ Enqueue(n, JumpTo(Popped(Counted), t), CBranchChild)
             \/ Counted.ctl > 0 /\ QueueFull
                  /\ Drop(n, Popped(Counted), "qfull", CBranchChild)
  /\ UNCHANGED loopVars

-----------------------------------------------------------------------------
(* The end of a machine *)

Handling == phase = "run" /\ regs[cur].err # "nil"

\* The handler accepted the machine and another is pending.
Dequeue ==
  /\ Handling
  /\ queue # <<>>
  /\ next' = Last(queue)
  /\ queue' = Front(queue)
  /\ phase' = "free" /\ fi' = 0
  /\ UNCHANGED <<cur, freeMachs, copies, lost, memVars, regs>>

\* Slip: off by one, a page is given back while one machine still holds it.
DeadEarly(count) == count <= 1

\* The page count at which free() gives the page back.
Dead(count) == count <= 0

\* Slip: free() truncates m.pages but leaves the slot's pointer behind.
ClearedNot(m, i) == slots

\* slots once free() has cleared a slot of m.
Cleared(m, i) == [slots EXCEPT ![m][i] = NoPage]

\* One iteration of free().
FreeSlot ==
  /\ phase = "free" /\ fi < plen[cur]
  /\ LET p == slots[cur][fi] IN
     IF p = NoPage THEN UNCHANGED <<r, freePages>>
     ELSE /\ r' = [r EXCEPT ![p] = @ - 1]
          /\ freePages' = IF Dead(r[p] - 1) THEN Append(freePages, p) ELSE freePages
  /\ slots' = Cleared(cur, fi)
  /\ fi' = fi + 1
  /\ UNCHANGED <<phase, cur, next, machVars, plen, pcap, d, regs>>

\* The end of free(), and the dequeued machine takes over.
FreeMach ==
  /\ phase = "free" /\ fi >= plen[cur]
  /\ plen' = [plen EXCEPT ![cur] = 0]
  /\ freeMachs' = Append(freeMachs, cur)
  /\ cur' = next /\ next' = NoMach
  /\ phase' = "run" /\ fi' = 0
  /\ UNCHANGED <<queue, copies, lost, slots, pcap, r, d, freePages, regs>>

\* The handler refused the machine, or no machine is pending: run() returns,
\* and Run() assigns the machine handled last to the one it was called on.
Return ==
  /\ Handling
  /\ phase' = "done"
  /\ regs' = [regs EXCEPT ![Root] = regs[cur]]
  /\ slots' = [slots EXCEPT ![Root] = slots[cur]]
  /\ plen' = [plen EXCEPT ![Root] = plen[cur]]
  /\ pcap' = [pcap EXCEPT ![Root] = pcap[cur]]
  /\ UNCHANGED <<cur, next, fi, machVars, r, d, freePages>>

Returned == phase = "done" /\ UNCHANGED vars

Next == \/ LimitHit \/ Stop \/ Store \/ Jump \/ Call \/ CPush \/ CPop \/ Ret
        \/ Fork \/ Branch \/ CFork \/ CBranch
        \/ Dequeue \/ FreeSlot \/ FreeMach \/ Return
        \/ Returned

Spec == Init /\ [][Next]_vars

\* Run() is a loop of one goroutine: while it can take a step it does.
FairSpec == Spec /\ WF_vars(Next)
-----------------------------------------------------------------------------
(* Properties *)

\* Every variable has its type.  The bounds are the configured ones: at most
\* QueueCap machines are queued and at most MaxCopies copies are ever made.
TypeOK ==
  /\ phase \in {"run", "free", "done"}
  /\ cur \in Mach /\ next \in Mach \cup {NoMach}
  /\ fi \in 0 .. NPages
  /\ queue \in Seq(Mach) /\ Len(queue) <= QueueCap
  /\ freeMachs \in Seq(Mach)
  /\ freePages \in Seq(Page)
  /\ copies \in 0 .. MaxCopies
  /\ lost \subseteq Mach
  /\ regs \in [Mach -> Regs]
  /\ slots \in [Mach -> [Idx -> Page \cup {NoPage}]]
  /\ plen \in [Mach -> 0 .. NPages]
  /\ pcap \in [Mach -> 0 .. NPages]
  /\ r \in [Page -> Int]
  /\ d \in [Page -> [Off -> Val]]

\* The invariants below are about a run that has not returned: Return leaves
\* two Mach structs with one backing array.
Running == phase # "done"

\* copy() and free() keep the reference count of every page equal to the number
\* of machines that hold it, those counted that a failed operation dropped: if
\* it were lower, a write would go to a page another machine still reads.
RefCountExact ==
  Running => \A p \in Page : r[p] = Cardinality(Holders(p))

\* copy() and ref() leave a page at one index: no machine holds it twice, and
\* machines that share it agree where it is.
OneHome ==
  \A p \in Page, m1, m2 \in Mach, i, j \in Idx :
    Running /\ slots[m1][i] = p /\ slots[m2][j] = p => i = j

\* What the free lists hand out next is in nobody's hands: no machine is both
\* free and running, queued or dropped, none is there twice, and a page given
\* back by free() is in no machine.
PoolsDisjoint ==
  Running =>
    /\ IsInjective(queue) /\ IsInjective(freeMachs) /\ IsInjective(freePages)
    /\ Queued \cap Range(freeMachs) = {}
    /\ ({cur, next} \cup lost) \cap (Queued \cup Range(freeMachs)) = {}
    /\ cur # next /\ cur \notin lost /\ next \notin lost
    /\ \A p \in Range(freePages) : Holders(p) = {}

\* copy() reuses the backing array of a recycled machine and assigns only the
\* slots where the original has a page: whatever free() and the growth of the
\* array leave behind m.pages' end, or in a machine that is free, is nil.
SpareSlotsNil ==
  Running => \A m \in Mach, i \in Idx :
    i >= plen[m] \/ m \notin Owners \cup lost => slots[m][i] = NoPage

\* No step changes what a machine that waits to run, in the queue or in the hands
\* of the run loop while it frees its predecessor, will find in its memory: the
\* copies that fork and branch make are isolated, although they share pages.
Waiting == Queued \cup ({next} \ {NoMach})
Isolation ==
  [][\A m \in Waiting : Running' => Memory(m)' = Memory(m)]_vars

\* A step of the running machine changes no memory but its own, a copying
\* operation hands the copy exactly the memory the original has at that moment,
\* and being recycled does not show: the copy sees nothing of its former life.
CopyIsSnapshot ==
  [][\A m \in Queued' \ Queued : Memory(m)' = Memory(cur)']_vars

\* The detailed run implements the abstract one: paging, sharing and recycling
\* are invisible.
Seen(m) == [mem |-> Memory(m), ip |-> regs[m].ip, ctl |-> regs[m].ctl,
            err |-> regs[m].err, count |-> regs[m].count]

Abs == INSTANCE AbsRun WITH
  running <- Seen(IF phase = "free" THEN next ELSE cur),
  pending <- IF Running THEN [i \in 1 .. Len(queue) |-> Seen(queue[i])] ELSE <<>>,
  copies  <- copies,
  done    <- ~Running,
  result  <- IF Running THEN [returned |-> FALSE] ELSE Seen(Root)

AbsSpec == Abs!Spec

\* With a limit on operations every run returns: a copy inherits the operations
\* its ancestors executed, so no chain of copies is longer than the limit.
Terminates == <>(phase = "done")
=============================================================================
