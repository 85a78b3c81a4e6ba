# stackvm: a verification project

`stackvm` is a stack machine with paged memory whose programs can copy
themselves: `fork` and `branch` make a second machine, the copies share memory
pages copy-on-write, and a handler of the host program is told of every machine
that ends. This directory holds TLA+ models of it, the TLC configurations that
check them on small instances, and TLAPS proofs for every value of their
constants.

Line numbers below are those of the files under `src/`.

## 1. Inventory

For each part: its state; its operations; what it interacts with; what is hard
about it; what makes it correct. The system has no threads. What makes it hard
is sharing (pages, slices, recycled structs), failure in the middle of an
operation, and arithmetic that wraps.

| Part | Where | Module | Status |
|---|---|---|---|
| Run loop and handler | `vm.go:131-151`, `api.go:1081-1140`, `handler.go` | `Machines`, `AbsRun`, `RunLoop` | modelled |
| Copies and copy-on-write memory | `vm.go:874-962`, `1053-1209` | `Machines`, `AbsRun`; `PageBytes`, `Bytes`, `AbsBytes` | modelled |
| Allocators | `alloc.go` | `Machines` | modelled |
| Run queue | `queue.go` | `Machines` | modelled |
| Stacks | `vm.go:982-1051`, `1211-1300` | `Stacks`, `AbsStacks` | modelled |
| Operations | `vm.go:153-872`, `964-980`, `1302-1330` | `Ops`; their effect on machines in `Machines` | modelled |
| Decoding, decode cache | `vm.go:86-117`, `813-852`, `encoding.go`, `ops.go` | `OpCache`, `VarCode` | modelled |
| Program and option builder | `api.go:105-183`, `584-803` | `Builder` | modelled |
| Inputs and outputs | `api.go:289-417` | `Builder` | partly: not `NamedValues` |
| Tracing and stepping | `api.go:989-1079`, `x/tracer` | `Program`, `RunLoop`, `Trace` | partly: not `filter.go`, `func.go`, the text of the log |
| Assembler | `x/assemble.go`, `api.go:911-971` | `Scanner`, `Encoder` | modelled |
| Action predicates, trace log tool, dumper, assets, tests, scripts | `x/action`, `tools/tracelog`, `x/dumper`, `internal` | | section 7 |

**Run loop and handler.** State: the loop variable `m` and the machine dequeued,
`n`. Operations: step while `m.err` is nil; then hand `m` to the handler; on its
refusal, or with no machine pending, return; else free `m` and go on with `n`.
`Mach.Run` then assigns the machine handled last to the struct it was called on
(`*m = *n`), which the loop may meanwhile have freed and reused. Correct: every
pending machine runs, as it was when it was queued; with a limit on operations
the run ends.

**Copies and copy-on-write memory.** State: `m.pages`, a slice of pointers to
pages with nil slots; a page's data and its reference count `r`. Operations:
`copy` (shares every page and counts it), `free`, `ref` and `store` (create a
page, copy a shared one, or write in place), `fork`, `cfork`, `branch`,
`cbranch`. A recycled machine keeps the backing array of its slice, and `copy`
assigns only the slots where the original has a page; so any pointer left in a
spare slot becomes a page of the copy. `cfork`, `cbranch` and a full queue
abandon a copy which has already counted its pages. Bytes and strings are cut at
page boundaries, and skip or create missing pages. Correct: counts equal
holders, copies are isolated, paging cannot be seen.

**Allocators.** Free lists (LIFO) of machines and pages, and a wrapper that
counts copies against a maximum. Correct: what they hand out is in nobody's
hands, a recycled page is cleared, the maximum holds.

**Run queue.** A LIFO with a capacity; `noQueue` refuses everything. Correct:
nothing lost, nothing twice, the capacity holds.

**Stacks.** Registers `psp`, `pa` (head of the parameter stack), `csp`, and the
memory between `pbp` and `cbp`: the parameter stack grows up and the control
stack down. An empty parameter stack is `psp = 0xfffffffc`, one word below 0.
Hard: all comparisons are unsigned, overflow checks are skipped under conditions
on `psp`, and the head is in a register, so bounds are one off from the words in
memory. Correct: they are two independent stacks in one space.

**Operations.** One switch of about 70 cases over a decoded op with an optional
immediate. Hard: an error of one half-step must stop the other, and each case is
written twice; several test the error the wrong way round. Correct: the two forms
agree, conditions and their negations exclude each other, no failure is lost.

**Decoding and the decode cache.** Ops are variable-length, bytes of 7 bits. The
cache is a slice indexed by address that copies of a machine share, and nobody
invalidates it. Correct: what is executed is what memory holds; a decode inverts
an encode.

**Builder.** Parses the option prefix of a program and lays out the memory.
Correct: the machine it leaves is what the options say, in any order.

**Inputs and outputs.** Named regions of memory written before the run and read
after it. Correct: inputs are in their regions and nowhere else; reads find what
the program wrote.

**Tracing and stepping.** `Trace` wraps the loop of `Run` with tracer calls that
see the op before and after it runs; the id and count tracers key maps by
`*Mach`, a recycled address. A refused machine leaves a queue that a second `Run`
or `Trace` goes on with. Correct: a traced run is the run; ids are unique.

**Assembler.** A scanner of sections, labels and spans, which renames labels and
keeps pointers into slices that grow; an encoder that resolves label references,
whose size depends on their value, by rewinding to a fixed point. Correct: labels
and spans are those of the input; a reference lands on its label; the rewinding
ends.

## 2. How the modules fit together

    AbsRun      a run without pages       AbsStacks   two sequences
       ^ refines                             ^ refines
    Machines    run loop, pages, pools    Stacks      psp, pa, csp, words
       ^ MCMachines, MachinesProof           ^ StacksProof
                                             | INSTANCE
                                          Ops         the switch of step()  <- OpsProof

    AbsBytes    a flat memory             VarCode     codes and immediates
       ^ refines                             ^ EXTENDS
    Bytes       texts and reads of them   Encoder     references, to a fixed point
       | EXTENDS, ^ MCBytes, PagesProof      ^ MCEncoder, EncoderProof
    PageBytes   bytes across pages
       ^ EXTENDS                          Scanner     items to tokens  <- MCScanner, ScannerProof
    Builder     options to a machine
       ^ MCBuilder, PagesProof            OpCache     by address  <- MCOpCache, OpCacheProof

    Program     a step, as the loop sees it
       ^ EXTENDS            ^ EXTENDS
    RunLoop     run()    <- Trace         Trace(), tracers: refines RunLoop
                                             ^ MCTrace, TraceProof

A module leaves to another what that one says better. `Machines` leaves to the
program what to write where; `Stacks` says what push and pop write where, on a
memory without pages: to `Machines` every operation of `Stacks` is at most one
`Store` (the spill of the head) and a change of depth. `Ops` says which of those an
operation makes. `Machines` stores words; `Bytes` says that a byte, a word and a
string are where a flat memory has them. `OpCache` takes memory as a function,
which these allow, and an operation's bytes as what stands for its immediate;
`VarCode` has the bytes. `Trace` takes machines as values, which `Machines` allows, and
caches that do not grow; `OpCache` has those that do. `Scanner` hands tokens and
labels to `Encoder`, whose output `Builder` reads.

### Machines (with AbsRun)

State and code:

| Variable | Code |
|---|---|
| `phase`, `cur`, `next`, `fi` | where the loop of `run()` is, its `m`, its `n`, the loop index of `free()` |
| `queue` | `runq.q` |
| `freeMachs`, `freePages` | `machFreeList.f`, `pageFreeList.f` |
| `copies` | `_maxMachCopiesAllocator.copies` |
| `regs[m]` | `ip`, depth of the control stack, `err`, `count` |
| `slots[m]`, `plen[m]`, `pcap[m]` | backing array, length and capacity of `m.pages` |
| `r[p]`, `d[p]` | a page's count and its words |
| `lost` (ghost) | machines dropped by an operation that failed |

An action is an iteration of the loop "step while err is nil", of the loop in
`free()`, or a round of the outer loop. `Stop`, `Store`, `Jump`, `Call`, `Ret`,
`CPush`, `CPop`, `Fork`, `Branch`, `CFork`, `CBranch` are the operations by what
they do to memory, jumps and machines; operands are `\E`-chosen, because a program
may compute any. `FreeSlot` and `FreeMach` are `free()`, one slot at a time.
`AllocPage(p)` and `AllocMach(n)` take the last one freed, or any struct nobody
holds, as Go's allocator does. A machine given up by a failed operation stays in
`lost` and is never allocated again, nor are its pages: nobody frees it.
Without a handler there is no queue and nothing is ever recycled: `QueueCap = 0`.

`AbsRun` says the same of machines that own their whole memory. `AbsSpec` is its
`Spec` under the mapping that reads each machine's memory through its pages; while
the loop frees `cur`, the running machine is already `next`.

Abstractions: a page is a few words (`Off`), a word one of a small set; addresses
in the stack space that must not be jumped to are the one value `InStack`; the
errors of operations that changed nothing are `crash`.

### Stacks (with AbsStacks)

One record with the registers `psp`, `pa`, `csp`, `mem`, `err`; addresses count
words, and `Wrap` is unsigned arithmetic on `Words` of them (2^30 in the code).
`Push`, `Drop`, `CPush`, `CPop`, `Ref`, `FetchPS`, `FetchCS` are `push()`, `drop()`,
`cpush()`, `cpop()`, `pRef()`, `fetchPS()` and `fetchCS()`; the actions are the
operations built from them, in any order. `pop n`, `p2c n`, `c2p n` and `cpop n`
repeat the operation of one word. Stores through an address in the stack space
are not among the actions: the program then edits its stack on purpose.

The ghost `passed` records that `psp` and `csp` passed each other or `csp` left
the space, which `cpush()` lets happen (see the findings). `AbsStacks` promises two
sequences until then and names exactly from which states it can happen
(`Overrun`): the parameter stack alone fills the space, or the control stack has
Size - 1 words.

### Ops

The switch of `step()` as one operator, `Execute(m, op)`, with an operator for each
group of cases on the operators of `Stacks`; the action `Step` executes any one of
them. Words have `Bits` bits, and operands are byte addresses: stores in the stack
space, alignment and wrapping jumps are those of the code. What a control routine
does to machines is in `Machines`; here `reached` notes which one the operation
came to and with what operand, and `lost` that a step failed and the operation
went on without its error. Words are numbers: `bitand`, `bitor` and `bitxor` add up
the bits that the two have (`BitByBit`), and `Rem` is Go's remainder of signed words,
made positive as the code does it. `pop n` and the like take `n` steps in the code;
`Repeat` looks at the first `Words` of them, one of which has failed by then. Operations that take a word in either form go through
`WithOperand`; those whose two forms differ in the code are written twice here too
(`gte`, `divmod`, `bnz`, `fetch`, `jz`).

### OpCache

How `step()` finds its operation. Memory is a function from addresses to bytes and
operations are chosen with `\E`: `Store` (any word; pushes and swaps store too), `Jump`,
`Copy`, `Compute`, `Stop`. A machine is a record `mem`, `ip`, `opc`, `err`. `opc` is a
slice: `cos[a]` is the array at address `a` with its length. Copying a machine
copies the slice, not the array; `Set` writes into the array, or makes a longer one
(`Grown`), which only the running machine has. An array in nobody's slice may be
handed out again, as the garbage collector would. `Decode` is `step()` up to the
switch.

Ghosts: `decoded`, the bytes of operations in a cache; `stale`, those of them stored
to later; `apart`, what was stored to while copies waited, where memories may differ.

### VarCode and Encoder

`PutVarCode`, `ReadVarCode` and `VarCodeLength` are the functions of `encoding.go`, on
words below `W`. A token of the encoder is `[kind, arg, size]`; `toks`, `refs`, `offs`,
`i`, `c`, `rf`, `boff` are the variables of `encode()` of those names. `EncodeOption`
and `EncodeOp` encode one token; `Fix` resolves the next reference, and either keeps
the length (`Keep`) or goes back behind it (`Rewind`), into the options where it is
one; `Finish` is the end, with an error when a reference is left. `OffsetArg` is
`ResolveRefArg`, with the length of the operation subtracted as the code does it.

### Scanner

One record, `sc`, for assembler and scanner: `opts`, `adls`, `prog` the three token
sections; `labels`; `ptrs`, the pointers `refOpt()` returned, with the capacity of the
array they point into; `pendIn` and `pendOut`; `open`, `opens`, `seen`, `urs`, `unkRets`
for spans and the returns that may close them. `seen` is a Go slice of labels and
`arrs` its arrays, because two inputs may append to one. An action is an item:
a directive, `label:`, a call, jump, return, operation or datum; `Expected` is the return
of `expectLabel()`, innermost directive first; `Include` and `EndInclude` push and
pop an input. Where an item may not stand, `Invalid` is the error.

At this commit `assemble.go` does not compile (`pushState` uses a `subProg` that is
neither defined nor used); `Include` is what it does when it is given a program.

### PageBytes, Bytes and AbsBytes

`PageBytes` has `storeBytes()`, `fetchBytes()`, `fetch()`, `fetchMany()` and
`fetchString()` on a sequence of pages, missing ones `<<>>`. A word that extends
behind its page's array is whatever is there: operators that may read one return the
set of their results. `Bytes` stores texts, in any order; `AbsBytes` writes them to a
flat memory.

### Builder

`mb` is the machine and its builder. An action is an option (`Version`, `StackSize`,
`QueueSize`, `MaxOps`, `MaxCopies`, `Entry`, the regions, labels and marks), as
`handleOpt()` applies it; `Load` the end of the options, where the program is
stored behind the stack; `Handler`, `Input` and `NamedInput` the options of the
caller; `Run` any error and control stack that a run leaves; `Values` is
`Mach.Values()`. `given` (for each kind of option its arguments, in order), `calls` and
`ran` are what was asked for, for the properties.

### Program, RunLoop and Trace

`Program` is a step on a machine as a value, with the operations that a run loop and
a tracer tell apart: those that go on, jump, fork, overwrite an operation, end. A
machine's name is its `life`: the numbers of the operations that made it and its
ancestors. `RunLoop` is `run()` on them. `Trace` has the structs: `regs[m]`, the queue and
the free list, `traced[m]` (the machine of the `machTracer` in its context), and the
maps `ids` and `counts` of the tracers, keyed by struct. An action is a call of
`Trace()` or `Run()`, or one step of them: `Begin`, `Before`, `Step`, `After`, `End`,
`Handle`, `Resume`, `Return`. The tracers are called in the order of `x/test.go`. `log`
is what the log tracer is told, with the number and count it looks up. `TraceIsRun`
maps `Trace` to `RunLoop` by reading machines through structs.

## 3. Runs

Each configuration has a comment with its purpose. Deadlock is checked but in
`builder`, `bytes` and `trace`, where a machine that is built, the last store and the
last call are the end.

| Run | Shows | Bounds |
|---|---|---|
| `machines_safety` | type and bounds, exact reference counts, one page index per page, disjoint pools, nil spare slots, isolation of waiting machines, copies are snapshots; refines `AbsRun` | 3 machines, 2 copies, queue of 1, 2 page indices, 2 words a page; no limit on ops |
| `machines_live` | a run with an operation limit ends; refines `AbsRun` with jumps, calls and control stacks | 4 machines, no copy limit, 2 ops a machine, 2 code addresses, 1 control word |
| `stacks` | types, `Stacks()` serves every sound machine, `pRef` finds the right word, the stacks refine `AbsStacks` | 4 words of stack in a space of 9, values 0 and 1 |
| `stacks_passed` | a finding | the same |
| `opcache` | types; cached operations are those in memory unless the program interferes | 6 addresses, programs of 2 bytes entered anywhere, 3 byte values, operations of up to 2 bytes, words of 2, 2 machines, 3 arrays, 1 store |
| `ops` | a failed part stops the operation; the two forms of an operation agree; of a condition and its negation one goes; results of division and on bits | words of 8 bits, 3 words of stack of which up to 2 used, 4 operands, any 2 operations in a row |
| `ops_bnz` | a finding | 1 operation |
| `encoder` | the encoder ends, its buffer is large enough, offsets chain, references lead to their targets, and decode | programs of 3 tokens, an option, a label; data of 1 and 126 bytes; every set of references; words of 28 bits |
| `scanner` | generated labels are defined and where they belong, spans closed were opened, regions are data, options are unique | 2 labels; five kinds of input of 5 to 7 items |
| `bytes` | pages implement a flat memory, and are read as one | 2 stores of up to 10 bytes in pages of 8, at 9 addresses; every read up to 40 |
| `builder` | stacks, program, first operation, handler and marks are as declared in any order; where inputs are; what the values are | pages of 16; four kinds of use, up to 4 options and 2 inputs |
| `trace` | numbers name machines and tell descent, counts are right, entries are removed, nothing is handled twice or forgotten; `Trace()` and `Run()` refine `run()` | programs of 3 operations, or of 2 that overwrite each other; limit 4, queue of 2, 2 calls, any refusals |

**Why these bounds are enough to meet the cases.** *Machines.* Sharing needs one page and two
machines; sharing by three, a count of 3, and dropping one while two live need the
third. A queue of one is full at once, and is drained and refilled with three
machines. With two page indices a slice has a nil slot, grows past its
capacity, and is recycled into a copy shorter and longer than it was. Two machines
can both be freed and reused since `Root` is recycled as well. `machines_safety`
has no limit on operations: every sequence of any length. It has no control stack,
whose depth nothing else in it reads; `machines_live` has one. `EnoughMachs`
and `EnoughPages` (assumptions of `MCMachines`) make sure that no allocation
is disabled for want of a struct. In `machines_safety`, machines other than `Root`
are symmetric, as no definition names one. Pages are too; there the constraint
`InOrder` has never used ones taken in a fixed order, which leaves out only states
that differ from others by a permutation of pages nobody ever held. The run for
liveness does without both.

*Stacks.* The space of four words holds every mix of the two stacks, and Words
exceeds twice the stack so that a wrapped address is not a stack address (the code:
2^32 bytes, of which the stack takes at most the 16-bit `stackSize`).

*OpCache.* The last operations of the program
always lie past the cache's first length, so arrays grow, before and after a copy
was made; keys wrap below `cbp`, and the ip at the end of memory. Two machines and three
arrays: each has its own and one is free. One store is enough to hit an operation
before or after it is decoded, by the machine that decodes it or the other. Symmetry
over arrays: no definition names one.

*Ops.* Stacks that are empty, have one word, two, and no room: every half-step of an
operation fails somewhere. The operands are zero, one, a misaligned address, and the
word below zero. A second operation runs on what the first one left, a failed one too.

*Encoder.* Distances of 126 bytes and a few put references just below, at and above
the length at which an argument takes a second byte, forwards and backwards (backwards
it takes five: W - d), so that changes of one reference's length change another's. `RefOff` is 0:
with a negative offset the encoder may not end (section 6). Labels have one letter:
with longer ones the buffer is too small (section 6).

*Scanner.* Seven items define two functions, call them before or after, and return
twice; or open a region, end it by a label, a region, a section or the input. The kinds of
input keep apart what does not interact. Left out: an `include` inside a data region,
and a directive nested in another but `.entry` with `.spanOpen`.

*Bytes, Builder, Trace.* Texts lie in one page, across two and across three, behind missing pages
and behind the end. In `builder`, options are given late, twice and not at all; inputs fill
a region, exceed it, and are named. In `trace`, structs are recycled within a run of three
operations that fork, and a call that follows a refusal finds a queue, recycled or not.

**Fairness.** `Machines!FairSpec` is `WF_vars(Next)`: `Run()` is a loop in one goroutine,
so while a step is possible one is taken. It does not assume which operation the
program runs, nor that the handler accepts. `Encoder!FairSpec` is weak fairness of its
actions for the same reason: `encode()` is a loop.

**Mutants.** For each property of a passing run PROJECT.json names a slip in the
code (defined as an operator with the comment "Slip") that violates it: for
instance `Exclusive` off by one for `Isolation`, a slot that `free()` leaves behind for
`SpareSlotsNil`, a child that restarts its count for `Terminates`. A property that is a
conjunction has one for each part.

## 4. What is proved

By TLAPS, for any value of the constants that the assumptions allow:

- `MachinesProof`: `TypeCorrect`, `RefCountCorrect`, `OneHomeCorrect`,
  `PoolsCorrect`, `SpareSlotsCorrect`, `IsolationCorrect`, `SnapshotCorrect`; and
  `RunRefines`: `Machines` implements `AbsRun`. Every property of `machines_safety`.
- `StacksProof`: `TypeCorrect`, `Served`, `RefsFind`, and `Refines`: `Stacks`
  implements `AbsStacks`. Every property of the run `stacks`.
- `OpCacheProof`: `TypeCorrect` and `CacheCoherent`. Every property of the run
  `opcache`.
- `OpsProof`: `ImmediateIsPushed`, `ZeroOrElse`, `FailuresAreSeen`, `ComputesRight`: every
  property of the run `ops`; and `WordsStayWords`: no operation leaves a number in a register
  or in memory that a word has no room for, or a stack pointer outside memory.
- `EncoderProof`: `RoundTrip` (`readVarCode` inverts `putVarCode`, in as many bytes as
  `varCodeLength` says), `TypeCorrect`, `OffsetsChain`, `ReferencesLead`, `Decodes`, and
  `BufferFits` where label names are short enough (`LabelsFit`; with longer ones it is
  false, section 6). Every property of the run `encoder` but the liveness.
- `ScannerProof`: `OptionsOnce`, `SpansPair`, `LabelsGenerated`, and `RegionsFollow` where
  an input that includes others has no regions (`RegionsAlone`; without it, an `include`
  in a region goes on in the text, and the region with it). Every property of the run `scanner`.
- `PagesProof`: `ImplementsFlat`: `Bytes` implements `AbsBytes`; and `ReadsAreServed`: every
  property of the run `bytes`. Of `Builder`, `IsAsDeclared` and `StartsAsTold`; and
  `InputsLandThere` and `ValuesAreServed` where the inputs change no region's name
  (`NamesKept`, see below). Every property of the run `builder`, the last two under that condition.
- `TraceProof`: `StructsApart`, `NoneLeftNoneTwice`, `EntriesAreOwned`, `NumbersName`,
  `CountsAreRan`, and `TracedIsRun`: `Trace` implements `RunLoop`. Every property of the run `trace`.

Assumptions: those of the modules: constants have their types, `Zero` is a value,
the nil pointers are not structs, a stack has at least one word and the address
space more than twice the stack's; stacks and program fit the address space, and the
byte 0 is the code of an operation without immediate; words have between 7 and 35
bits, which is what five groups of seven hold; those of `Ops` have 8, 16 or 32 (32 in
the code); its stacks take less than an eighth of memory (in the
code, 2^16 bytes of 2^32); pages have a multiple of four bytes; a name is not empty.
Nothing else is assumed on sizes.

**The argument for Machines.** Types first (`TypeInv`: `TypeOK`, and the loop holds a
next machine exactly while it frees one). On top of it `RefInv`, in which the
properties are inductive together and none is alone. While a machine is being freed
its counts are exact because the slots before `fi` are cleared one by one with
the counts; a page appended to the free list then has no holder because the count
reached 0; a page allocated from the list has therefore no holder, so that
its count 1 is right (`AllocatedPage`); the count is a number of *machines*, and
`copy` adds the number of *slots*, which is the same only as no machine holds a page
twice (`OneHome`); a copy's array holds only what it was given since spare slots are
nil (`CopyEffect`). A page written in place has count at most 1, so the writer
is its only holder (`ExclusiveHolder`): from this come isolation and the snapshot
property. Each operation's effect on the memory is stated once
(`WriteCases`, `SlotChange`, `CopyEffect`) and used by each action
(`WriteKeeps`, `CopyKeeps`, `FreeSlotKeeps`, `FreeMachKeeps`, `DequeueKeeps`). The
conjunction is `SafeInv`, theorem `Safety`.

**The argument for the refinement of Machines.** `Seen(m)` reads a machine's memory through its
pages. `WriteView` says what a store does to it, whether it creates a page, copies one or writes in
place; `QueuedApart` that the machines in the queue are neither the one that runs nor the one
dequeued; `Copies` what a copy and its enqueueing, or a refusal, do to the views of both. So every
operation changes the running machine's view as `AbsRun` says (`OperationAbs`, one case for each
operation), and a copy is queued, run or refused as there (`CopyAbs`). While the loop frees `cur`,
the running machine is already `next`, and freeing changes no view of those that live: `FreeAbs` is
a stutter. `ReturnAbs` is `*m = *n` at the end of `Run`. It rests on `TypeInv` and `RefInv` and
needs no invariant of its own.

**The argument for Stacks.** `Moves` does the wrapping arithmetic once; the type invariant is
inductive by itself. `Views` says what `fetchPS()` and `fetchCS()` return, word by word, of a
machine whose pointers have not passed; `Served` and `RefsFind` follow from it under `Inv`, that the
ghost `passed` tells the truth. For `Refines`, each operation has a lemma that says what it does to
the two sequences (`PushView`, `DropView`, `PutView`, `CPushView`, `CPopView`, `SwapView`), proved
word by word from `Views`, `SameViews` (what must be left alone for a sequence not to change) and
`ViewsAre` (what must hold of the words for a sequence to be a given one). `CPushView` is where the
hole in `cpush()` shows: either the state is one of those `Unchecked` names, or the push behaves.
`ApartStep` puts them together, an action of `AbsStacks` for each action of `Stacks`; once the
pointers have passed, every step is `Unspecified`.

**The argument for OpCache.** `Coherent` is not inductive: what one machine sets, others find, so
the invariant `IInv` adds that live memories agree wherever no store was made while copies waited
(`Agree`), and that the bytes of every operation found in a cache are known to be decoded
(`RightOp`). `ReadSame` is the core: memories with the same bytes in an operation decode it alike,
since its end is unique (`OneEnd`). `DecodeRight` treats a set in place, which the machines sharing
the array see, and a set that grows the array, which no other live machine sees. A store misses
every decoded byte by the condition of the property (`StoreKeeps`).

**The argument for Ops.** The inductive invariant is `Running`: a machine has words in its
registers and its memory and its stack pointers are addresses (`Typed`); a run begins on sound
stacks; an error that was lost was that of one of the three operations that forget one. What an
operation keeps of it is `Kept`, stated once of each part (errors, push, pop, the control stack,
memory, jumps) and then of each case of the switch (`KeptParam` to `KeptHalts`), which
`KeptExecute` puts together; `FailuresAreSeen` and `WordsStayWords` read it off. That a word which
is read or written across two stays a word is arithmetic of quotients (`Parts`, `Across`), that one
with a bit set does is that a power of two divides any higher one (`Higher`, `SetBit`). For
`ImmediateIsPushed`, a machine on which x was pushed and popped again differs from the one before in
at most the word that the head was spilled to (`PushedAndDropped`), which no program can tell
(`Hidden`, `Shown`); `Twins` are two machines that differ in no other, and `Around` says what a
further pop or push makes of them. Each group of operations keeps twins (`SameBinary`, `SameFetch`,
`SameStore`, `SameBits`, `SameRoutine`). For `ComputesRight`, `Remainders` brings Go's truncating
remainder of signed words to the Euclidean one; `SetBit` and `ClearBit` say which bits change when a
power of two is added or taken away.

**The argument for Encoder.** `Leading` speaks of the end and is not inductive. `IInv` is `Linked`
(types, offsets that chain up to `c`) and `Aimed`: every reference before `rf` was resolved with the
offsets as they are now, and while options are encoded there is none. Going back changes offsets
behind token `j`; the references that depend on them are those behind `j` and those that aim behind
`j`, and `RewoundTo` is not after any of them. That `rf` skips no reference is the other half. At
the end `rf` is none, so all are resolved, and what `ResolveRefArg` computed is where the token
leads unless the length it subtracted is not the one it gets (`AtBoundary`). `RoundTrip` goes by the
number of groups, of which there are at most five, so no induction is needed. `BufferFits`: each
token, at any length that its argument takes, has at most the bytes that were reserved for it
(`RoomOfToken`), so by induction on the tokens each offset is at most the sum of what was reserved
before it, and the next token ends within.

**The argument for Scanner.** The operators of `Scanner` are built from seven that add an option, a
token or a label, or rename one; for each of these there is a lemma of what it does to the record
and one that it keeps `Core`, and every operation follows from them. `Inv` says, besides types: a
pointer of `refOpt()` leads to the only option of its kind, whose value is the last one set unless
the slice moved (`Pointers`); one entry (`OneEntry`); what is referred to is defined or a label of
the input (`Referred`); closed spans were opened (`Closed`), and so were those still open, in this
input and in the ones that include it (`OpenedIn`); and the returns that may be renamed have
generated names (`Returns`). `Closed` alone is not inductive: renaming a return closes a span under
a new name, which was opened in the same call. `LabelsGenerated` rests on `SoloInv` too: what every
span close marks is a return of the program, and the labels of open spans are known, which is kept
as the return follows in the call that puts its mark before it (`ReturnSolo`), and as the name a
return is renamed to is fresh (`RenamedSolo`). `RegionsFollow` rests on `RegInv`: regions that ended
are as they should be (`Named`), one waits at most, in the data section, with data and nothing else
behind its label (`Pending`, `Waits`), and a label is wanted by marks of the text or by one `.in` or
`.out` (`Wanted`). What an operation must leave alone for a region to stay one is `Stays`: options,
tokens and labels but for those that returns may be renamed to.

**The argument for Bytes.** `StoreWrites`: after `storeBytes` each byte of memory is the text's
where the text covers it and what it was elsewhere, by cases of its page: one the text touches,
which there was or was not, one between, one beyond. The loops of `fetchBytes()` and `fetchMany()`
are recursive functions; `FetchUnfolds` and `ManyUnfolds` unfold them once, and that they serve the
memory goes by induction on what is left to read (`ServedByte`, `ServedSkip`, `HeadJoined`). A skip
over a missing page goes one byte too far, which is the byte that `Hole` names: `ServedSkip` shows
that there is no other.

**The argument for Builder.** The inductive invariant `Declared` joins types (`BTypeOK`), where the
stacks and the program are (`Placed`), where a machine starts (`Entered`), what options leave for
later (`Taken`), what a handler has (`HandlerFits`), labels and marks (`DebugKept`), what is empty as
yet (`NotYet`), and that the program has no missing page (`Loaded`). Each option is a lemma. The
exceptions of `Started` are in `Entered` already: a size that follows an entry moves it along where it
is the old base. `DebugKept` says of labels what a recursive function over the options given says;
`AllGrows` is the step for one more. On top of it `Landed`: the memory is, byte by byte, the
program overwritten by the calls so far, a later one over an earlier (`Expected`); one more
input changes it where it lies, by `StoreWrites` of Bytes. An input that is named looks its region up by the
names in memory, while `Meant` looks at the program that was loaded. The two agree unless an earlier
input was stored over a name, or a name is outside the program or misaligned, where the code reads
what Go has there: `NamesKept` excludes both, and nothing else. In general
`InputsLand` is not true without it; in the run `builder` it is checked without it.
`ValuesAreServed` reads the regions by `ManyServed`, after the control stack was written at the top of
the stack space.

**The argument for Trace.** Structs first (`ApartInv`): while the caller's struct was not recycled,
the machine that runs, those that wait and the free ones are different structs, and the queue and
the free list hold none twice. `RunInv` adds lives: a life is that of one machine, and every life
that was born waits, runs or was accepted (`LivesInv`, `AcceptedInv`); a copy's life is new because
its parent counts the operations it ran, and the count is in the name. `OwnedInv` is inductive on
top of them, and so is `NamesInv`: numbers are given once, every note's number and life belong
together (`Noted`), a machine that waits was told of by its parent (`Descent`), and counts are those
of the operations ran (`Counting`), off by one only between `Before()` and the step. `TracedIsRun`
needs `ApartInv` alone: machines as values are those read through structs, a step changes one value
(`StepIsRun`), the queue is the sequence of values (`PendingKept`, `PendingGrows`,
`PendingShrinks`), and calls of tracers change none.

**Induction.** No theorem of the library that takes an operator can be cited. Where a proof goes by
induction over numbers, it takes the set of counterexamples, and its least member from `WFMin` and
`NatLessThanWellFounded` (`LeastNumber`, `ByInduction`).

## 5. What is only model-checked

- `Terminates` of `Machines` and of `Encoder`: liveness under fairness is out of the prover's reach.
- `InputsLand` and `ValuesServed` of `Builder` in the case that inputs overwrite names (section 4): the run
  has programs and inputs for which they hold all the same.
- `Regions` where an input with regions includes another, and `Fits` with long labels, are neither proved nor
  checked: they do not hold there (sections 4 and 6).

## 6. Findings

Two runs show by a counterexample that the code does not do what is written of it.

- `stacks_passed`: `cpush()` (`vm.go:1267`) checks for room only while `psp` is below `cbp`
  and the decremented `csp` did not wrap. An empty parameter stack is above `cbp`, so the
  control stack runs past address 0; a parameter stack that ends at `cbp` is run into.
  The comment at `api.go:86` promises an overflow error.
- `ops_bnz`: `bnz` without an immediate (`vm.go:764`) tests `err != nil && val != 0`: it pops a word
  that is not zero and goes on. `README.md:19` says "BZ/BNZ are branch if (non-)zero".

The other places where models and texts part have no run. The models follow the code there,
and the property that passes says, in its statement, where it does not hold:

| Code | What it does | What is written of it | In the model |
|---|---|---|---|
| `vm.go:164` | executes what it first decoded at an address, whatever was stored there since | `api.go:97-98` decodes at IP | the condition of `Coherent` |
| `vm.go:383` | `gte`, `and` and `or` without immediate compute only when the pop failed; `divmod` divides the other way round | `api.go:93-95` immediate is an alternative to popping | `Faulty` in `ImmAlternative` |
| `vm.go:765` | `bnz` on an empty stack loses the error; so do `fetch` and `jz` of their second step (`vm.go:241`) | `api.go:88` underflow will occur | the three of `FailuresStop` |
| `vm.go:466` | the number of a word is added to an address in bytes, so that bit 32 is bit 8 | `vm_basic_test.go:311` 4 words are 128 bits | `BitsOfAWord`: one word |
| `vm.go:316` | division by zero is Go's panic, of the host | | the error `panic` in `Ops` |
| `vm.go:1214` | `push()` on a full space reports underflow | `api.go:86` overflow | `AbsStacks` |
| `vm.go:1070` | `fetchBytes()` skips one byte too many behind a missing page | `api.go:413` copies bytes from memory | `Holes` in `ReadsServed` |
| `vm.go:1087` | the length of a name is read as a word, which may extend beyond its page | `api.go:505` | `Whole` in `ReadsServed`, sets of results |
| `api.go:957` | at a forward distance of 128 a reference is a byte off | `api.go:943-944` | `AtBoundary` in `Leading` |
| `x/assemble.go:406` | six bytes are reserved for a label, whose name is written too | `x/assemble.go:217-222` | short labels in `encoder` |
| `x/assemble.go:1153` | a negative offset to the operation behind a reference rewinds for ever | `x/assemble.go:1190` reports what cannot be resolved | `RefOff` in `encoder` |
| `x/assemble.go:998` | a region pending at the end of the input is dropped | `x/assemble.go:1001` to be flushed by handleLabel | `Regions` is about regions that are ended |
| `x/assemble.go:571` | an input that is included begins in the text, and a region that waits goes on through its operations | `x/assemble.go:1001` to be flushed by handleLabel | `RegionsAlone` in `RegionsFollow` |
| `x/assemble.go:432` | `genLabel()` returns the name it was given: two unknown returns share a label | `api.go:74` | `GeneratedLabels`: at a return, not at its own |
| `x/assemble.go:459` | what is set through a pointer of `refOpt()` after the slice moved is lost | `api.go:91` loaded behind the stack space | `cap` in `OneToken` |
| `api.go:598` | without the option the stack has no words | `api.go:80` "or 0x40 default" | `Size > 0` in `StackPlaced` |
| `api.go:728` | an entry that is 0 or the old base is lost to a later stack size | `api.go:59` | the exceptions of `Started` |
| `api.go:143` | room is compared in bytes, values are words | `api.go:134` must fit | `AllWithin` in `InputsLand` |
| `api.go:1047` | `Trace()` decodes before it steps, from memory, and before the limit | `api.go:1031` the same logic as run | `ReadsAhead` in `TraceIsRun` |
| `api.go:1053` | tracers are told of the operation in memory, the cached one is executed | `api.go:441` | the note's `op`; no property reads it |
| `api.go:1055` | no `After()` when the operation ended the machine | `api.go:421` around each machine operation | `CountsRan`: of the notes there are |
| `api.go:1074` | the tracer stays in the context when `Trace()` returned | `api.go:989` currently running under | `calls = 1` in the properties of numbers |
| `api.go:1026` | the tracer is told of a copy that the queue then refuses; its entries stay | `x/tracer/count.go:5` deleted after handling | `lost` in `EntriesOwned` |

## 7. Not modelled, and why

- `x/action`: pure predicates on the count, address and operation of a step, which choose what
  a command prints.
- `tools/tracelog`: parses the text of the log and renders a page. `x/dumper`, the text of the log
  tracer, the text forms of operations: formatting.
- `filter.go` and `func.go` of the tracers: a test, or a function, in front of another tracer.
- `NamedValues`: repeats `Values` by name.
- `internal/errors`: one loop that unwraps an error.
- Generated assets, scripts, tests: build support with no state of the machine.
- Memory use of the decode cache (`vm.go:105`: a jump to a far address makes entries for every
  address in between).
- Allocators that the host could write itself, and a handler that calls the machine it is given.

## 8. Plan

Done: 1 `AbsRun`, `Machines`; 2 `AbsStacks`, `Stacks`; 3 `OpCache`; 4 `Ops`; 5 `VarCode`,
`Encoder`; 6 `Scanner`; 7 `PageBytes`, `Bytes`; 8 `Builder`; 9 `Program`, `RunLoop`, `Trace`; and the proofs
of section 4.

Left, in this order:

1. A stronger `Regions`: which regions an `include` lets go on.
2. `InputsLand` where an input changes a name: which region a later one then finds.
3. The action predicates, and the sessions of the trace log tool.
