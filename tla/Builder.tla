------------------------------ MODULE Builder ------------------------------
(***************************************************************************)
(* How New() builds a machine (api.go): the options in front of a program  *)
(* are applied as they are read, the program is loaded behind the stack    *)
(* they ask for, then the caller's options are applied, in order.  In the  *)
(* end: what the outputs of the machine are, once it ran.                  *)
(*                                                                         *)
(* Words are sequences of four bytes.  The operations between loading and  *)
(* the end are in other modules: here a run leaves an error and a control  *)
(* stack.                                                                  *)
(***************************************************************************)
EXTENDS PageBytes, FiniteSets, SequencesExt

CONSTANTS
  W,          \* words are 0 .. W - 1
  Uses,       \* what callers use, with bounds: [options, sizes, progs, maxOpts, maxCalls]
  Counts, Entries,   \* arguments of options: limits, addresses in the program
  Regions,    \* regions of input and output
  Labels,     \* what addresses are labelled with
  Labelled,   \* what an option for address labels has: sequences of <<address, label>>
  Vals,       \* inputs: sequences of words
  Names,      \* names that inputs are given by
  Results     \* control stacks that a run leaves: sequences of words

Word == [1 .. 4 -> 0 .. 255]

ASSUME UsesAssumption ==
  \A u \in Uses : u.maxOpts \in Nat /\ u.maxCalls \in Nat /\ u.sizes \subseteq Nat /\ u.progs \subseteq Seq(0 .. 255)
ASSUME OptionsAssumption ==
  /\ W \in Nat \ {0} /\ Counts \subseteq Nat /\ Entries \subseteq Nat
  /\ Regions \subseteq [from : Nat, to : Nat, name : Nat]
  /\ Labelled \subseteq Seq(Entries \X Labels)
ASSUME CallsAssumption ==
  Vals \subseteq Seq(Word) /\ Results \subseteq Seq(Word) /\ Names \subseteq Seq(0 .. 255) \ {<<>>}

VARIABLES
  use,    \* one of Uses: kinds of options, stack sizes, what may follow the options, bounds
  mb,     \* the machine and its builder
  given,  \* what was read of each option: its arguments, in order
  prog,   \* the program that was loaded
  calls,  \* options of the caller: inputs [name, vals]; name is <<>> for the next one
  ran,    \* how it ended: [err, cs]
  pc      \* "opts", "calls", "ran" or "failed"

vars == <<use, mb, given, prog, calls, ran, pc>>

DefaultQueueSize == 10
MaxStackSize == 65535
NoName == 0
NotRun == [err |-> "nil", cs |-> <<>>]

Opts == {"version", "stackSize", "queueSize", "maxOps", "maxCopies", "entry", "input", "output",
         "addrLabels", "spanOpen", "spanClose"}

NewBuilder ==
  [base |-> 0, cbp |-> 0, csp |-> 0, ip |-> 0, limit |-> 0,
   queueSize |-> DefaultQueueSize, maxCopies |-> 0,
   queue |-> 0, copies |-> 0,            \* of the context: none without a handler
   inputs |-> <<>>, outputs |-> <<>>, nextIn |-> 0,
   labels |-> [a \in {} |-> <<>>], annos |-> [a \in {} |-> {}],
   pages |-> <<>>]

Init ==
  /\ use \in Uses
  /\ mb = NewBuilder /\ given = [opt \in Opts |-> <<>>] /\ prog = <<>> /\ calls = <<>> /\ ran = NotRun
  /\ pc = "opts"

-----------------------------------------------------------------------------
(* handleOpt() *)

Reads(opt, arg, valid, next) ==
  /\ pc = "opts" /\ opt \in use.options /\ MapThenSumSet(LAMBDA o : Len(given[o]), Opts) < use.maxOpts
  /\ given' = [given EXCEPT ![opt] = Append(@, arg)]
  /\ IF valid THEN mb' = next /\ UNCHANGED pc ELSE pc' = "failed" /\ UNCHANGED mb
  /\ UNCHANGED <<prog, calls, ran>>

Version(arg) == Reads("version", arg, arg = 0, mb)

\* Slip: the program starts where it was.
StackSizeStays(arg) ==
  Reads("stackSize", arg, arg <= MaxStackSize /\ arg % 4 = 0,
        [mb EXCEPT !.base = arg,
                   !.cbp = IF arg > 0 THEN arg - 4 ELSE @, !.csp = IF arg > 0 THEN arg - 4 ELSE @,
                   !.ip = IF @ = 0 THEN arg ELSE @])

\* Slip: the control stack stays.
StackSizeHalf(arg) ==
  Reads("stackSize", arg, arg <= MaxStackSize /\ arg % 4 = 0,
        [mb EXCEPT !.base = arg, !.cbp = IF arg > 0 THEN arg - 4 ELSE @,
                   !.csp = IF arg > 0 /\ @ = 0 THEN arg - 4 ELSE @,
                   !.ip = IF @ \in {0, mb.cbp + 4} THEN arg ELSE @])

StackSize(arg) ==
  Reads("stackSize", arg, arg <= MaxStackSize /\ arg % 4 = 0,
        [mb EXCEPT !.base = arg,
                   !.cbp = IF arg > 0 THEN arg - 4 ELSE @, !.csp = IF arg > 0 THEN arg - 4 ELSE @,
                   !.ip = IF @ \in {0, mb.cbp + 4} THEN arg ELSE @])

QueueSize(arg) == Reads("queueSize", arg, TRUE, [mb EXCEPT !.queueSize = arg])

\* Slip: without a parameter the limit stays.
MaxCopiesStays(have, arg) ==
  Reads("maxCopies", IF have THEN arg ELSE 0, TRUE, [mb EXCEPT !.maxCopies = IF have THEN arg ELSE @])

\* Without a parameter: no limit.
MaxOps(have, arg) ==
  Reads("maxOps", IF have THEN arg ELSE 0, TRUE, [mb EXCEPT !.limit = IF have THEN arg ELSE 0])
MaxCopies(have, arg) ==
  Reads("maxCopies", IF have THEN arg ELSE 0, TRUE, [mb EXCEPT !.maxCopies = IF have THEN arg ELSE 0])

Entry(arg) == Reads("entry", arg, TRUE, [mb EXCEPT !.ip = arg])

\* A pair of addresses, and a name if that is what follows.
Region(from, to, name) == [from |-> from, to |-> to, name |-> name]
InputOpt(rg) == Reads("input", rg, TRUE, [mb EXCEPT !.inputs = Append(@, rg)])
OutputOpt(rg) == Reads("output", rg, TRUE, [mb EXCEPT !.outputs = Append(@, rg)])

At(f, a, default) == IF a \in DOMAIN f THEN f[a] ELSE default
With(f, a, v) == [x \in DOMAIN f \cup {a} |-> IF x = a THEN v ELSE f[x]]
AddLabel(labels, pair) == With(labels, pair[1], Append(At(labels, pair[1], <<>>), pair[2]))
AddLabels(labels, pairs) ==
  LET after[k \in 0 .. Len(pairs)] == IF k = 0 THEN labels ELSE AddLabel(after[k - 1], pairs[k])
  IN  after[Len(pairs)]
AddrLabels(pairs) == Reads("addrLabels", pairs, TRUE, [mb EXCEPT !.labels = AddLabels(@, pairs)])

\* Slip: the last mark counts.
AnnotateLast(annos, a, anno) == With(annos, a, {anno})

Annotate(annos, a, anno) == With(annos, a, At(annos, a, {}) \cup {anno})
SpanOpt(anno, a) == Reads(anno, a, TRUE, [mb EXCEPT !.annos = Annotate(@, a, anno)])

\* A code that is none, a pair of which one is missing, options that end too early.
BadOption ==
  /\ pc = "opts" /\ pc' = "failed" /\ UNCHANGED <<mb, given, prog, calls, ran>>

\* The end of options: build() loads the rest.
Load(p) ==
  /\ pc = "opts" /\ pc' = "calls"
  /\ prog' = p
  /\ mb' = [mb EXCEPT !.pages = StoreBytes(@, mb.base, p)]
  /\ UNCHANGED <<given, calls, ran>>

-----------------------------------------------------------------------------
(* Options of the caller *)

Handler ==
  /\ pc = "calls" /\ "handler" \in use.options
  /\ mb' = [mb EXCEPT !.queue = mb.queueSize, !.copies = mb.maxCopies]
  /\ UNCHANGED <<given, prog, calls, ran, pc>>

Bytes(vals) == [i \in 1 .. 4 * Len(vals) |-> vals[(i + 3) \div 4][((i + 3) % 4) + 1]]

\* Both take as many values as the region has bytes.
Fits(rg, vals) == Len(vals) <= (rg.to - rg.from) % W
Put(b, rg, vals) == [b EXCEPT !.pages = StoreBytes(@, rg.from, Bytes(vals))]

Calls(name, vals) ==
  /\ pc = "calls" /\ Len(calls) < use.maxCalls
  /\ calls' = Append(calls, [name |-> name, vals |-> vals])
  /\ UNCHANGED <<given, prog, ran>>

\* Slip: every input goes to the first region.
InputAgain(vals) ==
  /\ Calls(<<>>, vals)
  /\ IF mb.inputs # <<>> /\ Fits(mb.inputs[1], vals)
     THEN mb' = Put(mb, mb.inputs[1], vals) /\ UNCHANGED pc
     ELSE pc' = "failed" /\ UNCHANGED mb

Input(vals) ==
  /\ Calls(<<>>, vals)
  /\ LET k == mb.nextIn + 1 IN
     IF k <= Len(mb.inputs) /\ Fits(mb.inputs[k], vals)
     THEN mb' = Put([mb EXCEPT !.nextIn = k], mb.inputs[k], vals) /\ UNCHANGED pc
     ELSE pc' = "failed" /\ UNCHANGED mb

\* What fetchString() may read at a: the name, or another string.
MayBe(name, a) ==
  \E w \in Fetch(mb.pages, mb.cbp, a) :
    Number(w) = Len(name) /\ FetchBytes(mb.pages, a + 4, Buffer(Len(name))) = name
MayDiffer(name, a) ==
  \/ Misaligned(mb.cbp, a)
  \/ \E w \in Fetch(mb.pages, mb.cbp, a) :
       Number(w) = Len(name) => FetchBytes(mb.pages, a + 4, Buffer(Len(name))) # name

NamedInput(name, vals) ==
  LET n == Len(mb.inputs)
      Not(k) == mb.inputs[k].name = NoName \/ MayDiffer(name, mb.inputs[k].name)
  IN
  /\ Calls(name, vals)
  /\ \/ /\ \A k \in 1 .. n : Not(k)
        /\ pc' = "failed" /\ UNCHANGED mb
     \/ \E k \in 1 .. n :
          /\ mb.inputs[k].name # NoName /\ MayBe(name, mb.inputs[k].name)
          /\ \A j \in 1 .. k - 1 : Not(j)
          /\ IF Fits(mb.inputs[k], vals)
             THEN mb' = Put(mb, mb.inputs[k], vals) /\ UNCHANGED pc
             ELSE pc' = "failed" /\ UNCHANGED mb

-----------------------------------------------------------------------------
(* Outputs *)

\* A run: it ends with an error, and with words on the control stack.
Run(err, cs) ==
  /\ pc = "calls" /\ "run" \in use.options
  /\ 4 * Len(cs) <= mb.cbp
  /\ pc' = "ran"
  /\ ran' = [err |-> err, cs |-> cs]
  /\ mb' = [mb EXCEPT !.csp = mb.cbp - 4 * Len(cs),
                      !.pages = IF cs = <<>> THEN @
                                ELSE StoreBytes(@, mb.cbp - 4 * Len(cs) + 4, Bytes(Reverse(cs)))]
  /\ UNCHANGED <<given, prog, calls>>

\* Slip: of a pair the first address is the end.
PairsSwapped(cs) == [k \in 1 .. Len(cs) \div 2 |-> Region(Number(cs[2 * k]), Number(cs[2 * k - 1]), NoName)]

\* The regions left on the control stack, by machines that halted with 0.
Pairs(cs) == [k \in 1 .. Len(cs) \div 2 |-> Region(Number(cs[2 * k - 1]), Number(cs[2 * k]), NoName)]

\* outputs()
Outputs ==
  CASE ran.err \in {"halt1", "error"} -> {}
    [] ran.err = "nil" -> {mb.outputs}
    [] ran.err = "halt0" ->
         {mb.outputs \o Pairs(cs) : cs \in {s \in FetchMany(mb.pages, mb.cbp, mb.cbp, mb.csp) : Len(s) % 2 = 0}}

\* outValues(): of each region its words; none if one of them cannot be read.
Values ==
  UNION {LET all == [k \in DOMAIN rgs |-> FetchMany(mb.pages, mb.cbp, rgs[k].from, rgs[k].to)]
         IN  {vs \in [DOMAIN rgs -> UNION {all[k] : k \in DOMAIN rgs}] : \A k \in DOMAIN rgs : vs[k] \in all[k]}
         : rgs \in Outputs}

Next ==
  /\ UNCHANGED use
  /\ \/ \E a \in use.sizes : Version(a) \/ StackSize(a)
     \/ \E n \in Counts : QueueSize(n) \/ \E have \in BOOLEAN : MaxOps(have, n) \/ MaxCopies(have, n)
     \/ \E a \in Entries : Entry(a) \/ SpanOpt("spanOpen", a) \/ SpanOpt("spanClose", a)
     \/ \E rg \in Regions : InputOpt(rg) \/ OutputOpt(rg)
     \/ \E pairs \in Labelled : AddrLabels(pairs)
     \/ BadOption
     \/ \E p \in use.progs : Load(p)
     \/ Handler
     \/ \E vals \in Vals : Input(vals) \/ \E name \in Names : NamedInput(name, vals)
     \/ \E err \in {"halt0", "halt1", "error"}, cs \in Results : Run(err, cs)

Spec == Init /\ [][Next]_vars
-----------------------------------------------------------------------------
(* Properties *)

LastArg(opt, default) == IF given[opt] = <<>> THEN default ELSE Last(given[opt])
Size == LastArg("stackSize", 0)
NoCall == pc = "calls" /\ calls = <<>>

\* With a stack size the stacks are below the program, whatever sizes were given before.
StackPlaced ==
  NoCall /\ Size > 0 =>
    /\ mb.base = Size /\ mb.cbp = Size - 4 /\ mb.csp = Size - 4
    /\ FetchBytes(mb.pages, Size, Buffer(Len(prog))) = prog

\* A machine starts at the beginning of the program, or at the last entry: only an entry that
\* was 0, 4 or a stack size may be taken for the beginning by a size that follows.
Started ==
  LET entry == LastArg("entry", 0) IN
  NoCall => mb.ip \in IF given["entry"] = <<>> THEN {mb.base}
                      ELSE {entry} \cup {mb.base : e \in {entry} \cap (use.sizes \cup {0, 4})}

\* A handler's queue and copies are those that the program declares, wherever it does.
HandlerFits ==
  mb.queue # 0 \/ mb.copies # 0 =>
    mb.queue = LastArg("queueSize", DefaultQueueSize) /\ mb.copies = LastArg("maxCopies", 0)

\* The labels that an option gives an address, and those that all of them do.
LabelsOf(pairs, a) ==
  LET upTo[k \in 0 .. Len(pairs)] ==
        IF k = 0 THEN <<>>
        ELSE IF pairs[k][1] = a THEN Append(upTo[k - 1], pairs[k][2]) ELSE upTo[k - 1]
  IN  upTo[Len(pairs)]
AllLabelsOf(opts, a) ==
  LET upTo[k \in 0 .. Len(opts)] == IF k = 0 THEN <<>> ELSE upTo[k - 1] \o LabelsOf(opts[k], a)
  IN  upTo[Len(opts)]

\* Marks and labels of an address are all of those given, the labels in order.
DebugKept ==
  pc # "failed" =>
    /\ \A a \in Entries : At(mb.annos, a, {}) = {anno \in {"spanOpen", "spanClose"} : a \in Range(given[anno])}
    /\ \A a \in Entries : At(mb.labels, a, <<>>) = AllLabelsOf(given["addrLabels"], a)

\* A machine is what the options say, whichever came first.
AsDeclared == StackPlaced /\ HandlerFits /\ DebugKept

\* The program, and its names, as it was loaded.
InProg(a) == IF a - mb.base + 1 \in DOMAIN prog THEN prog[a - mb.base + 1] ELSE 0
NameLen(a) == Number([k \in 1 .. 4 |-> InProg(a + k - 1)])
ProgHas(name, a) == NameLen(a) = Len(name) /\ \A k \in DOMAIN name : InProg(a + 3 + k) = name[k]

\* The region that a call is about: the next one, or the first of that name in the program.
Numbered(k) == Cardinality({j \in 1 .. k : calls[j].name = <<>>})
Meant(k) ==
  LET rgs == given["input"]  name == calls[k].name IN
  IF name = <<>> THEN {Numbered(k)} \cap DOMAIN rgs
  ELSE {i \in DOMAIN rgs : rgs[i].name # NoName /\ ProgHas(name, rgs[i].name)}
RegionOf == [k \in DOMAIN calls |-> given["input"][Min(Meant(k))]]
AllServed == \A k \in DOMAIN calls : Meant(k) # {}
Within(rg, vals) == rg.from <= rg.to /\ 4 * Len(vals) <= rg.to - rg.from
AllWithin == \A k \in DOMAIN calls : Within(RegionOf[k], calls[k].vals)

\* The memory after all: the program, overwritten by the inputs in order and the stack.
Covers(k, a) == a - RegionOf[k].from + 1 \in DOMAIN Bytes(calls[k].vals)
Stored(a) ==
  LET own == {k \in DOMAIN calls : Covers(k, a)}  last == Max(own) IN
  IF own = {} THEN InProg(a) ELSE Bytes(calls[last].vals)[a - RegionOf[last].from + 1]
Expected(a) ==
  LET stack == Bytes(Reverse(ran.cs))  at == a - mb.csp - 3 IN
  IF at \in DOMAIN stack THEN stack[at] ELSE Stored(a)

\* Every input that is accepted has a region of its own or of its name.  Inputs are in their
\* regions, and nothing else of the memory is changed by them.
InputsLand ==
  pc = "calls" =>
    /\ AllServed
    /\ AllWithin => \A a \in 0 .. Len(mb.pages) * PageSize : MemByte(mb.pages, a) = Expected(a)

\* A region that can be read word by word, and its words.
Readable(rg) == \A a \in Range(Addrs(rg.from, rg.to)) : Whole(a) /\ ~Misaligned(mb.cbp, a)
WordsOf(rg) ==
  LET as == Addrs(rg.from, rg.to) IN [i \in DOMAIN as |-> [j \in 1 .. 4 |-> Expected(as[i] + j - 1)]]

\* The values of a machine that halted with 0 are the words of its regions, those it declared
\* before those it left in pairs on its control stack.  No other machine has any.
ValuesServed ==
  pc = "ran" /\ AllWithin =>
    IF ran.err # "halt0" \/ Len(ran.cs) % 2 # 0 THEN Values = {}
    ELSE LET cs == ran.cs
             left == [k \in 1 .. Len(cs) \div 2 |-> Region(Number(cs[2 * k - 1]), Number(cs[2 * k]), NoName)]
             rgs == given["output"] \o left
         IN  (\A k \in DOMAIN rgs : Readable(rgs[k])) => Values = {[k \in DOMAIN rgs |-> WordsOf(rgs[k])]}
=============================================================================
