------------------------------ MODULE Scanner ------------------------------
(***************************************************************************)
(* The assembler's scanner (x/assemble.go): items of the input become the  *)
(* tokens of the options and of the program, labels and references between *)
(* them.  What it hands to the encoder is in Encoder.                      *)
(*                                                                         *)
(* Labels are pairs: <<"", l>> is the label l of the input, the others are *)
(* generated.  A position is the index of the token that a label stands    *)
(* before, Undefined that of a label that is only referred to.  Operators  *)
(* that may fail return the set of their results: {} is an error, after    *)
(* which Assemble() has none.                                              *)
(***************************************************************************)
EXTENDS Integers, Sequences, FiniteSetsExt, SequencesExt

CONSTANTS
  Label,     \* the labels of inputs
  Inputs,    \* what inputs are made of: [items, max], kinds of items and a bound on their number
  Nested,    \* pairs of directives: the second one may stand where the first wants a label
  Sizes      \* the values of options

Options == {"stackSize", "queueSize", "maxOps", "maxCopies"}
None == "none"
ASSUME LabelAssumption == {None, "unknown", ""} \cap Label = {}
ASSUME BoundsAssumption == Sizes \subseteq Nat /\ \A in \in Inputs : in.max \in Nat

VARIABLES
  input,   \* one of Inputs
  sc,      \* assembler and scanner: see NoProgram
  prior,   \* the states of the inputs that include the present one
  want,    \* the directives that want a label, innermost last
  label,   \* the label they get
  read,    \* items read
  pc       \* "scan"; "done", "failed", "undefined" or "panic" in the end

vars == <<input, sc, prior, want, label, read, pc>>

DefaultStackSize == 64
Undefined == 0
Lbl(l) == <<"", l>>
NoTarget == Lbl(None)

\* A slice of labels: a part of an array that other slices may have parts of.
NoLabels == [a |-> 0, n |-> 0]
NewInput == [state |-> "text", open |-> <<>>, seen |-> NoLabels, opens |-> {}]

NoProgram ==
  [opts |-> <<>>, adls |-> <<>>, prog |-> <<>>,  \* tokens: options, address labels and others
   labels |-> [l \in {} |-> Undefined],          \* of prog
   ptrs |-> [o \in {} |-> <<>>],                 \* tokens that options are set through
   pendIn |-> None, pendOut |-> None,
   urs |-> <<>>, unkRets |-> [l \in {} |-> 0],   \* returns that open spans may claim
   arrs |-> <<>>,                                \* arrays of labels
   state |-> NewInput.state, open |-> NewInput.open, seen |-> NewInput.seen, opens |-> NewInput.opens]

\* f with v for x.
With(f, x, v) == [y \in DOMAIN f \cup {x} |-> IF y = x THEN v ELSE f[y]]

Defined(s, name) == name \in DOMAIN s.labels /\ s.labels[name] # Undefined
-----------------------------------------------------------------------------
(* Options *)

AddOpt(s, opt, targ, arg) == [s EXCEPT !.opts = Append(@, [opt |-> opt, targ |-> targ, arg |-> arg])]
AddRefOpt(s, opt, targ) == AddOpt(s, opt, targ, 0)

\* The capacity that append() gives an array of n.
Cap(n) == Min({k \in {0, 1, 2, 4, 8, 16, 32} : k >= n})

\* refOpt(): a pointer to the new token, into the array that holds the options now.
RefOpt(s, opt, arg) ==
  LET n == Len(s.opts) + 1 IN
  [AddOpt(s, opt, NoTarget, arg) EXCEPT !.ptrs = With(@, opt, [at |-> n, cap |-> Cap(n), arg |-> arg])]

\* Slip: an option that is there already gets another token.
SetAnew(s, opt, arg) == RefOpt(s, opt, arg)

\* setOption(): through the pointer, to the token if the array is still that one.
SetOption(s, opt, arg) ==
  IF opt \notin DOMAIN s.ptrs THEN RefOpt(s, opt, arg)
  ELSE LET p == s.ptrs[opt]  moved == Cap(Len(s.opts)) # p.cap IN
       [s EXCEPT !.ptrs[opt].arg = arg, !.opts[p.at].arg = IF moved THEN @ ELSE arg]
-----------------------------------------------------------------------------
(* Labels *)

AddLabel(s, name) == [s EXCEPT !.labels = With(@, name, Len(s.prog) + 1)]
StubLabel(s, name) == IF name \in DOMAIN s.labels THEN s ELSE [s EXCEPT !.labels = With(@, name, Undefined)]
AddAddrLabel(s, name) == [s EXCEPT !.adls = Append(@, name)]

\* genProgLabel(): genLabel() looks for a name that is free, and returns the one it got.
GenProgLabel(s, name) == AddAddrLabel(AddLabel(s, name), name)

Renamed(name, old, new) == IF name = old THEN new ELSE name
RenamedIn(toks, old, new) == [k \in DOMAIN toks |-> [toks[k] EXCEPT !.targ = Renamed(@, old, new)]]
LabelsRenamed(labels, old, new) ==
  IF old \in DOMAIN labels THEN With([l \in DOMAIN labels \ {old} |-> labels[l]], new, labels[old])
  ELSE labels

\* Slip: the options keep the old name.
RenameLabelPartly(s, old, new) ==
  [s EXCEPT !.adls = [k \in DOMAIN @ |-> Renamed(@[k], old, new)],
            !.prog = RenamedIn(@, old, new),
            !.labels = LabelsRenamed(@, old, new)]

\* renameLabel()
RenameLabel(s, old, new) ==
  [s EXCEPT !.adls = [k \in DOMAIN @ |-> Renamed(@[k], old, new)],
            !.opts = RenamedIn(@, old, new),
            !.prog = RenamedIn(@, old, new),
            !.labels = LabelsRenamed(@, old, new)]

\* append(sc.labels, l): in place if the array has room.
Push(s, l) ==
  LET n == s.seen.n + 1 IN
  IF s.seen.a # 0 /\ n <= Len(s.arrs[s.seen.a])
  THEN [s EXCEPT !.arrs[s.seen.a][n] = l, !.seen.n = n]
  ELSE LET old == IF s.seen.a = 0 THEN <<>> ELSE s.arrs[s.seen.a]
           new == [k \in 1 .. Cap(n) |-> IF k < n THEN old[k] ELSE IF k = n THEN l ELSE None]
       IN  [s EXCEPT !.arrs = Append(@, new), !.seen = [a |-> Len(s.arrs) + 1, n |-> n]]

Elements(s, sl) == {s.arrs[sl.a][k] : k \in 1 .. sl.n}
LastIndex(s, sl, l) == Max({0} \cup {k \in 1 .. sl.n : s.arrs[sl.a][k] = l})
-----------------------------------------------------------------------------
(* Spans *)

\* Slip: the span is open, and not marked.
AddSpanOpenOnly(s, l) == [s EXCEPT !.opens = @ \cup {l}]

\* addSpanOpen(): a return seen before is named for the call.
AddSpanOpen(s, l) ==
  IF l \in s.opens THEN s
  ELSE LET t == AddRefOpt([s EXCEPT !.opens = @ \cup {l}], "spanOpen", Lbl(l)) IN
       IF l \notin DOMAIN s.unkRets THEN t
       ELSE LET u == s.unkRets[l]
                k == LastIndex(s, s.urs[u].seen, l)
                new == <<"ret", l>>
            IN  IF k <= s.urs[u].cur THEN t
                ELSE [RenameLabel(GenProgLabel(t, new), s.urs[u].label, new) EXCEPT
                        !.urs[u] = [label |-> new, cur |-> k, seen |-> @.seen]]

\* addSpanClose(): of the last span that is open, or of one that may be named later.
AddSpanClose(s, kind) ==
  LET unknown == <<kind, "unknown">> IN
  CASE s.open # <<>> ->
         LET name == <<kind, Last(s.open)>> IN
         [AddRefOpt(GenProgLabel(s, name), "spanClose", name) EXCEPT !.open = Front(@)]
    [] s.open = <<>> /\ s.seen.n > 0 ->
         [AddRefOpt(GenProgLabel(s, unknown), "spanClose", unknown) EXCEPT
            !.urs = Append(@, [label |-> unknown, cur |-> 0, seen |-> s.seen]),
            !.unkRets = [l \in Elements(s, s.seen) \cup DOMAIN @ |->
                            IF l \in Elements(s, s.seen) THEN Len(s.urs) + 1 ELSE @[l]]]
    [] OTHER -> s

AddTok(s, tok, targ) == [s EXCEPT !.prog = Append(@, [tok |-> tok, targ |-> targ])]

\* Slip: the span is closed behind the return.
AddProgTokFirst(s, tok, targ) ==
  LET t == AddTok(s, tok, targ) IN IF tok = "ret" THEN AddSpanClose(t, "ret") ELSE t

\* addProgTok(), addProgRef()
AddProgTok(s, tok, targ) == AddTok(IF tok = "ret" THEN AddSpanClose(s, "ret") ELSE s, tok, targ)
AddProgRef(s, tok, l) == AddTok(IF tok = "call" THEN AddSpanOpen(s, l) ELSE s, tok, Lbl(l))
-----------------------------------------------------------------------------
(* Regions of input and output *)

\* finishIn(), finishOut(): the region ends here; its name follows.
Region(s, opt, l) ==
  LET end == <<"end", l>>  name == <<"name", l>>
      t == AddRefOpt(AddRefOpt(AddRefOpt(AddLabel(s, end), opt, Lbl(l)), opt, end), "name", name)
  IN  IF Defined(s, end) THEN {} ELSE {AddProgTok(AddLabel(t, name), "string", Lbl(l))}

FinishIn(s) ==
  IF s.pendIn = None THEN {s} ELSE {[t EXCEPT !.pendIn = None] : t \in Region(s, "input", s.pendIn)}
FinishOut(s) ==
  IF s.pendOut = None THEN {s} ELSE {[t EXCEPT !.pendOut = None] : t \in Region(s, "output", s.pendOut)}

\* Slip: a region goes on into the text.
KeepRegion(s) == {[s EXCEPT !.state = "text"]}

\* setState(), to the text
EnterText(s) ==
  LET t == [s EXCEPT !.state = "text"] IN
  CASE s.state = "text" -> {s}
    [] s.state = "data" /\ s.pendIn # None -> FinishIn(t)
    [] s.state = "data" /\ s.pendIn = None -> FinishOut(t)

\* Slip: a region goes on at the next label.
HandleLabelPending(s, l) ==
  IF Defined(s, Lbl(l)) THEN {} ELSE {AddLabel(AddAddrLabel(Push(s, l), Lbl(l)), Lbl(l))}

\* handleLabel()
HandleLabel(s, l) ==
  LET flushed == UNION {FinishOut(t) : t \in FinishIn(s)}
      Opened(t) == IF l \in t.opens THEN [t EXCEPT !.open = Append(@, l), !.seen.n = 0] ELSE Push(t, l)
  IN  {AddLabel(AddAddrLabel(Opened(t), Lbl(l)), Lbl(l)) : t \in {u \in flushed : ~Defined(u, Lbl(l))}}
-----------------------------------------------------------------------------
(* The scan *)

Init ==
  /\ input \in Inputs
  /\ sc = RefOpt(NoProgram, "stackSize", DefaultStackSize)
  /\ prior = <<>> /\ want = <<>> /\ label = None /\ read = 0 /\ pc = "scan"

\* The next item, where it may stand by itself.
Takes(item, states) ==
  /\ pc = "scan" /\ want = <<>> /\ item \in input.items /\ sc.state \in states
  /\ read < input.max /\ read' = read + 1
  /\ UNCHANGED <<prior, want, label>>

Becomes(results) ==
  IF results = {} THEN pc' = "failed" /\ UNCHANGED sc ELSE sc' \in results /\ UNCHANGED pc

\* A directive that wants a label, where it may stand.
Directive(role, states) ==
  /\ pc = "scan" /\ role \in input.items /\ sc.state \in states
  /\ IF want = <<>> THEN TRUE ELSE label = None /\ <<Last(want), role>> \in Nested
  /\ read < input.max /\ read' = read + 1
  /\ want' = Append(want, role)
  /\ UNCHANGED <<prior, label>>

EntryDirective == Directive("entry", {"text", "data"}) /\ Becomes(EnterText(sc))
SpanOpenDirective == Directive("spanOpen", {"text"}) /\ Becomes({sc})
InDirective == Directive("in", {"data"}) /\ Becomes({sc})
OutDirective == Directive("out", {"data"}) /\ Becomes({sc})

\* "label:", by itself or for the directive before it.
ReadLabel(l) ==
  /\ pc = "scan" /\ label = None /\ "label" \in input.items
  /\ read < input.max /\ read' = read + 1
  /\ Becomes(HandleLabel(sc, l))
  /\ label' = IF want = <<>> THEN None ELSE l
  /\ UNCHANGED <<prior, want>>

\* Slip: a second entry is taken.
EntryAgain(s, l) == {AddRefOpt(AddLabel(s, <<"entry", "">>), "entry", Lbl(l))}

Entry(s, l) == IF Defined(s, <<"entry", "">>) THEN {} ELSE EntryAgain(s, l)
SpanOpen(s, l) == {[AddSpanOpen(s, l) EXCEPT !.open = Append(@, l), !.seen.n = 0]}

\* expectLabel() is back: innermost directive first, and all of them with this label.
Expected ==
  /\ pc = "scan" /\ want # <<>> /\ label # None
  /\ Becomes(CASE Last(want) = "entry"    -> Entry(sc, label)
               [] Last(want) = "spanOpen" -> SpanOpen(sc, label)
               [] Last(want) = "in"       -> {[sc EXCEPT !.pendIn = label]}
               [] Last(want) = "out"      -> {[sc EXCEPT !.pendOut = label]})
  /\ want' = Front(want)
  /\ label' = IF Len(want) = 1 THEN None ELSE label
  /\ UNCHANGED <<prior, read>>

ReadRef(tok, l) == Takes(tok, {"text"}) /\ Becomes({StubLabel(AddProgRef(sc, tok, l), Lbl(l))})
ReadOp(tok) == Takes(tok, {"text"}) /\ Becomes({AddProgTok(sc, tok, NoTarget)})
ReadData(tok) == Takes(tok, {"data"}) /\ Becomes({AddProgTok(sc, tok, NoTarget)})
SpanCloseDirective == Takes("spanClose", {"text"}) /\ Becomes({AddSpanClose(sc, "spanClose")})
DataDirective == Takes("data", {"text", "data"}) /\ Becomes({[sc EXCEPT !.state = "data"]})
TextDirective == Takes("text", {"text", "data"}) /\ Becomes(EnterText(sc))

\* Each has its range; one that is not in it is an error (Invalid).
OptionDirective(opt, arg) == Takes(opt, {"text", "data"}) /\ Becomes({SetOption(sc, opt, arg)})

\* An item that may not stand here, one without the label or value that it wants, and
\* an end of the input where more is wanted.
Invalid ==
  /\ pc = "scan" /\ label = None
  /\ pc' = "failed" /\ UNCHANGED <<sc, prior, want, label, read>>

\* The state of an input is put aside, and taken up again.
Saved == [state |-> sc.state, open |-> sc.open, seen |-> sc.seen, opens |-> sc.opens]
In(s, in) == [s EXCEPT !.state = in.state, !.open = in.open, !.seen = in.seen, !.opens = in.opens]

Include ==
  /\ pc = "scan" /\ want = <<>> /\ "include" \in input.items
  /\ read < input.max /\ read' = read + 1
  /\ prior' = Append(prior, Saved)
  /\ sc' = In(sc, NewInput)
  /\ UNCHANGED <<want, label, pc>>

\* The end of an input that another one includes: popState().
EndInclude ==
  /\ pc = "scan" /\ want = <<>> /\ prior # <<>>
  /\ IF sc.open # <<>> THEN pc' = "panic" /\ UNCHANGED <<sc, prior>>
     ELSE sc' = In(sc, Last(prior)) /\ prior' = Front(prior) /\ UNCHANGED pc
  /\ UNCHANGED <<want, label, read>>

\* What refers to a label: address labels, options and operations.
Refs == {sc.adls[k] : k \in DOMAIN sc.adls}
        \cup {sc.opts[k].targ : k \in {j \in DOMAIN sc.opts : sc.opts[j].targ # NoTarget}}
        \cup {sc.prog[k].targ : k \in {j \in DOMAIN sc.prog : sc.prog[j].tok \in {"call", "jump"}}}

\* The end of the input: finish(), which reports labels that nothing defines.
Finish ==
  /\ pc = "scan" /\ want = <<>> /\ prior = <<>>
  /\ pc' = IF \A name \in Refs : Defined(sc, name) THEN "done" ELSE "undefined"
  /\ UNCHANGED <<sc, prior, want, label, read>>

Ended == pc # "scan" /\ UNCHANGED vars

Next ==
  /\ UNCHANGED input
  /\ \/ EntryDirective \/ SpanOpenDirective \/ InDirective \/ OutDirective
     \/ \E l \in Label : ReadLabel(l) \/ ReadRef("call", l) \/ ReadRef("jump", l)
     \/ Expected
     \/ ReadOp("ret") \/ ReadOp("op") \/ ReadData("word") \/ ReadData("alloc")
     \/ SpanCloseDirective \/ DataDirective \/ TextDirective
     \/ \E opt \in Options, arg \in Sizes : OptionDirective(opt, arg)
     \/ Include \/ EndInclude \/ Finish \/ Invalid \/ Ended

Spec == Init /\ [][Next]_vars
-----------------------------------------------------------------------------
(* Properties *)

\* The options of kind opt.
Opts(opt) == {k \in DOMAIN sc.opts : sc.opts[k].opt = opt}
At(k) == sc.labels[sc.opts[k].targ]

\* Labels that are generated, renamed or not, are defined: "undefined labels" names one of the
\* input.  Where spans are closed by returns only, and all of the input is one, they are at returns.
GeneratedLabels ==
  /\ pc = "undefined" => \E l \in Label : Lbl(l) \in Refs /\ ~Defined(sc, Lbl(l))
  /\ pc = "done" /\ {"spanClose", "include"} \cap input.items = {} => \A k \in Opts("spanClose") :
       sc.opts[k].targ[1] = "ret" => At(k) <= Len(sc.prog) /\ sc.prog[At(k)].tok = "ret"

\* A span that is closed by name was opened by that name.
ClosedWasOpened ==
  \A k \in Opts("spanClose") : sc.opts[k].targ[2] # "unknown" =>
    \E j \in Opts("spanOpen") : sc.opts[j].targ = Lbl(sc.opts[k].targ[2])

\* A region of input or output is data from its label to its end, its name follows; and one
\* region waits for its end at a time.
Regions ==
  /\ sc.pendIn = None \/ sc.pendOut = None
  /\ pc = "done" => \A k \in Opts("name") :
       LET from == At(k - 2)  to == At(k - 1)  name == sc.prog[At(k)] IN
       /\ sc.opts[k - 2].opt = sc.opts[k - 1].opt
       /\ from <= to /\ \A p \in from .. to - 1 : sc.prog[p].tok \in {"word", "alloc"}
       /\ name.tok = "string" /\ name.targ = sc.opts[k - 2].targ

\* An option, the entry too, has one token at most; it has the value set last unless the options
\* moved since the pointer was taken.
OneToken ==
  /\ \A o \in Options \cup {"entry"} : Cardinality(Opts(o)) <= 1
  /\ \A o \in DOMAIN sc.ptrs :
       LET p == sc.ptrs[o] IN Len(sc.opts) <= p.cap => sc.opts[p.at].arg = p.arg
=============================================================================
