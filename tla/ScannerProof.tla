---------------------------- MODULE ScannerProof ----------------------------
(***************************************************************************)
(* What is proved of the scanner (Scanner): for every input, of any        *)
(* length, with any labels.                                                *)
(***************************************************************************)
EXTENDS Scanner, FiniteSetTheorems, SequenceTheorems, WellFoundedInduction, TLAPS

Fields == {"opts", "adls", "prog", "labels", "ptrs", "pendIn", "pendOut", "urs", "unkRets", "arrs",
           "state", "open", "seen", "opens"}
Shaped(s) == DOMAIN s = Fields

\* What an operation leaves alone.
SameSpans(r, s) ==
  /\ r.urs = s.urs /\ r.unkRets = s.unkRets /\ r.arrs = s.arrs
  /\ r.open = s.open /\ r.seen = s.seen /\ r.opens = s.opens
SamePending(r, s) == r.pendIn = s.pendIn /\ r.pendOut = s.pendOut /\ r.state = s.state

-----------------------------------------------------------------------------
(* The operations that the others are made of *)

LEMMA AddOptIs ==
  ASSUME NEW s, Shaped(s), NEW opt, NEW targ, NEW arg
  PROVE  LET r == AddOpt(s, opt, targ, arg) IN
         /\ Shaped(r) /\ SameSpans(r, s) /\ SamePending(r, s)
         /\ r.opts = Append(s.opts, [opt |-> opt, targ |-> targ, arg |-> arg])
         /\ r.adls = s.adls /\ r.prog = s.prog /\ r.labels = s.labels /\ r.ptrs = s.ptrs
BY DEF AddOpt, Shaped, Fields, SameSpans, SamePending

LEMMA AddRefOptIs ==
  ASSUME NEW s, Shaped(s), NEW opt, NEW targ, NEW o, o = [opt |-> opt, targ |-> targ, arg |-> 0],
         NEW r, r = AddRefOpt(s, opt, targ)
  PROVE  /\ Shaped(r) /\ SameSpans(r, s) /\ SamePending(r, s) /\ r.opts = Append(s.opts, o)
         /\ r.adls = s.adls /\ r.prog = s.prog /\ r.labels = s.labels /\ r.ptrs = s.ptrs
BY AddOptIs DEF AddRefOpt

LEMMA AddLabelIs ==
  ASSUME NEW s, Shaped(s), NEW name
  PROVE  LET r == AddLabel(s, name) IN
         /\ Shaped(r) /\ SameSpans(r, s) /\ SamePending(r, s)
         /\ r.labels = With(s.labels, name, Len(s.prog) + 1)
         /\ r.adls = s.adls /\ r.prog = s.prog /\ r.opts = s.opts /\ r.ptrs = s.ptrs
BY DEF AddLabel, Shaped, Fields, SameSpans, SamePending

LEMMA StubLabelIs ==
  ASSUME NEW s, Shaped(s), NEW name
  PROVE  LET r == StubLabel(s, name) IN
         /\ Shaped(r) /\ SameSpans(r, s) /\ SamePending(r, s)
         /\ r.labels = IF name \in DOMAIN s.labels THEN s.labels ELSE With(s.labels, name, Undefined)
         /\ r.adls = s.adls /\ r.prog = s.prog /\ r.opts = s.opts /\ r.ptrs = s.ptrs
BY DEF StubLabel, Shaped, Fields, SameSpans, SamePending

LEMMA AddAddrLabelIs ==
  ASSUME NEW s, Shaped(s), NEW name
  PROVE  LET r == AddAddrLabel(s, name) IN
         /\ Shaped(r) /\ SameSpans(r, s) /\ SamePending(r, s)
         /\ r.adls = Append(s.adls, name)
         /\ r.labels = s.labels /\ r.prog = s.prog /\ r.opts = s.opts /\ r.ptrs = s.ptrs
BY DEF AddAddrLabel, Shaped, Fields, SameSpans, SamePending

LEMMA AddTokIs ==
  ASSUME NEW s, Shaped(s), NEW tok, NEW targ
  PROVE  LET r == AddTok(s, tok, targ) IN
         /\ Shaped(r) /\ SameSpans(r, s) /\ SamePending(r, s)
         /\ r.prog = Append(s.prog, [tok |-> tok, targ |-> targ])
         /\ r.labels = s.labels /\ r.adls = s.adls /\ r.opts = s.opts /\ r.ptrs = s.ptrs
BY DEF AddTok, Shaped, Fields, SameSpans, SamePending

LEMMA GenProgLabelIs ==
  ASSUME NEW s, Shaped(s), NEW name
  PROVE  LET r == GenProgLabel(s, name) IN
         /\ Shaped(r) /\ SameSpans(r, s) /\ SamePending(r, s)
         /\ r.labels = With(s.labels, name, Len(s.prog) + 1) /\ r.adls = Append(s.adls, name)
         /\ r.prog = s.prog /\ r.opts = s.opts /\ r.ptrs = s.ptrs
<1>1. PICK t : t = AddLabel(s, name)
  OBVIOUS
<1>2. PICK r : r = AddAddrLabel(t, name)
  OBVIOUS
<1> QED
  BY <1>1, <1>2, AddLabelIs, AddAddrLabelIs DEF GenProgLabel, SameSpans, SamePending

LEMMA RenameLabelIs ==
  ASSUME NEW s, Shaped(s), NEW old, NEW new
  PROVE  LET r == RenameLabel(s, old, new) IN
         /\ Shaped(r) /\ SameSpans(r, s) /\ SamePending(r, s) /\ r.ptrs = s.ptrs
         /\ r.labels = LabelsRenamed(s.labels, old, new)
         /\ r.adls = [k \in DOMAIN s.adls |-> Renamed(s.adls[k], old, new)]
         /\ r.opts = RenamedIn(s.opts, old, new) /\ r.prog = RenamedIn(s.prog, old, new)
BY DEF RenameLabel, Shaped, Fields, SameSpans, SamePending

-----------------------------------------------------------------------------
(* The capacity of an array: what the model says of it is up to 32 *)

LEMMA CapIs ==
  ASSUME NEW n \in Nat
  PROVE  /\ n <= 32 => Cap(n) = IF n = 0 THEN 0 ELSE IF n = 1 THEN 1 ELSE IF n = 2 THEN 2 ELSE
                                IF n <= 4 THEN 4 ELSE IF n <= 8 THEN 8 ELSE IF n <= 16 THEN 16 ELSE 32
         /\ n > 32 => Cap(n) = Min({})
<1> DEFINE S == {k \in {0, 1, 2, 4, 8, 16, 32} : k >= n}
<1>1. Cap(n) = Min(S)
  BY DEF Cap
<1>2. ASSUME NEW x \in S, \A y \in S : x <= y PROVE Cap(n) = x
  <2>1. \A y \in S : y \in Int
    OBVIOUS
  <2> HIDE DEF S
  <2>2. \E z \in S : \A y \in S : z <= y
    BY <1>2
  <2>3. PICK z \in S : z = Min(S) /\ \A y \in S : z <= y
    BY <2>2 DEF Min
  <2>4. z <= x /\ x <= z
    BY <1>2, <2>3
  <2> QED
    BY <1>1, <1>2, <2>1, <2>3, <2>4
<1>3. CASE n = 0
  BY <1>2, <1>3
<1>4. CASE n = 1
  BY <1>2, <1>4
<1>5. CASE n = 2
  BY <1>2, <1>5
<1>6. CASE n \in 3 .. 4
  BY <1>2, <1>6
<1>7. CASE n \in 5 .. 8
  BY <1>2, <1>7
<1>8. CASE n \in 9 .. 16
  BY <1>2, <1>8
<1>9. CASE n \in 17 .. 32
  BY <1>2, <1>9
<1>10. CASE n > 32
  <2>1. S = {}
    BY <1>10
  <2> QED
    BY <1>1, <1>10, <2>1
<1> QED
  BY <1>3, <1>4, <1>5, <1>6, <1>7, <1>8, <1>9, <1>10

\* As long as the array is large enough it is the same.
LEMMA CapSame ==
  ASSUME NEW m \in Nat, NEW n \in Nat, m <= n
  PROVE  /\ m <= 32 => Cap(m) \in Nat /\ m <= Cap(m)
         /\ m <= 32 /\ n <= Cap(m) => Cap(n) = Cap(m)
         /\ m > 32 => Cap(n) = Cap(m)
<1>1. CASE m > 32
  BY <1>1, CapIs
<1>2. CASE m <= 32
  <2>1. PICK c : c = Cap(m)
    OBVIOUS
  <2>2. c \in Nat /\ m <= c /\ c <= 32 /\
        c = IF m = 0 THEN 0 ELSE IF m = 1 THEN 1 ELSE IF m = 2 THEN 2 ELSE
            IF m <= 4 THEN 4 ELSE IF m <= 8 THEN 8 ELSE IF m <= 16 THEN 16 ELSE 32
    <3>1. c = IF m = 0 THEN 0 ELSE IF m = 1 THEN 1 ELSE IF m = 2 THEN 2 ELSE
              IF m <= 4 THEN 4 ELSE IF m <= 8 THEN 8 ELSE IF m <= 16 THEN 16 ELSE 32
      BY <1>2, <2>1, CapIs
    <3> QED
      BY <1>2, <3>1
  <2>3. ASSUME n <= c PROVE Cap(n) = c
    <3>1. PICK d : d = Cap(n)
      OBVIOUS
    <3>2. d = IF n = 0 THEN 0 ELSE IF n = 1 THEN 1 ELSE IF n = 2 THEN 2 ELSE
              IF n <= 4 THEN 4 ELSE IF n <= 8 THEN 8 ELSE IF n <= 16 THEN 16 ELSE 32
      BY <2>2, <2>3, <3>1, CapIs
    <3> QED
      BY <2>2, <2>3, <3>1, <3>2
  <2> QED
    BY <1>2, <2>1, <2>2, <2>3
<1> QED
  BY <1>1, <1>2

-----------------------------------------------------------------------------
(* What every operation keeps *)

Name == {"", "ret", "spanClose", "end", "name", "entry"} \X (Label \cup {None, "unknown", ""})
RetName == {"ret", "spanClose"} \X (Label \cup {"unknown"})
OptKind == Options \cup {"spanOpen", "spanClose", "input", "output", "name", "entry"}
TokKind == {"call", "jump", "ret", "op", "word", "alloc", "string"}
OptTok == [opt : OptKind, targ : Name, arg : Nat]
Tok == [tok : TokKind, targ : Name]
Pointer == [at : Nat, cap : {Cap(n) : n \in Nat}, arg : Nat]

CoreType(s) ==
  /\ Shaped(s)
  /\ s.opts \in Seq(OptTok) /\ s.adls \in Seq(Name) /\ s.prog \in Seq(Tok)
  /\ DOMAIN s.labels \subseteq Name
  /\ \A name \in DOMAIN s.labels :
       s.labels[name] \in 0 .. Len(s.prog) + 1 /\ (name \in RetName => s.labels[name] # Undefined)

\* A pointer leads to the only option of its kind; the value there is the last one unless the
\* options have moved.  (Behind the 32nd the model has one capacity: they never move.)
Pointers(s) ==
  /\ DOMAIN s.ptrs \subseteq Options
  /\ \A o \in DOMAIN s.ptrs :
       /\ s.ptrs[o] \in Pointer
       /\ s.ptrs[o].at \in DOMAIN s.opts /\ s.opts[s.ptrs[o].at].opt = o
       /\ s.ptrs[o].cap = Cap(s.ptrs[o].at)
       /\ s.ptrs[o].at > 32 \/ Len(s.opts) <= s.ptrs[o].cap => s.opts[s.ptrs[o].at].arg = s.ptrs[o].arg
  /\ \A k \in DOMAIN s.opts :
       s.opts[k].opt \in Options => s.opts[k].opt \in DOMAIN s.ptrs /\ s.ptrs[s.opts[k].opt].at = k

\* There is one entry at most, and it is remembered.
OneEntry(s) ==
  /\ \A k \in DOMAIN s.opts : s.opts[k].opt = "entry" => Defined(s, <<"entry", "">>)
  /\ \A j, k \in DOMAIN s.opts : s.opts[j].opt = "entry" /\ s.opts[k].opt = "entry" => j = k

\* What is referred to is defined, or a label of the input.
Found(s, name) == Defined(s, name) \/ \E l \in Label : name = Lbl(l)
Referred(s) ==
  /\ \A k \in DOMAIN s.adls : Found(s, s.adls[k])
  /\ \A k \in DOMAIN s.opts : s.opts[k].targ # NoTarget => Found(s, s.opts[k].targ)
  /\ \A k \in DOMAIN s.prog : s.prog[k].tok \in {"call", "jump"} => Found(s, s.prog[k].targ)

\* Spans that are closed by name were opened.
WasOpened(s, l) == \E k \in DOMAIN s.opts : s.opts[k].opt = "spanOpen" /\ s.opts[k].targ = Lbl(l)
Closed(s) ==
  \A k \in DOMAIN s.opts : s.opts[k].opt = "spanClose" =>
    /\ s.opts[k].targ \in RetName
    /\ s.opts[k].targ[2] # "unknown" => WasOpened(s, s.opts[k].targ[2])

Core(s) == CoreType(s) /\ Pointers(s) /\ OneEntry(s) /\ Referred(s) /\ Closed(s)
Grows(s, r) == \A l \in Label : WasOpened(s, l) => WasOpened(r, l)

\* The spans of an input were opened, and returns that may be renamed are generated labels.
OpenedIn(s, in) ==
  /\ in.open \in Seq(Label) /\ in.opens \subseteq Label
  /\ \A k \in DOMAIN in.open : WasOpened(s, in.open[k])
  /\ \A l \in in.opens : WasOpened(s, l)
IsSeq(q) == \E S : q \in Seq(S)
Returns(s) ==
  /\ IsSeq(s.urs) /\ \A k \in DOMAIN s.urs : s.urs[k].label \in RetName
  /\ \A l \in DOMAIN s.unkRets : s.unkRets[l] \in DOMAIN s.urs
Kept(s) == Core(s) /\ OpenedIn(s, s) /\ Returns(s)

LEMMA SameCore ==
  ASSUME NEW s, NEW r, Core(s), Shaped(r),
         r.opts = s.opts, r.adls = s.adls, r.prog = s.prog, r.labels = s.labels, r.ptrs = s.ptrs
  PROVE  Core(r) /\ \A l : WasOpened(s, l) <=> WasOpened(r, l)
<1>1. \A l : WasOpened(s, l) <=> WasOpened(r, l)
  BY DEF WasOpened
<1>2. \A name : Found(s, name) <=> Found(r, name)
  BY DEF Found, Defined
<1>3. CoreType(r)
  BY DEF Core, CoreType
<1>4. Pointers(r)
  BY DEF Core, Pointers
<1>5. OneEntry(r)
  BY DEF Core, OneEntry, Defined
<1>6. Referred(r)
  BY <1>2 DEF Core, Referred
<1>7. Closed(r)
  BY <1>1 DEF Core, Closed
<1> QED
  BY <1>1, <1>3, <1>4, <1>5, <1>6, <1>7 DEF Core

LEMMA GrownSpans ==
  ASSUME NEW s, NEW r, NEW in, OpenedIn(s, in), Grows(s, r)
  PROVE  OpenedIn(r, in)
<1>1. \A k \in DOMAIN in.open : in.open[k] \in Label
  BY DEF OpenedIn
<1> QED
  BY <1>1 DEF OpenedIn, Grows

LEMMA KeptSpans ==
  ASSUME NEW s, NEW r, Kept(s), Core(r), Grows(s, r), SameSpans(r, s)
  PROVE  Kept(r)
<1>1. OpenedIn(r, s)
  BY GrownSpans DEF Kept
<1> QED
  BY <1>1 DEF Kept, OpenedIn, Returns, SameSpans

\* A sequence with one more.
LEMMA Appended ==
  ASSUME NEW S, NEW q \in Seq(S), NEW e \in S, NEW r, r = Append(q, e)
  PROVE  /\ r \in Seq(S) /\ Len(q) \in Nat /\ Len(r) = Len(q) + 1
         /\ DOMAIN q = 1 .. Len(q) /\ DOMAIN r = 1 .. Len(q) + 1
         /\ r[Len(q) + 1] = e /\ \A k \in DOMAIN q : r[k] = q[k] /\ k \in DOMAIN r
OBVIOUS

\* One of any kind.
LEMMA AnyAppended ==
  ASSUME NEW q, IsSeq(q), NEW e, NEW r, r = Append(q, e)
  PROVE  /\ IsSeq(r) /\ Len(q) \in Nat /\ Len(r) = Len(q) + 1
         /\ DOMAIN q = 1 .. Len(q) /\ DOMAIN r = 1 .. Len(q) + 1
         /\ r[Len(q) + 1] = e /\ \A k \in DOMAIN q : r[k] = q[k] /\ k \in DOMAIN r
<1>1. PICK S : q \in Seq(S)
  BY DEF IsSeq
<1>2. PICK T : T = S \cup {e}
  OBVIOUS
<1>3. q \in Seq(T) /\ e \in T
  BY <1>1, <1>2
<1> QED
  BY <1>3, Appended DEF IsSeq

\* Another option.
LEMMA OptAdded ==
  ASSUME NEW s, Core(s), NEW o \in OptTok, o.opt \notin Options \cup {"entry"},
         o.targ # NoTarget => Found(s, o.targ),
         o.opt = "spanClose" => /\ o.targ \in RetName
                                /\ o.targ[2] # "unknown" => WasOpened(s, o.targ[2]),
         NEW r, Shaped(r), r.opts = Append(s.opts, o),
         r.adls = s.adls, r.prog = s.prog, r.labels = s.labels, r.ptrs = s.ptrs
  PROVE  /\ Core(r)
         /\ \A l : WasOpened(r, l) <=> WasOpened(s, l) \/ (o.opt = "spanOpen" /\ o.targ = Lbl(l))
<1>1. PICK n \in Nat : n = Len(s.opts)
  BY DEF Core, CoreType
<1>2. /\ r.opts \in Seq(OptTok) /\ Len(r.opts) = n + 1 /\ DOMAIN s.opts = 1 .. n /\ DOMAIN r.opts = 1 .. n + 1
      /\ r.opts[n + 1] = o /\ \A k \in 1 .. n : r.opts[k] = s.opts[k]
  BY <1>1, Appended DEF Core, CoreType
<1>3. \A l : WasOpened(r, l) <=> WasOpened(s, l) \/ (o.opt = "spanOpen" /\ o.targ = Lbl(l))
  BY <1>2 DEF WasOpened
<1>4. \A name : Found(s, name) <=> Found(r, name)
  BY DEF Found, Defined
<1>5. CoreType(r)
  BY <1>2 DEF Core, CoreType
<1>6. Pointers(r)
  <2>1. DOMAIN r.ptrs \subseteq Options
    BY DEF Core, Pointers
  <2>2. ASSUME NEW q \in DOMAIN r.ptrs
        PROVE  /\ r.ptrs[q] \in Pointer
               /\ r.ptrs[q].at \in DOMAIN r.opts /\ r.opts[r.ptrs[q].at].opt = q
               /\ r.ptrs[q].cap = Cap(r.ptrs[q].at)
               /\ r.ptrs[q].at > 32 \/ Len(r.opts) <= r.ptrs[q].cap => r.opts[r.ptrs[q].at].arg = r.ptrs[q].arg
    <3>1. PICK p : p = s.ptrs[q] /\ p = r.ptrs[q]
      OBVIOUS
    <3>2. /\ p \in Pointer /\ p.at \in 1 .. n /\ s.opts[p.at].opt = q /\ p.cap = Cap(p.at)
          /\ p.at > 32 \/ n <= p.cap => s.opts[p.at].arg = p.arg
      BY <1>1, <1>2, <3>1 DEF Core, Pointers
    <3>3. r.opts[p.at] = s.opts[p.at] /\ p.at \in 1 .. n + 1
      BY <1>2, <3>2
    <3>4. p.at <= 32 /\ n + 1 <= p.cap => n <= p.cap
      <4>1. p.at <= 32 => p.cap \in Nat
        BY <3>2, CapSame
      <4> QED
        BY <4>1
    <3> QED
      BY <1>2, <3>1, <3>2, <3>3, <3>4
  <2>3. ASSUME NEW k \in DOMAIN r.opts, r.opts[k].opt \in Options
        PROVE  r.opts[k].opt \in DOMAIN r.ptrs /\ r.ptrs[r.opts[k].opt].at = k
    BY <1>2, <2>3 DEF Core, Pointers
  <2> QED
    BY <2>1, <2>2, <2>3 DEF Pointers
<1>7. OneEntry(r)
  <2>1. OneEntry(s) /\ o.opt # "entry"
    BY DEF Core
  <2>2. ASSUME NEW k \in DOMAIN r.opts, r.opts[k].opt = "entry"
        PROVE  k \in DOMAIN s.opts /\ s.opts[k].opt = "entry"
    BY <1>2, <2>1, <2>2
  <2>3. \A name : Defined(r, name) <=> Defined(s, name)
    BY DEF Defined
  <2> QED
    BY <2>1, <2>2, <2>3 DEF OneEntry
<1>8. Referred(r)
  <2>1. ASSUME NEW k \in DOMAIN r.opts, r.opts[k].targ # NoTarget PROVE Found(r, r.opts[k].targ)
    BY <1>2, <1>4, <2>1 DEF Core, Referred
  <2> QED
    BY <1>4, <2>1 DEF Core, Referred
<1>9. Closed(r)
  BY <1>2, <1>3 DEF Core, Closed
<1> QED
  BY <1>3, <1>5, <1>6, <1>7, <1>8, <1>9 DEF Core

\* An entry, where there was none.
EntryDefined(s) == Defined(s, <<"entry", "">>)
NoEntry(s) == \A k \in DOMAIN s.opts : s.opts[k].opt # "entry"
LEMMA EntryAdded ==
  ASSUME NEW s, Core(s), NEW o \in OptTok, o.opt = "entry", Found(s, o.targ),
         EntryDefined(s), NoEntry(s),
         NEW r, Shaped(r), r.opts = Append(s.opts, o),
         r.adls = s.adls, r.prog = s.prog, r.labels = s.labels, r.ptrs = s.ptrs
  PROVE  Core(r) /\ \A l : WasOpened(r, l) <=> WasOpened(s, l)
<1>1. PICK n \in Nat : n = Len(s.opts)
  BY DEF Core, CoreType
<1>2. /\ r.opts \in Seq(OptTok) /\ Len(r.opts) = n + 1 /\ DOMAIN s.opts = 1 .. n /\ DOMAIN r.opts = 1 .. n + 1
      /\ r.opts[n + 1] = o /\ \A k \in 1 .. n : r.opts[k] = s.opts[k]
  BY <1>1, Appended DEF Core, CoreType
<1>3. \A l : WasOpened(r, l) <=> WasOpened(s, l)
  BY <1>2 DEF WasOpened
<1>4. \A name : Found(s, name) <=> Found(r, name)
  BY DEF Found, Defined
<1>5. CoreType(r)
  BY <1>2 DEF Core, CoreType
<1>6. Pointers(r)
  <2>1. DOMAIN r.ptrs \subseteq Options
    BY DEF Core, Pointers
  <2>2. ASSUME NEW q \in DOMAIN r.ptrs
        PROVE  /\ r.ptrs[q] \in Pointer
               /\ r.ptrs[q].at \in DOMAIN r.opts /\ r.opts[r.ptrs[q].at].opt = q
               /\ r.ptrs[q].cap = Cap(r.ptrs[q].at)
               /\ r.ptrs[q].at > 32 \/ Len(r.opts) <= r.ptrs[q].cap => r.opts[r.ptrs[q].at].arg = r.ptrs[q].arg
    <3>1. PICK p : p = s.ptrs[q] /\ p = r.ptrs[q]
      OBVIOUS
    <3>2. /\ p \in Pointer /\ p.at \in 1 .. n /\ s.opts[p.at].opt = q /\ p.cap = Cap(p.at)
          /\ p.at > 32 \/ n <= p.cap => s.opts[p.at].arg = p.arg
      BY <1>1, <1>2, <3>1 DEF Core, Pointers
    <3>3. r.opts[p.at] = s.opts[p.at] /\ p.at \in 1 .. n + 1
      BY <1>2, <3>2
    <3>4. p.at <= 32 /\ n + 1 <= p.cap => n <= p.cap
      <4>1. p.at <= 32 => p.cap \in Nat
        BY <3>2, CapSame
      <4> QED
        BY <4>1
    <3> QED
      BY <1>2, <3>1, <3>2, <3>3, <3>4
  <2>3. ASSUME NEW k \in DOMAIN r.opts, r.opts[k].opt \in Options
        PROVE  r.opts[k].opt \in DOMAIN r.ptrs /\ r.ptrs[r.opts[k].opt].at = k
    <3>1. "entry" \notin Options
      BY DEF Options
    <3> QED
      BY <1>2, <2>3, <3>1 DEF Core, Pointers
  <2> QED
    BY <2>1, <2>2, <2>3 DEF Pointers
<1>7. OneEntry(r)
  <2>1. ASSUME NEW k \in DOMAIN r.opts, r.opts[k].opt = "entry" PROVE k = n + 1
    BY <1>2, <2>1 DEF NoEntry
  <2>2. Defined(r, <<"entry", "">>)
    BY DEF Defined, EntryDefined
  <2> QED
    BY <2>1, <2>2 DEF OneEntry
<1>8. Referred(r)
  <2>1. ASSUME NEW k \in DOMAIN r.opts, r.opts[k].targ # NoTarget PROVE Found(r, r.opts[k].targ)
    BY <1>2, <1>4, <2>1 DEF Core, Referred
  <2> QED
    BY <1>4, <2>1 DEF Core, Referred
<1>9. Closed(r)
  BY <1>2, <1>3 DEF Core, Closed
<1> QED
  BY <1>3, <1>5, <1>6, <1>7, <1>8, <1>9 DEF Core

\* Another label, or another place for one.
LEMMA LabelAdded ==
  ASSUME NEW s, Core(s), NEW name \in Name, NEW at \in 0 .. Len(s.prog) + 1,
         at = 0 => ~Defined(s, name) /\ name \notin RetName,
         NEW r, Shaped(r), r.labels = With(s.labels, name, at),
         r.adls = s.adls, r.prog = s.prog, r.opts = s.opts, r.ptrs = s.ptrs
  PROVE  /\ Core(r)
         /\ \A l : WasOpened(s, l) <=> WasOpened(r, l)
         /\ \A n : Defined(s, n) => Defined(r, n)
         /\ at # 0 => Defined(r, name)
<1>1. \A l : WasOpened(s, l) <=> WasOpened(r, l)
  BY DEF WasOpened
<1>2. DOMAIN r.labels = DOMAIN s.labels \cup {name} /\ \A n \in DOMAIN r.labels : r.labels[n] = IF n = name THEN at ELSE s.labels[n]
  BY DEF With
<1>3. \A n : Defined(s, n) => Defined(r, n)
  BY <1>2 DEF Defined, Undefined
<1>4. at # 0 => Defined(r, name)
  BY <1>2 DEF Defined, Undefined
<1>5. \A n : Found(s, n) => Found(r, n)
  BY <1>3 DEF Found
<1>6. CoreType(r)
  BY <1>2 DEF Core, CoreType, Undefined
<1>7. Pointers(r)
  BY DEF Core, Pointers
<1>8. OneEntry(r)
  BY <1>3 DEF Core, OneEntry
<1>9. Referred(r)
  BY <1>5 DEF Core, Referred
<1>10. Closed(r)
  BY <1>1 DEF Core, Closed
<1> QED
  BY <1>1, <1>3, <1>4, <1>6, <1>7, <1>8, <1>9, <1>10 DEF Core

\* Another address label.
LEMMA AddrLabelAdded ==
  ASSUME NEW s, Core(s), NEW name \in Name, Found(s, name),
         NEW r, Shaped(r), r.adls = Append(s.adls, name),
         r.labels = s.labels, r.prog = s.prog, r.opts = s.opts, r.ptrs = s.ptrs
  PROVE  Core(r) /\ \A l : WasOpened(s, l) <=> WasOpened(r, l)
<1>1. \A l : WasOpened(s, l) <=> WasOpened(r, l)
  BY DEF WasOpened
<1>2. \A n : Found(s, n) <=> Found(r, n)
  BY DEF Found, Defined
<1>3. PICK n \in Nat : n = Len(s.adls)
  BY DEF Core, CoreType
<1>4. /\ r.adls \in Seq(Name) /\ DOMAIN s.adls = 1 .. n /\ DOMAIN r.adls = 1 .. n + 1
      /\ r.adls[n + 1] = name /\ \A k \in 1 .. n : r.adls[k] = s.adls[k]
  BY <1>3, Appended DEF Core, CoreType
<1>5. CoreType(r)
  BY <1>4 DEF Core, CoreType
<1>6. Pointers(r)
  BY DEF Core, Pointers
<1>7. OneEntry(r)
  BY DEF Core, OneEntry, Defined
<1>8. Referred(r)
  BY <1>2, <1>4 DEF Core, Referred
<1>9. Closed(r)
  BY <1>1 DEF Core, Closed
<1> QED
  BY <1>1, <1>5, <1>6, <1>7, <1>8, <1>9 DEF Core

\* Another operation, or data.
LEMMA TokAdded ==
  ASSUME NEW s, Core(s), NEW t \in Tok, t.tok \in {"call", "jump"} => Found(s, t.targ),
         NEW r, Shaped(r), r.prog = Append(s.prog, t),
         r.adls = s.adls, r.labels = s.labels, r.opts = s.opts, r.ptrs = s.ptrs
  PROVE  Core(r) /\ \A l : WasOpened(s, l) <=> WasOpened(r, l)
<1>1. \A l : WasOpened(s, l) <=> WasOpened(r, l)
  BY DEF WasOpened
<1>2. \A n : Found(s, n) <=> Found(r, n)
  BY DEF Found, Defined
<1>3. PICK n \in Nat : n = Len(s.prog)
  BY DEF Core, CoreType
<1>4. /\ r.prog \in Seq(Tok) /\ Len(r.prog) = n + 1 /\ DOMAIN s.prog = 1 .. n /\ DOMAIN r.prog = 1 .. n + 1
      /\ r.prog[n + 1] = t /\ \A k \in 1 .. n : r.prog[k] = s.prog[k]
  BY <1>3, Appended DEF Core, CoreType
<1>5. CoreType(r)
  <2>1. \A name \in DOMAIN s.labels : s.labels[name] \in 0 .. n + 1 /\ (name \in RetName => s.labels[name] # Undefined)
    BY <1>3 DEF Core, CoreType
  <2>2. \A name \in DOMAIN r.labels :
          r.labels[name] \in 0 .. (n + 1) + 1 /\ (name \in RetName => r.labels[name] # Undefined)
    BY <2>1
  <2> QED
    BY <1>4, <2>2 DEF Core, CoreType
<1>6. Pointers(r)
  BY DEF Core, Pointers
<1>7. OneEntry(r)
  BY DEF Core, OneEntry, Defined
<1>8. Referred(r)
  <2>1. ASSUME NEW k \in DOMAIN r.prog, r.prog[k].tok \in {"call", "jump"} PROVE Found(r, r.prog[k].targ)
    BY <1>2, <1>4, <2>1 DEF Core, Referred
  <2> QED
    BY <1>2, <2>1 DEF Core, Referred
<1>9. Closed(r)
  BY <1>1 DEF Core, Closed
<1> QED
  BY <1>1, <1>5, <1>6, <1>7, <1>8, <1>9 DEF Core

\* Generated labels are not of the input.
LEMMA NamesApart ==
  ASSUME NEW n \in RetName
  PROVE  /\ n \in Name /\ n # NoTarget /\ n # <<"entry", "">>
         /\ \A l : n # Lbl(l) /\ n # <<"end", l>> /\ n # <<"name", l>>
<1>1. PICK a \in {"ret", "spanClose"}, b \in Label \cup {"unknown"} : n = <<a, b>>
  BY DEF RetName
<1>2. n \in Name
  BY <1>1 DEF Name
<1>3. a # "" /\ a # "entry" /\ a # "end" /\ a # "name"
  OBVIOUS
<1>4. \A c, d : n = <<c, d>> => a = c
  BY <1>1
<1> QED
  BY <1>2, <1>3, <1>4 DEF NoTarget, Lbl

LEMMA SeqOfType ==
  ASSUME NEW S, NEW n \in Nat, NEW r, r = [k \in 1 .. n |-> r[k]], \A k \in 1 .. n : r[k] \in S
  PROVE  r \in Seq(S) /\ Len(r) = n /\ DOMAIN r = 1 .. n
<1>1. r \in [1 .. n -> S]
  OBVIOUS
<1> QED
  BY <1>1

\* A close that was generated gets another name, that of a span that was opened.
Renames(s, old, new) == \E l \in Label : new = <<"ret", l>> /\ WasOpened(s, l)
RenamedAs(s, r, old, new) ==
  /\ DOMAIN r.opts = DOMAIN s.opts /\ DOMAIN r.prog = DOMAIN s.prog
  /\ \A k \in DOMAIN s.opts : /\ r.opts[k].opt = s.opts[k].opt
                              /\ r.opts[k].targ = Renamed(s.opts[k].targ, old, new)
  /\ \A k \in DOMAIN s.prog : /\ r.prog[k].tok = s.prog[k].tok
                              /\ r.prog[k].targ = Renamed(s.prog[k].targ, old, new)
  /\ r.labels = LabelsRenamed(s.labels, old, new)

LEMMA LabelRenamed ==
  ASSUME NEW s, Core(s), NEW old \in RetName, NEW new \in RetName, Defined(s, new), Renames(s, old, new)
  PROVE  LET r == RenameLabel(s, old, new) IN
         /\ Core(r) /\ \A l : WasOpened(s, l) <=> WasOpened(r, l)
         /\ SameSpans(r, s) /\ SamePending(r, s) /\ RenamedAs(s, r, old, new)
<1>1. PICK r : r = RenameLabel(s, old, new)
  OBVIOUS
<1>2. /\ Shaped(r) /\ SameSpans(r, s) /\ SamePending(r, s) /\ r.ptrs = s.ptrs
      /\ r.labels = LabelsRenamed(s.labels, old, new)
      /\ r.adls = [k \in DOMAIN s.adls |-> Renamed(s.adls[k], old, new)]
      /\ r.opts = RenamedIn(s.opts, old, new) /\ r.prog = RenamedIn(s.prog, old, new)
  BY <1>1, RenameLabelIs DEF Core, CoreType
<1>3. PICK n \in Nat, m \in Nat, p \in Nat :
        /\ n = Len(s.opts) /\ DOMAIN s.opts = 1 .. n
        /\ m = Len(s.adls) /\ DOMAIN s.adls = 1 .. m
        /\ p = Len(s.prog) /\ DOMAIN s.prog = 1 .. p
  BY DEF Core, CoreType
<1>4. /\ \A k \in 1 .. n : s.opts[k] \in OptTok
      /\ \A k \in 1 .. m : s.adls[k] \in Name
      /\ \A k \in 1 .. p : s.prog[k] \in Tok
  BY <1>3 DEF Core, CoreType
<1>5. \A x \in Name : Renamed(x, old, new) \in Name
  BY NamesApart DEF Renamed
<1>6. /\ r.opts \in Seq(OptTok) /\ Len(r.opts) = n /\ DOMAIN r.opts = 1 .. n
      /\ \A k \in 1 .. n : /\ r.opts[k].opt = s.opts[k].opt /\ r.opts[k].arg = s.opts[k].arg
                           /\ r.opts[k].targ = Renamed(s.opts[k].targ, old, new)
  <2>1. r.opts = [k \in 1 .. n |-> [s.opts[k] EXCEPT !.targ = Renamed(@, old, new)]]
    BY <1>2, <1>3 DEF RenamedIn
  <2>2. ASSUME NEW k \in 1 .. n
        PROVE  /\ [s.opts[k] EXCEPT !.targ = Renamed(@, old, new)] \in OptTok
               /\ [s.opts[k] EXCEPT !.targ = Renamed(@, old, new)].opt = s.opts[k].opt
               /\ [s.opts[k] EXCEPT !.targ = Renamed(@, old, new)].arg = s.opts[k].arg
               /\ [s.opts[k] EXCEPT !.targ = Renamed(@, old, new)].targ = Renamed(s.opts[k].targ, old, new)
    BY <1>4, <1>5 DEF OptTok
  <2>3. r.opts = [k \in 1 .. n |-> r.opts[k]]
    BY <2>1
  <2>4. \A k \in 1 .. n : /\ r.opts[k] \in OptTok
                          /\ r.opts[k].opt = s.opts[k].opt /\ r.opts[k].arg = s.opts[k].arg
                          /\ r.opts[k].targ = Renamed(s.opts[k].targ, old, new)
    BY <2>1, <2>2
  <2> QED
    BY <2>3, <2>4, SeqOfType
<1>7. /\ r.prog \in Seq(Tok) /\ Len(r.prog) = p /\ DOMAIN r.prog = 1 .. p
      /\ \A k \in 1 .. p : /\ r.prog[k].tok = s.prog[k].tok
                           /\ r.prog[k].targ = Renamed(s.prog[k].targ, old, new)
  <2>1. r.prog = [k \in 1 .. p |-> [s.prog[k] EXCEPT !.targ = Renamed(@, old, new)]]
    BY <1>2, <1>3 DEF RenamedIn
  <2>2. ASSUME NEW k \in 1 .. p
        PROVE  /\ [s.prog[k] EXCEPT !.targ = Renamed(@, old, new)] \in Tok
               /\ [s.prog[k] EXCEPT !.targ = Renamed(@, old, new)].tok = s.prog[k].tok
               /\ [s.prog[k] EXCEPT !.targ = Renamed(@, old, new)].targ = Renamed(s.prog[k].targ, old, new)
    BY <1>4, <1>5 DEF Tok
  <2>3. r.prog = [k \in 1 .. p |-> r.prog[k]]
    BY <2>1
  <2>4. \A k \in 1 .. p : /\ r.prog[k] \in Tok /\ r.prog[k].tok = s.prog[k].tok
                          /\ r.prog[k].targ = Renamed(s.prog[k].targ, old, new)
    BY <2>1, <2>2
  <2> QED
    BY <2>3, <2>4, SeqOfType
<1>8. /\ r.adls \in Seq(Name) /\ DOMAIN r.adls = 1 .. m
      /\ \A k \in 1 .. m : r.adls[k] = Renamed(s.adls[k], old, new)
  BY <1>2, <1>3, <1>4, <1>5
<1>9. /\ DOMAIN r.labels \subseteq Name
      /\ \A x \in DOMAIN r.labels : r.labels[x] \in 0 .. p + 1 /\ (x \in RetName => r.labels[x] # Undefined)
      /\ \A x : Defined(s, x) /\ x # old => Defined(r, x)
      /\ Defined(r, new)
  <2>1. PICK f, g : f = s.labels /\ g = r.labels
    OBVIOUS
  <2>2. g = LabelsRenamed(f, old, new)
    BY <1>2, <2>1
  <2>3. \A x : Defined(s, x) <=> x \in DOMAIN f /\ f[x] # Undefined
    BY <2>1 DEF Defined
  <2>4. \A x : Defined(r, x) <=> x \in DOMAIN g /\ g[x] # Undefined
    BY <2>1 DEF Defined
  <2>5. new \in DOMAIN f /\ f[new] # Undefined
    BY <2>3
  <2>6. DOMAIN f \subseteq Name /\ \A x \in DOMAIN f : f[x] \in 0 .. p + 1 /\ (x \in RetName => f[x] # Undefined)
    BY <1>3, <2>1 DEF Core, CoreType
  <2>7. CASE old \notin DOMAIN f
    <3>1. g = f
      BY <2>2, <2>7 DEF LabelsRenamed
    <3> QED
      BY <2>1, <2>3, <2>4, <2>5, <2>6, <3>1
  <2>8. CASE old \in DOMAIN f
    <3>1. PICK at : at = f[old] /\ at \in 0 .. p + 1 /\ at # Undefined
      BY <2>6, <2>8
    <3>2. DOMAIN g = (DOMAIN f \ {old}) \cup {new}
      BY <2>2, <2>8 DEF LabelsRenamed, With
    <3>3. \A x \in DOMAIN g : x # new => g[x] = f[x] /\ x \in DOMAIN f
      BY <2>2, <2>8 DEF LabelsRenamed, With
    <3>4. new \in DOMAIN g /\ g[new] = at
      BY <2>2, <2>8, <3>1 DEF LabelsRenamed, With
    <3>5. DOMAIN g \subseteq Name
      BY <2>5, <2>6, <3>2
    <3>6. \A x \in DOMAIN g : g[x] \in 0 .. p + 1 /\ (x \in RetName => g[x] # Undefined)
      BY <2>6, <3>1, <3>3, <3>4
    <3>7. \A x : Defined(s, x) /\ x # old => Defined(r, x)
      BY <2>3, <2>4, <3>1, <3>2, <3>3, <3>4
    <3>8. Defined(r, new)
      BY <2>4, <3>1, <3>4
    <3> QED
      BY <2>1, <3>5, <3>6, <3>7, <3>8
  <2> QED
    BY <2>7, <2>8
<1>10. ASSUME NEW x, Found(s, x) PROVE Found(r, Renamed(x, old, new))
  <2>1. CASE x = old
    BY <1>9, <2>1 DEF Found, Renamed
  <2>2. CASE x # old
    BY <1>9, <1>10, <2>2 DEF Found, Renamed
  <2> QED
    BY <2>1, <2>2
<1>11. ASSUME NEW l PROVE WasOpened(s, l) <=> WasOpened(r, l)
  <2>1. ASSUME NEW k \in 1 .. n PROVE s.opts[k].targ = Lbl(l) <=> r.opts[k].targ = Lbl(l)
    BY <1>6, NamesApart DEF Renamed
  <2> QED
    BY <1>3, <1>6, <2>1 DEF WasOpened
<1>12. CoreType(r)
  BY <1>2, <1>6, <1>7, <1>8, <1>9 DEF CoreType
<1>13. Pointers(r)
  <2>1. \A q \in DOMAIN s.ptrs : s.ptrs[q].at \in 1 .. n
    BY <1>3 DEF Core, Pointers
  <2> QED
    BY <1>2, <1>3, <1>6, <2>1 DEF Core, Pointers
<1>14. OneEntry(r)
  <2>1. Defined(s, <<"entry", "">>) => Defined(r, <<"entry", "">>)
    BY <1>9, NamesApart
  <2> QED
    BY <1>3, <1>6, <2>1 DEF Core, OneEntry
<1>15. Referred(r)
  <2>1. \A k \in 1 .. m : Found(r, r.adls[k])
    BY <1>3, <1>8, <1>10 DEF Core, Referred
  <2>2. ASSUME NEW k \in 1 .. n, r.opts[k].targ # NoTarget PROVE Found(r, r.opts[k].targ)
    <3>1. s.opts[k].targ # NoTarget
      BY <1>6, <2>2, NamesApart DEF Renamed
    <3> QED
      BY <1>3, <1>6, <1>10, <3>1 DEF Core, Referred
  <2>3. ASSUME NEW k \in 1 .. p, r.prog[k].tok \in {"call", "jump"} PROVE Found(r, r.prog[k].targ)
    BY <1>3, <1>7, <1>10, <2>3 DEF Core, Referred
  <2> QED
    BY <1>6, <1>7, <1>8, <2>1, <2>2, <2>3 DEF Referred
<1>16. Closed(r)
  <2> SUFFICES ASSUME NEW k \in 1 .. n, r.opts[k].opt = "spanClose"
               PROVE  /\ r.opts[k].targ \in RetName
                      /\ r.opts[k].targ[2] # "unknown" => WasOpened(r, r.opts[k].targ[2])
    BY <1>6 DEF Closed
  <2>1. /\ s.opts[k].targ \in RetName
        /\ s.opts[k].targ[2] # "unknown" => WasOpened(s, s.opts[k].targ[2])
    BY <1>3, <1>6 DEF Core, Closed
  <2>2. PICK l \in Label : new = <<"ret", l>> /\ WasOpened(s, l)
    BY DEF Renames
  <2>3. new[2] = l
    BY <2>2
  <2> QED
    BY <1>6, <1>11, <2>1, <2>2, <2>3 DEF Renamed
<1>17. RenamedAs(s, r, old, new)
  BY <1>2, <1>3, <1>6, <1>7 DEF RenamedAs
<1> QED
  BY <1>1, <1>2, <1>11, <1>12, <1>13, <1>14, <1>15, <1>16, <1>17 DEF Core

-----------------------------------------------------------------------------
(* Options that are set *)

\* What setting an option does to the others.
SameOpts(s, r) ==
  /\ \A k \in DOMAIN s.opts : k \in DOMAIN r.opts /\ r.opts[k].opt = s.opts[k].opt /\ r.opts[k].targ = s.opts[k].targ
  /\ \A k \in DOMAIN r.opts : k \in DOMAIN s.opts \/ r.opts[k].opt \in Options

LEMMA OptionsAre ==
  ASSUME NEW o \in Options
  PROVE  o \in OptKind /\ o # "entry" /\ o # "spanOpen" /\ o # "spanClose"
<1>1. o = "stackSize" \/ o = "queueSize" \/ o = "maxOps" \/ o = "maxCopies"
  BY DEF Options
<1>2. o # "entry"
  BY <1>1
<1>3. o # "spanOpen"
  BY <1>1
<1>4. o # "spanClose"
  BY <1>1
<1> QED
  BY <1>2, <1>3, <1>4 DEF OptKind

\* A pointer to a new option.
LEMMA RefOptKeeps ==
  ASSUME NEW s, Core(s), NEW o \in Options, o \notin DOMAIN s.ptrs, NEW arg \in Nat
  PROVE  LET r == RefOpt(s, o, arg) IN
         /\ Core(r) /\ \A l : WasOpened(s, l) <=> WasOpened(r, l)
         /\ SameSpans(r, s) /\ SamePending(r, s) /\ r.prog = s.prog /\ r.labels = s.labels /\ SameOpts(s, r)
<1>1. PICK n \in Nat : n = Len(s.opts)
  BY DEF Core, CoreType
<1>2. PICK t : t = AddOpt(s, o, NoTarget, arg)
  OBVIOUS
<1>3. PICK p : p = [at |-> n + 1, cap |-> Cap(n + 1), arg |-> arg]
  OBVIOUS
<1>4. PICK e : e = [opt |-> o, targ |-> NoTarget, arg |-> arg]
  OBVIOUS
<1>5. PICK r : r = RefOpt(s, o, arg)
  OBVIOUS
<1>6. r = [t EXCEPT !.ptrs = With(@, o, p)]
  BY <1>1, <1>2, <1>3, <1>5 DEF RefOpt
<1>7. /\ Shaped(t) /\ SameSpans(t, s) /\ SamePending(t, s) /\ t.opts = Append(s.opts, e)
      /\ t.adls = s.adls /\ t.prog = s.prog /\ t.labels = s.labels /\ t.ptrs = s.ptrs
  BY <1>2, <1>4, AddOptIs DEF Core, CoreType
<1>8. /\ Shaped(r) /\ SameSpans(r, s) /\ SamePending(r, s) /\ r.opts = Append(s.opts, e)
      /\ r.adls = s.adls /\ r.prog = s.prog /\ r.labels = s.labels /\ r.ptrs = With(s.ptrs, o, p)
  BY <1>6, <1>7 DEF Shaped, Fields, SameSpans, SamePending
<1>9. e \in OptTok /\ e.opt = o /\ e.targ = NoTarget /\ e.arg = arg /\ o # "entry" /\ o # "spanOpen" /\ o # "spanClose"
  <2>1. o \in OptKind /\ o # "entry" /\ o # "spanOpen" /\ o # "spanClose"
    BY OptionsAre
  <2>2. NoTarget \in Name
    BY DEF NoTarget, Lbl, Name
  <2> QED
    BY <1>4, <2>1, <2>2 DEF OptTok
<1>10. /\ r.opts \in Seq(OptTok) /\ Len(r.opts) = n + 1 /\ DOMAIN s.opts = 1 .. n /\ DOMAIN r.opts = 1 .. n + 1
       /\ r.opts[n + 1] = e /\ \A k \in 1 .. n : r.opts[k] = s.opts[k]
  BY <1>1, <1>8, <1>9, Appended DEF Core, CoreType
<1>11. ASSUME NEW l PROVE WasOpened(s, l) <=> WasOpened(r, l)
  BY <1>9, <1>10 DEF WasOpened
<1>12. \A name : Found(s, name) <=> Found(r, name)
  BY <1>8 DEF Found, Defined
<1>13. CoreType(r)
  BY <1>8, <1>10 DEF Core, CoreType
<1>14. /\ DOMAIN r.ptrs = DOMAIN s.ptrs \cup {o} /\ r.ptrs[o] = p
       /\ \A q \in DOMAIN s.ptrs : r.ptrs[q] = s.ptrs[q] /\ q # o
  BY <1>8 DEF With
<1>15. Pointers(r)
  <2>1. DOMAIN r.ptrs \subseteq Options
    BY <1>14 DEF Core, Pointers
  <2>2. ASSUME NEW q \in DOMAIN r.ptrs
        PROVE  /\ r.ptrs[q] \in Pointer
               /\ r.ptrs[q].at \in DOMAIN r.opts /\ r.opts[r.ptrs[q].at].opt = q
               /\ r.ptrs[q].cap = Cap(r.ptrs[q].at)
               /\ r.ptrs[q].at > 32 \/ Len(r.opts) <= r.ptrs[q].cap => r.opts[r.ptrs[q].at].arg = r.ptrs[q].arg
    <3>1. CASE q = o
      <4>1. p \in Pointer /\ p.at = n + 1 /\ p.cap = Cap(p.at) /\ p.arg = arg
        BY <1>3 DEF Pointer
      <4> QED
        BY <1>9, <1>10, <1>14, <3>1, <4>1
    <3>2. CASE q # o
      <4>1. PICK c : c = s.ptrs[q] /\ c = r.ptrs[q]
        BY <1>14, <3>2
      <4>2. /\ c \in Pointer /\ c.at \in 1 .. n /\ s.opts[c.at].opt = q /\ c.cap = Cap(c.at)
            /\ c.at > 32 \/ n <= c.cap => s.opts[c.at].arg = c.arg
        BY <1>1, <1>10, <1>14, <3>2, <4>1 DEF Core, Pointers
      <4>3. r.opts[c.at] = s.opts[c.at] /\ c.at \in 1 .. n + 1
        BY <1>10, <4>2
      <4>4. c.at <= 32 /\ n + 1 <= c.cap => n <= c.cap
        <5>1. c.at <= 32 => c.cap \in Nat
          BY <4>2, CapSame
        <5> QED
          BY <5>1
      <4> QED
        BY <1>10, <4>1, <4>2, <4>3, <4>4
    <3> QED
      BY <3>1, <3>2
  <2>3. ASSUME NEW k \in DOMAIN r.opts, r.opts[k].opt \in Options
        PROVE  r.opts[k].opt \in DOMAIN r.ptrs /\ r.ptrs[r.opts[k].opt].at = k
    <3>1. CASE k = n + 1
      BY <1>3, <1>9, <1>10, <1>14, <3>1
    <3>2. CASE k \in 1 .. n
      <4>1. s.opts[k].opt \in DOMAIN s.ptrs /\ s.ptrs[s.opts[k].opt].at = k
        BY <1>10, <2>3, <3>2 DEF Core, Pointers
      <4> QED
        BY <1>10, <1>14, <3>2, <4>1
    <3> QED
      BY <1>10, <3>1, <3>2
  <2> QED
    BY <2>1, <2>2, <2>3 DEF Pointers
<1>16. OneEntry(r)
  <2>1. ASSUME NEW k \in DOMAIN r.opts, r.opts[k].opt = "entry"
        PROVE  k \in DOMAIN s.opts /\ s.opts[k].opt = "entry"
    BY <1>9, <1>10, <2>1
  <2>2. \A name : Defined(r, name) <=> Defined(s, name)
    BY <1>8 DEF Defined
  <2> QED
    BY <2>1, <2>2 DEF OneEntry, Core
<1>17. Referred(r)
  <2>1. ASSUME NEW k \in DOMAIN r.opts, r.opts[k].targ # NoTarget PROVE Found(r, r.opts[k].targ)
    BY <1>9, <1>10, <1>12, <2>1 DEF Core, Referred
  <2> QED
    BY <1>8, <1>12, <2>1 DEF Core, Referred
<1>18. Closed(r)
  BY <1>9, <1>10, <1>11 DEF Core, Closed
<1>19. SameOpts(s, r)
  BY <1>9, <1>10 DEF SameOpts
<1> QED
  BY <1>5, <1>8, <1>11, <1>13, <1>15, <1>16, <1>17, <1>18, <1>19 DEF Core

\* Through the pointer, or with a new one.
LEMMA SetOptionKeeps ==
  ASSUME NEW s, Core(s), NEW o \in Options, NEW arg \in Nat
  PROVE  LET r == SetOption(s, o, arg) IN
         /\ Core(r) /\ \A l : WasOpened(s, l) <=> WasOpened(r, l)
         /\ SameSpans(r, s) /\ SamePending(r, s) /\ r.prog = s.prog /\ r.labels = s.labels /\ SameOpts(s, r)
<1>1. CASE o \notin DOMAIN s.ptrs
  BY <1>1, RefOptKeeps DEF SetOption
<1>2. CASE o \in DOMAIN s.ptrs
  <2>1. PICK n \in Nat : n = Len(s.opts) /\ DOMAIN s.opts = 1 .. n
    BY DEF Core, CoreType
  <2>2. PICK p : p = s.ptrs[o]
    OBVIOUS
  <2>3. PICK x : x = p.at
    OBVIOUS
  <2>4. /\ p \in Pointer /\ x \in 1 .. n /\ s.opts[x].opt = o /\ p.cap = Cap(x)
        /\ x > 32 \/ n <= p.cap => s.opts[x].arg = p.arg
    BY <1>2, <2>1, <2>2, <2>3 DEF Core, Pointers
  <2>5. PICK a : a = IF Cap(n) # p.cap THEN s.opts[x].arg ELSE arg
    OBVIOUS
  <2>6. PICK e : e = [s.opts[x] EXCEPT !.arg = a]
    OBVIOUS
  <2>7. PICK c : c = [p EXCEPT !.arg = arg]
    OBVIOUS
  <2>8. PICK r : r = SetOption(s, o, arg)
    OBVIOUS
  <2>9. r = [s EXCEPT !.ptrs[o].arg = arg, !.opts[x].arg = IF Cap(n) # p.cap THEN @ ELSE arg]
    BY <1>2, <2>1, <2>2, <2>3, <2>8 DEF SetOption
  <2>10. /\ Shaped(r) /\ SameSpans(r, s) /\ SamePending(r, s)
         /\ r.opts = [s.opts EXCEPT ![x] = e] /\ r.ptrs = [s.ptrs EXCEPT ![o] = c]
         /\ r.adls = s.adls /\ r.prog = s.prog /\ r.labels = s.labels
    <3>1. Shaped(s)
      BY DEF Core, CoreType
    <3>2. /\ Shaped(r) /\ SameSpans(r, s) /\ SamePending(r, s)
          /\ r.adls = s.adls /\ r.prog = s.prog /\ r.labels = s.labels
      BY <2>9, <3>1 DEF Shaped, Fields, SameSpans, SamePending
    <3>3. r.opts = [s.opts EXCEPT ![x] = e]
      BY <2>5, <2>6, <2>9, <3>1 DEF Shaped, Fields
    <3>4. r.ptrs = [s.ptrs EXCEPT ![o] = c]
      BY <2>2, <2>7, <2>9, <3>1 DEF Shaped, Fields
    <3> QED
      BY <3>2, <3>3, <3>4
  <2>11. s.opts[x] \in OptTok
    BY <2>1, <2>4 DEF Core, CoreType
  <2>12. a \in Nat
    BY <2>5, <2>11 DEF OptTok
  <2>13. e \in OptTok /\ e.opt = s.opts[x].opt /\ e.targ = s.opts[x].targ /\ e.arg = a
    BY <2>6, <2>11, <2>12 DEF OptTok
  <2>14. c \in Pointer /\ c.at = x /\ c.cap = p.cap /\ c.arg = arg
    BY <2>3, <2>4, <2>7 DEF Pointer
  <2>15. /\ r.opts \in Seq(OptTok) /\ Len(r.opts) = n /\ DOMAIN r.opts = 1 .. n
         /\ r.opts[x] = e /\ \A k \in 1 .. n : k # x => r.opts[k] = s.opts[k]
    BY <2>1, <2>4, <2>10, <2>13 DEF Core, CoreType
  <2>16. \A k \in 1 .. n : r.opts[k].opt = s.opts[k].opt /\ r.opts[k].targ = s.opts[k].targ
    BY <2>13, <2>15
  <2>17. DOMAIN r.ptrs = DOMAIN s.ptrs /\ r.ptrs[o] = c /\ \A q \in DOMAIN s.ptrs : q # o => r.ptrs[q] = s.ptrs[q]
    BY <1>2, <2>10
  <2>18. ASSUME NEW l PROVE WasOpened(s, l) <=> WasOpened(r, l)
    BY <2>1, <2>15, <2>16 DEF WasOpened
  <2>19. \A name : Found(s, name) <=> Found(r, name)
    BY <2>10 DEF Found, Defined
  <2>20. CoreType(r)
    BY <2>10, <2>15 DEF Core, CoreType
  <2>21. Pointers(r)
    <3>1. DOMAIN r.ptrs \subseteq Options
      BY <2>17 DEF Core, Pointers
    <3>2. ASSUME NEW q \in DOMAIN r.ptrs
          PROVE  /\ r.ptrs[q] \in Pointer
                 /\ r.ptrs[q].at \in DOMAIN r.opts /\ r.opts[r.ptrs[q].at].opt = q
                 /\ r.ptrs[q].cap = Cap(r.ptrs[q].at)
                 /\ r.ptrs[q].at > 32 \/ Len(r.opts) <= r.ptrs[q].cap => r.opts[r.ptrs[q].at].arg = r.ptrs[q].arg
      <4>1. CASE q = o
        <5>1. x > 32 \/ n <= p.cap => a = arg
          <6>1. x > 32 => Cap(n) = p.cap
            BY <2>4, CapSame
          <6>2. x <= 32 /\ n <= p.cap => Cap(n) = p.cap
            BY <2>4, CapSame
          <6> QED
            BY <2>4, <2>5, <6>1, <6>2
        <5> QED
          BY <2>4, <2>13, <2>14, <2>15, <2>17, <4>1, <5>1
      <4>2. CASE q # o
        <5>1. PICK d : d = s.ptrs[q] /\ d = r.ptrs[q]
          BY <2>17, <4>2
        <5>2. /\ d \in Pointer /\ d.at \in 1 .. n /\ s.opts[d.at].opt = q /\ d.cap = Cap(d.at)
              /\ d.at > 32 \/ n <= d.cap => s.opts[d.at].arg = d.arg
          <6>1. q \in DOMAIN s.ptrs
            BY <2>17
          <6>2. /\ s.ptrs[q] \in Pointer
                /\ s.ptrs[q].at \in DOMAIN s.opts /\ s.opts[s.ptrs[q].at].opt = q
                /\ s.ptrs[q].cap = Cap(s.ptrs[q].at)
                /\ s.ptrs[q].at > 32 \/ Len(s.opts) <= s.ptrs[q].cap => s.opts[s.ptrs[q].at].arg = s.ptrs[q].arg
            BY <6>1 DEF Core, Pointers
          <6> QED
            BY <2>1, <5>1, <6>2
        <5>3. d.at # x
          BY <2>4, <4>2, <5>2
        <5> QED
          BY <2>15, <5>1, <5>2, <5>3
      <4> QED
        BY <4>1, <4>2
    <3>3. ASSUME NEW k \in DOMAIN r.opts, r.opts[k].opt \in Options
          PROVE  r.opts[k].opt \in DOMAIN r.ptrs /\ r.ptrs[r.opts[k].opt].at = k
      <4>1. PICK q : q = s.opts[k].opt /\ q = r.opts[k].opt
        BY <2>15, <2>16
      <4>2. q \in DOMAIN s.ptrs /\ s.ptrs[q].at = k
        <5>1. k \in DOMAIN s.opts
          BY <2>1, <2>15
        <5>2. s.opts[k].opt \in Options => s.opts[k].opt \in DOMAIN s.ptrs /\ s.ptrs[s.opts[k].opt].at = k
          BY <5>1 DEF Core, Pointers
        <5> QED
          BY <3>3, <4>1, <5>2
      <4>3. q = o => k = x
        BY <2>2, <2>3, <4>2
      <4> QED
        BY <2>14, <2>17, <4>1, <4>2, <4>3
    <3> QED
      BY <3>1, <3>2, <3>3 DEF Pointers
  <2>22. OneEntry(r)
    <3>1. \A name : Defined(r, name) <=> Defined(s, name)
      BY <2>10 DEF Defined
    <3> QED
      BY <2>1, <2>15, <2>16, <3>1 DEF Core, OneEntry
  <2>23. Referred(r)
    <3>1. ASSUME NEW k \in DOMAIN r.opts, r.opts[k].targ # NoTarget PROVE Found(r, r.opts[k].targ)
      BY <2>1, <2>15, <2>16, <2>19, <3>1 DEF Core, Referred
    <3> QED
      BY <2>10, <2>19, <3>1 DEF Core, Referred
  <2>24. Closed(r)
    BY <2>1, <2>15, <2>16, <2>18 DEF Core, Closed
  <2>25. SameOpts(s, r)
    BY <2>1, <2>15, <2>16 DEF SameOpts
  <2> QED
    BY <2>8, <2>10, <2>18, <2>20, <2>21, <2>22, <2>23, <2>24, <2>25 DEF Core
<1> QED
  BY <1>1, <1>2

-----------------------------------------------------------------------------
(* Options, labels and tokens that are added *)

LEMMA GrowsOn ==
  ASSUME NEW a, NEW b, NEW c, Grows(a, b), Grows(b, c)
  PROVE  Grows(a, c)
BY DEF Grows

\* A reference to a label that is there, or of the input.
LEMMA AddRefOptKeeps ==
  ASSUME NEW s, Kept(s), NEW opt \in {"spanOpen", "spanClose", "input", "output", "name"}, NEW targ \in Name,
         Found(s, targ),
         opt = "spanClose" => targ \in RetName /\ (targ[2] # "unknown" => WasOpened(s, targ[2])),
         NEW r, r = AddRefOpt(s, opt, targ)
  PROVE  /\ Kept(r) /\ Grows(s, r) /\ SameSpans(r, s) /\ SamePending(r, s)
         /\ r.prog = s.prog /\ r.labels = s.labels
         /\ opt = "spanOpen" => \A l \in Label : targ = Lbl(l) => WasOpened(r, l)
<1>1. PICK o : o = [opt |-> opt, targ |-> targ, arg |-> 0]
  OBVIOUS
<1>2. /\ Shaped(r) /\ SameSpans(r, s) /\ SamePending(r, s) /\ r.opts = Append(s.opts, o)
      /\ r.adls = s.adls /\ r.prog = s.prog /\ r.labels = s.labels /\ r.ptrs = s.ptrs
  BY <1>1, AddOptIs DEF AddRefOpt, Kept, Core, CoreType
<1>3. opt \in OptKind /\ opt \notin Options \cup {"entry"}
  BY DEF OptKind, Options
<1>4. o \in OptTok /\ o.opt = opt /\ o.targ = targ
  BY <1>1, <1>3 DEF OptTok
<1>5. /\ Core(r)
      /\ \A l : WasOpened(r, l) <=> WasOpened(s, l) \/ (o.opt = "spanOpen" /\ o.targ = Lbl(l))
  BY <1>2, <1>3, <1>4, OptAdded DEF Kept
<1>6. Grows(s, r)
  BY <1>5 DEF Grows
<1>7. Kept(r)
  BY <1>2, <1>5, <1>6, KeptSpans
<1> QED
  BY <1>2, <1>4, <1>5, <1>6, <1>7

LEMMA AddLabelKeeps ==
  ASSUME NEW s, Kept(s), NEW name \in Name, NEW r, r = AddLabel(s, name)
  PROVE  /\ Kept(r) /\ Grows(s, r) /\ SameSpans(r, s) /\ SamePending(r, s) /\ r.prog = s.prog /\ r.opts = s.opts
         /\ Defined(r, name) /\ \A n : Defined(s, n) => Defined(r, n)
<1>1. PICK at : at = Len(s.prog) + 1
  OBVIOUS
<1>2. at \in 0 .. Len(s.prog) + 1 /\ at # 0
  BY <1>1 DEF Kept, Core, CoreType
<1>3. /\ Shaped(r) /\ SameSpans(r, s) /\ SamePending(r, s) /\ r.labels = With(s.labels, name, at)
      /\ r.adls = s.adls /\ r.prog = s.prog /\ r.opts = s.opts /\ r.ptrs = s.ptrs
  BY <1>1, AddLabelIs DEF Kept, Core, CoreType
<1>4. /\ Core(r) /\ \A l : WasOpened(s, l) <=> WasOpened(r, l)
      /\ Defined(r, name) /\ \A n : Defined(s, n) => Defined(r, n)
  BY <1>2, <1>3, LabelAdded DEF Kept
<1>5. Grows(s, r)
  BY <1>4 DEF Grows
<1> QED
  BY <1>3, <1>4, <1>5, KeptSpans

LEMMA StubLabelKeeps ==
  ASSUME NEW s, Kept(s), NEW l \in Label, NEW r, r = StubLabel(s, Lbl(l))
  PROVE  /\ Kept(r) /\ Grows(s, r) /\ SameSpans(r, s) /\ SamePending(r, s) /\ r.prog = s.prog /\ r.opts = s.opts
         /\ \A n : Defined(s, n) <=> Defined(r, n)
<1>1. PICK name : name = Lbl(l)
  OBVIOUS
<1>2. name \in Name /\ name \notin RetName
  BY <1>1 DEF Name, RetName, Lbl
<1>3. /\ Shaped(r) /\ SameSpans(r, s) /\ SamePending(r, s)
      /\ r.labels = IF name \in DOMAIN s.labels THEN s.labels ELSE With(s.labels, name, 0)
      /\ r.adls = s.adls /\ r.prog = s.prog /\ r.opts = s.opts /\ r.ptrs = s.ptrs
  BY <1>1, StubLabelIs DEF Kept, Core, CoreType, Undefined
<1>4. \A n : Defined(s, n) <=> Defined(r, n)
  BY <1>3 DEF Defined, With, Undefined
<1>5. Core(r) /\ \A x : WasOpened(s, x) <=> WasOpened(r, x)
  <2>1. CASE name \in DOMAIN s.labels
    BY <1>3, <2>1, SameCore DEF Kept
  <2>2. CASE name \notin DOMAIN s.labels
    <3>1. 0 \in 0 .. Len(s.prog) + 1
      BY DEF Kept, Core, CoreType
    <3>2. ~Defined(s, name)
      BY <2>2 DEF Defined
    <3> QED
      BY <1>2, <1>3, <2>2, <3>1, <3>2, LabelAdded DEF Kept
  <2> QED
    BY <2>1, <2>2
<1>6. Grows(s, r)
  BY <1>5 DEF Grows
<1> QED
  BY <1>3, <1>4, <1>5, <1>6, KeptSpans

LEMMA AddAddrLabelKeeps ==
  ASSUME NEW s, Kept(s), NEW name \in Name, Found(s, name), NEW r, r = AddAddrLabel(s, name)
  PROVE  /\ Kept(r) /\ Grows(s, r) /\ SameSpans(r, s) /\ SamePending(r, s) /\ r.prog = s.prog /\ r.opts = s.opts
         /\ r.labels = s.labels
<1>1. /\ Shaped(r) /\ SameSpans(r, s) /\ SamePending(r, s) /\ r.adls = Append(s.adls, name)
      /\ r.labels = s.labels /\ r.prog = s.prog /\ r.opts = s.opts /\ r.ptrs = s.ptrs
  BY AddAddrLabelIs DEF Kept, Core, CoreType
<1>2. Core(r) /\ \A l : WasOpened(s, l) <=> WasOpened(r, l)
  BY <1>1, AddrLabelAdded DEF Kept
<1>3. Grows(s, r)
  BY <1>2 DEF Grows
<1> QED
  BY <1>1, <1>2, <1>3, KeptSpans

LEMMA AddTokKeeps ==
  ASSUME NEW s, Kept(s), NEW tok \in TokKind, NEW targ \in Name,
         tok \in {"call", "jump"} => Found(s, targ), NEW r, r = AddTok(s, tok, targ)
  PROVE  /\ Kept(r) /\ Grows(s, r) /\ SameSpans(r, s) /\ SamePending(r, s) /\ r.labels = s.labels /\ r.opts = s.opts
<1>1. PICK t : t = [tok |-> tok, targ |-> targ]
  OBVIOUS
<1>2. t \in Tok /\ t.tok = tok /\ t.targ = targ
  BY <1>1 DEF Tok
<1>3. /\ Shaped(r) /\ SameSpans(r, s) /\ SamePending(r, s) /\ r.prog = Append(s.prog, t)
      /\ r.labels = s.labels /\ r.adls = s.adls /\ r.opts = s.opts /\ r.ptrs = s.ptrs
  BY <1>1, AddTokIs DEF Kept, Core, CoreType
<1>4. Core(r) /\ \A l : WasOpened(s, l) <=> WasOpened(r, l)
  BY <1>2, <1>3, TokAdded DEF Kept
<1>5. Grows(s, r)
  BY <1>4 DEF Grows
<1> QED
  BY <1>3, <1>4, <1>5, KeptSpans

LEMMA GenProgLabelKeeps ==
  ASSUME NEW s, Kept(s), NEW name \in Name, NEW r, r = GenProgLabel(s, name)
  PROVE  /\ Kept(r) /\ Grows(s, r) /\ SameSpans(r, s) /\ SamePending(r, s) /\ r.prog = s.prog /\ r.opts = s.opts
         /\ Defined(r, name) /\ Found(r, name) /\ \A n : Defined(s, n) => Defined(r, n)
<1>1. PICK t : t = AddLabel(s, name)
  OBVIOUS
<1>2. /\ Kept(t) /\ Grows(s, t) /\ SameSpans(t, s) /\ SamePending(t, s) /\ t.prog = s.prog /\ t.opts = s.opts
      /\ Defined(t, name) /\ \A n : Defined(s, n) => Defined(t, n)
  BY <1>1, AddLabelKeeps
<1>3. r = AddAddrLabel(t, name) /\ Found(t, name)
  BY <1>1, <1>2 DEF GenProgLabel, Found
<1>4. /\ Kept(r) /\ Grows(t, r) /\ SameSpans(r, t) /\ SamePending(r, t) /\ r.prog = t.prog /\ r.opts = t.opts
      /\ r.labels = t.labels
  BY <1>2, <1>3, AddAddrLabelKeeps
<1>5. Grows(s, r)
  BY <1>2, <1>4, GrowsOn
<1>6. \A n : Defined(t, n) => Defined(r, n)
  BY <1>4 DEF Defined
<1>7. SameSpans(r, s) /\ SamePending(r, s)
  BY <1>2, <1>4 DEF SameSpans, SamePending
<1> QED
  BY <1>2, <1>4, <1>5, <1>6, <1>7 DEF Found

LEMMA LblIsName ==
  ASSUME NEW l \in Label
  PROVE  Lbl(l) \in Name /\ <<"end", l>> \in Name /\ <<"name", l>> \in Name /\ \A s : Found(s, Lbl(l))
<1>1. Lbl(l) \in Name
  BY DEF Lbl, Name
<1>2. <<"end", l>> \in Name /\ <<"name", l>> \in Name
  BY DEF Name
<1> QED
  BY <1>1, <1>2 DEF Found

-----------------------------------------------------------------------------
(* Spans *)

\* What changes the state of the input only.
LEMMA SpansChange ==
  ASSUME NEW s, NEW r, Kept(s), Core(r), Grows(s, r), r.urs = s.urs, r.unkRets = s.unkRets, OpenedIn(r, r)
  PROVE  Kept(r)
BY DEF Kept, Returns

\* addSpanOpen()
LEMMA AddSpanOpenKeeps ==
  ASSUME NEW s, Kept(s), NEW l \in Label, NEW r, r = AddSpanOpen(s, l)
  PROVE  Kept(r) /\ Grows(s, r) /\ SamePending(r, s) /\ WasOpened(r, l) /\ r.open = s.open
<1>1. CASE l \in s.opens
  <2>1. r = s
    BY <1>1 DEF AddSpanOpen
  <2> QED
    BY <1>1, <2>1 DEF Kept, OpenedIn, Grows, SamePending
<1>2. CASE l \notin s.opens
  <2>1. PICK s1 : s1 = [s EXCEPT !.opens = @ \cup {l}]
    OBVIOUS
  <2>2. Shaped(s)
    BY DEF Kept, Core, CoreType
  <2>3. /\ Shaped(s1) /\ SamePending(s1, s) /\ s1.urs = s.urs /\ s1.unkRets = s.unkRets
        /\ s1.open = s.open /\ s1.opens = s.opens \cup {l}
        /\ s1.opts = s.opts /\ s1.adls = s.adls /\ s1.prog = s.prog /\ s1.labels = s.labels /\ s1.ptrs = s.ptrs
    BY <2>1, <2>2 DEF Shaped, Fields, SamePending
  <2>4. Core(s1) /\ \A x : WasOpened(s, x) <=> WasOpened(s1, x)
    BY <2>3, SameCore DEF Kept
  <2>5. PICK t : t = AddRefOpt(s1, "spanOpen", Lbl(l))
    OBVIOUS
  <2>6. PICK o : o = [opt |-> "spanOpen", targ |-> Lbl(l), arg |-> 0]
    OBVIOUS
  <2>7. /\ Shaped(t) /\ SameSpans(t, s1) /\ SamePending(t, s1) /\ t.opts = Append(s1.opts, o)
        /\ t.adls = s1.adls /\ t.prog = s1.prog /\ t.labels = s1.labels /\ t.ptrs = s1.ptrs
    BY <2>3, <2>5, <2>6, AddOptIs DEF AddRefOpt
  <2>8. o \in OptTok /\ o.opt = "spanOpen" /\ o.targ = Lbl(l) /\ o.opt \notin Options \cup {"entry"}
    <3>1. "spanOpen" \in OptKind /\ "spanOpen" \notin Options \cup {"entry"}
      BY DEF OptKind, Options
    <3> QED
      BY <2>6, <3>1, LblIsName DEF OptTok
  <2>9. Found(s1, o.targ) /\ o.opt # "spanClose"
    BY <2>8, LblIsName
  <2>10. Core(t) /\ \A x : WasOpened(t, x) <=> WasOpened(s1, x) \/ (o.opt = "spanOpen" /\ o.targ = Lbl(x))
    BY <2>4, <2>7, <2>8, <2>9, OptAdded
  <2>11. Grows(s, t) /\ WasOpened(t, l)
    BY <2>4, <2>8, <2>10 DEF Grows
  <2>12. /\ t.urs = s.urs /\ t.unkRets = s.unkRets /\ SamePending(t, s)
         /\ t.open = s.open /\ t.opens = s.opens \cup {l}
    BY <2>3, <2>7 DEF SameSpans, SamePending
  <2>13. OpenedIn(t, t)
    <3>1. OpenedIn(t, s)
      BY <2>11, GrownSpans DEF Kept
    <3> QED
      BY <2>11, <2>12, <3>1 DEF OpenedIn
  <2>14. Kept(t)
    BY <2>10, <2>11, <2>12, <2>13, SpansChange
  <2>15. CASE l \notin DOMAIN s.unkRets
    <3>1. r = t
      BY <1>2, <2>1, <2>5, <2>15 DEF AddSpanOpen
    <3> QED
      BY <2>11, <2>12, <2>14, <3>1
  <2>16. CASE l \in DOMAIN s.unkRets
    <3>1. PICK u : u = s.unkRets[l]
      OBVIOUS
    <3>2. PICK k : k = LastIndex(s, s.urs[u].seen, l)
      OBVIOUS
    <3>3. PICK new : new = <<"ret", l>>
      OBVIOUS
    <3>4. r = IF k <= s.urs[u].cur THEN t
              ELSE [RenameLabel(GenProgLabel(t, new), s.urs[u].label, new) EXCEPT
                      !.urs[u] = [label |-> new, cur |-> k, seen |-> @.seen]]
      BY <1>2, <2>1, <2>5, <2>16, <3>1, <3>2, <3>3 DEF AddSpanOpen
    <3>5. CASE k <= s.urs[u].cur
      BY <2>11, <2>12, <2>14, <3>4, <3>5
    <3>6. CASE ~(k <= s.urs[u].cur)
      <4>1. new \in RetName /\ new \in Name
        BY <3>3 DEF RetName, Name
      <4>2. PICK g : g = GenProgLabel(t, new)
        OBVIOUS
      <4>3. Kept(g) /\ Grows(t, g) /\ SameSpans(g, t) /\ SamePending(g, t) /\ Defined(g, new)
        BY <2>14, <4>1, <4>2, GenProgLabelKeeps
      <4>4. PICK old : old = s.urs[u].label
        OBVIOUS
      <4>5. u \in DOMAIN s.urs /\ old \in RetName
        BY <2>16, <3>1, <4>4 DEF Kept, Returns
      <4>6. WasOpened(g, l) /\ Renames(g, old, new)
        BY <2>11, <3>3, <4>3 DEF Grows, Renames
      <4>7. PICK h : h = RenameLabel(g, old, new)
        OBVIOUS
      <4>8. /\ Core(h) /\ \A x : WasOpened(g, x) <=> WasOpened(h, x)
            /\ SameSpans(h, g) /\ SamePending(h, g)
        BY <4>1, <4>3, <4>5, <4>6, <4>7, LabelRenamed DEF Kept
      <4>9. PICK e : e = [label |-> new, cur |-> k, seen |-> h.urs[u].seen]
        OBVIOUS
      <4>10. r = [h EXCEPT !.urs[u] = e]
        BY <3>4, <3>6, <4>2, <4>4, <4>7, <4>9
      <4>11. Shaped(h)
        BY <4>8 DEF Core, CoreType
      <4>12. /\ Shaped(r) /\ SamePending(r, h) /\ r.unkRets = h.unkRets /\ r.open = h.open /\ r.opens = h.opens
             /\ r.opts = h.opts /\ r.adls = h.adls /\ r.prog = h.prog /\ r.labels = h.labels /\ r.ptrs = h.ptrs
             /\ r.urs = [h.urs EXCEPT ![u] = e]
        BY <4>10, <4>11 DEF Shaped, Fields, SamePending
      <4>13. Core(r) /\ \A x : WasOpened(h, x) <=> WasOpened(r, x)
        BY <4>8, <4>12, SameCore
      <4>14. Grows(t, r) /\ Grows(s, r) /\ WasOpened(r, l)
        BY <2>11, <4>3, <4>6, <4>8, <4>13 DEF Grows
      <4>15. /\ h.urs = s.urs /\ h.unkRets = s.unkRets /\ h.open = t.open /\ h.opens = t.opens
        BY <2>12, <4>3, <4>8 DEF SameSpans
      <4>16. OpenedIn(r, r)
        <5>1. OpenedIn(r, t)
          BY <2>13, <4>14, GrownSpans
        <5> QED
          BY <4>12, <4>15, <5>1 DEF OpenedIn
      <4>17. Returns(r)
        <5>1. PICK q : q = s.urs
          OBVIOUS
        <5>2. PICK S : q \in Seq(S)
          BY <5>1 DEF Kept, Returns, IsSeq
        <5>3. PICK T : T = S \cup {e}
          OBVIOUS
        <5>4. q \in Seq(T) /\ e \in T
          BY <5>2, <5>3
        <5>5. [q EXCEPT ![u] = e] \in Seq(T)
          BY <4>5, <5>1, <5>4
        <5>6. r.urs = [q EXCEPT ![u] = e] /\ DOMAIN r.urs = DOMAIN q
          BY <4>12, <4>15, <5>1
        <5>7. \A i \in DOMAIN q : q[i].label \in RetName
          BY <5>1 DEF Kept, Returns
        <5>8. e.label = new
          BY <4>9
        <5>9. \A i \in DOMAIN r.urs : r.urs[i].label \in RetName
          BY <4>1, <5>6, <5>7, <5>8
        <5>10. \A x \in DOMAIN r.unkRets : r.unkRets[x] \in DOMAIN r.urs
          BY <4>12, <4>15, <5>1, <5>6 DEF Kept, Returns
        <5> QED
          BY <5>5, <5>6, <5>9, <5>10 DEF Returns, IsSeq
      <4>18. SamePending(r, s)
        BY <2>12, <4>3, <4>8, <4>12 DEF SamePending
      <4>19. r.open = s.open
        BY <2>12, <4>12, <4>15
      <4> QED
        BY <4>13, <4>14, <4>16, <4>17, <4>18, <4>19 DEF Kept
    <3> QED
      BY <3>5, <3>6
  <2> QED
    BY <2>15, <2>16
<1> QED
  BY <1>1, <1>2

\* addSpanClose()
LEMMA AddSpanCloseKeeps ==
  ASSUME NEW s, Kept(s), NEW kind \in {"ret", "spanClose"}, NEW r, r = AddSpanClose(s, kind)
  PROVE  Kept(r) /\ Grows(s, r) /\ SamePending(r, s) /\ r.prog = s.prog
<1>0. s.open \in Seq(Label) /\ Shaped(s)
  BY DEF Kept, OpenedIn, Core, CoreType
<1>1. CASE s.open # <<>>
  <2>1. PICK l : l = Last(s.open)
    OBVIOUS
  <2>2. l \in Label /\ WasOpened(s, l) /\ l # "unknown" /\ Front(s.open) \in Seq(Label)
        /\ \A k \in DOMAIN Front(s.open) : Front(s.open)[k] = s.open[k] /\ k \in DOMAIN s.open
    <3>1. Len(s.open) \in DOMAIN s.open /\ l = s.open[Len(s.open)]
      BY <1>0, <1>1, <2>1 DEF Last
    <3>2. l \in Label
      BY <1>0, <3>1
    <3>3. l # "unknown"
      BY <3>2, LabelAssumption
    <3>4. Front(s.open) \in Seq(Label)
      BY <1>0, <1>1 DEF Front
    <3>5. \A k \in DOMAIN Front(s.open) : Front(s.open)[k] = s.open[k] /\ k \in DOMAIN s.open
      BY <1>0, <1>1 DEF Front
    <3> QED
      BY <3>1, <3>2, <3>3, <3>4, <3>5 DEF Kept, OpenedIn
  <2>3. PICK name : name = <<kind, l>>
    OBVIOUS
  <2>4. name \in RetName /\ name \in Name /\ name[2] = l
    BY <2>2, <2>3 DEF RetName, Name
  <2>5. PICK g : g = GenProgLabel(s, name)
    OBVIOUS
  <2>6. /\ Kept(g) /\ Grows(s, g) /\ SameSpans(g, s) /\ SamePending(g, s) /\ g.prog = s.prog /\ Found(g, name)
        /\ WasOpened(g, l)
    <3>1. /\ Kept(g) /\ Grows(s, g) /\ SameSpans(g, s) /\ SamePending(g, s) /\ g.prog = s.prog /\ Found(g, name)
      BY <2>4, <2>5, GenProgLabelKeeps
    <3> QED
      BY <2>2, <3>1 DEF Grows
  <2>7. PICK h : h = AddRefOpt(g, "spanClose", name)
    OBVIOUS
  <2>8. Kept(h) /\ Grows(g, h) /\ SameSpans(h, g) /\ SamePending(h, g) /\ h.prog = g.prog
    BY <2>4, <2>6, <2>7, AddRefOptKeeps
  <2>9. r = [h EXCEPT !.open = Front(@)]
    BY <1>1, <2>1, <2>3, <2>5, <2>7 DEF AddSpanClose
  <2>10. Shaped(h)
    BY <2>8 DEF Kept, Core, CoreType
  <2>11. /\ Shaped(r) /\ SamePending(r, h) /\ r.urs = h.urs /\ r.unkRets = h.unkRets /\ r.opens = h.opens
         /\ r.open = Front(h.open)
         /\ r.opts = h.opts /\ r.adls = h.adls /\ r.prog = h.prog /\ r.labels = h.labels /\ r.ptrs = h.ptrs
    BY <2>9, <2>10 DEF Shaped, Fields, SamePending
  <2>12. Core(r) /\ \A x : WasOpened(h, x) <=> WasOpened(r, x)
    BY <2>8, <2>11, SameCore DEF Kept
  <2>13. Grows(s, r) /\ Grows(h, r)
    BY <2>6, <2>8, <2>12 DEF Grows
  <2>14. h.open = s.open
    BY <2>6, <2>8 DEF SameSpans
  <2>15. OpenedIn(r, r)
    <3>1. OpenedIn(r, h)
      BY <2>8, <2>13, GrownSpans DEF Kept
    <3> QED
      BY <2>2, <2>11, <2>14, <3>1 DEF OpenedIn
  <2>16. Kept(r)
    BY <2>8, <2>11, <2>12, <2>13, <2>15, SpansChange
  <2> QED
    BY <2>6, <2>8, <2>11, <2>13, <2>16 DEF SamePending
<1>2. CASE s.open = <<>> /\ s.seen.n > 0
  <2>1. PICK name : name = <<kind, "unknown">>
    OBVIOUS
  <2>2. name \in RetName /\ name \in Name /\ name[2] = "unknown"
    BY <2>1 DEF RetName, Name
  <2>3. PICK g : g = GenProgLabel(s, name)
    OBVIOUS
  <2>4. Kept(g) /\ Grows(s, g) /\ SameSpans(g, s) /\ SamePending(g, s) /\ g.prog = s.prog /\ Found(g, name)
    BY <2>2, <2>3, GenProgLabelKeeps
  <2>5. PICK h : h = AddRefOpt(g, "spanClose", name)
    OBVIOUS
  <2>6. Kept(h) /\ Grows(g, h) /\ SameSpans(h, g) /\ SamePending(h, g) /\ h.prog = g.prog
    BY <2>2, <2>4, <2>5, AddRefOptKeeps
  <2>7. PICK e : e = [label |-> name, cur |-> 0, seen |-> s.seen]
    OBVIOUS
  <2>8. PICK E : E = Elements(s, s.seen)
    OBVIOUS
  <2>9. PICK n : n = Len(s.urs) + 1
    OBVIOUS
  <2>10. r = [h EXCEPT !.urs = Append(@, e), !.unkRets = [l \in E \cup DOMAIN @ |-> IF l \in E THEN n ELSE @[l]]]
    BY <1>2, <2>1, <2>3, <2>5, <2>7, <2>8, <2>9 DEF AddSpanClose
  <2>11. Shaped(h)
    BY <2>6 DEF Kept, Core, CoreType
  <2>12. /\ Shaped(r) /\ SamePending(r, h) /\ r.opens = h.opens /\ r.open = h.open
         /\ r.opts = h.opts /\ r.adls = h.adls /\ r.prog = h.prog /\ r.labels = h.labels /\ r.ptrs = h.ptrs
         /\ r.urs = Append(h.urs, e)
         /\ r.unkRets = [l \in E \cup DOMAIN h.unkRets |-> IF l \in E THEN n ELSE h.unkRets[l]]
    BY <2>10, <2>11 DEF Shaped, Fields, SamePending
  <2>13. Core(r) /\ \A x : WasOpened(h, x) <=> WasOpened(r, x)
    BY <2>6, <2>12, SameCore DEF Kept
  <2>14. Grows(s, r) /\ Grows(h, r)
    BY <2>4, <2>6, <2>13 DEF Grows
  <2>15. OpenedIn(r, r)
    <3>1. OpenedIn(r, h)
      BY <2>6, <2>14, GrownSpans DEF Kept
    <3> QED
      BY <2>12, <3>1 DEF OpenedIn
  <2>16. Returns(r)
    <3>1. PICK q : q = h.urs
      OBVIOUS
    <3>2. IsSeq(q) /\ (\A k \in DOMAIN q : q[k].label \in RetName) /\ q = s.urs
      BY <2>4, <2>6, <3>1 DEF Kept, Returns, SameSpans
    <3>3. PICK p : p = r.urs
      OBVIOUS
    <3>4. p = Append(q, e)
      BY <2>12, <3>1, <3>3
    <3>10. IsSeq(q)
      BY <3>2
    <3>5. /\ IsSeq(p) /\ Len(q) \in Nat /\ DOMAIN q = 1 .. Len(q) /\ DOMAIN p = 1 .. Len(q) + 1
          /\ p[Len(q) + 1] = e /\ \A k \in DOMAIN q : p[k] = q[k] /\ k \in DOMAIN p
      <4>1. IsSeq(p) /\ Len(q) \in Nat /\ DOMAIN q = 1 .. Len(q) /\ DOMAIN p = 1 .. Len(q) + 1
        BY <3>4, <3>10, AnyAppended
      <4>2. p[Len(q) + 1] = e
        BY <3>4, <3>10, AnyAppended
      <4>3. \A k \in DOMAIN q : p[k] = q[k] /\ k \in DOMAIN p
        BY <3>4, <3>10, AnyAppended
      <4> QED
        BY <4>1, <4>2, <4>3
    <3>6. e.label = name
      BY <2>7
    <3>7. \A k \in DOMAIN p : p[k].label \in RetName
      BY <2>2, <3>2, <3>5, <3>6
    <3>8. n \in DOMAIN p
      BY <2>9, <3>2, <3>5
    <3>9. ASSUME NEW l \in DOMAIN r.unkRets PROVE r.unkRets[l] \in DOMAIN p
      <4>1. \A x \in DOMAIN h.unkRets : h.unkRets[x] \in DOMAIN q
        BY <2>6, <3>1 DEF Kept, Returns
      <4> QED
        BY <2>12, <3>5, <3>8, <4>1
    <3> QED
      BY <3>3, <3>5, <3>7, <3>9 DEF Returns
  <2> QED
    BY <2>4, <2>6, <2>12, <2>13, <2>14, <2>15, <2>16 DEF Kept, SamePending
<1>3. CASE s.open = <<>> /\ ~(s.seen.n > 0)
  <2>1. r = s
    BY <1>3 DEF AddSpanClose
  <2> QED
    BY <2>1 DEF Grows, SamePending
<1> QED
  BY <1>1, <1>2, <1>3

\* addProgTok()
LEMMA AddProgTokKeeps ==
  ASSUME NEW s, Kept(s), NEW tok \in TokKind, NEW targ \in Name, tok \notin {"call", "jump"},
         NEW r, r = AddProgTok(s, tok, targ)
  PROVE  Kept(r) /\ Grows(s, r) /\ SamePending(r, s)
<1>1. PICK t : t = IF tok = "ret" THEN AddSpanClose(s, "ret") ELSE s
  OBVIOUS
<1>2. Kept(t) /\ Grows(s, t) /\ SamePending(t, s)
  <2>1. CASE tok = "ret"
    <3>1. t = AddSpanClose(s, "ret")
      BY <1>1, <2>1
    <3> QED
      BY <3>1, AddSpanCloseKeeps
  <2>2. CASE tok # "ret"
    BY <1>1, <2>2 DEF Grows, SamePending
  <2> QED
    BY <2>1, <2>2
<1>3. r = AddTok(t, tok, targ)
  BY <1>1 DEF AddProgTok
<1>4. Kept(r) /\ Grows(t, r) /\ SamePending(r, t)
  BY <1>2, <1>3, AddTokKeeps
<1> QED
  BY <1>2, <1>4, GrowsOn DEF SamePending

\* addProgRef()
LEMMA AddProgRefKeeps ==
  ASSUME NEW s, Kept(s), NEW tok \in {"call", "jump"}, NEW l \in Label, NEW r, r = AddProgRef(s, tok, l)
  PROVE  Kept(r) /\ Grows(s, r) /\ SamePending(r, s)
<1>1. PICK t : t = IF tok = "call" THEN AddSpanOpen(s, l) ELSE s
  OBVIOUS
<1>2. Kept(t) /\ Grows(s, t) /\ SamePending(t, s)
  <2>1. CASE tok = "call"
    <3>1. t = AddSpanOpen(s, l)
      BY <1>1, <2>1
    <3> QED
      BY <3>1, AddSpanOpenKeeps
  <2>2. CASE tok # "call"
    BY <1>1, <2>2 DEF Grows, SamePending
  <2> QED
    BY <2>1, <2>2
<1>3. r = AddTok(t, tok, Lbl(l))
  BY <1>1 DEF AddProgRef
<1>4. tok \in TokKind /\ Lbl(l) \in Name /\ Found(t, Lbl(l))
  BY LblIsName DEF TokKind
<1>5. Kept(r) /\ Grows(t, r) /\ SamePending(r, t)
  BY <1>2, <1>3, <1>4, AddTokKeeps
<1> QED
  BY <1>2, <1>5, GrowsOn DEF SamePending

-----------------------------------------------------------------------------
(* Regions, labels and entry *)

\* What changes the state of the input or the pending label only.
LEMMA PendingChange ==
  ASSUME NEW s, NEW r, Kept(s), Shaped(r), SameSpans(r, s),
         r.opts = s.opts, r.adls = s.adls, r.prog = s.prog, r.labels = s.labels, r.ptrs = s.ptrs
  PROVE  Kept(r) /\ Grows(s, r)
<1>1. Core(r) /\ \A x : WasOpened(s, x) <=> WasOpened(r, x)
  BY SameCore DEF Kept
<1>2. Grows(s, r)
  BY <1>1 DEF Grows
<1> QED
  BY <1>1, <1>2, KeptSpans

\* finishIn() and finishOut(): the options refer to labels that follow in the same call.
LEMMA RegionKeeps ==
  ASSUME NEW s, Kept(s), NEW opt \in {"input", "output"}, NEW l \in Label, NEW r \in Region(s, opt, l)
  PROVE  Kept(r) /\ Grows(s, r) /\ SamePending(r, s)
<1>1. PICK end, name : end = <<"end", l>> /\ name = <<"name", l>>
  OBVIOUS
<1>2. end \in Name /\ name \in Name /\ Lbl(l) \in Name
  BY <1>1, LblIsName
<1>3. PICK a : a = AddLabel(s, end)
  OBVIOUS
<1>4. PICK b : b = AddRefOpt(a, opt, Lbl(l))
  OBVIOUS
<1>5. PICK c : c = AddRefOpt(b, opt, end)
  OBVIOUS
<1>6. PICK d : d = AddRefOpt(c, "name", name)
  OBVIOUS
<1>7. PICK e : e = AddLabel(d, name)
  OBVIOUS
<1>8. r = AddProgTok(e, "string", Lbl(l))
  BY <1>1, <1>3, <1>4, <1>5, <1>6, <1>7 DEF Region
\* The same, with the label first.
<1>9. PICK f : f = AddLabel(a, name)
  OBVIOUS
<1>10. /\ Kept(a) /\ Grows(s, a) /\ SameSpans(a, s) /\ SamePending(a, s) /\ Defined(a, end)
  BY <1>2, <1>3, AddLabelKeeps
<1>11. /\ Kept(f) /\ Grows(a, f) /\ SameSpans(f, a) /\ SamePending(f, a) /\ Defined(f, name) /\ Defined(f, end)
  BY <1>2, <1>9, <1>10, AddLabelKeeps
<1>12. PICK g : g = AddRefOpt(f, opt, Lbl(l))
  OBVIOUS
<1>13. Kept(g) /\ Grows(f, g) /\ SameSpans(g, f) /\ SamePending(g, f) /\ g.labels = f.labels
  <2>1. Found(f, Lbl(l)) /\ opt # "spanClose" /\ opt \in {"spanOpen", "spanClose", "input", "output", "name"}
    BY LblIsName
  <2> QED
    BY <1>2, <1>11, <1>12, <2>1, AddRefOptKeeps
<1>14. PICK h : h = AddRefOpt(g, opt, end)
  OBVIOUS
<1>15. Found(g, end) /\ opt # "spanClose" /\ opt \in {"spanOpen", "spanClose", "input", "output", "name"}
  BY <1>11, <1>13 DEF Found, Defined
<1>16. Kept(h) /\ Grows(g, h) /\ SameSpans(h, g) /\ SamePending(h, g) /\ h.labels = g.labels
  BY <1>2, <1>13, <1>14, <1>15, AddRefOptKeeps
<1>17. Found(h, name)
  BY <1>11, <1>13, <1>16 DEF Found, Defined
<1>18. PICK i : i = AddRefOpt(h, "name", name)
  OBVIOUS
<1>19. Kept(i) /\ Grows(h, i) /\ SameSpans(i, h) /\ SamePending(i, h)
  BY <1>2, <1>16, <1>17, <1>18, AddRefOptKeeps
<1>20. /\ Shaped(e) /\ SameSpans(e, i) /\ SamePending(e, i)
       /\ e.opts = i.opts /\ e.adls = i.adls /\ e.prog = i.prog /\ e.labels = i.labels /\ e.ptrs = i.ptrs
  <2>1. Shaped(s)
    BY DEF Kept, Core, CoreType
  <2>2. /\ Shaped(a) /\ SameSpans(a, s) /\ SamePending(a, s) /\ a.labels = With(s.labels, end, Len(s.prog) + 1)
        /\ a.adls = s.adls /\ a.prog = s.prog /\ a.opts = s.opts /\ a.ptrs = s.ptrs
    BY <1>3, <2>1, AddLabelIs
  <2>3. PICK x, y, z : /\ x = [opt |-> opt, targ |-> Lbl(l), arg |-> 0]
                       /\ y = [opt |-> opt, targ |-> end, arg |-> 0]
                       /\ z = [opt |-> "name", targ |-> name, arg |-> 0]
    OBVIOUS
  <2>4. /\ Shaped(b) /\ SameSpans(b, a) /\ SamePending(b, a) /\ b.opts = Append(a.opts, x)
        /\ b.adls = a.adls /\ b.prog = a.prog /\ b.labels = a.labels /\ b.ptrs = a.ptrs
    BY <1>4, <2>2, <2>3, AddRefOptIs
  <2>5. /\ Shaped(c) /\ SameSpans(c, b) /\ SamePending(c, b) /\ c.opts = Append(b.opts, y)
        /\ c.adls = b.adls /\ c.prog = b.prog /\ c.labels = b.labels /\ c.ptrs = b.ptrs
    <3>1. Shaped(b)
      BY <2>4
    <3>2. y = [opt |-> opt, targ |-> end, arg |-> 0]
      BY <2>3
    <3> QED
      BY <1>5, <3>1, <3>2, AddRefOptIs
  <2>6. /\ Shaped(d) /\ SameSpans(d, c) /\ SamePending(d, c) /\ d.opts = Append(c.opts, z)
        /\ d.adls = c.adls /\ d.prog = c.prog /\ d.labels = c.labels /\ d.ptrs = c.ptrs
    <3>1. Shaped(c)
      BY <2>5
    <3>2. z = [opt |-> "name", targ |-> name, arg |-> 0]
      BY <2>3
    <3> QED
      BY <1>6, <3>1, <3>2, AddRefOptIs
  <2>7. /\ Shaped(e) /\ SameSpans(e, d) /\ SamePending(e, d) /\ e.labels = With(d.labels, name, Len(d.prog) + 1)
        /\ e.adls = d.adls /\ e.prog = d.prog /\ e.opts = d.opts /\ e.ptrs = d.ptrs
    BY <1>7, <2>6, AddLabelIs
  <2>8. /\ Shaped(f) /\ SameSpans(f, a) /\ SamePending(f, a) /\ f.labels = With(a.labels, name, Len(a.prog) + 1)
        /\ f.adls = a.adls /\ f.prog = a.prog /\ f.opts = a.opts /\ f.ptrs = a.ptrs
    BY <1>9, <2>2, AddLabelIs
  <2>9. /\ Shaped(g) /\ SameSpans(g, f) /\ SamePending(g, f) /\ g.opts = Append(f.opts, x)
        /\ g.adls = f.adls /\ g.prog = f.prog /\ g.labels = f.labels /\ g.ptrs = f.ptrs
    BY <1>12, <2>3, <2>8, AddRefOptIs
  <2>10. /\ Shaped(h) /\ SameSpans(h, g) /\ SamePending(h, g) /\ h.opts = Append(g.opts, y)
         /\ h.adls = g.adls /\ h.prog = g.prog /\ h.labels = g.labels /\ h.ptrs = g.ptrs
    <3>1. Shaped(g)
      BY <2>9
    <3>2. y = [opt |-> opt, targ |-> end, arg |-> 0]
      BY <2>3
    <3> QED
      BY <1>14, <3>1, <3>2, AddRefOptIs
  <2>11. /\ Shaped(i) /\ SameSpans(i, h) /\ SamePending(i, h) /\ i.opts = Append(h.opts, z)
         /\ i.adls = h.adls /\ i.prog = h.prog /\ i.labels = h.labels /\ i.ptrs = h.ptrs
    <3>1. Shaped(h)
      BY <2>10
    <3>2. z = [opt |-> "name", targ |-> name, arg |-> 0]
      BY <2>3
    <3> QED
      BY <1>18, <3>1, <3>2, AddRefOptIs
  <2>12. e.opts = i.opts
    BY <2>4, <2>5, <2>6, <2>7, <2>8, <2>9, <2>10, <2>11
  <2>13. e.labels = i.labels
    BY <2>4, <2>5, <2>6, <2>7, <2>8, <2>9, <2>10, <2>11
  <2> QED
    BY <2>4, <2>5, <2>6, <2>7, <2>8, <2>9, <2>10, <2>11, <2>12, <2>13 DEF SameSpans, SamePending
<1>21. Kept(e) /\ Grows(i, e)
  BY <1>19, <1>20, PendingChange
<1>22. Kept(r) /\ Grows(e, r) /\ SamePending(r, e)
  <2>1. "string" \in TokKind /\ "string" \notin {"call", "jump"}
    BY DEF TokKind
  <2> QED
    BY <1>2, <1>8, <1>21, <2>1, AddProgTokKeeps
<1>23. Grows(s, r)
  BY <1>10, <1>11, <1>13, <1>16, <1>19, <1>21, <1>22 DEF Grows
<1> QED
  BY <1>10, <1>11, <1>13, <1>16, <1>19, <1>20, <1>22, <1>23 DEF SamePending

\* The labels that wait for the end of a region.
Pends(s) == s.pendIn \in Label \cup {None} /\ s.pendOut \in Label \cup {None}
Sound(s) == Kept(s) /\ Pends(s)

LEMMA SamePends ==
  ASSUME NEW s, NEW r, Sound(s), Kept(r), SamePending(r, s)
  PROVE  Sound(r)
BY DEF Sound, Pends, SamePending

LEMMA FinishInKeeps ==
  ASSUME NEW s, Sound(s), NEW r \in FinishIn(s)
  PROVE  Sound(r) /\ Grows(s, r) /\ r.state = s.state /\ r.pendOut = s.pendOut /\ r.pendIn = None
<1>1. CASE s.pendIn = None
  BY <1>1 DEF FinishIn, Grows
<1>2. CASE s.pendIn # None
  <2>1. PICK t \in Region(s, "input", s.pendIn) : r = [t EXCEPT !.pendIn = None]
    BY <1>2 DEF FinishIn
  <2>2. s.pendIn \in Label
    BY <1>2 DEF Sound, Pends
  <2>3. Kept(t) /\ Grows(s, t) /\ SamePending(t, s)
    BY <2>2, RegionKeeps DEF Sound
  <2>4. Shaped(t)
    BY <2>3 DEF Kept, Core, CoreType
  <2>5. /\ Shaped(r) /\ SameSpans(r, t) /\ r.pendOut = t.pendOut /\ r.pendIn = None /\ r.state = t.state
        /\ r.opts = t.opts /\ r.adls = t.adls /\ r.prog = t.prog /\ r.labels = t.labels /\ r.ptrs = t.ptrs
    BY <2>1, <2>4 DEF Shaped, Fields, SameSpans
  <2>6. Kept(r) /\ Grows(t, r)
    BY <2>3, <2>5, PendingChange
  <2> QED
    BY <2>3, <2>5, <2>6, GrowsOn DEF Sound, Pends, SamePending
<1> QED
  BY <1>1, <1>2

LEMMA FinishOutKeeps ==
  ASSUME NEW s, Sound(s), NEW r \in FinishOut(s)
  PROVE  Sound(r) /\ Grows(s, r) /\ r.state = s.state /\ r.pendIn = s.pendIn /\ r.pendOut = None
<1>1. CASE s.pendOut = None
  BY <1>1 DEF FinishOut, Grows
<1>2. CASE s.pendOut # None
  <2>1. PICK t \in Region(s, "output", s.pendOut) : r = [t EXCEPT !.pendOut = None]
    BY <1>2 DEF FinishOut
  <2>2. s.pendOut \in Label
    BY <1>2 DEF Sound, Pends
  <2>3. Kept(t) /\ Grows(s, t) /\ SamePending(t, s)
    BY <2>2, RegionKeeps DEF Sound
  <2>4. Shaped(t)
    BY <2>3 DEF Kept, Core, CoreType
  <2>5. /\ Shaped(r) /\ SameSpans(r, t) /\ r.pendIn = t.pendIn /\ r.pendOut = None /\ r.state = t.state
        /\ r.opts = t.opts /\ r.adls = t.adls /\ r.prog = t.prog /\ r.labels = t.labels /\ r.ptrs = t.ptrs
    BY <2>1, <2>4 DEF Shaped, Fields, SameSpans
  <2>6. Kept(r) /\ Grows(t, r)
    BY <2>3, <2>5, PendingChange
  <2> QED
    BY <2>3, <2>5, <2>6, GrowsOn DEF Sound, Pends, SamePending
<1> QED
  BY <1>1, <1>2

\* Any other change of state or pending labels.
LEMMA StateChange ==
  ASSUME NEW s, NEW r, Sound(s), Shaped(r), SameSpans(r, s), Pends(r),
         r.opts = s.opts, r.adls = s.adls, r.prog = s.prog, r.labels = s.labels, r.ptrs = s.ptrs
  PROVE  Sound(r) /\ Grows(s, r)
BY PendingChange DEF Sound

\* setState(), to the text
LEMMA EnterTextKeeps ==
  ASSUME NEW s, Sound(s), s.state \in {"text", "data"}, NEW r \in EnterText(s)
  PROVE  Sound(r) /\ Grows(s, r) /\ r.state = "text"
<1>1. PICK t : t = [s EXCEPT !.state = "text"]
  OBVIOUS
<1>2. Shaped(s)
  BY DEF Sound, Kept, Core, CoreType
<1>3. /\ Shaped(t) /\ SameSpans(t, s) /\ t.pendIn = s.pendIn /\ t.pendOut = s.pendOut /\ t.state = "text"
      /\ t.opts = s.opts /\ t.adls = s.adls /\ t.prog = s.prog /\ t.labels = s.labels /\ t.ptrs = s.ptrs
  BY <1>1, <1>2 DEF Shaped, Fields, SameSpans
<1>4. Sound(t) /\ Grows(s, t)
  <2>1. Pends(t)
    BY <1>3 DEF Sound, Pends
  <2> QED
    BY <1>3, <2>1, StateChange
<1>5. CASE s.state = "text"
  BY <1>5 DEF EnterText, Grows
<1>6. CASE s.state = "data" /\ s.pendIn # None
  <2>1. r \in FinishIn(t)
    BY <1>1, <1>6 DEF EnterText
  <2> QED
    BY <1>3, <1>4, <2>1, FinishInKeeps, GrowsOn
<1>7. CASE s.state = "data" /\ s.pendIn = None
  <2>1. r \in FinishOut(t)
    BY <1>1, <1>7 DEF EnterText
  <2> QED
    BY <1>3, <1>4, <2>1, FinishOutKeeps, GrowsOn
<1> QED
  BY <1>5, <1>6, <1>7

LEMMA PushIs ==
  ASSUME NEW s, Shaped(s), NEW l
  PROVE  LET r == Push(s, l) IN
         /\ Shaped(r) /\ SamePending(r, s)
         /\ r.urs = s.urs /\ r.unkRets = s.unkRets /\ r.open = s.open /\ r.opens = s.opens
         /\ r.opts = s.opts /\ r.adls = s.adls /\ r.prog = s.prog /\ r.labels = s.labels /\ r.ptrs = s.ptrs
BY DEF Push, Shaped, Fields, SamePending

\* handleLabel()
LEMMA HandleLabelKeeps ==
  ASSUME NEW s, Sound(s), NEW l \in Label, NEW r \in HandleLabel(s, l)
  PROVE  Sound(r) /\ Grows(s, r) /\ r.state = s.state
<1>1. PICK a, b, c :
        /\ a \in FinishIn(s) /\ b \in FinishOut(a)
        /\ c = IF l \in b.opens THEN [b EXCEPT !.open = Append(@, l), !.seen.n = 0] ELSE Push(b, l)
        /\ r = AddLabel(AddAddrLabel(c, Lbl(l)), Lbl(l))
  BY DEF HandleLabel
<1>2. Sound(a) /\ Grows(s, a) /\ a.state = s.state
  BY <1>1, FinishInKeeps
<1>3. Sound(b) /\ Grows(a, b) /\ b.state = a.state
  BY <1>1, <1>2, FinishOutKeeps
<1>4. Sound(c) /\ Grows(b, c) /\ c.state = b.state
  <2>0. Shaped(b) /\ b.open \in Seq(Label)
    BY <1>3 DEF Sound, Kept, Core, CoreType, OpenedIn
  <2>1. CASE l \in b.opens
    <3>1. c = [b EXCEPT !.open = Append(@, l), !.seen.n = 0]
      BY <1>1, <2>1
    <3>2. /\ Shaped(c) /\ SamePending(c, b) /\ c.urs = b.urs /\ c.unkRets = b.unkRets
          /\ c.open = Append(b.open, l) /\ c.opens = b.opens
          /\ c.opts = b.opts /\ c.adls = b.adls /\ c.prog = b.prog /\ c.labels = b.labels /\ c.ptrs = b.ptrs
      BY <2>0, <3>1 DEF Shaped, Fields, SamePending
    <3>3. Core(c) /\ \A x : WasOpened(b, x) <=> WasOpened(c, x)
      BY <1>3, <3>2, SameCore DEF Sound, Kept
    <3>4. Grows(b, c)
      BY <3>3 DEF Grows
    <3>5. OpenedIn(c, b) /\ WasOpened(c, l)
      BY <1>3, <2>1, <3>4, GrownSpans DEF Sound, Kept, OpenedIn
    <3>6. OpenedIn(c, c)
      <4>1. /\ c.open \in Seq(Label) /\ DOMAIN b.open = 1 .. Len(b.open) /\ DOMAIN c.open = 1 .. Len(b.open) + 1
            /\ c.open[Len(b.open) + 1] = l /\ \A k \in DOMAIN b.open : c.open[k] = b.open[k]
        BY <2>0, <3>2, Appended
      <4>2. \A k \in DOMAIN c.open : WasOpened(c, c.open[k])
        BY <2>0, <3>5, <4>1 DEF OpenedIn
      <4> QED
        BY <3>2, <3>5, <4>1, <4>2 DEF OpenedIn
    <3>7. Kept(c)
      BY <1>3, <3>2, <3>3, <3>4, <3>6, SpansChange DEF Sound
    <3> QED
      BY <1>3, <3>2, <3>4, <3>7, SamePends DEF SamePending
  <2>2. CASE l \notin b.opens
    <3>1. c = Push(b, l)
      BY <1>1, <2>2
    <3>2. /\ Shaped(c) /\ SamePending(c, b) /\ c.urs = b.urs /\ c.unkRets = b.unkRets
          /\ c.open = b.open /\ c.opens = b.opens
          /\ c.opts = b.opts /\ c.adls = b.adls /\ c.prog = b.prog /\ c.labels = b.labels /\ c.ptrs = b.ptrs
      BY <2>0, <3>1, PushIs
    <3>3. Core(c) /\ \A x : WasOpened(b, x) <=> WasOpened(c, x)
      BY <1>3, <3>2, SameCore DEF Sound, Kept
    <3>4. Grows(b, c)
      BY <3>3 DEF Grows
    <3>5. OpenedIn(c, b)
      BY <1>3, <3>4, GrownSpans DEF Sound, Kept
    <3>6. OpenedIn(c, c)
      BY <3>2, <3>5 DEF OpenedIn
    <3>7. Kept(c)
      BY <1>3, <3>2, <3>3, <3>4, <3>6, SpansChange DEF Sound
    <3> QED
      BY <1>3, <3>2, <3>4, <3>7, SamePends DEF SamePending
  <2> QED
    BY <2>1, <2>2
<1>5. PICK d : d = AddAddrLabel(c, Lbl(l))
  OBVIOUS
<1>6. Kept(d) /\ Grows(c, d) /\ SamePending(d, c)
  BY <1>4, <1>5, LblIsName, AddAddrLabelKeeps DEF Sound
<1>7. Kept(r) /\ Grows(d, r) /\ SamePending(r, d)
  <2>1. r = AddLabel(d, Lbl(l)) /\ Lbl(l) \in Name
    BY <1>1, <1>5, LblIsName
  <2>2. Kept(d)
    BY <1>6
  <2> QED
    BY <2>1, <2>2, AddLabelKeeps
<1>8. Grows(s, r)
  BY <1>2, <1>3, <1>4, <1>6, <1>7 DEF Grows
<1>9. SamePending(r, c)
  BY <1>6, <1>7 DEF SamePending
<1>10. Sound(r)
  BY <1>4, <1>7, <1>9, SamePends
<1> QED
  BY <1>2, <1>3, <1>4, <1>8, <1>9, <1>10 DEF SamePending

LEMMA EntryKeeps ==
  ASSUME NEW s, Sound(s), NEW l \in Label, NEW r \in Entry(s, l)
  PROVE  Sound(r) /\ Grows(s, r) /\ r.state = s.state
<1>1. PICK name : name = <<"entry", "">>
  OBVIOUS
<1>2. PICK a : a = AddLabel(s, name)
  OBVIOUS
<1>3. ~Defined(s, name) /\ r = AddRefOpt(a, "entry", Lbl(l))
  BY <1>1, <1>2 DEF Entry, EntryAgain
<1>4. name \in Name
  BY <1>1 DEF Name
<1>5. /\ Kept(a) /\ Grows(s, a) /\ SameSpans(a, s) /\ SamePending(a, s) /\ a.opts = s.opts /\ Defined(a, name)
  BY <1>2, <1>4, AddLabelKeeps DEF Sound
<1>6. NoEntry(a)
  <2>1. \A k \in DOMAIN s.opts : s.opts[k].opt # "entry"
    BY <1>1, <1>3 DEF Sound, Kept, Core, OneEntry
  <2> QED
    BY <1>5, <2>1 DEF NoEntry
<1>7. EntryDefined(a)
  BY <1>1, <1>5 DEF EntryDefined
<1>8. PICK o : o = [opt |-> "entry", targ |-> Lbl(l), arg |-> 0]
  OBVIOUS
<1>9. o \in OptTok /\ o.opt = "entry" /\ Found(a, o.targ)
  <2>1. "entry" \in OptKind
    BY DEF OptKind
  <2> QED
    BY <1>8, <2>1, LblIsName DEF OptTok
<1>10. /\ Shaped(r) /\ SameSpans(r, a) /\ SamePending(r, a) /\ r.opts = Append(a.opts, o)
       /\ r.adls = a.adls /\ r.prog = a.prog /\ r.labels = a.labels /\ r.ptrs = a.ptrs
  BY <1>3, <1>5, <1>8, AddRefOptIs DEF Kept, Core, CoreType
<1>11. Core(r) /\ \A x : WasOpened(r, x) <=> WasOpened(a, x)
  BY <1>5, <1>6, <1>7, <1>9, <1>10, EntryAdded DEF Kept
<1>12. Grows(a, r)
  BY <1>11 DEF Grows
<1>13. Kept(r)
  BY <1>5, <1>10, <1>11, <1>12, KeptSpans
<1>14. SamePending(r, s)
  BY <1>5, <1>10 DEF SamePending
<1> QED
  BY <1>5, <1>12, <1>13, <1>14, GrowsOn, SamePends DEF SamePending

LEMMA SpanOpenKeeps ==
  ASSUME NEW s, Sound(s), NEW l \in Label, NEW r \in SpanOpen(s, l)
  PROVE  Sound(r) /\ Grows(s, r) /\ r.state = s.state
<1>1. PICK b : b = AddSpanOpen(s, l)
  OBVIOUS
<1>2. Kept(b) /\ Grows(s, b) /\ SamePending(b, s) /\ WasOpened(b, l)
  BY <1>1, AddSpanOpenKeeps DEF Sound
<1>3. r = [b EXCEPT !.open = Append(@, l), !.seen.n = 0]
  BY <1>1 DEF SpanOpen
<1>4. Shaped(b) /\ b.open \in Seq(Label)
  BY <1>2 DEF Kept, Core, CoreType, OpenedIn
<1>5. /\ Shaped(r) /\ SamePending(r, b) /\ r.urs = b.urs /\ r.unkRets = b.unkRets
      /\ r.open = Append(b.open, l) /\ r.opens = b.opens
      /\ r.opts = b.opts /\ r.adls = b.adls /\ r.prog = b.prog /\ r.labels = b.labels /\ r.ptrs = b.ptrs
  BY <1>3, <1>4 DEF Shaped, Fields, SamePending
<1>6. Core(r) /\ \A x : WasOpened(b, x) <=> WasOpened(r, x)
  BY <1>2, <1>5, SameCore DEF Kept
<1>7. Grows(b, r)
  BY <1>6 DEF Grows
<1>8. OpenedIn(r, b) /\ WasOpened(r, l)
  BY <1>2, <1>6, <1>7, GrownSpans DEF Kept
<1>9. OpenedIn(r, r)
  <2>1. /\ r.open \in Seq(Label) /\ DOMAIN b.open = 1 .. Len(b.open) /\ DOMAIN r.open = 1 .. Len(b.open) + 1
        /\ r.open[Len(b.open) + 1] = l /\ \A k \in DOMAIN b.open : r.open[k] = b.open[k]
    BY <1>4, <1>5, Appended
  <2>2. \A k \in DOMAIN r.open : WasOpened(r, r.open[k])
    BY <1>4, <1>8, <2>1 DEF OpenedIn
  <2> QED
    BY <1>5, <1>8, <2>1, <2>2 DEF OpenedIn
<1>10. Kept(r)
  BY <1>2, <1>5, <1>6, <1>7, <1>9, SpansChange
<1>11. SamePending(r, s)
  BY <1>2, <1>5 DEF SamePending
<1> QED
  BY <1>2, <1>7, <1>10, <1>11, GrowsOn, SamePends DEF SamePending

\* Another input's state.
LEMMA InKeeps ==
  ASSUME NEW s, Sound(s), NEW in, OpenedIn(s, in), NEW r, r = In(s, in)
  PROVE  Sound(r) /\ Grows(s, r) /\ r.state = in.state /\ r.open = in.open /\ r.opens = in.opens
<1>1. Shaped(s)
  BY DEF Sound, Kept, Core, CoreType
<1>2. /\ Shaped(r) /\ r.pendIn = s.pendIn /\ r.pendOut = s.pendOut /\ r.urs = s.urs /\ r.unkRets = s.unkRets
      /\ r.open = in.open /\ r.opens = in.opens /\ r.state = in.state
      /\ r.opts = s.opts /\ r.adls = s.adls /\ r.prog = s.prog /\ r.labels = s.labels /\ r.ptrs = s.ptrs
  BY <1>1 DEF In, Shaped, Fields
<1>3. Core(r) /\ \A x : WasOpened(s, x) <=> WasOpened(r, x)
  BY <1>2, SameCore DEF Sound, Kept
<1>4. Grows(s, r)
  BY <1>3 DEF Grows
<1>5. OpenedIn(r, r)
  <2>1. OpenedIn(r, in)
    BY <1>4, GrownSpans
  <2> QED
    BY <1>2, <2>1 DEF OpenedIn
<1>6. Kept(r)
  BY <1>2, <1>3, <1>4, <1>5, SpansChange DEF Sound
<1> QED
  BY <1>2, <1>4, <1>6 DEF Sound, Pends

-----------------------------------------------------------------------------
(* The invariant *)

States == {"text", "data"}
Roles == {"entry", "spanOpen", "in", "out"}

Scans(s) == Sound(s) /\ s.state \in States
Inv ==
  /\ Scans(sc)
  /\ IsSeq(prior) /\ \A k \in DOMAIN prior : OpenedIn(sc, prior[k]) /\ prior[k].state \in States
  /\ want \in Seq(Roles) /\ label \in Label \cup {None} /\ input \in Inputs
  /\ pc = "undefined" => \E name \in Refs : ~Defined(sc, name)

LEMMA InitInv == Init => Inv
<1> SUFFICES ASSUME Init PROVE Inv
  OBVIOUS
<1>1. PICK s : s = NoProgram
  OBVIOUS
<1>2. /\ Shaped(s) /\ s.opts = <<>> /\ s.adls = <<>> /\ s.prog = <<>> /\ DOMAIN s.labels = {} /\ DOMAIN s.ptrs = {}
      /\ s.urs = <<>> /\ DOMAIN s.unkRets = {} /\ s.pendIn = None /\ s.pendOut = None
      /\ s.state = "text" /\ s.open = <<>> /\ s.opens = {}
  BY <1>1 DEF NoProgram, NewInput, Shaped, Fields
<1>3. Core(s)
  <2>1. CoreType(s)
    BY <1>2 DEF CoreType
  <2>2. Pointers(s) /\ OneEntry(s) /\ Referred(s) /\ Closed(s)
    BY <1>2 DEF Pointers, OneEntry, Referred, Closed
  <2> QED
    BY <2>1, <2>2 DEF Core
<1>4. PICK t : t = RefOpt(s, "stackSize", 64)
  OBVIOUS
<1>5. /\ Core(t) /\ SameSpans(t, s) /\ SamePending(t, s)
  <2>1. "stackSize" \in Options /\ 64 \in Nat /\ "stackSize" \notin DOMAIN s.ptrs
    BY <1>2 DEF Options
  <2> QED
    BY <1>3, <1>4, <2>1, RefOptKeeps
<1>6. sc = t
  BY <1>1, <1>4 DEF Init, DefaultStackSize
<1>7. Kept(t)
  <2>1. OpenedIn(t, t)
    BY <1>2, <1>5 DEF OpenedIn, SameSpans
  <2>2. Returns(t)
    <3>1. <<>> \in Seq({})
      OBVIOUS
    <3> QED
      BY <1>2, <1>5, <3>1 DEF Returns, SameSpans, IsSeq
  <2> QED
    BY <1>5, <2>1, <2>2 DEF Kept
<1>8. Scans(sc)
  BY <1>2, <1>5, <1>6, <1>7 DEF Scans, Sound, Pends, SamePending, States
<1>9. IsSeq(prior) /\ \A k \in DOMAIN prior : OpenedIn(sc, prior[k]) /\ prior[k].state \in States
  <2>1. <<>> \in Seq({})
    OBVIOUS
  <2> QED
    BY <2>1 DEF Init, IsSeq
<1>10. want \in Seq(Roles) /\ label \in Label \cup {None} /\ input \in Inputs /\ pc # "undefined"
  BY DEF Init
<1> QED
  BY <1>8, <1>9, <1>10 DEF Inv

\* What the scanner becomes by an item or at a label.
Scanned == Scans(sc') /\ Grows(sc, sc') /\ pc = "scan" /\ pc' \in {"scan", "failed"}
Fine(s, r) == Scans(r) /\ Grows(s, r)

LEMMA NothingChanged ==
  ASSUME NEW s, Scans(s)
  PROVE  Fine(s, s)
BY DEF Fine, Grows

LEMMA Wants ==
  ASSUME Inv, want # <<>>
  PROVE  /\ Last(want) \in Roles /\ Front(want) \in Seq(Roles)
<1>1. want \in Seq(Roles)
  BY DEF Inv
<1>2. Len(want) \in DOMAIN want
  BY <1>1
<1>3. Last(want) \in Roles
  BY <1>1, <1>2 DEF Last
<1>4. Front(want) \in Seq(Roles)
  BY <1>1, <1>2 DEF Front
<1> QED
  BY <1>3, <1>4

LEMMA SetPending ==
  ASSUME NEW s, Scans(s), NEW l \in Label
  PROVE  Fine(s, [s EXCEPT !.pendIn = l]) /\ Fine(s, [s EXCEPT !.pendOut = l])
<1>1. Shaped(s) /\ Sound(s)
  BY DEF Scans, Sound, Kept, Core, CoreType
<1>2. ASSUME NEW r, r = [s EXCEPT !.pendIn = l] PROVE Fine(s, r)
  <2>1. /\ Shaped(r) /\ SameSpans(r, s) /\ r.pendIn = l /\ r.pendOut = s.pendOut /\ r.state = s.state
        /\ r.opts = s.opts /\ r.adls = s.adls /\ r.prog = s.prog /\ r.labels = s.labels /\ r.ptrs = s.ptrs
    BY <1>1, <1>2 DEF Shaped, Fields, SameSpans
  <2>2. Pends(r)
    BY <1>1, <2>1 DEF Sound, Pends
  <2> QED
    BY <1>1, <2>1, <2>2, StateChange DEF Fine, Scans
<1>3. ASSUME NEW r, r = [s EXCEPT !.pendOut = l] PROVE Fine(s, r)
  <2>1. /\ Shaped(r) /\ SameSpans(r, s) /\ r.pendOut = l /\ r.pendIn = s.pendIn /\ r.state = s.state
        /\ r.opts = s.opts /\ r.adls = s.adls /\ r.prog = s.prog /\ r.labels = s.labels /\ r.ptrs = s.ptrs
    BY <1>1, <1>3 DEF Shaped, Fields, SameSpans
  <2>2. Pends(r)
    BY <1>1, <2>1 DEF Sound, Pends
  <2> QED
    BY <1>1, <2>1, <2>2, StateChange DEF Fine, Scans
<1> QED
  BY <1>2, <1>3

LEMMA EnterData ==
  ASSUME NEW s, Scans(s), NEW r, r = [s EXCEPT !.state = "data"]
  PROVE  Fine(s, r)
<1>1. Shaped(s) /\ Sound(s)
  BY DEF Scans, Sound, Kept, Core, CoreType
<1>4. Fine(s, r)
  <2>1. /\ Shaped(r) /\ SameSpans(r, s) /\ r.pendOut = s.pendOut /\ r.pendIn = s.pendIn /\ r.state = "data"
        /\ r.opts = s.opts /\ r.adls = s.adls /\ r.prog = s.prog /\ r.labels = s.labels /\ r.ptrs = s.ptrs
    BY <1>1 DEF Shaped, Fields, SameSpans
  <2>2. Pends(r)
    BY <1>1, <2>1 DEF Sound, Pends
  <2> QED
    BY <1>1, <2>1, <2>2, StateChange DEF Fine, Scans, States
<1> QED
  BY <1>4

\* One result, and results in general.
LEMMA FineIs ==
  ASSUME NEW s, Scans(s), NEW r, Kept(r), Grows(s, r), SamePending(r, s)
  PROVE  Fine(s, r)
BY SamePends DEF Fine, Scans, SamePending

LEMMA ReadRefFine ==
  ASSUME NEW s, Scans(s), NEW tok \in {"call", "jump"}, NEW l \in Label
  PROVE  Fine(s, StubLabel(AddProgRef(s, tok, l), Lbl(l)))
<1>1. PICK a : a = AddProgRef(s, tok, l)
  OBVIOUS
<1>2. Kept(a) /\ Grows(s, a) /\ SamePending(a, s)
  BY <1>1, AddProgRefKeeps DEF Scans, Sound
<1>3. PICK r : r = StubLabel(a, Lbl(l))
  OBVIOUS
<1>4. Kept(r) /\ Grows(a, r) /\ SamePending(r, a)
  BY <1>2, <1>3, StubLabelKeeps
<1>5. Grows(s, r) /\ SamePending(r, s)
  BY <1>2, <1>4, GrowsOn DEF SamePending
<1> QED
  BY <1>1, <1>3, <1>4, <1>5, FineIs

LEMMA AddProgTokFine ==
  ASSUME NEW s, Scans(s), NEW tok \in {"ret", "op", "word", "alloc"}
  PROVE  Fine(s, AddProgTok(s, tok, NoTarget))
<1>1. tok \in TokKind /\ tok \notin {"call", "jump"} /\ NoTarget \in Name
  BY DEF TokKind, NoTarget, Lbl, Name
<1> QED
  BY <1>1, AddProgTokKeeps, FineIs DEF Scans, Sound

LEMMA SetOptionFine ==
  ASSUME NEW s, Scans(s), NEW o \in Options, NEW arg \in Sizes
  PROVE  Fine(s, SetOption(s, o, arg))
<1>1. arg \in Nat
  BY BoundsAssumption
<1>2. PICK r : r = SetOption(s, o, arg)
  OBVIOUS
<1>3. Core(s) /\ Kept(s)
  BY DEF Scans, Sound, Kept
<1>4. /\ Core(r) /\ \A l : WasOpened(s, l) <=> WasOpened(r, l)
      /\ SameSpans(r, s) /\ SamePending(r, s)
  BY <1>1, <1>2, <1>3, SetOptionKeeps
<1>5. Grows(s, r)
  BY <1>4 DEF Grows
<1> QED
  BY <1>2, <1>3, <1>4, <1>5, KeptSpans, FineIs

\* A step of the scan: what the item adds is there, or the scan has failed.
LEMMA Became ==
  ASSUME NEW R, Scans(sc), \A r \in R : Fine(sc, r), Becomes(R), pc = "scan"
  PROVE  Scanned
<1>1. CASE R = {}
  <2>1. sc' = sc /\ pc' = "failed"
    BY <1>1 DEF Becomes
  <2>2. Fine(sc, sc')
    BY <2>1, NothingChanged
  <2> QED
    BY <2>1, <2>2 DEF Scanned, Fine
<1>2. CASE R # {}
  <2>1. sc' \in R /\ pc' = pc
    BY <1>2 DEF Becomes
  <2> QED
    BY <2>1 DEF Scanned, Fine
<1> QED
  BY <1>1, <1>2

LEMMA EnterTextFine ==
  ASSUME NEW s, Scans(s)
  PROVE  \A r \in EnterText(s) : Fine(s, r)
BY EnterTextKeeps DEF Scans, States, Fine

LEMMA StateOf ==
  ASSUME NEW s, Scans(s)
  PROVE  /\ \A l \in Label : \A r \in HandleLabel(s, l) : Fine(s, r)
         /\ \A l \in Label : \A r \in Entry(s, l) : Fine(s, r)
         /\ \A l \in Label : \A r \in SpanOpen(s, l) : Fine(s, r)
<1>1. Sound(s)
  BY DEF Scans
<1>2. ASSUME NEW l \in Label, NEW r \in HandleLabel(s, l) PROVE Fine(s, r)
  BY <1>1, HandleLabelKeeps DEF Scans, Fine
<1>3. ASSUME NEW l \in Label, NEW r \in Entry(s, l) PROVE Fine(s, r)
  BY <1>1, EntryKeeps DEF Scans, Fine
<1>4. ASSUME NEW l \in Label, NEW r \in SpanOpen(s, l) PROVE Fine(s, r)
  BY <1>1, SpanOpenKeeps DEF Scans, Fine
<1> QED
  BY <1>2, <1>3, <1>4

\* What a directive's label does.
LEMMA ExpectedScans ==
  ASSUME Inv, Expected
  PROVE  Scanned /\ want' = Front(want) /\ label' \in {None, label} /\ prior' = prior
<1>1. Last(want) \in Roles /\ label \in Label /\ Scans(sc) /\ pc = "scan"
  BY Wants DEF Expected, Inv
<1>2. PICK R : R = CASE Last(want) = "entry"    -> Entry(sc, label)
                     [] Last(want) = "spanOpen" -> SpanOpen(sc, label)
                     [] Last(want) = "in"       -> {[sc EXCEPT !.pendIn = label]}
                     [] Last(want) = "out"      -> {[sc EXCEPT !.pendOut = label]}
  OBVIOUS
<1>3. CASE Last(want) = "entry"
  <2>1. R = Entry(sc, label)
    BY <1>2, <1>3
  <2>2. Becomes(Entry(sc, label))
    BY <1>3 DEF Expected
  <2>3. \A r \in Entry(sc, label) : Fine(sc, r)
    BY <1>1, StateOf
  <2> QED
    BY <1>1, <2>2, <2>3, Became DEF Expected
<1>4. CASE Last(want) = "spanOpen"
  <2>2. Becomes(SpanOpen(sc, label))
    BY <1>4 DEF Expected
  <2>3. \A r \in SpanOpen(sc, label) : Fine(sc, r)
    BY <1>1, StateOf
  <2> QED
    BY <1>1, <2>2, <2>3, Became DEF Expected
<1>5. CASE Last(want) = "in"
  <2>2. Becomes({[sc EXCEPT !.pendIn = label]})
    BY <1>5 DEF Expected
  <2>3. \A r \in {[sc EXCEPT !.pendIn = label]} : Fine(sc, r)
    BY <1>1, SetPending
  <2> QED
    BY <1>1, <2>2, <2>3, Became DEF Expected
<1>6. CASE Last(want) = "out"
  <2>2. Becomes({[sc EXCEPT !.pendOut = label]})
    BY <1>6 DEF Expected
  <2>3. \A r \in {[sc EXCEPT !.pendOut = label]} : Fine(sc, r)
    BY <1>1, SetPending
  <2> QED
    BY <1>1, <2>2, <2>3, Became DEF Expected
<1> QED
  BY <1>1, <1>3, <1>4, <1>5, <1>6 DEF Roles

\* An item that stands by itself.
LEMMA TakesScans ==
  ASSUME Inv, NEW item, NEW S, Takes(item, S), NEW R, \A r \in R : Fine(sc, r), Becomes(R)
  PROVE  Scanned /\ UNCHANGED <<prior, want, label>>
BY Became DEF Takes, Inv

\* A directive that wants a label.
LEMMA DirectiveScans ==
  ASSUME Inv, NEW role \in Roles, NEW S, Directive(role, S), NEW R, \A r \in R : Fine(sc, r), Becomes(R)
  PROVE  Scanned /\ want' \in Seq(Roles) /\ UNCHANGED <<prior, label>>
<1>1. Scanned
  BY Became DEF Directive, Inv
<1> QED
  BY <1>1 DEF Directive, Inv

LEMMA ScannedInv ==
  ASSUME Inv, Scanned, UNCHANGED <<input, prior>>, want' \in Seq(Roles), label' \in Label \cup {None}
  PROVE  Inv'
<1>1. Scans(sc') /\ Grows(sc, sc') /\ pc' # "undefined"
  BY DEF Scanned
<1>2. IsSeq(prior') /\ \A k \in DOMAIN prior' : OpenedIn(sc, prior[k]) /\ prior[k].state \in States
  BY DEF Inv
<1>3. ASSUME NEW k \in DOMAIN prior' PROVE OpenedIn(sc', prior'[k]) /\ prior'[k].state \in States
  <2>1. PICK in : in = prior[k]
    OBVIOUS
  <2>2. OpenedIn(sc, in) /\ prior'[k] = in /\ in.state \in States
    BY <1>2, <2>1
  <2>3. OpenedIn(sc', in)
    BY <1>1, <2>2, GrownSpans
  <2> QED
    BY <2>2, <2>3
<1>4. input' \in Inputs
  BY DEF Inv
<1> QED
  BY <1>1, <1>2, <1>3, <1>4 DEF Inv

LEMMA IncludeInv == ASSUME Inv, Include, UNCHANGED input PROVE Inv' /\ Grows(sc, sc')
<1>1. PICK s : s = sc
  OBVIOUS
<1>2. PICK r : r = sc'
  OBVIOUS
<1>3. r = In(s, NewInput)
  BY <1>1, <1>2 DEF Include
<1>4. Sound(s) /\ OpenedIn(s, s) /\ s.state \in States
  BY <1>1 DEF Inv, Scans, Sound, Kept
<1>5. OpenedIn(s, NewInput) /\ NewInput.state \in States
  BY DEF OpenedIn, NewInput, States
<1>6. Sound(r) /\ Grows(s, r) /\ r.state \in States
  BY <1>3, <1>4, <1>5, InKeeps
<1>7. PICK e : e = Saved
  OBVIOUS
<1>8. OpenedIn(s, e) /\ e.state \in States
  <2>1. e.open = s.open /\ e.opens = s.opens /\ e.state = s.state
    BY <1>1, <1>7 DEF Saved
  <2> QED
    BY <1>4, <2>1 DEF OpenedIn
<1>9. PICK p, q : p = prior /\ q = prior'
  OBVIOUS
<1>10. IsSeq(p) /\ q = Append(p, e)
  BY <1>7, <1>9 DEF Include, Inv
<1>11. /\ IsSeq(q) /\ Len(p) \in Nat /\ DOMAIN p = 1 .. Len(p) /\ DOMAIN q = 1 .. Len(p) + 1
       /\ q[Len(p) + 1] = e
  BY <1>10, AnyAppended
<1>12. \A k \in DOMAIN p : q[k] = p[k] /\ k \in DOMAIN q
  BY <1>10, AnyAppended
<1>13. \A k \in DOMAIN p : OpenedIn(s, p[k]) /\ p[k].state \in States
  BY <1>1, <1>9 DEF Inv
<1>14. ASSUME NEW k \in DOMAIN q PROVE OpenedIn(r, q[k]) /\ q[k].state \in States
  <2>1. OpenedIn(s, q[k]) /\ q[k].state \in States
    BY <1>8, <1>11, <1>12, <1>13
  <2> QED
    BY <1>6, <2>1, GrownSpans
<1>15. /\ want' \in Seq(Roles) /\ label' \in Label \cup {None} /\ input' \in Inputs /\ pc' # "undefined"
  BY DEF Include, Inv
<1> QED
  BY <1>1, <1>2, <1>6, <1>9, <1>11, <1>14, <1>15 DEF Inv, Scans

LEMMA EndIncludeInv == ASSUME Inv, EndInclude, UNCHANGED input PROVE Inv' /\ Grows(sc, sc')
<1>1. CASE sc.open # <<>>
  <2>1. sc' = sc /\ prior' = prior /\ want' = want /\ label' = label /\ pc' = "panic"
    BY <1>1 DEF EndInclude
  <2> QED
    BY <2>1 DEF Inv, Grows
<1>2. CASE sc.open = <<>>
  <2>1. PICK s, r, p, q : s = sc /\ r = sc' /\ p = prior /\ q = prior'
    OBVIOUS
  <2>2. p # <<>> /\ r = In(s, Last(p)) /\ q = Front(p)
    BY <1>2, <2>1 DEF EndInclude
  <2>3. Sound(s) /\ \A k \in DOMAIN p : OpenedIn(s, p[k]) /\ p[k].state \in States
    BY <2>1 DEF Inv, Scans
  <2>4. PICK S : p \in Seq(S)
    BY <2>1 DEF Inv, IsSeq
  <2>5. Len(p) \in DOMAIN p
    BY <2>2, <2>4
  <2>6. OpenedIn(s, Last(p)) /\ Last(p).state \in States
    BY <2>3, <2>5 DEF Last
  <2>7. Sound(r) /\ Grows(s, r) /\ r.state \in States
    BY <2>2, <2>3, <2>6, InKeeps
  <2>8. q \in Seq(S) /\ \A k \in DOMAIN q : k \in DOMAIN p /\ q[k] = p[k]
    BY <2>2, <2>4 DEF Front
  <2>9. ASSUME NEW k \in DOMAIN q PROVE OpenedIn(r, q[k]) /\ q[k].state \in States
    <3>1. OpenedIn(s, q[k]) /\ q[k].state \in States
      BY <2>3, <2>8
    <3> QED
      BY <2>7, <3>1, GrownSpans
  <2>10. /\ want' \in Seq(Roles) /\ label' \in Label \cup {None} /\ input' \in Inputs /\ pc' # "undefined"
    BY <1>2 DEF EndInclude, Inv
  <2>11. IsSeq(q)
    BY <2>8 DEF IsSeq
  <2> QED
    BY <2>1, <2>7, <2>9, <2>10, <2>11 DEF Inv, Scans
<1> QED
  BY <1>1, <1>2

LEMMA FinishInv == ASSUME Inv, Finish, UNCHANGED input PROVE Inv' /\ Grows(sc, sc')
<1>1. sc' = sc /\ prior' = prior /\ want' = want /\ label' = label
  BY DEF Finish
<1>2. pc' = "undefined" => \E name \in Refs : ~Defined(sc, name)
  BY DEF Finish
<1>3. Refs' = Refs
  BY <1>1 DEF Refs
<1> QED
  BY <1>1, <1>2, <1>3 DEF Inv, Grows

LEMMA OtherInv ==
  ASSUME Inv, UNCHANGED <<input, sc, prior, want, label>>, pc' \in {"failed", pc}
  PROVE  Inv' /\ Grows(sc, sc')
<1>1. Refs' = Refs
  BY DEF Refs
<1> QED
  BY <1>1 DEF Inv, Grows

LEMMA StepInv == Inv /\ [Next]_vars => Inv' /\ Grows(sc, sc')
<1> SUFFICES ASSUME Inv, [Next]_vars PROVE Inv' /\ Grows(sc, sc')
  OBVIOUS
<1>0. Scans(sc) /\ want \in Seq(Roles) /\ label \in Label \cup {None}
  BY DEF Inv
<1>1. ASSUME Scanned, UNCHANGED <<input, prior>>, want' \in Seq(Roles), label' \in Label \cup {None}
      PROVE  Inv' /\ Grows(sc, sc')
  BY <1>1, ScannedInv DEF Scanned
<1>2. ASSUME Scanned, UNCHANGED <<prior, want, label>>, UNCHANGED input PROVE Inv' /\ Grows(sc, sc')
  BY <1>0, <1>1, <1>2
<1>3. ASSUME NEW r, Fine(sc, r) PROVE \A q \in {r} : Fine(sc, q)
  BY <1>3
<1>4. UNCHANGED input
  BY DEF Next, vars
<1>5. CASE EntryDirective
  <2>1. \A r \in EnterText(sc) : Fine(sc, r)
    BY <1>0, EnterTextFine
  <2>2. Directive("entry", {"text", "data"}) /\ Becomes(EnterText(sc)) /\ "entry" \in Roles
    BY <1>5 DEF EntryDirective, Roles
  <2>3. Scanned /\ want' \in Seq(Roles) /\ UNCHANGED <<prior, label>>
    BY <2>1, <2>2, DirectiveScans
  <2> QED
    BY <1>0, <1>1, <1>4, <2>3
<1>6. CASE SpanOpenDirective \/ InDirective \/ OutDirective
  <2>1. \A r \in {sc} : Fine(sc, r)
    BY <1>0, NothingChanged
  <2>2. PICK role \in Roles, S \in {{"text"}, {"data"}} : Directive(role, S) /\ Becomes({sc})
    BY <1>6 DEF SpanOpenDirective, InDirective, OutDirective, Roles
  <2>3. Scanned /\ want' \in Seq(Roles) /\ UNCHANGED <<prior, label>>
    BY <2>1, <2>2, DirectiveScans
  <2> QED
    BY <1>0, <1>1, <1>4, <2>3
<1>7. ASSUME NEW l \in Label, ReadLabel(l) PROVE Inv' /\ Grows(sc, sc')
  <2>1. \A r \in HandleLabel(sc, l) : Fine(sc, r)
    BY <1>0, StateOf
  <2>2. Becomes(HandleLabel(sc, l)) /\ pc = "scan"
    BY <1>7 DEF ReadLabel
  <2>3. Scanned
    BY <1>0, <2>1, <2>2, Became
  <2>4. UNCHANGED <<prior, want>> /\ label' \in Label \cup {None}
    BY <1>7 DEF ReadLabel
  <2> QED
    BY <1>0, <1>1, <1>4, <2>3, <2>4
<1>8. ASSUME NEW l \in Label, NEW tok \in {"call", "jump"}, ReadRef(tok, l) PROVE Inv' /\ Grows(sc, sc')
  <2>1. PICK r : r = StubLabel(AddProgRef(sc, tok, l), Lbl(l))
    OBVIOUS
  <2>2. Fine(sc, r)
    BY <1>0, <2>1, ReadRefFine
  <2>3. Takes(tok, {"text"}) /\ Becomes({r})
    BY <1>8, <2>1 DEF ReadRef
  <2> QED
    BY <1>2, <1>3, <1>4, <2>2, <2>3, TakesScans
<1>9. CASE Expected
  <2>1. Scanned /\ want' = Front(want) /\ label' \in {None, label} /\ prior' = prior
    BY <1>9, ExpectedScans
  <2>2. Front(want) \in Seq(Roles)
    BY <1>9, Wants DEF Expected
  <2> QED
    BY <1>0, <1>1, <1>4, <2>1, <2>2
<1>10. ASSUME NEW tok \in {"ret", "op", "word", "alloc"}, NEW S, Takes(tok, S), Becomes({AddProgTok(sc, tok, NoTarget)})
       PROVE  Inv' /\ Grows(sc, sc')
  <2>1. PICK r : r = AddProgTok(sc, tok, NoTarget)
    OBVIOUS
  <2>2. Fine(sc, r)
    BY <1>0, <2>1, AddProgTokFine
  <2>3. Takes(tok, S) /\ Becomes({r})
    BY <1>10, <2>1
  <2> QED
    BY <1>2, <1>3, <1>4, <2>2, <2>3, TakesScans
<1>11. CASE ReadOp("ret") \/ ReadOp("op") \/ ReadData("word") \/ ReadData("alloc")
  <2>1. CASE ReadOp("ret")
    BY <1>10, <2>1 DEF ReadOp
  <2>2. CASE ReadOp("op")
    BY <1>10, <2>2 DEF ReadOp
  <2>3. CASE ReadData("word")
    BY <1>10, <2>3 DEF ReadData
  <2>4. CASE ReadData("alloc")
    BY <1>10, <2>4 DEF ReadData
  <2> QED
    BY <1>11, <2>1, <2>2, <2>3, <2>4
<1>12. CASE SpanCloseDirective
  <2>1. PICK r : r = AddSpanClose(sc, "spanClose")
    OBVIOUS
  <2>2. Fine(sc, r)
    BY <1>0, <2>1, AddSpanCloseKeeps, FineIs DEF Scans, Sound
  <2>3. Takes("spanClose", {"text"}) /\ Becomes({r})
    BY <1>12, <2>1 DEF SpanCloseDirective
  <2> QED
    BY <1>2, <1>3, <1>4, <2>2, <2>3, TakesScans
<1>13. CASE DataDirective
  <2>1. PICK r : r = [sc EXCEPT !.state = "data"]
    OBVIOUS
  <2>2. Fine(sc, r)
    BY <1>0, <2>1, EnterData
  <2>3. Takes("data", {"text", "data"}) /\ Becomes({r})
    BY <1>13, <2>1 DEF DataDirective
  <2> QED
    BY <1>2, <1>3, <1>4, <2>2, <2>3, TakesScans
<1>14. CASE TextDirective
  <2>1. \A r \in EnterText(sc) : Fine(sc, r)
    BY <1>0, EnterTextFine
  <2>2. Takes("text", {"text", "data"}) /\ Becomes(EnterText(sc))
    BY <1>14 DEF TextDirective
  <2> QED
    BY <1>2, <1>4, <2>1, <2>2, TakesScans
<1>15. ASSUME NEW o \in Options, NEW arg \in Sizes, OptionDirective(o, arg) PROVE Inv' /\ Grows(sc, sc')
  <2>1. PICK r : r = SetOption(sc, o, arg)
    OBVIOUS
  <2>2. Fine(sc, r)
    BY <1>0, <2>1, SetOptionFine
  <2>3. Takes(o, {"text", "data"}) /\ Becomes({r})
    BY <1>15, <2>1 DEF OptionDirective
  <2> QED
    BY <1>2, <1>3, <1>4, <2>2, <2>3, TakesScans
<1>16. CASE Include
  BY <1>4, <1>16, IncludeInv
<1>17. CASE EndInclude
  BY <1>4, <1>17, EndIncludeInv
<1>18. CASE Finish
  BY <1>4, <1>18, FinishInv
<1>19. CASE Invalid \/ Ended \/ UNCHANGED vars
  BY <1>4, <1>19, OtherInv DEF Invalid, Ended, vars
<1>20. CASE \E l \in Label : ReadLabel(l) \/ ReadRef("call", l) \/ ReadRef("jump", l)
  <2>1. PICK l \in Label : ReadLabel(l) \/ ReadRef("call", l) \/ ReadRef("jump", l)
    BY <1>20
  <2> QED
    BY <1>7, <1>8, <2>1
<1>21. CASE \E opt \in Options, arg \in Sizes : OptionDirective(opt, arg)
  BY <1>15, <1>21
<1> QED
  BY <1>5, <1>6, <1>9, <1>11, <1>12, <1>13, <1>14, <1>16, <1>17, <1>18, <1>19, <1>20, <1>21 DEF Next

LEMMA Invariant == Spec => []Inv
<1>1. Init => Inv
  BY InitInv
<1>2. Inv /\ [Next]_vars => Inv'
  BY StepInv
<1> QED
  BY <1>1, <1>2, PTL DEF Spec

-----------------------------------------------------------------------------
(* Generated labels, where spans are closed by returns and all of the input is one *)

AtRet(s, n) == n \in DOMAIN s.labels /\ s.labels[n] \in DOMAIN s.prog /\ s.prog[s.labels[n]].tok = "ret"
IsClose(s, k) == k \in DOMAIN s.opts /\ s.opts[k].opt = "spanClose"

\* A span that is closed is one of the input's, by a label that is at a return.
Marked(s) ==
  \A k : IsClose(s, k) => /\ AtRet(s, s.opts[k].targ)
                          /\ s.opts[k].targ[2] \in s.opens \cup {"unknown"}
OpenKnown(s) == \A k \in DOMAIN s.open : s.open[k] \in s.opens
Solo(s) == Marked(s) /\ OpenKnown(s)

Typed(s) == Shaped(s) /\ s.opts \in Seq(OptTok) /\ s.prog \in Seq(Tok)

\* No other close, no other place of a generated label, and no token less.
NoClose(s, r) ==
  \A k : IsClose(r, k) => \E j : IsClose(s, j) /\ s.opts[j].targ = r.opts[k].targ
SameMarks(s, r) == \A n \in RetName : n \in DOMAIN s.labels => n \in DOMAIN r.labels /\ r.labels[n] = s.labels[n]
Longer(s, r) == \A p \in DOMAIN s.prog : p \in DOMAIN r.prog /\ r.prog[p].tok = s.prog[p].tok
SameOpen(s, r) == r.open = s.open /\ r.opens = s.opens
Aside(s, r) == Typed(r) /\ NoClose(s, r) /\ SameMarks(s, r) /\ Longer(s, r) /\ SameOpen(s, r)

LEMMA AsideOn ==
  ASSUME NEW a, NEW b, NEW c, Aside(a, b), Aside(b, c)
  PROVE  Aside(a, c)
<1>1. NoClose(a, c)
  BY DEF Aside, NoClose
<1>2. SameMarks(a, c)
  BY DEF Aside, SameMarks
<1>3. Longer(a, c)
  BY DEF Aside, Longer
<1> QED
  BY <1>1, <1>2, <1>3 DEF Aside, SameOpen

LEMMA AsideSolo ==
  ASSUME NEW s, NEW r, Closed(s), Solo(s), Aside(s, r)
  PROVE  Solo(r)
<1>1. ASSUME NEW k, IsClose(r, k)
      PROVE  AtRet(r, r.opts[k].targ) /\ r.opts[k].targ[2] \in r.opens \cup {"unknown"}
  <2>1. PICK j : IsClose(s, j) /\ s.opts[j].targ = r.opts[k].targ
    BY <1>1 DEF Aside, NoClose
  <2>2. PICK n : n = r.opts[k].targ
    OBVIOUS
  <2>3. n \in RetName
    BY <2>1, <2>2 DEF Closed, IsClose
  <2>4. AtRet(s, n) /\ n[2] \in s.opens \cup {"unknown"}
    BY <2>1, <2>2 DEF Solo, Marked
  <2>5. AtRet(r, n)
    BY <2>3, <2>4 DEF Aside, SameMarks, Longer, AtRet
  <2> QED
    BY <2>2, <2>4, <2>5 DEF Aside, SameOpen
<1>2. OpenKnown(r)
  BY DEF Solo, OpenKnown, Aside, SameOpen
<1> QED
  BY <1>1, <1>2 DEF Solo, Marked

LEMMA OptAside ==
  ASSUME NEW s, Typed(s), NEW o \in OptTok, o.opt # "spanClose", NEW r, Shaped(r), r.opts = Append(s.opts, o),
         r.labels = s.labels, r.prog = s.prog, SameOpen(s, r)
  PROVE  Aside(s, r)
<1>1. PICK n \in Nat : n = Len(s.opts)
  BY DEF Typed
<1>2. /\ r.opts \in Seq(OptTok) /\ DOMAIN s.opts = 1 .. n /\ DOMAIN r.opts = 1 .. n + 1
      /\ r.opts[n + 1] = o /\ \A k \in 1 .. n : r.opts[k] = s.opts[k]
  BY <1>1, Appended DEF Typed
<1>3. NoClose(s, r)
  BY <1>2 DEF NoClose, IsClose
<1> QED
  BY <1>2, <1>3 DEF Aside, Typed, SameMarks, Longer

LEMMA LabelAside ==
  ASSUME NEW s, Typed(s), NEW name, name \notin RetName, NEW at, NEW r, Shaped(r),
         r.labels = With(s.labels, name, at), r.opts = s.opts, r.prog = s.prog, SameOpen(s, r)
  PROVE  Aside(s, r)
<1>1. SameMarks(s, r)
  BY DEF SameMarks, With
<1>2. NoClose(s, r)
  BY DEF NoClose, IsClose
<1> QED
  BY <1>1, <1>2 DEF Aside, Typed, Longer

LEMMA TokAside ==
  ASSUME NEW s, Typed(s), NEW t \in Tok, NEW r, Shaped(r), r.prog = Append(s.prog, t),
         r.labels = s.labels, r.opts = s.opts, SameOpen(s, r)
  PROVE  Aside(s, r)
<1>1. PICK n \in Nat : n = Len(s.prog)
  BY DEF Typed
<1>2. /\ r.prog \in Seq(Tok) /\ DOMAIN s.prog = 1 .. n /\ DOMAIN r.prog = 1 .. n + 1
      /\ r.prog[n + 1] = t /\ \A k \in 1 .. n : r.prog[k] = s.prog[k]
  BY <1>1, Appended DEF Typed
<1>3. Longer(s, r)
  BY <1>2 DEF Longer
<1>4. NoClose(s, r)
  BY DEF NoClose, IsClose
<1> QED
  BY <1>2, <1>3, <1>4 DEF Aside, Typed, SameMarks

LEMMA SameAside ==
  ASSUME NEW s, Typed(s), NEW r, Shaped(r), r.opts = s.opts, r.labels = s.labels, r.prog = s.prog, SameOpen(s, r)
  PROVE  Aside(s, r)
<1>1. NoClose(s, r)
  BY DEF NoClose, IsClose
<1> QED
  BY <1>1 DEF Aside, Typed, SameMarks, Longer

LEMMA AddRefOptAside ==
  ASSUME NEW s, Typed(s), NEW opt \in {"spanOpen", "input", "output", "name", "entry"}, NEW targ \in Name,
         NEW r, r = AddRefOpt(s, opt, targ)
  PROVE  Aside(s, r)
<1>1. PICK o : o = [opt |-> opt, targ |-> targ, arg |-> 0]
  OBVIOUS
<1>2. opt \in OptKind /\ opt # "spanClose"
  BY DEF OptKind
<1>3. o \in OptTok /\ o.opt # "spanClose"
  BY <1>1, <1>2 DEF OptTok
<1>4. /\ Shaped(r) /\ SameSpans(r, s) /\ r.opts = Append(s.opts, o) /\ r.prog = s.prog /\ r.labels = s.labels
  BY <1>1, AddRefOptIs DEF Typed
<1> QED
  BY <1>3, <1>4, OptAside DEF SameOpen, SameSpans

LEMMA AddLabelAside ==
  ASSUME NEW s, Typed(s), NEW name, name \notin RetName, NEW r, r = AddLabel(s, name)
  PROVE  Aside(s, r)
<1>1. PICK at : at = Len(s.prog) + 1
  OBVIOUS
<1>2. /\ Shaped(r) /\ SameSpans(r, s) /\ r.labels = With(s.labels, name, at) /\ r.opts = s.opts /\ r.prog = s.prog
  BY <1>1, AddLabelIs DEF Typed
<1> QED
  BY <1>2, LabelAside DEF SameOpen, SameSpans

LEMMA OtherNames ==
  ASSUME NEW l
  PROVE  Lbl(l) \notin RetName /\ <<"end", l>> \notin RetName /\ <<"name", l>> \notin RetName
         /\ <<"entry", "">> \notin RetName
BY NamesApart

LEMMA StubLabelAside ==
  ASSUME NEW s, Typed(s), NEW l, NEW r, r = StubLabel(s, Lbl(l))
  PROVE  Aside(s, r)
<1>1. /\ Shaped(r) /\ SameSpans(r, s) /\ r.opts = s.opts /\ r.prog = s.prog
      /\ r.labels = IF Lbl(l) \in DOMAIN s.labels THEN s.labels ELSE With(s.labels, Lbl(l), Undefined)
  BY StubLabelIs DEF Typed
<1>2. SameOpen(s, r)
  BY <1>1 DEF SameOpen, SameSpans
<1>3. CASE Lbl(l) \in DOMAIN s.labels
  BY <1>1, <1>2, <1>3, SameAside
<1>4. CASE Lbl(l) \notin DOMAIN s.labels
  BY <1>1, <1>2, <1>4, OtherNames, LabelAside
<1> QED
  BY <1>3, <1>4

LEMMA AddAddrLabelAside ==
  ASSUME NEW s, Typed(s), NEW name, NEW r, r = AddAddrLabel(s, name)
  PROVE  Aside(s, r)
<1>1. /\ Shaped(r) /\ SameSpans(r, s) /\ r.labels = s.labels /\ r.prog = s.prog /\ r.opts = s.opts
  BY AddAddrLabelIs DEF Typed
<1> QED
  BY <1>1, SameAside DEF SameOpen, SameSpans

LEMMA AddTokAside ==
  ASSUME NEW s, Typed(s), NEW tok \in TokKind, NEW targ \in Name, NEW r, r = AddTok(s, tok, targ)
  PROVE  Aside(s, r)
<1>1. PICK t : t = [tok |-> tok, targ |-> targ]
  OBVIOUS
<1>2. t \in Tok
  BY <1>1 DEF Tok
<1>3. /\ Shaped(r) /\ SameSpans(r, s) /\ r.prog = Append(s.prog, t) /\ r.labels = s.labels /\ r.opts = s.opts
  BY <1>1, AddTokIs DEF Typed
<1> QED
  BY <1>2, <1>3, TokAside DEF SameOpen, SameSpans

LEMMA RegionAside ==
  ASSUME NEW s, Typed(s), NEW opt \in {"input", "output"}, NEW l \in Label, NEW r \in Region(s, opt, l)
  PROVE  Aside(s, r)
<1>1. PICK end, name : end = <<"end", l>> /\ name = <<"name", l>>
  OBVIOUS
<1>2. end \in Name /\ name \in Name /\ Lbl(l) \in Name /\ end \notin RetName /\ name \notin RetName
  BY <1>1, LblIsName, OtherNames
<1>3. PICK a : a = AddLabel(s, end)
  OBVIOUS
<1>4. PICK b : b = AddRefOpt(a, opt, Lbl(l))
  OBVIOUS
<1>5. PICK c : c = AddRefOpt(b, opt, end)
  OBVIOUS
<1>6. PICK d : d = AddRefOpt(c, "name", name)
  OBVIOUS
<1>7. PICK e : e = AddLabel(d, name)
  OBVIOUS
<1>8. r = AddTok(e, "string", Lbl(l))
  BY <1>1, <1>3, <1>4, <1>5, <1>6, <1>7 DEF Region, AddProgTok
<1>9. Aside(s, a) /\ Typed(a)
  BY <1>2, <1>3, AddLabelAside DEF Aside
<1>10. opt \in {"spanOpen", "input", "output", "name", "entry"}
  OBVIOUS
<1>11. Aside(a, b) /\ Typed(b)
  BY <1>2, <1>4, <1>9, <1>10, AddRefOptAside DEF Aside
<1>12. Aside(b, c) /\ Typed(c)
  BY <1>2, <1>5, <1>10, <1>11, AddRefOptAside DEF Aside
<1>13. Aside(c, d) /\ Typed(d)
  BY <1>2, <1>6, <1>12, AddRefOptAside DEF Aside
<1>14. Aside(d, e) /\ Typed(e)
  BY <1>2, <1>7, <1>13, AddLabelAside DEF Aside
<1>15. Aside(e, r)
  <2>1. "string" \in TokKind
    BY DEF TokKind
  <2> QED
    BY <1>2, <1>8, <1>14, <2>1, AddTokAside
<1>16. Aside(s, c)
  BY <1>9, <1>11, <1>12, AsideOn
<1>17. Aside(s, e)
  BY <1>13, <1>14, <1>16, AsideOn
<1> QED
  BY <1>15, <1>17, AsideOn

LEMMA FinishInAside ==
  ASSUME NEW s, Typed(s), Pends(s), NEW r \in FinishIn(s)
  PROVE  Aside(s, r)
<1>1. CASE s.pendIn = None
  BY <1>1, SameAside DEF FinishIn, Typed, SameOpen
<1>2. CASE s.pendIn # None
  <2>1. PICK t \in Region(s, "input", s.pendIn) : r = [t EXCEPT !.pendIn = None]
    BY <1>2 DEF FinishIn
  <2>2. s.pendIn \in Label
    BY <1>2 DEF Pends
  <2>3. Aside(s, t)
    BY <2>2, RegionAside
  <2>4. Typed(t)
    BY <2>3 DEF Aside
  <2>5. /\ Shaped(r) /\ r.opts = t.opts /\ r.prog = t.prog /\ r.labels = t.labels /\ r.open = t.open /\ r.opens = t.opens
    BY <2>1, <2>4 DEF Typed, Shaped, Fields
  <2>6. Aside(t, r)
    BY <2>4, <2>5, SameAside DEF SameOpen
  <2> QED
    BY <2>3, <2>6, AsideOn
<1> QED
  BY <1>1, <1>2

LEMMA FinishOutAside ==
  ASSUME NEW s, Typed(s), Pends(s), NEW r \in FinishOut(s)
  PROVE  Aside(s, r)
<1>1. CASE s.pendOut = None
  BY <1>1, SameAside DEF FinishOut, Typed, SameOpen
<1>2. CASE s.pendOut # None
  <2>1. PICK t \in Region(s, "output", s.pendOut) : r = [t EXCEPT !.pendOut = None]
    BY <1>2 DEF FinishOut
  <2>2. s.pendOut \in Label
    BY <1>2 DEF Pends
  <2>3. Aside(s, t)
    BY <2>2, RegionAside
  <2>4. Typed(t)
    BY <2>3 DEF Aside
  <2>5. /\ Shaped(r) /\ r.opts = t.opts /\ r.prog = t.prog /\ r.labels = t.labels /\ r.open = t.open /\ r.opens = t.opens
    BY <2>1, <2>4 DEF Typed, Shaped, Fields
  <2>6. Aside(t, r)
    BY <2>4, <2>5, SameAside DEF SameOpen
  <2> QED
    BY <2>3, <2>6, AsideOn
<1> QED
  BY <1>1, <1>2

LEMMA SoundTyped ==
  ASSUME NEW s, Sound(s)
  PROVE  Typed(s) /\ Pends(s) /\ Kept(s) /\ s.open \in Seq(Label)
BY DEF Sound, Kept, Core, CoreType, Typed, OpenedIn

LEMMA EnterTextAside ==
  ASSUME NEW s, Sound(s), s.state \in States, NEW r \in EnterText(s)
  PROVE  Aside(s, r)
<1>0. Typed(s) /\ Pends(s)
  BY SoundTyped
<1>1. PICK t : t = [s EXCEPT !.state = "text"]
  OBVIOUS
<1>2. Shaped(t) /\ t.opts = s.opts /\ t.prog = s.prog /\ t.labels = s.labels /\ t.open = s.open /\ t.opens = s.opens
      /\ t.pendIn = s.pendIn /\ t.pendOut = s.pendOut
  BY <1>0, <1>1 DEF Typed, Shaped, Fields
<1>3. Aside(s, t) /\ Pends(t) /\ Typed(t)
  BY <1>0, <1>2, SameAside DEF Pends, SameOpen, Aside
<1>4. CASE s.state = "text"
  <2>1. r = s
    BY <1>4 DEF EnterText
  <2> QED
    BY <1>0, <2>1, SameAside DEF Typed, SameOpen
<1>5. CASE s.state = "data" /\ s.pendIn # None
  <2>1. r \in FinishIn(t)
    BY <1>1, <1>5 DEF EnterText
  <2> QED
    BY <1>3, <2>1, FinishInAside, AsideOn
<1>6. CASE s.state = "data" /\ s.pendIn = None
  <2>1. r \in FinishOut(t)
    BY <1>1, <1>6 DEF EnterText
  <2> QED
    BY <1>3, <2>1, FinishOutAside, AsideOn
<1> QED
  BY <1>4, <1>5, <1>6 DEF States

LEMMA HandleLabelSolo ==
  ASSUME NEW s, Sound(s), Solo(s), NEW l \in Label, NEW r \in HandleLabel(s, l)
  PROVE  Solo(r)
<1>1. PICK a, b, c :
        /\ a \in FinishIn(s) /\ b \in FinishOut(a)
        /\ c = IF l \in b.opens THEN [b EXCEPT !.open = Append(@, l), !.seen.n = 0] ELSE Push(b, l)
        /\ r = AddLabel(AddAddrLabel(c, Lbl(l)), Lbl(l))
  BY DEF HandleLabel
<1>2. Sound(a) /\ Aside(s, a)
  BY <1>1, FinishInKeeps, FinishInAside, SoundTyped
<1>3. Sound(b) /\ Aside(a, b)
  BY <1>1, <1>2, FinishOutKeeps, FinishOutAside, SoundTyped
<1>4. Solo(b)
  BY <1>2, <1>3, AsideSolo, AsideOn DEF Sound, Kept, Core
<1>5. Typed(b) /\ b.open \in Seq(Label) /\ Shaped(b) /\ Closed(b)
  BY <1>3, SoundTyped DEF Typed, Kept, Core
<1>6. Solo(c) /\ Typed(c) /\ Closed(c)
  <2>1. CASE l \in b.opens
    <3>1. c = [b EXCEPT !.open = Append(@, l), !.seen.n = 0]
      BY <1>1, <2>1
    <3>2. /\ Shaped(c) /\ c.open = Append(b.open, l) /\ c.opens = b.opens
          /\ c.opts = b.opts /\ c.prog = b.prog /\ c.labels = b.labels
      BY <1>5, <3>1 DEF Shaped, Fields
    <3>3. /\ DOMAIN b.open = 1 .. Len(b.open) /\ DOMAIN c.open = 1 .. Len(b.open) + 1
          /\ c.open[Len(b.open) + 1] = l /\ \A k \in DOMAIN b.open : c.open[k] = b.open[k]
      BY <1>5, <3>2, Appended
    <3>4. OpenKnown(c)
      BY <1>4, <1>5, <2>1, <3>2, <3>3 DEF Solo, OpenKnown
    <3>5. Marked(c)
      BY <1>4, <3>2 DEF Solo, Marked, IsClose, AtRet
    <3>6. Closed(c)
      BY <1>5, <3>2 DEF Closed, WasOpened
    <3> QED
      BY <1>5, <3>2, <3>4, <3>5, <3>6 DEF Solo, Typed
  <2>2. CASE l \notin b.opens
    <3>1. c = Push(b, l)
      BY <1>1, <2>2
    <3>2. /\ Shaped(c) /\ c.open = b.open /\ c.opens = b.opens
          /\ c.opts = b.opts /\ c.prog = b.prog /\ c.labels = b.labels
      BY <1>5, <3>1, PushIs
    <3>3. Aside(b, c)
      BY <1>5, <3>2, SameAside DEF SameOpen
    <3>4. Closed(c)
      BY <1>5, <3>2 DEF Closed, WasOpened
    <3> QED
      BY <1>4, <1>5, <3>3, <3>4, AsideSolo DEF Aside
  <2> QED
    BY <2>1, <2>2
<1>7. PICK d : d = AddAddrLabel(c, Lbl(l))
  OBVIOUS
<1>8. Aside(c, d) /\ Typed(d)
  BY <1>6, <1>7, AddAddrLabelAside DEF Aside
<1>9. Aside(d, r)
  <2>1. r = AddLabel(d, Lbl(l))
    BY <1>1, <1>7
  <2> QED
    BY <1>8, <2>1, OtherNames, AddLabelAside
<1> QED
  BY <1>6, <1>8, <1>9, AsideOn, AsideSolo

LEMMA EntryAside ==
  ASSUME NEW s, Typed(s), NEW l \in Label, NEW r \in Entry(s, l)
  PROVE  Aside(s, r)
<1>1. PICK a : a = AddLabel(s, <<"entry", "">>)
  OBVIOUS
<1>2. r = AddRefOpt(a, "entry", Lbl(l))
  BY <1>1 DEF Entry, EntryAgain
<1>3. Aside(s, a) /\ Typed(a)
  BY <1>1, OtherNames, AddLabelAside DEF Aside
<1>4. Aside(a, r)
  BY <1>2, <1>3, LblIsName, AddRefOptAside
<1> QED
  BY <1>3, <1>4, AsideOn

\* A return that is renamed for a span that was not open: nothing refers to the new name yet.
LEMMA RenamedSolo ==
  ASSUME NEW t, Kept(t), Solo(t), NEW l \in Label, l \in t.opens, NEW new, new = <<"ret", l>>,
         \A k : IsClose(t, k) => t.opts[k].targ # new,
         WasOpened(t, l), NEW old \in RetName,
         NEW h, h = RenameLabel(GenProgLabel(t, new), old, new)
  PROVE  Solo(h) /\ SameOpen(t, h)
<1>1. new \in RetName /\ new \in Name /\ new[2] = l
  BY DEF RetName, Name
<1>2. PICK g : g = GenProgLabel(t, new)
  OBVIOUS
<1>3. Kept(g) /\ Grows(t, g) /\ SameSpans(g, t) /\ Defined(g, new) /\ g.opts = t.opts /\ g.prog = t.prog
  BY <1>1, <1>2, GenProgLabelKeeps
<1>4. g.labels = With(t.labels, new, Len(t.prog) + 1)
  BY <1>2, GenProgLabelIs DEF Kept, Core, CoreType
<1>5. Renames(g, old, new)
  BY <1>3 DEF Renames, Grows
<1>6. RenamedAs(g, h, old, new) /\ SameSpans(h, g)
  BY <1>1, <1>2, <1>3, <1>5, LabelRenamed DEF Kept
<1>7. SameOpen(t, h)
  BY <1>3, <1>6 DEF SameOpen, SameSpans
<1>8. ASSUME NEW k, IsClose(h, k)
      PROVE  AtRet(h, h.opts[k].targ) /\ h.opts[k].targ[2] \in h.opens \cup {"unknown"}
  <2>1. PICK n, m : n = t.opts[k].targ /\ m = h.opts[k].targ
    OBVIOUS
  <2>2. IsClose(t, k) /\ m = Renamed(n, old, new)
    BY <1>3, <1>6, <1>8, <2>1 DEF IsClose, RenamedAs
  <2>3. AtRet(t, n) /\ n[2] \in t.opens \cup {"unknown"}
    BY <2>1, <2>2 DEF Solo, Marked
  <2>4. n # new
    BY <2>1, <2>2
  <2>5. PICK x : x = t.labels[n]
    OBVIOUS
  <2>6. n \in DOMAIN t.labels /\ x \in DOMAIN t.prog /\ t.prog[x].tok = "ret"
    BY <2>3, <2>5 DEF AtRet
  <2>7. n \in DOMAIN g.labels /\ g.labels[n] = x
    BY <1>4, <2>4, <2>5, <2>6 DEF With
  <2>8. x \in DOMAIN h.prog /\ h.prog[x].tok = "ret"
    BY <1>3, <1>6, <2>6 DEF RenamedAs
  <2>9. m \in DOMAIN h.labels /\ h.labels[m] = x
    <3>1. h.labels = LabelsRenamed(g.labels, old, new)
      BY <1>6 DEF RenamedAs
    <3>2. CASE n = old
      <4>1. m = new /\ old \in DOMAIN g.labels
        BY <2>2, <2>7, <3>2 DEF Renamed
      <4> QED
        BY <2>7, <3>1, <3>2, <4>1 DEF LabelsRenamed, With
    <3>3. CASE n # old
      <4>1. m = n
        BY <2>2, <3>3 DEF Renamed
      <4> QED
        BY <2>4, <2>7, <3>1, <3>3, <4>1 DEF LabelsRenamed, With
    <3> QED
      BY <3>2, <3>3
  <2>10. m[2] \in h.opens \cup {"unknown"}
    <3>1. h.opens = t.opens
      BY <1>7 DEF SameOpen
    <3>2. m = n \/ m = new
      BY <2>2 DEF Renamed
    <3> QED
      BY <1>1, <2>3, <3>1, <3>2
  <2> QED
    BY <2>1, <2>8, <2>9, <2>10 DEF AtRet
<1>9. OpenKnown(h)
  BY <1>7 DEF Solo, OpenKnown, SameOpen
<1> QED
  BY <1>7, <1>8, <1>9 DEF Solo, Marked

LEMMA AddSpanOpenSolo ==
  ASSUME NEW s, Kept(s), Solo(s), NEW l \in Label, NEW r, r = AddSpanOpen(s, l)
  PROVE  Solo(r) /\ l \in r.opens
<1>1. CASE l \in s.opens
  BY <1>1 DEF AddSpanOpen
<1>2. CASE l \notin s.opens
  <2>1. PICK s1 : s1 = [s EXCEPT !.opens = @ \cup {l}]
    OBVIOUS
  <2>2. Shaped(s) /\ Typed(s)
    BY DEF Kept, Core, CoreType, Typed
  <2>3. /\ Shaped(s1) /\ s1.urs = s.urs /\ s1.unkRets = s.unkRets /\ SamePending(s1, s)
        /\ s1.open = s.open /\ s1.opens = s.opens \cup {l}
        /\ s1.opts = s.opts /\ s1.adls = s.adls /\ s1.prog = s.prog /\ s1.labels = s.labels /\ s1.ptrs = s.ptrs
    BY <2>1, <2>2 DEF Shaped, Fields, SamePending
  <2>4. Core(s1) /\ \A x : WasOpened(s, x) <=> WasOpened(s1, x)
    BY <2>3, SameCore DEF Kept
  <2>5. PICK new : new = <<"ret", l>>
    OBVIOUS
  <2>6. \A k : IsClose(s, k) => s.opts[k].targ # new
    <3>1. new[2] = l /\ l # "unknown"
      BY <2>5, LabelAssumption
    <3> QED
      BY <1>2, <3>1 DEF Solo, Marked
  <2>7. Solo(s1) /\ Typed(s1) /\ Closed(s1)
    <3>1. Marked(s1)
      BY <2>3 DEF Solo, Marked, IsClose, AtRet
    <3>2. OpenKnown(s1)
      BY <2>3 DEF Solo, OpenKnown
    <3> QED
      BY <2>2, <2>3, <2>4, <3>1, <3>2 DEF Solo, Typed, Core
  <2>8. PICK t : t = AddRefOpt(s1, "spanOpen", Lbl(l))
    OBVIOUS
  <2>9. Aside(s1, t) /\ Typed(t)
    BY <2>7, <2>8, LblIsName, AddRefOptAside DEF Aside
  <2>10. Solo(t) /\ l \in t.opens
    BY <2>3, <2>7, <2>9, AsideSolo DEF Aside, SameOpen
  <2>11. \A k : IsClose(t, k) => t.opts[k].targ # new
    <3> SUFFICES ASSUME NEW k, IsClose(t, k) PROVE t.opts[k].targ # new
      OBVIOUS
    <3>1. PICK j : IsClose(s1, j) /\ s1.opts[j].targ = t.opts[k].targ
      BY <2>9 DEF Aside, NoClose
    <3> QED
      BY <2>3, <2>6, <3>1 DEF IsClose
  <2>12. CASE l \notin DOMAIN s.unkRets
    <3>1. r = t
      BY <1>2, <2>1, <2>8, <2>12 DEF AddSpanOpen
    <3> QED
      BY <2>10, <3>1
  <2>13. CASE l \in DOMAIN s.unkRets
    <3>1. PICK u : u = s.unkRets[l]
      OBVIOUS
    <3>2. PICK k : k = LastIndex(s, s.urs[u].seen, l)
      OBVIOUS
    <3>3. r = IF k <= s.urs[u].cur THEN t
              ELSE [RenameLabel(GenProgLabel(t, new), s.urs[u].label, new) EXCEPT
                      !.urs[u] = [label |-> new, cur |-> k, seen |-> @.seen]]
      BY <1>2, <2>1, <2>5, <2>8, <2>13, <3>1, <3>2 DEF AddSpanOpen
    <3>4. CASE k <= s.urs[u].cur
      BY <2>10, <3>3, <3>4
    <3>5. CASE ~(k <= s.urs[u].cur)
      <4>1. PICK old : old = s.urs[u].label
        OBVIOUS
      <4>2. old \in RetName
        BY <2>13, <3>1, <4>1 DEF Kept, Returns
      <4>3. PICK h : h = RenameLabel(GenProgLabel(t, new), old, new)
        OBVIOUS
      <4>4. Kept(t) /\ WasOpened(t, l)
        <5>1. PICK o : o = [opt |-> "spanOpen", targ |-> Lbl(l), arg |-> 0]
          OBVIOUS
        <5>2. /\ Shaped(t) /\ SameSpans(t, s1) /\ SamePending(t, s1) /\ t.opts = Append(s1.opts, o)
              /\ t.adls = s1.adls /\ t.prog = s1.prog /\ t.labels = s1.labels /\ t.ptrs = s1.ptrs
          BY <2>3, <2>8, <5>1, AddRefOptIs
        <5>3. "spanOpen" \in OptKind /\ "spanOpen" \notin Options \cup {"entry"}
          BY DEF OptKind, Options
        <5>4. o \in OptTok /\ o.opt = "spanOpen" /\ o.targ = Lbl(l) /\ o.opt \notin Options \cup {"entry"}
          BY <5>1, <5>3, LblIsName DEF OptTok
        <5>5. Found(s1, o.targ) /\ o.opt # "spanClose"
          BY <5>4, LblIsName
        <5>6. Core(t) /\ \A x : WasOpened(t, x) <=> WasOpened(s1, x) \/ (o.opt = "spanOpen" /\ o.targ = Lbl(x))
          BY <2>4, <5>2, <5>4, <5>5, OptAdded
        <5>7. Grows(s, t) /\ WasOpened(t, l)
          BY <2>4, <5>4, <5>6 DEF Grows
        <5>8. t.urs = s.urs /\ t.unkRets = s.unkRets /\ t.open = s.open /\ t.opens = s.opens \cup {l}
          BY <2>3, <5>2 DEF SameSpans
        <5>9. OpenedIn(t, s)
          BY <5>7, GrownSpans DEF Kept
        <5>10. OpenedIn(t, t)
          BY <5>7, <5>8, <5>9 DEF OpenedIn
        <5> QED
          BY <5>6, <5>7, <5>8, <5>10, SpansChange
      <4>5. Solo(h) /\ SameOpen(t, h)
        BY <2>5, <2>10, <2>11, <4>2, <4>3, <4>4, RenamedSolo
      <4>6. PICK e : e = [label |-> new, cur |-> k, seen |-> h.urs[u].seen]
        OBVIOUS
      <4>7. r = [h EXCEPT !.urs[u] = e]
        BY <3>3, <3>5, <4>1, <4>3, <4>6
      <4>8. PICK g : g = GenProgLabel(t, new)
        OBVIOUS
      <4>9. Shaped(h)
        <5>1. Shaped(t)
          BY <2>9 DEF Typed
        <5> QED
          BY <4>3, <4>8, <5>1, GenProgLabelIs, RenameLabelIs
      <4>10. r.open = h.open /\ r.opens = h.opens /\ r.opts = h.opts /\ r.prog = h.prog /\ r.labels = h.labels
        BY <4>7, <4>9 DEF Shaped, Fields
      <4>11. Marked(r) /\ OpenKnown(r)
        BY <4>5, <4>10 DEF Solo, Marked, OpenKnown, IsClose, AtRet
      <4> QED
        BY <2>10, <4>5, <4>10, <4>11 DEF Solo, SameOpen
    <3> QED
      BY <3>4, <3>5
  <2> QED
    BY <2>12, <2>13
<1> QED
  BY <1>1, <1>2

\* addSpanClose(): nothing, or a label and an option that refers to it.
ClosesAs(s, r, name) ==
  /\ r.opts = Append(s.opts, [opt |-> "spanClose", targ |-> name, arg |-> 0])
  /\ r.labels = With(s.labels, name, Len(s.prog) + 1)
  /\ r.prog = s.prog /\ r.opens = s.opens
  /\ \A k \in DOMAIN r.open : \E j \in DOMAIN s.open : r.open[k] = s.open[j]

LEMMA ClosedAs ==
  ASSUME NEW s, Typed(s), NEW name, NEW r, r = AddRefOpt(GenProgLabel(s, name), "spanClose", name)
  PROVE  ClosesAs(s, r, name) /\ Shaped(r) /\ r.open = s.open
<1>1. PICK g : g = GenProgLabel(s, name)
  OBVIOUS
<1>2. /\ Shaped(g) /\ SameSpans(g, s) /\ g.labels = With(s.labels, name, Len(s.prog) + 1)
      /\ g.prog = s.prog /\ g.opts = s.opts
  BY <1>1, GenProgLabelIs DEF Typed
<1>3. PICK o : o = [opt |-> "spanClose", targ |-> name, arg |-> 0]
  OBVIOUS
<1>4. /\ Shaped(r) /\ SameSpans(r, g) /\ r.opts = Append(g.opts, o) /\ r.prog = g.prog /\ r.labels = g.labels
  BY <1>1, <1>2, <1>3, AddRefOptIs
<1> QED
  BY <1>2, <1>3, <1>4 DEF ClosesAs, SameSpans

LEMMA AddSpanCloseIs ==
  ASSUME NEW s, Kept(s), Solo(s), NEW r, r = AddSpanClose(s, "ret")
  PROVE  \/ r = s
         \/ \E name \in RetName : Typed(r) /\ ClosesAs(s, r, name) /\ name[2] \in s.opens \cup {"unknown"}
<1>0. s.open \in Seq(Label) /\ Typed(s) /\ s.opens \subseteq Label
  BY DEF Kept, OpenedIn, Core, CoreType, Typed
<1>1. ASSUME NEW name \in RetName, NEW h, ClosesAs(s, h, name), Shaped(h)
      PROVE  Typed(h)
  <2>1. PICK o : o = [opt |-> "spanClose", targ |-> name, arg |-> 0]
    OBVIOUS
  <2>2. o \in OptTok
    <3>1. "spanClose" \in OptKind
      BY DEF OptKind
    <3> QED
      BY <2>1, <3>1, NamesApart DEF OptTok
  <2>3. h.opts \in Seq(OptTok)
    <3>1. s.opts \in Seq(OptTok) /\ h.opts = Append(s.opts, o)
      BY <1>0, <1>1, <2>1 DEF Typed, ClosesAs
    <3> QED
      BY <2>2, <3>1
  <2> QED
    BY <1>0, <1>1, <2>3 DEF Typed, ClosesAs
<1>2. CASE s.open # <<>>
  <2>1. PICK l : l = Last(s.open)
    OBVIOUS
  <2>2. l \in s.opens /\ l \in Label
    <3>1. Len(s.open) \in DOMAIN s.open /\ l = s.open[Len(s.open)]
      BY <1>0, <1>2, <2>1 DEF Last
    <3> QED
      BY <1>0, <3>1 DEF Solo, OpenKnown
  <2>3. PICK name : name = <<"ret", l>>
    OBVIOUS
  <2>4. name \in RetName /\ name[2] = l
    BY <2>2, <2>3 DEF RetName
  <2>5. PICK h : h = AddRefOpt(GenProgLabel(s, name), "spanClose", name)
    OBVIOUS
  <2>6. ClosesAs(s, h, name) /\ Shaped(h) /\ h.open = s.open
    BY <1>0, <2>5, ClosedAs
  <2>7. r = [h EXCEPT !.open = Front(@)]
    BY <1>2, <2>1, <2>3, <2>5 DEF AddSpanClose
  <2>8. Shaped(r) /\ r.open = Front(s.open) /\ r.opens = h.opens /\ r.opts = h.opts /\ r.prog = h.prog
        /\ r.labels = h.labels
    BY <2>6, <2>7 DEF Shaped, Fields
  <2>9. \A k \in DOMAIN r.open : \E j \in DOMAIN s.open : r.open[k] = s.open[j]
    BY <1>0, <1>2, <2>8 DEF Front
  <2>10. ClosesAs(s, r, name)
    BY <2>6, <2>8, <2>9 DEF ClosesAs
  <2> QED
    BY <1>1, <2>2, <2>4, <2>8, <2>10
<1>3. CASE s.open = <<>> /\ s.seen.n > 0
  <2>1. PICK name : name = <<"ret", "unknown">>
    OBVIOUS
  <2>2. name \in RetName /\ name[2] = "unknown"
    BY <2>1 DEF RetName
  <2>3. PICK h : h = AddRefOpt(GenProgLabel(s, name), "spanClose", name)
    OBVIOUS
  <2>4. ClosesAs(s, h, name) /\ Shaped(h) /\ h.open = s.open
    BY <1>0, <2>3, ClosedAs
  <2>5. PICK e, E, n : e = [label |-> name, cur |-> 0, seen |-> s.seen] /\ E = Elements(s, s.seen)
                       /\ n = Len(s.urs) + 1
    OBVIOUS
  <2>6. r = [h EXCEPT !.urs = Append(@, e), !.unkRets = [l \in E \cup DOMAIN @ |-> IF l \in E THEN n ELSE @[l]]]
    BY <1>3, <2>1, <2>3, <2>5 DEF AddSpanClose
  <2>7. Shaped(r) /\ r.open = s.open /\ r.opens = h.opens /\ r.opts = h.opts /\ r.prog = h.prog
        /\ r.labels = h.labels
    BY <2>4, <2>6 DEF Shaped, Fields
  <2>8. ClosesAs(s, r, name)
    BY <2>4, <2>7 DEF ClosesAs
  <2> QED
    BY <1>1, <2>2, <2>7, <2>8
<1>4. CASE s.open = <<>> /\ ~(s.seen.n > 0)
  BY <1>4 DEF AddSpanClose
<1> QED
  BY <1>2, <1>3, <1>4

\* The return follows in the same call.
LEMMA ReturnSolo ==
  ASSUME NEW s, Kept(s), Solo(s), NEW r, r = AddProgTok(s, "ret", NoTarget)
  PROVE  Solo(r)
<1>1. PICK t : t = AddSpanClose(s, "ret")
  OBVIOUS
<1>2. r = AddTok(t, "ret", NoTarget)
  BY <1>1 DEF AddProgTok
<1>3. "ret" \in TokKind /\ NoTarget \in Name
  BY DEF TokKind, NoTarget, Lbl, Name
<1>4. Typed(s) /\ Closed(s)
  BY DEF Kept, Core, CoreType, Typed
<1>5. CASE t = s
  BY <1>2, <1>3, <1>4, <1>5, AddTokAside, AsideSolo
<1>6. CASE t # s
  <2>1. PICK name \in RetName : Typed(t) /\ ClosesAs(s, t, name) /\ name[2] \in s.opens \cup {"unknown"}
    BY <1>1, <1>6, AddSpanCloseIs
  <2>2. PICK e, o : e = [tok |-> "ret", targ |-> NoTarget] /\ o = [opt |-> "spanClose", targ |-> name, arg |-> 0]
    OBVIOUS
  <2>3. Shaped(r) /\ SameSpans(r, t) /\ r.prog = Append(t.prog, e) /\ r.labels = t.labels /\ r.opts = t.opts
    BY <1>2, <2>1, <2>2, AddTokIs DEF Typed
  <2>4. e \in Tok /\ e.tok = "ret"
    BY <1>3, <2>2 DEF Tok
  <2>5. PICK n \in Nat, m \in Nat : n = Len(s.prog) /\ m = Len(s.opts)
    BY <1>4 DEF Typed
  <2>6. /\ DOMAIN s.prog = 1 .. n /\ DOMAIN r.prog = 1 .. n + 1 /\ r.prog[n + 1] = e
        /\ \A k \in 1 .. n : r.prog[k] = s.prog[k]
    <3>1. t.prog = s.prog /\ s.prog \in Seq(Tok) /\ r.prog = Append(s.prog, e)
      BY <1>4, <2>1, <2>3 DEF ClosesAs, Typed
    <3> QED
      BY <2>4, <2>5, <3>1, Appended
  <2>7. o \in OptTok /\ o.targ = name
    <3>1. "spanClose" \in OptKind
      BY DEF OptKind
    <3> QED
      BY <2>2, <3>1, NamesApart DEF OptTok
  <2>8. /\ DOMAIN s.opts = 1 .. m /\ DOMAIN r.opts = 1 .. m + 1 /\ r.opts[m + 1] = o
        /\ \A k \in 1 .. m : r.opts[k] = s.opts[k]
    <3>1. s.opts \in Seq(OptTok) /\ r.opts = Append(s.opts, o)
      BY <1>4, <2>1, <2>2, <2>3 DEF ClosesAs, Typed
    <3> QED
      BY <2>5, <2>7, <3>1, Appended
  <2>9. r.labels = With(s.labels, name, n + 1)
    BY <2>1, <2>3, <2>5 DEF ClosesAs
  <2>10. AtRet(r, name)
    BY <2>4, <2>6, <2>9 DEF AtRet, With
  <2>11. ASSUME NEW x, AtRet(s, x) PROVE AtRet(r, x)
    <3>1. CASE x = name
      BY <2>10, <3>1
    <3>2. CASE x # name
      <4>1. PICK y : y = s.labels[x]
        OBVIOUS
      <4>2. x \in DOMAIN s.labels /\ y \in 1 .. n /\ s.prog[y].tok = "ret"
        BY <2>6, <2>11, <4>1 DEF AtRet
      <4>3. x \in DOMAIN r.labels /\ r.labels[x] = y
        BY <2>9, <3>2, <4>1, <4>2 DEF With
      <4>4. y \in DOMAIN r.prog /\ r.prog[y].tok = "ret"
        BY <2>6, <4>2
      <4> QED
        BY <4>3, <4>4 DEF AtRet
    <3> QED
      BY <3>1, <3>2
  <2>12. r.opens = s.opens /\ r.open = t.open
    BY <2>1, <2>3 DEF ClosesAs, SameSpans
  <2>13. ASSUME NEW k, IsClose(r, k)
         PROVE  AtRet(r, r.opts[k].targ) /\ r.opts[k].targ[2] \in r.opens \cup {"unknown"}
    <3>1. CASE k = m + 1
      BY <2>1, <2>7, <2>8, <2>10, <2>12, <3>1
    <3>2. CASE k # m + 1
      <4>1. IsClose(s, k) /\ r.opts[k] = s.opts[k]
        BY <2>8, <2>13, <3>2 DEF IsClose
      <4> QED
        BY <2>11, <2>12, <4>1 DEF Solo, Marked
    <3> QED
      BY <3>1, <3>2
  <2>14. OpenKnown(r)
    BY <2>1, <2>12 DEF Solo, OpenKnown, ClosesAs
  <2> QED
    BY <2>13, <2>14 DEF Solo, Marked
<1> QED
  BY <1>5, <1>6

LEMMA SpanOpenSolo ==
  ASSUME NEW s, Kept(s), Solo(s), NEW l \in Label, NEW r \in SpanOpen(s, l)
  PROVE  Solo(r)
<1>1. PICK b : b = AddSpanOpen(s, l)
  OBVIOUS
<1>2. Kept(b) /\ Solo(b) /\ l \in b.opens
  BY <1>1, AddSpanOpenKeeps, AddSpanOpenSolo
<1>3. r = [b EXCEPT !.open = Append(@, l), !.seen.n = 0]
  BY <1>1 DEF SpanOpen
<1>4. Shaped(b) /\ b.open \in Seq(Label)
  BY <1>2 DEF Kept, Core, CoreType, OpenedIn
<1>5. /\ r.open = Append(b.open, l) /\ r.opens = b.opens /\ r.opts = b.opts /\ r.prog = b.prog /\ r.labels = b.labels
  BY <1>3, <1>4 DEF Shaped, Fields
<1>6. /\ DOMAIN b.open = 1 .. Len(b.open) /\ DOMAIN r.open = 1 .. Len(b.open) + 1
      /\ r.open[Len(b.open) + 1] = l /\ \A k \in DOMAIN b.open : r.open[k] = b.open[k]
  BY <1>4, <1>5, Appended
<1>7. OpenKnown(r)
  BY <1>2, <1>4, <1>5, <1>6 DEF Solo, OpenKnown
<1>8. Marked(r)
  BY <1>2, <1>5 DEF Solo, Marked, IsClose, AtRet
<1> QED
  BY <1>7, <1>8 DEF Solo

LEMMA ReadRefSolo ==
  ASSUME NEW s, Kept(s), Solo(s), NEW tok \in {"call", "jump"}, NEW l \in Label
  PROVE  Solo(StubLabel(AddProgRef(s, tok, l), Lbl(l)))
<1>1. PICK t : t = IF tok = "call" THEN AddSpanOpen(s, l) ELSE s
  OBVIOUS
<1>2. Kept(t) /\ Solo(t)
  <2>1. CASE tok = "call"
    <3>1. t = AddSpanOpen(s, l)
      BY <1>1, <2>1
    <3> QED
      BY <3>1, AddSpanOpenKeeps, AddSpanOpenSolo
  <2>2. CASE tok # "call"
    BY <1>1, <2>2
  <2> QED
    BY <2>1, <2>2
<1>3. PICK a : a = AddProgRef(s, tok, l)
  OBVIOUS
<1>4. a = AddTok(t, tok, Lbl(l))
  BY <1>1, <1>3 DEF AddProgRef
<1>5. Typed(t) /\ Closed(t)
  BY <1>2 DEF Kept, Core, CoreType, Typed
<1>6. Aside(t, a) /\ Typed(a)
  <2>1. tok \in TokKind
    BY DEF TokKind
  <2> QED
    BY <1>4, <1>5, <2>1, LblIsName, AddTokAside DEF Aside
<1>7. PICK r : r = StubLabel(a, Lbl(l))
  OBVIOUS
<1>8. Aside(t, r)
  BY <1>6, <1>7, StubLabelAside, AsideOn
<1> QED
  BY <1>2, <1>3, <1>5, <1>7, <1>8, AsideSolo

LEMMA SetOptionAside ==
  ASSUME NEW s, Core(s), NEW o \in Options, NEW arg \in Nat, NEW r, r = SetOption(s, o, arg)
  PROVE  Aside(s, r)
<1>1. Core(r) /\ SameSpans(r, s) /\ r.prog = s.prog /\ r.labels = s.labels /\ SameOpts(s, r)
  BY SetOptionKeeps
<1>2. NoClose(s, r)
  <2>1. "spanClose" \notin Options
    BY DEF Options
  <2> QED
    BY <1>1, <2>1 DEF NoClose, IsClose, SameOpts
<1> QED
  BY <1>1, <1>2 DEF Aside, Typed, Core, CoreType, SameMarks, Longer, SameOpen, SameSpans

AllOne == {"spanClose", "include"} \cap input.items = {}
SoloInv == AllOne => Solo(sc) /\ prior = <<>>

LEMMA BecameSolo ==
  ASSUME NEW R, Solo(sc), \A r \in R : Solo(r), Becomes(R)
  PROVE  Solo(sc')
BY DEF Becomes

LEMMA AsideResult ==
  ASSUME NEW s, Kept(s), Solo(s)
  PROVE  \A r : Aside(s, r) => Solo(r)
<1>1. Closed(s)
  BY DEF Kept, Core
<1> QED
  BY <1>1, AsideSolo

LEMMA SoloInit == Init => SoloInv
<1> SUFFICES ASSUME Init PROVE Solo(sc) /\ prior = <<>>
  BY DEF SoloInv
<1>1. PICK s : s = NoProgram
  OBVIOUS
<1>2. /\ Shaped(s) /\ s.opts = <<>> /\ s.adls = <<>> /\ s.prog = <<>> /\ DOMAIN s.labels = {} /\ DOMAIN s.ptrs = {}
      /\ s.open = <<>>
  BY <1>1 DEF NoProgram, NewInput, Shaped, Fields
<1>3. Core(s)
  <2>1. CoreType(s)
    BY <1>2 DEF CoreType
  <2>2. Pointers(s) /\ OneEntry(s) /\ Referred(s) /\ Closed(s)
    BY <1>2 DEF Pointers, OneEntry, Referred, Closed
  <2> QED
    BY <2>1, <2>2 DEF Core
<1>4. sc = RefOpt(s, "stackSize", 64)
  BY <1>1 DEF Init, DefaultStackSize
<1>5. "stackSize" \in Options /\ 64 \in Nat /\ "stackSize" \notin DOMAIN s.ptrs
  BY <1>2 DEF Options
<1>6. SameSpans(sc, s) /\ SameOpts(s, sc)
  BY <1>3, <1>4, <1>5, RefOptKeeps
<1>7. \A k : ~IsClose(sc, k)
  <2>1. "spanClose" \notin Options
    BY DEF Options
  <2> QED
    BY <1>2, <1>6, <2>1 DEF IsClose, SameOpts
<1>8. OpenKnown(sc)
  BY <1>2, <1>6 DEF OpenKnown, SameSpans
<1> QED
  BY <1>7, <1>8 DEF Init, Solo, Marked

LEMMA SoloStep == Inv /\ SoloInv /\ [Next]_vars => SoloInv'
<1> SUFFICES ASSUME Inv, Solo(sc), prior = <<>>, AllOne, [Next]_vars PROVE Solo(sc') /\ prior' = <<>>
  <2>1. [Next]_vars => (AllOne' => AllOne)
    BY DEF Next, vars, AllOne
  <2> QED
    BY <2>1 DEF SoloInv
<1>0. Sound(sc) /\ Kept(sc) /\ Typed(sc) /\ Pends(sc) /\ Core(sc) /\ sc.state \in States /\ label \in Label \cup {None}
  BY SoundTyped DEF Inv, Scans, Kept
<1>1. \A r : Aside(sc, r) => Solo(r)
  BY <1>0, AsideResult
<1>2. \A r \in EnterText(sc) : Solo(r)
  BY <1>0, <1>1, EnterTextAside
<1>3. ASSUME NEW r, Solo(r) PROVE \A q \in {r} : Solo(q)
  BY <1>3
<1>4. ASSUME NEW R, \A r \in R : Solo(r), Becomes(R) PROVE Solo(sc')
  BY <1>4, BecameSolo
<1>5. CASE EntryDirective
  <2>1. Becomes(EnterText(sc)) /\ prior' = prior
    BY <1>5 DEF EntryDirective, Directive
  <2> QED
    BY <1>2, <1>4, <2>1
<1>6. CASE SpanOpenDirective \/ InDirective \/ OutDirective
  BY <1>6 DEF SpanOpenDirective, InDirective, OutDirective, Directive, Becomes
<1>7. ASSUME NEW l \in Label, ReadLabel(l) PROVE Solo(sc') /\ prior' = <<>>
  <2>1. \A r \in HandleLabel(sc, l) : Solo(r)
    BY <1>0, HandleLabelSolo
  <2>2. Becomes(HandleLabel(sc, l)) /\ prior' = prior
    BY <1>7 DEF ReadLabel
  <2> QED
    BY <1>4, <2>1, <2>2
<1>8. ASSUME NEW l \in Label, NEW tok \in {"call", "jump"}, ReadRef(tok, l) PROVE Solo(sc') /\ prior' = <<>>
  <2>1. PICK r : r = StubLabel(AddProgRef(sc, tok, l), Lbl(l))
    OBVIOUS
  <2>2. Solo(r)
    BY <1>0, <2>1, ReadRefSolo
  <2>3. Becomes({r}) /\ prior' = prior
    BY <1>8, <2>1 DEF ReadRef, Takes
  <2> QED
    BY <1>3, <1>4, <2>2, <2>3
<1>9. CASE Expected
  <2>1. Last(want) \in Roles /\ label \in Label /\ prior' = prior
    BY <1>0, <1>9, Wants DEF Expected
  <2>2. CASE Last(want) = "entry"
    <3>1. Becomes(Entry(sc, label))
      BY <1>9, <2>2 DEF Expected
    <3>2. \A r \in Entry(sc, label) : Solo(r)
      BY <1>0, <1>1, <2>1, EntryAside
    <3> QED
      BY <1>4, <2>1, <3>1, <3>2
  <2>3. CASE Last(want) = "spanOpen"
    <3>1. Becomes(SpanOpen(sc, label))
      BY <1>9, <2>3 DEF Expected
    <3>2. \A r \in SpanOpen(sc, label) : Solo(r)
      BY <1>0, <2>1, SpanOpenSolo
    <3> QED
      BY <1>4, <2>1, <3>1, <3>2
  <2>4. CASE Last(want) \in {"in", "out"}
    <3>1. PICK r : r \in {[sc EXCEPT !.pendIn = label], [sc EXCEPT !.pendOut = label]} /\ Becomes({r})
      BY <1>9, <2>4 DEF Expected
    <3>2. /\ Shaped(r) /\ r.opts = sc.opts /\ r.labels = sc.labels /\ r.prog = sc.prog
          /\ r.open = sc.open /\ r.opens = sc.opens
      BY <1>0, <3>1 DEF Typed, Shaped, Fields
    <3>3. Solo(r)
      BY <1>0, <1>1, <3>2, SameAside DEF SameOpen
    <3> QED
      BY <1>3, <1>4, <2>1, <3>1, <3>3
  <2> QED
    BY <2>1, <2>2, <2>3, <2>4 DEF Roles
<1>10. CASE ReadOp("ret")
  <2>1. PICK r : r = AddProgTok(sc, "ret", NoTarget)
    OBVIOUS
  <2>2. Solo(r)
    BY <1>0, <2>1, ReturnSolo
  <2>3. Becomes({r}) /\ prior' = prior
    BY <1>10, <2>1 DEF ReadOp, Takes
  <2> QED
    BY <1>3, <1>4, <2>2, <2>3
<1>11. ASSUME NEW tok \in {"op", "word", "alloc"}, Becomes({AddProgTok(sc, tok, NoTarget)}) PROVE Solo(sc')
  <2>1. PICK r : r = AddProgTok(sc, tok, NoTarget)
    OBVIOUS
  <2>2. tok \in TokKind /\ tok # "ret" /\ NoTarget \in Name
    BY DEF TokKind, NoTarget, Lbl, Name
  <2>3. r = AddTok(sc, tok, NoTarget)
    BY <2>1, <2>2 DEF AddProgTok
  <2>4. Solo(r)
    BY <1>0, <1>1, <2>2, <2>3, AddTokAside
  <2> QED
    BY <1>3, <1>4, <1>11, <2>1, <2>4
<1>12. CASE ReadOp("op") \/ ReadData("word") \/ ReadData("alloc")
  <2>1. prior' = prior
    BY <1>12 DEF ReadOp, ReadData, Takes
  <2>2. CASE ReadOp("op")
    BY <1>11, <2>1, <2>2 DEF ReadOp
  <2>3. CASE ReadData("word")
    BY <1>11, <2>1, <2>3 DEF ReadData
  <2>4. CASE ReadData("alloc")
    BY <1>11, <2>1, <2>4 DEF ReadData
  <2> QED
    BY <1>12, <2>2, <2>3, <2>4
<1>13. CASE SpanCloseDirective \/ Include \/ EndInclude
  BY <1>13 DEF SpanCloseDirective, Takes, Include, EndInclude, AllOne
<1>14. CASE DataDirective
  <2>1. PICK r : r = [sc EXCEPT !.state = "data"]
    OBVIOUS
  <2>2. /\ Shaped(r) /\ r.opts = sc.opts /\ r.labels = sc.labels /\ r.prog = sc.prog
        /\ r.open = sc.open /\ r.opens = sc.opens
    BY <1>0, <2>1 DEF Typed, Shaped, Fields
  <2>3. Solo(r)
    BY <1>0, <1>1, <2>2, SameAside DEF SameOpen
  <2>4. Becomes({r}) /\ prior' = prior
    BY <1>14, <2>1 DEF DataDirective, Takes
  <2> QED
    BY <1>3, <1>4, <2>3, <2>4
<1>15. CASE TextDirective
  <2>1. Becomes(EnterText(sc)) /\ prior' = prior
    BY <1>15 DEF TextDirective, Takes
  <2> QED
    BY <1>2, <1>4, <2>1
<1>16. ASSUME NEW o \in Options, NEW arg \in Sizes, OptionDirective(o, arg) PROVE Solo(sc') /\ prior' = <<>>
  <2>1. PICK r : r = SetOption(sc, o, arg)
    OBVIOUS
  <2>2. Solo(r)
    <3>1. arg \in Nat
      BY BoundsAssumption
    <3> QED
      BY <1>0, <1>1, <2>1, <3>1, SetOptionAside
  <2>3. Becomes({r}) /\ prior' = prior
    BY <1>16, <2>1 DEF OptionDirective, Takes
  <2> QED
    BY <1>3, <1>4, <2>2, <2>3
<1>17. CASE Finish \/ Invalid \/ Ended \/ UNCHANGED vars
  BY <1>17 DEF Finish, Invalid, Ended, vars
<1>18. CASE \E l \in Label : ReadLabel(l) \/ ReadRef("call", l) \/ ReadRef("jump", l)
  <2>1. PICK l \in Label : ReadLabel(l) \/ ReadRef("call", l) \/ ReadRef("jump", l)
    BY <1>18
  <2> QED
    BY <1>7, <1>8, <2>1
<1>19. CASE \E opt \in Options, arg \in Sizes : OptionDirective(opt, arg)
  BY <1>16, <1>19
<1> QED
  BY <1>5, <1>6, <1>9, <1>10, <1>12, <1>13, <1>14, <1>15, <1>17, <1>18, <1>19 DEF Next

-----------------------------------------------------------------------------
(* Regions, where the input that has some includes no other *)

RegName == {Lbl(l) : l \in Label} \cup ({"end", "name"} \X Label)

\* A region is data from its label on to its end, behind which its name is.
DataIn(s, from, to) == \A p \in from .. to : p \in DOMAIN s.prog /\ s.prog[p].tok \in {"word", "alloc"}
IsString(s, p, l) == p \in DOMAIN s.prog /\ s.prog[p].tok = "string" /\ s.prog[p].targ = Lbl(l)
Bounds(s, l) ==
  /\ Defined(s, Lbl(l)) /\ Defined(s, <<"end", l>>) /\ Defined(s, <<"name", l>>)
  /\ s.labels[Lbl(l)] <= s.labels[<<"end", l>>]
  /\ DataIn(s, s.labels[Lbl(l)], s.labels[<<"end", l>>] - 1)
  /\ IsString(s, s.labels[<<"name", l>>], l)
RegionAt(s, k, l) ==
  /\ k - 2 \in DOMAIN s.opts /\ k - 1 \in DOMAIN s.opts /\ k \in DOMAIN s.opts
  /\ s.opts[k - 2].opt = s.opts[k - 1].opt
  /\ s.opts[k - 2].targ = Lbl(l) /\ s.opts[k - 1].targ = <<"end", l>> /\ s.opts[k].targ = <<"name", l>>
  /\ Bounds(s, l)
Named(s) ==
  /\ \A k \in DOMAIN s.opts : s.opts[k].opt = "name" => \E l \in Label : RegionAt(s, k, l)
  /\ \A l \in Label : <<"name", l>> \in DOMAIN s.labels => Defined(s, <<"end", l>>)

\* What a step keeps of them.
OptsStay(s, r) ==
  \A k \in DOMAIN s.opts :
    /\ k \in DOMAIN r.opts /\ r.opts[k].opt = s.opts[k].opt
    /\ s.opts[k].targ \notin RetName => r.opts[k].targ = s.opts[k].targ
ToksStay(s, r) ==
  \A p \in DOMAIN s.prog :
    /\ p \in DOMAIN r.prog /\ r.prog[p].tok = s.prog[p].tok
    /\ s.prog[p].targ \notin RetName => r.prog[p].targ = s.prog[p].targ
LabelsStay(s, r) == \A n : n \in RegName /\ Defined(s, n) => Defined(r, n) /\ r.labels[n] = s.labels[n]
NoName(s, r) ==
  /\ \A k \in DOMAIN r.opts : k \in DOMAIN s.opts \/ r.opts[k].opt # "name"
  /\ \A l \in Label : <<"name", l>> \in DOMAIN r.labels => <<"name", l>> \in DOMAIN s.labels
Stays(s, r) == Typed(r) /\ OptsStay(s, r) /\ ToksStay(s, r) /\ LabelsStay(s, r) /\ NoName(s, r)

LEMMA RegNamed == \A m \in RegName : \E l \in Label : m = Lbl(l) \/ m = <<"end", l>> \/ m = <<"name", l>>
<1> SUFFICES ASSUME NEW m \in RegName PROVE \E l \in Label : m = Lbl(l) \/ m = <<"end", l>> \/ m = <<"name", l>>
  OBVIOUS
<1>1. CASE m \in {Lbl(l) : l \in Label}
  BY <1>1
<1>2. CASE m \in {"end", "name"} \X Label
  BY <1>2
<1> QED
  BY <1>1, <1>2 DEF RegName

LEMMA RegNames ==
  /\ \A n \in RetName : n \notin RegName
  /\ \A l \in Label : Lbl(l) \in RegName /\ <<"end", l>> \in RegName /\ <<"name", l>> \in RegName
<1>1. ASSUME NEW n \in RetName, n \in RegName PROVE FALSE
  <2>1. \A l : n # Lbl(l) /\ n # <<"end", l>> /\ n # <<"name", l>>
    BY NamesApart, Zenon
  <2>2. PICK l \in Label : n = Lbl(l) \/ n = <<"end", l>> \/ n = <<"name", l>>
    BY <1>1, RegNamed
  <2> QED
    BY <2>1, <2>2
<1>2. ASSUME NEW l \in Label PROVE Lbl(l) \in RegName /\ <<"end", l>> \in RegName /\ <<"name", l>> \in RegName
  BY DEF RegName
<1> QED
  BY <1>1, <1>2

LEMMA EntryName ==
  ASSUME NEW n, n = <<"entry", "">>
  PROVE  n \notin RegName /\ n \notin RetName /\ \A l : n # Lbl(l) /\ n # <<"end", l>> /\ n # <<"name", l>>
<1>1. n \notin RetName
  BY NamesApart, Zenon
<1>2. \A l : n # <<"end", l>> /\ n # <<"name", l>> /\ n # Lbl(l)
  BY Zenon DEF Lbl
<1>3. n \notin RegName
  BY <1>2, RegNamed, Zenon
<1> QED
  BY <1>1, <1>2, <1>3, Zenon

LEMMA StaysOn ==
  ASSUME NEW a, NEW b, NEW c, Stays(a, b), Stays(b, c)
  PROVE  Stays(a, c)
<1>1. OptsStay(a, c)
  <2> SUFFICES ASSUME NEW k \in DOMAIN a.opts
               PROVE  /\ k \in DOMAIN c.opts /\ c.opts[k].opt = a.opts[k].opt
                      /\ a.opts[k].targ \notin RetName => c.opts[k].targ = a.opts[k].targ
    BY DEF OptsStay
  <2>1. /\ k \in DOMAIN b.opts /\ b.opts[k].opt = a.opts[k].opt
        /\ a.opts[k].targ \notin RetName => b.opts[k].targ = a.opts[k].targ
    BY DEF Stays, OptsStay
  <2>2. /\ k \in DOMAIN c.opts /\ c.opts[k].opt = b.opts[k].opt
        /\ b.opts[k].targ \notin RetName => c.opts[k].targ = b.opts[k].targ
    BY <2>1 DEF Stays, OptsStay
  <2> QED
    BY <2>1, <2>2
<1>2. ToksStay(a, c)
  <2> SUFFICES ASSUME NEW p \in DOMAIN a.prog
               PROVE  /\ p \in DOMAIN c.prog /\ c.prog[p].tok = a.prog[p].tok
                      /\ a.prog[p].targ \notin RetName => c.prog[p].targ = a.prog[p].targ
    BY DEF ToksStay
  <2>1. /\ p \in DOMAIN b.prog /\ b.prog[p].tok = a.prog[p].tok
        /\ a.prog[p].targ \notin RetName => b.prog[p].targ = a.prog[p].targ
    BY DEF Stays, ToksStay
  <2>2. /\ p \in DOMAIN c.prog /\ c.prog[p].tok = b.prog[p].tok
        /\ b.prog[p].targ \notin RetName => c.prog[p].targ = b.prog[p].targ
    BY <2>1 DEF Stays, ToksStay
  <2> QED
    BY <2>1, <2>2
<1>3. LabelsStay(a, c)
  BY DEF Stays, LabelsStay
<1>4. NoName(a, c)
  <2>1. \A k \in DOMAIN c.opts : k \in DOMAIN a.opts \/ c.opts[k].opt # "name"
    <3> SUFFICES ASSUME NEW k \in DOMAIN c.opts, k \notin DOMAIN a.opts PROVE c.opts[k].opt # "name"
      OBVIOUS
    <3>1. CASE k \in DOMAIN b.opts
      BY <3>1 DEF Stays, NoName, OptsStay
    <3>2. CASE k \notin DOMAIN b.opts
      BY <3>2 DEF Stays, NoName
    <3> QED
      BY <3>1, <3>2
  <2>2. \A l \in Label : <<"name", l>> \in DOMAIN c.labels => <<"name", l>> \in DOMAIN a.labels
    BY DEF Stays, NoName
  <2> QED
    BY <2>1, <2>2 DEF NoName
<1> QED
  BY <1>1, <1>2, <1>3, <1>4 DEF Stays

\* A region stays one.
LEMMA RegionStays ==
  ASSUME NEW s, NEW r, OptsStay(s, r), ToksStay(s, r), LabelsStay(s, r),
         NEW l \in Label, NEW k, RegionAt(s, k, l)
  PROVE  RegionAt(r, k, l)
<1>1. PICK a, b, c : a = Lbl(l) /\ b = <<"end", l>> /\ c = <<"name", l>>
  OBVIOUS
<1>2. a \in RegName /\ b \in RegName /\ c \in RegName /\ a \notin RetName /\ b \notin RetName /\ c \notin RetName
  BY <1>1, RegNames
<1>3. PICK i, j : i = k - 2 /\ j = k - 1
  OBVIOUS
<1>4. /\ i \in DOMAIN s.opts /\ j \in DOMAIN s.opts /\ k \in DOMAIN s.opts /\ s.opts[i].opt = s.opts[j].opt
      /\ s.opts[i].targ = a /\ s.opts[j].targ = b /\ s.opts[k].targ = c
      /\ Bounds(s, l)
  BY <1>1, <1>3 DEF RegionAt
<1>5. /\ i \in DOMAIN r.opts /\ r.opts[i].opt = s.opts[i].opt /\ r.opts[i].targ = a
  BY <1>2, <1>4 DEF OptsStay
<1>6. /\ j \in DOMAIN r.opts /\ r.opts[j].opt = s.opts[j].opt /\ r.opts[j].targ = b
  BY <1>2, <1>4 DEF OptsStay
<1>7. /\ k \in DOMAIN r.opts /\ r.opts[k].targ = c
  BY <1>2, <1>4 DEF OptsStay
<1>8. /\ Defined(s, a) /\ Defined(s, b) /\ Defined(s, c) /\ s.labels[a] <= s.labels[b]
      /\ DataIn(s, s.labels[a], s.labels[b] - 1) /\ IsString(s, s.labels[c], l)
  BY <1>1, <1>4 DEF Bounds
<1>9. /\ Defined(r, a) /\ Defined(r, b) /\ Defined(r, c)
      /\ r.labels[a] = s.labels[a] /\ r.labels[b] = s.labels[b] /\ r.labels[c] = s.labels[c]
  BY <1>2, <1>8 DEF LabelsStay
<1>10. DataIn(r, r.labels[a], r.labels[b] - 1)
  <2>1. PICK x, y : x = s.labels[a] /\ y = s.labels[b] - 1
    OBVIOUS
  <2>2. \A p \in x .. y : p \in DOMAIN r.prog /\ r.prog[p].tok \in {"word", "alloc"}
    BY <1>8, <2>1 DEF DataIn, ToksStay
  <2> QED
    BY <1>9, <2>1, <2>2 DEF DataIn
<1>11. IsString(r, r.labels[c], l)
  <2>1. PICK x : x = s.labels[c]
    OBVIOUS
  <2>2. x \in DOMAIN s.prog /\ s.prog[x].tok = "string" /\ s.prog[x].targ = a
    BY <1>1, <1>8, <2>1 DEF IsString
  <2>3. x \in DOMAIN r.prog /\ r.prog[x].tok = "string" /\ r.prog[x].targ = a
    BY <1>2, <2>2 DEF ToksStay
  <2> QED
    BY <1>1, <1>9, <2>1, <2>3 DEF IsString
<1>12. Bounds(r, l)
  BY <1>1, <1>8, <1>9, <1>10, <1>11 DEF Bounds
<1> QED
  BY <1>1, <1>3, <1>4, <1>5, <1>6, <1>7, <1>12 DEF RegionAt

LEMMA StaysNamed ==
  ASSUME NEW s, NEW r, Named(s), Stays(s, r)
  PROVE  Named(r)
<1>1. ASSUME NEW k \in DOMAIN r.opts, r.opts[k].opt = "name" PROVE \E l \in Label : RegionAt(r, k, l)
  <2>1. k \in DOMAIN s.opts /\ s.opts[k].opt = "name"
    BY <1>1 DEF Stays, NoName, OptsStay
  <2>2. PICK l \in Label : RegionAt(s, k, l)
    BY <2>1 DEF Named
  <2>3. RegionAt(r, k, l)
    BY <2>2, RegionStays DEF Stays
  <2> QED
    BY <2>3
<1>2. ASSUME NEW l \in Label, <<"name", l>> \in DOMAIN r.labels PROVE Defined(r, <<"end", l>>)
  <2>1. PICK e : e = <<"end", l>>
    OBVIOUS
  <2>2. Defined(s, e)
    BY <1>2, <2>1 DEF Stays, NoName, Named
  <2>3. e \in RegName
    BY <2>1, RegNames
  <2> QED
    BY <2>1, <2>2, <2>3 DEF Stays, LabelsStay
<1> QED
  BY <1>1, <1>2 DEF Named
NotName(n) == \A l \in Label : n # <<"name", l>>

LEMMA SameStays ==
  ASSUME NEW s, Typed(s), NEW r, Shaped(r), r.opts = s.opts, r.labels = s.labels, r.prog = s.prog
  PROVE  Stays(s, r)
<1>1. OptsStay(s, r) /\ ToksStay(s, r)
  BY DEF OptsStay, ToksStay
<1>2. LabelsStay(s, r) /\ NoName(s, r)
  BY DEF LabelsStay, NoName, Defined
<1> QED
  BY <1>1, <1>2 DEF Stays, Typed

LEMMA OptStays ==
  ASSUME NEW s, Typed(s), NEW o \in OptTok, o.opt # "name", NEW r, Shaped(r), r.opts = Append(s.opts, o),
         r.labels = s.labels, r.prog = s.prog
  PROVE  Stays(s, r)
<1>1. PICK n \in Nat : n = Len(s.opts)
  BY DEF Typed
<1>2. /\ r.opts \in Seq(OptTok) /\ DOMAIN s.opts = 1 .. n /\ DOMAIN r.opts = 1 .. n + 1
      /\ r.opts[n + 1] = o /\ \A k \in 1 .. n : r.opts[k] = s.opts[k]
  BY <1>1, Appended DEF Typed
<1>3. OptsStay(s, r) /\ ToksStay(s, r)
  BY <1>2 DEF OptsStay, ToksStay
<1>4. LabelsStay(s, r) /\ NoName(s, r)
  BY <1>2 DEF LabelsStay, NoName, Defined
<1> QED
  BY <1>2, <1>3, <1>4 DEF Stays, Typed

LEMMA LabelStays ==
  ASSUME NEW s, Typed(s), NEW name, name \in RegName => ~Defined(s, name), NotName(name), NEW at, NEW r, Shaped(r),
         r.labels = With(s.labels, name, at), r.opts = s.opts, r.prog = s.prog
  PROVE  Stays(s, r)
<1>1. OptsStay(s, r) /\ ToksStay(s, r)
  BY DEF OptsStay, ToksStay
<1>2. DOMAIN r.labels = DOMAIN s.labels \cup {name} /\ \A n \in DOMAIN s.labels : n # name => r.labels[n] = s.labels[n]
  BY DEF With
<1>3. LabelsStay(s, r)
  BY <1>2 DEF LabelsStay, Defined
<1>4. NoName(s, r)
  BY <1>2 DEF NoName, NotName
<1> QED
  BY <1>1, <1>3, <1>4 DEF Stays, Typed

LEMMA TokStays ==
  ASSUME NEW s, Typed(s), NEW t \in Tok, NEW r, Shaped(r), r.prog = Append(s.prog, t),
         r.labels = s.labels, r.opts = s.opts
  PROVE  Stays(s, r)
<1>1. PICK n \in Nat : n = Len(s.prog)
  BY DEF Typed
<1>2. /\ r.prog \in Seq(Tok) /\ DOMAIN s.prog = 1 .. n /\ DOMAIN r.prog = 1 .. n + 1
      /\ r.prog[n + 1] = t /\ \A k \in 1 .. n : r.prog[k] = s.prog[k]
  BY <1>1, Appended DEF Typed
<1>3. OptsStay(s, r) /\ ToksStay(s, r)
  BY <1>2 DEF OptsStay, ToksStay
<1>4. LabelsStay(s, r) /\ NoName(s, r)
  BY DEF LabelsStay, NoName, Defined
<1> QED
  BY <1>2, <1>3, <1>4 DEF Stays, Typed

LEMMA AddRefOptStays ==
  ASSUME NEW s, Typed(s), NEW opt \in {"spanOpen", "spanClose", "input", "output", "entry"}, NEW targ \in Name,
         NEW r, r = AddRefOpt(s, opt, targ)
  PROVE  Stays(s, r) /\ SamePending(r, s)
<1>1. PICK o : o = [opt |-> opt, targ |-> targ, arg |-> 0]
  OBVIOUS
<1>2. opt \in OptKind /\ opt # "name"
  BY DEF OptKind
<1>3. o \in OptTok /\ o.opt # "name"
  BY <1>1, <1>2 DEF OptTok
<1>4. /\ Shaped(r) /\ r.opts = Append(s.opts, o) /\ r.prog = s.prog /\ r.labels = s.labels /\ SamePending(r, s)
  BY <1>1, AddRefOptIs DEF Typed
<1> QED
  BY <1>3, <1>4, OptStays

LEMMA AddLabelStays ==
  ASSUME NEW s, Typed(s), NEW name, name \in RegName => ~Defined(s, name), NotName(name), NEW r, r = AddLabel(s, name)
  PROVE  Stays(s, r) /\ SamePending(r, s)
<1>1. PICK at : at = Len(s.prog) + 1
  OBVIOUS
<1>2. /\ Shaped(r) /\ r.labels = With(s.labels, name, at) /\ r.opts = s.opts /\ r.prog = s.prog /\ SamePending(r, s)
  BY <1>1, AddLabelIs DEF Typed
<1> QED
  BY <1>2, LabelStays

LEMMA LblNotName ==
  ASSUME NEW l
  PROVE  NotName(Lbl(l)) /\ NotName(<<"end", l>>)
<1>1. \A m : Lbl(l) # <<"name", m>>
  BY Zenon DEF Lbl
<1> QED
  BY <1>1 DEF NotName

LEMMA StubLabelStays ==
  ASSUME NEW s, Typed(s), NEW l, NEW r, r = StubLabel(s, Lbl(l))
  PROVE  Stays(s, r) /\ SamePending(r, s)
<1>1. /\ Shaped(r) /\ r.opts = s.opts /\ r.prog = s.prog /\ SamePending(r, s)
      /\ r.labels = IF Lbl(l) \in DOMAIN s.labels THEN s.labels ELSE With(s.labels, Lbl(l), Undefined)
  BY StubLabelIs DEF Typed
<1>2. CASE Lbl(l) \in DOMAIN s.labels
  BY <1>1, <1>2, SameStays
<1>3. CASE Lbl(l) \notin DOMAIN s.labels
  <2>1. ~Defined(s, Lbl(l))
    BY <1>3 DEF Defined
  <2>2. NotName(Lbl(l))
    BY LblNotName
  <2>3. r.labels = With(s.labels, Lbl(l), Undefined)
    BY <1>1, <1>3
  <2> QED
    BY <1>1, <2>1, <2>2, <2>3, LabelStays
<1> QED
  BY <1>2, <1>3

LEMMA AddAddrLabelStays ==
  ASSUME NEW s, Typed(s), NEW name, NEW r, r = AddAddrLabel(s, name)
  PROVE  Stays(s, r) /\ SamePending(r, s)
<1>1. /\ Shaped(r) /\ r.labels = s.labels /\ r.prog = s.prog /\ r.opts = s.opts /\ SamePending(r, s)
  BY AddAddrLabelIs DEF Typed
<1> QED
  BY <1>1, SameStays

LEMMA AddTokStays ==
  ASSUME NEW s, Typed(s), NEW tok \in TokKind, NEW targ \in Name, NEW r, r = AddTok(s, tok, targ)
  PROVE  Stays(s, r) /\ SamePending(r, s)
<1>1. PICK t : t = [tok |-> tok, targ |-> targ]
  OBVIOUS
<1>2. t \in Tok
  BY <1>1 DEF Tok
<1>3. /\ Shaped(r) /\ r.prog = Append(s.prog, t) /\ r.labels = s.labels /\ r.opts = s.opts /\ SamePending(r, s)
  BY <1>1, AddTokIs DEF Typed
<1> QED
  BY <1>2, <1>3, TokStays

LEMMA RetNotName ==
  ASSUME NEW n \in RetName
  PROVE  n \notin RegName /\ NotName(n)
<1>1. n \notin RegName
  BY RegNames
<1>2. ASSUME NEW l \in Label PROVE <<"name", l>> \in RegName
  BY RegNames
<1> QED
  BY <1>1, <1>2 DEF NotName

LEMMA GenProgLabelStays ==
  ASSUME NEW s, Typed(s), NEW name \in RetName, NEW r, r = GenProgLabel(s, name)
  PROVE  Stays(s, r) /\ SamePending(r, s)
<1>1. PICK at : at = Len(s.prog) + 1
  OBVIOUS
<1>2. /\ Shaped(r) /\ r.labels = With(s.labels, name, at) /\ r.opts = s.opts /\ r.prog = s.prog /\ SamePending(r, s)
  BY <1>1, GenProgLabelIs DEF Typed
<1>3. name \notin RegName /\ NotName(name)
  BY RetNotName
<1> QED
  BY <1>2, <1>3, LabelStays

LEMMA RenamedStays ==
  ASSUME NEW s, NEW r, Typed(r), NEW old \in RetName, NEW new \in RetName, RenamedAs(s, r, old, new)
  PROVE  Stays(s, r)
<1>1. OptsStay(s, r)
  BY DEF OptsStay, RenamedAs, Renamed
<1>2. ToksStay(s, r)
  BY DEF ToksStay, RenamedAs, Renamed
<1>3. r.labels = LabelsRenamed(s.labels, old, new)
  BY DEF RenamedAs
<1>4. \A n : n \notin RetName => /\ n \in DOMAIN r.labels <=> n \in DOMAIN s.labels
                                 /\ n \in DOMAIN s.labels => r.labels[n] = s.labels[n]
  <2>1. CASE old \in DOMAIN s.labels
    <3>1. PICK f : f = [x \in DOMAIN s.labels \ {old} |-> s.labels[x]]
      OBVIOUS
    <3>2. r.labels = With(f, new, s.labels[old])
      BY <1>3, <2>1, <3>1 DEF LabelsRenamed
    <3> QED
      BY <3>1, <3>2 DEF With
  <2>2. CASE old \notin DOMAIN s.labels
    BY <1>3, <2>2 DEF LabelsRenamed
  <2> QED
    BY <2>1, <2>2
<1>5. LabelsStay(s, r)
  BY <1>4, RegNames DEF LabelsStay, Defined
<1>6. NoName(s, r)
  <2>1. ASSUME NEW l \in Label, <<"name", l>> \in DOMAIN r.labels PROVE <<"name", l>> \in DOMAIN s.labels
    <3>1. PICK n : n = <<"name", l>>
      OBVIOUS
    <3>2. n \notin RetName
      BY <3>1, RegNames
    <3> QED
      BY <1>4, <2>1, <3>1, <3>2
  <2> QED
    BY <2>1 DEF NoName, RenamedAs
<1> QED
  BY <1>1, <1>2, <1>5, <1>6 DEF Stays

LEMMA KeptTyped ==
  ASSUME NEW s, Kept(s)
  PROVE  Typed(s)
BY DEF Kept, Core, CoreType, Typed

LEMMA RenamesAll ==
  ASSUME NEW s, Typed(s), NEW old, NEW new, NEW r, r = RenameLabel(s, old, new)
  PROVE  RenamedAs(s, r, old, new)
<1>1. /\ r.labels = LabelsRenamed(s.labels, old, new)
      /\ r.opts = RenamedIn(s.opts, old, new) /\ r.prog = RenamedIn(s.prog, old, new)
  BY DEF Typed, Shaped, Fields, RenameLabel
<1>2. DOMAIN r.opts = DOMAIN s.opts /\ DOMAIN r.prog = DOMAIN s.prog
  BY <1>1 DEF RenamedIn
<1>3. ASSUME NEW k \in DOMAIN s.opts
      PROVE  r.opts[k].opt = s.opts[k].opt /\ r.opts[k].targ = Renamed(s.opts[k].targ, old, new)
  <2>1. PICK o : o = s.opts[k]
    OBVIOUS
  <2>2. o \in OptTok
    BY <1>3, <2>1 DEF Typed
  <2>3. r.opts[k] = [o EXCEPT !.targ = Renamed(@, old, new)]
    BY <1>1, <1>3, <2>1 DEF RenamedIn
  <2> QED
    BY <2>1, <2>2, <2>3 DEF OptTok
<1>4. ASSUME NEW k \in DOMAIN s.prog
      PROVE  r.prog[k].tok = s.prog[k].tok /\ r.prog[k].targ = Renamed(s.prog[k].targ, old, new)
  <2>1. PICK t : t = s.prog[k]
    OBVIOUS
  <2>2. t \in Tok
    BY <1>4, <2>1 DEF Typed
  <2>3. r.prog[k] = [t EXCEPT !.targ = Renamed(@, old, new)]
    BY <1>1, <1>4, <2>1 DEF RenamedIn
  <2> QED
    BY <2>1, <2>2, <2>3 DEF Tok
<1> QED
  BY <1>1, <1>2, <1>3, <1>4 DEF RenamedAs

LEMMA AddSpanOpenStays ==
  ASSUME NEW s, Kept(s), NEW l \in Label, NEW r, r = AddSpanOpen(s, l)
  PROVE  Stays(s, r)
<1>0. Typed(s) /\ Typed(r)
  BY AddSpanOpenKeeps, KeptTyped
<1>1. CASE l \in s.opens
  <2>1. r = s
    BY <1>1 DEF AddSpanOpen
  <2> QED
    BY <1>0, <2>1, SameStays DEF Typed
<1>2. CASE l \notin s.opens
  <2>1. PICK s1 : s1 = [s EXCEPT !.opens = @ \cup {l}]
    OBVIOUS
  <2>2. Shaped(s)
    BY <1>0 DEF Typed
  <2>3. Shaped(s1) /\ s1.opts = s.opts /\ s1.prog = s.prog /\ s1.labels = s.labels
    BY <2>1, <2>2 DEF Shaped, Fields
  <2>4. Stays(s, s1) /\ Typed(s1)
    BY <1>0, <2>3, SameStays DEF Stays
  <2>5. PICK t : t = AddRefOpt(s1, "spanOpen", Lbl(l))
    OBVIOUS
  <2>6. Stays(s1, t) /\ Typed(t)
    BY <2>4, <2>5, LblIsName, AddRefOptStays DEF Stays
  <2>7. Stays(s, t)
    BY <2>4, <2>6, StaysOn
  <2>8. CASE l \notin DOMAIN s.unkRets
    <3>1. r = t
      BY <1>2, <2>1, <2>5, <2>8 DEF AddSpanOpen
    <3> QED
      BY <2>7, <3>1
  <2>9. CASE l \in DOMAIN s.unkRets
    <3>1. PICK u : u = s.unkRets[l]
      OBVIOUS
    <3>2. PICK k : k = LastIndex(s, s.urs[u].seen, l)
      OBVIOUS
    <3>3. PICK new : new = <<"ret", l>>
      OBVIOUS
    <3>4. r = IF k <= s.urs[u].cur THEN t
              ELSE [RenameLabel(GenProgLabel(t, new), s.urs[u].label, new) EXCEPT
                      !.urs[u] = [label |-> new, cur |-> k, seen |-> @.seen]]
      BY <1>2, <2>1, <2>5, <2>9, <3>1, <3>2, <3>3 DEF AddSpanOpen
    <3>5. CASE k <= s.urs[u].cur
      BY <2>7, <3>4, <3>5
    <3>6. CASE ~(k <= s.urs[u].cur)
      <4>1. new \in RetName
        BY <3>3 DEF RetName
      <4>2. PICK g : g = GenProgLabel(t, new)
        OBVIOUS
      <4>3. Stays(t, g) /\ Typed(g)
        BY <2>6, <4>1, <4>2, GenProgLabelStays DEF Stays
      <4>4. PICK old : old = s.urs[u].label
        OBVIOUS
      <4>5. u \in DOMAIN s.urs /\ old \in RetName
        BY <2>9, <3>1, <4>4 DEF Kept, Returns
      <4>6. PICK h : h = RenameLabel(g, old, new)
        OBVIOUS
      <4>7. RenamedAs(g, h, old, new) /\ Shaped(h)
        BY <4>3, <4>6, RenamesAll, RenameLabelIs DEF Typed
      <4>8. PICK e : e = [label |-> new, cur |-> k, seen |-> h.urs[u].seen]
        OBVIOUS
      <4>9. r = [h EXCEPT !.urs[u] = e]
        BY <3>4, <3>6, <4>2, <4>4, <4>6, <4>8
      <4>10. r.opts = h.opts /\ r.prog = h.prog /\ r.labels = h.labels
        BY <4>7, <4>9 DEF Shaped, Fields
      <4>11. RenamedAs(g, r, old, new)
        BY <4>7, <4>10 DEF RenamedAs
      <4>12. Stays(g, r)
        BY <1>0, <4>1, <4>5, <4>11, RenamedStays
      <4> QED
        BY <2>7, <4>3, <4>12, StaysOn
    <3> QED
      BY <3>5, <3>6
  <2> QED
    BY <2>8, <2>9
<1> QED
  BY <1>1, <1>2

LEMMA ClosedStays ==
  ASSUME NEW s, Typed(s), NEW name \in RetName, NEW h, h = AddRefOpt(GenProgLabel(s, name), "spanClose", name)
  PROVE  Stays(s, h)
<1>1. PICK g : g = GenProgLabel(s, name)
  OBVIOUS
<1>2. Stays(s, g) /\ Typed(g)
  BY <1>1, GenProgLabelStays DEF Stays
<1>3. name \in Name
  BY NamesApart, Zenon
<1>4. Stays(g, h)
  BY <1>1, <1>2, <1>3, AddRefOptStays
<1> QED
  BY <1>2, <1>4, StaysOn

LEMMA AddSpanCloseStays ==
  ASSUME NEW s, Kept(s), NEW kind \in {"ret", "spanClose"}, NEW r, r = AddSpanClose(s, kind)
  PROVE  Stays(s, r)
<1>0. s.open \in Seq(Label) /\ Typed(s)
  BY KeptTyped DEF Kept, OpenedIn
<1>1. CASE s.open # <<>>
  <2>1. PICK l : l = Last(s.open)
    OBVIOUS
  <2>2. l \in Label
    BY <1>0, <1>1, <2>1 DEF Last
  <2>3. PICK name : name = <<kind, l>>
    OBVIOUS
  <2>4. name \in RetName
    BY <2>2, <2>3 DEF RetName
  <2>5. PICK h : h = AddRefOpt(GenProgLabel(s, name), "spanClose", name)
    OBVIOUS
  <2>6. Stays(s, h) /\ Typed(h)
    BY <1>0, <2>4, <2>5, ClosedStays DEF Stays
  <2>7. r = [h EXCEPT !.open = Front(@)]
    BY <1>1, <2>1, <2>3, <2>5 DEF AddSpanClose
  <2>8. Shaped(r) /\ r.opts = h.opts /\ r.prog = h.prog /\ r.labels = h.labels
    BY <2>6, <2>7 DEF Typed, Shaped, Fields
  <2> QED
    BY <2>6, <2>8, SameStays, StaysOn
<1>2. CASE s.open = <<>> /\ s.seen.n > 0
  <2>1. PICK name : name = <<kind, "unknown">>
    OBVIOUS
  <2>2. name \in RetName
    BY <2>1 DEF RetName
  <2>3. PICK h : h = AddRefOpt(GenProgLabel(s, name), "spanClose", name)
    OBVIOUS
  <2>4. Stays(s, h) /\ Typed(h)
    BY <1>0, <2>2, <2>3, ClosedStays DEF Stays
  <2>5. PICK e : e = [label |-> name, cur |-> 0, seen |-> s.seen]
    OBVIOUS
  <2>6. PICK E : E = Elements(s, s.seen)
    OBVIOUS
  <2>7. PICK n : n = Len(s.urs) + 1
    OBVIOUS
  <2>8. r = [h EXCEPT !.urs = Append(@, e), !.unkRets = [l \in E \cup DOMAIN @ |-> IF l \in E THEN n ELSE @[l]]]
    BY <1>2, <2>1, <2>3, <2>5, <2>6, <2>7 DEF AddSpanClose
  <2>9. Shaped(r) /\ r.opts = h.opts /\ r.prog = h.prog /\ r.labels = h.labels
    BY <2>4, <2>8 DEF Typed, Shaped, Fields
  <2> QED
    BY <2>4, <2>9, SameStays, StaysOn
<1>3. CASE s.open = <<>> /\ ~(s.seen.n > 0)
  <2>1. r = s
    BY <1>3 DEF AddSpanClose
  <2> QED
    BY <1>0, <2>1, SameStays DEF Typed
<1> QED
  BY <1>1, <1>2, <1>3

LEMMA AddProgTokStays ==
  ASSUME NEW s, Kept(s), NEW tok \in {"ret", "op", "word", "alloc"}, NEW r, r = AddProgTok(s, tok, NoTarget)
  PROVE  Stays(s, r)
<1>1. PICK a : a = IF tok = "ret" THEN AddSpanClose(s, "ret") ELSE s
  OBVIOUS
<1>2. r = AddTok(a, tok, NoTarget)
  BY <1>1 DEF AddProgTok
<1>3. Stays(s, a) /\ Typed(a)
  <2>1. CASE tok = "ret"
    BY <1>1, <2>1, AddSpanCloseStays DEF Stays
  <2>2. CASE tok # "ret"
    <3>1. a = s /\ Typed(s)
      BY <1>1, <2>2, KeptTyped
    <3> QED
      BY <3>1, SameStays DEF Typed
  <2> QED
    BY <2>1, <2>2
<1>4. tok \in TokKind
  BY DEF TokKind
<1>5. NoTarget \in Name
  BY Zenon DEF NoTarget, Name, Lbl
<1>6. Stays(a, r)
  BY <1>2, <1>3, <1>4, <1>5, AddTokStays
<1> QED
  BY <1>3, <1>6, StaysOn

LEMMA ReadRefStays ==
  ASSUME NEW s, Kept(s), NEW tok \in {"call", "jump"}, NEW l \in Label,
         NEW r, r = StubLabel(AddProgRef(s, tok, l), Lbl(l))
  PROVE  Stays(s, r)
<1>1. PICK a : a = IF tok = "call" THEN AddSpanOpen(s, l) ELSE s
  OBVIOUS
<1>2. PICK b : b = AddTok(a, tok, Lbl(l))
  OBVIOUS
<1>3. r = StubLabel(b, Lbl(l))
  BY <1>1, <1>2 DEF AddProgRef
<1>4. Stays(s, a) /\ Typed(a)
  <2>1. CASE tok = "call"
    BY <1>1, <2>1, AddSpanOpenStays DEF Stays
  <2>2. CASE tok # "call"
    <3>1. a = s /\ Typed(s)
      BY <1>1, <2>2, KeptTyped
    <3> QED
      BY <3>1, SameStays DEF Typed
  <2> QED
    BY <2>1, <2>2
<1>5. tok \in TokKind
  BY DEF TokKind
<1>6. Stays(a, b) /\ Typed(b)
  BY <1>2, <1>4, <1>5, LblIsName, AddTokStays DEF Stays
<1>7. Stays(b, r)
  BY <1>3, <1>6, StubLabelStays
<1> QED
  BY <1>4, <1>6, <1>7, StaysOn

LEMMA EntryIs ==
  ASSUME NEW s, NEW l, NEW r \in Entry(s, l), NEW n, n = <<"entry", "">>
  PROVE  ~Defined(s, n) /\ r = AddRefOpt(AddLabel(s, n), "entry", Lbl(l))
BY Zenon DEF Entry, EntryAgain

LEMMA EntryStays ==
  ASSUME NEW s, Typed(s), NEW l \in Label, NEW r \in Entry(s, l)
  PROVE  Stays(s, r) /\ SamePending(r, s)
<1>1. PICK n : n = <<"entry", "">>
  BY Zenon
<1>2. n \notin RegName /\ NotName(n)
  BY <1>1, EntryName, Zenon DEF NotName
<1>3. PICK a : a = AddLabel(s, n)
  OBVIOUS
<1>4. r = AddRefOpt(AddLabel(s, n), "entry", Lbl(l))
  BY <1>1, EntryIs, Zenon
<1>5. Stays(s, a) /\ Typed(a) /\ SamePending(a, s)
  BY <1>2, <1>3, AddLabelStays DEF Stays
<1>6. Stays(a, r) /\ SamePending(r, a)
  BY <1>3, <1>4, <1>5, LblIsName, AddRefOptStays
<1> QED
  BY <1>5, <1>6, StaysOn DEF SamePending

LEMMA SpanOpenStays ==
  ASSUME NEW s, Kept(s), NEW l \in Label, NEW r \in SpanOpen(s, l)
  PROVE  Stays(s, r) /\ SamePending(r, s)
<1>1. PICK a : a = AddSpanOpen(s, l)
  OBVIOUS
<1>2. Stays(s, a) /\ Typed(a) /\ SamePending(a, s)
  BY <1>1, AddSpanOpenStays, AddSpanOpenKeeps DEF Stays
<1>3. r = [a EXCEPT !.open = Append(@, l), !.seen.n = 0]
  BY <1>1 DEF SpanOpen
<1>4. Shaped(r) /\ SamePending(r, a) /\ r.opts = a.opts /\ r.prog = a.prog /\ r.labels = a.labels
  BY <1>2, <1>3 DEF Typed, Shaped, Fields, SamePending
<1>5. Stays(a, r)
  BY <1>2, <1>4, SameStays
<1> QED
  BY <1>2, <1>4, <1>5, StaysOn DEF SamePending

LEMMA SetOptionStays ==
  ASSUME NEW s, Core(s), NEW o \in Options, NEW arg \in Nat, NEW r, r = SetOption(s, o, arg)
  PROVE  Stays(s, r) /\ SamePending(r, s) /\ r.prog = s.prog /\ r.labels = s.labels
<1>1. Core(r) /\ SamePending(r, s) /\ r.prog = s.prog /\ r.labels = s.labels /\ SameOpts(s, r)
  BY SetOptionKeeps
<1>2. Typed(r)
  BY <1>1 DEF Core, CoreType, Typed
<1>3. OptsStay(s, r) /\ ToksStay(s, r)
  BY <1>1 DEF OptsStay, ToksStay, SameOpts
<1>4. "name" \notin Options
  BY DEF Options
<1>5. LabelsStay(s, r) /\ NoName(s, r)
  BY <1>1, <1>4 DEF LabelsStay, NoName, Defined, SameOpts
<1> QED
  BY <1>1, <1>2, <1>3, <1>5 DEF Stays

\* A region that waits for its end is data from its label to the end of the program.
Waits(s, l) ==
  /\ Defined(s, Lbl(l)) /\ s.labels[Lbl(l)] <= Len(s.prog) + 1
  /\ DataIn(s, s.labels[Lbl(l)], Len(s.prog))
NonePending(s) == s.pendIn = None /\ s.pendOut = None
Pending(s) ==
  /\ s.pendIn = None \/ s.pendOut = None
  /\ \A l \in Label : l \in {s.pendIn, s.pendOut} => s.state = "data" /\ Waits(s, l)
InRegions(s) == Named(s) /\ Pending(s)

LEMMA RegionNamed ==
  ASSUME NEW s, Kept(s), Named(s), NEW l \in Label, Waits(s, l), NEW opt \in {"input", "output"},
         NEW r \in Region(s, opt, l)
  PROVE  Named(r) /\ Typed(r)
<1>0. Typed(r) /\ Typed(s)
  BY RegionKeeps, KeptTyped
<1>1. PICK end, name, lbl : end = <<"end", l>> /\ name = <<"name", l>> /\ lbl = Lbl(l)
  OBVIOUS
<1>2. /\ lbl \in RegName /\ end \in RegName /\ name \in RegName
      /\ lbl # end /\ lbl # name /\ end # name
  <2>1. lbl # name /\ end # name
    BY <1>1, LblNotName DEF NotName
  <2>2. lbl # end
    BY <1>1, Zenon DEF Lbl
  <2>3. Lbl(l) \in RegName /\ <<"end", l>> \in RegName /\ <<"name", l>> \in RegName
    BY RegNames
  <2> QED
    BY <1>1, <2>1, <2>2, <2>3
<1>3. PICK s1, s2, s3, s4, s5 :
        /\ s1 = AddLabel(s, end) /\ s2 = AddRefOpt(s1, opt, lbl) /\ s3 = AddRefOpt(s2, opt, end)
        /\ s4 = AddRefOpt(s3, "name", name) /\ s5 = AddLabel(s4, name)
  OBVIOUS
<1>4. ~Defined(s, end) /\ r = AddTok(s5, "string", lbl)
  BY <1>1, <1>3 DEF Region, AddProgTok
<1>5. PICK P \in Nat, n \in Nat : P = Len(s.prog) /\ n = Len(s.opts)
  BY <1>0 DEF Typed
<1>6. PICK oa, ob, oc, t : /\ oa = [opt |-> opt, targ |-> lbl, arg |-> 0] /\ ob = [opt |-> opt, targ |-> end, arg |-> 0]
                           /\ oc = [opt |-> "name", targ |-> name, arg |-> 0] /\ t = [tok |-> "string", targ |-> lbl]
  OBVIOUS
<1>7. /\ Shaped(s1) /\ s1.labels = With(s.labels, end, P + 1) /\ s1.prog = s.prog /\ s1.opts = s.opts
  BY <1>0, <1>3, <1>5, AddLabelIs DEF Typed
<1>8. Shaped(s2) /\ s2.labels = s1.labels /\ s2.prog = s.prog /\ s2.opts = Append(s.opts, oa)
  BY <1>3, <1>6, <1>7 DEF AddRefOpt, AddOpt, Shaped, Fields
<1>9. Shaped(s3) /\ s3.labels = s1.labels /\ s3.prog = s.prog /\ s3.opts = Append(s2.opts, ob)
  BY <1>3, <1>6, <1>8 DEF AddRefOpt, AddOpt, Shaped, Fields
<1>10. Shaped(s4) /\ s4.labels = s1.labels /\ s4.prog = s.prog /\ s4.opts = Append(s3.opts, oc)
  BY <1>3, <1>6, <1>9 DEF AddRefOpt, AddOpt, Shaped, Fields
<1>11. Shaped(s5) /\ s5.labels = With(s1.labels, name, P + 1) /\ s5.prog = s.prog /\ s5.opts = s4.opts
  BY <1>3, <1>5, <1>10, AddLabelIs
<1>12. r.labels = s5.labels /\ r.prog = Append(s.prog, t) /\ r.opts = s4.opts
  BY <1>4, <1>6, <1>11, AddTokIs
<1>13. oa \in OptTok /\ ob \in OptTok /\ oc \in OptTok /\ t \in Tok
  <2>1. opt \in OptKind /\ "name" \in OptKind /\ "string" \in TokKind
    BY DEF OptKind, TokKind
  <2>2. lbl \in Name /\ end \in Name /\ name \in Name
    BY <1>1, LblIsName
  <2> QED
    BY <1>6, <2>1, <2>2 DEF OptTok, Tok
<1>14. /\ DOMAIN s.opts = 1 .. n /\ DOMAIN r.opts = 1 .. n + 3
       /\ r.opts[n + 1] = oa /\ r.opts[n + 2] = ob /\ r.opts[n + 3] = oc
       /\ \A k \in 1 .. n : r.opts[k] = s.opts[k]
  <2>1. s.opts \in Seq(OptTok)
    BY <1>0 DEF Typed
  <2>2. /\ s2.opts \in Seq(OptTok) /\ Len(s2.opts) = n + 1 /\ DOMAIN s2.opts = 1 .. n + 1 /\ DOMAIN s.opts = 1 .. n
        /\ s2.opts[n + 1] = oa /\ \A k \in 1 .. n : s2.opts[k] = s.opts[k]
    BY <1>5, <1>8, <1>13, <2>1, Appended
  <2>3. /\ s3.opts \in Seq(OptTok) /\ Len(s3.opts) = n + 2 /\ DOMAIN s3.opts = 1 .. n + 2
        /\ s3.opts[n + 2] = ob /\ \A k \in 1 .. n + 1 : s3.opts[k] = s2.opts[k]
    BY <1>9, <1>13, <2>2, Appended
  <2>4. /\ s4.opts \in Seq(OptTok) /\ DOMAIN s4.opts = 1 .. n + 3
        /\ s4.opts[n + 3] = oc /\ \A k \in 1 .. n + 2 : s4.opts[k] = s3.opts[k]
    BY <1>10, <1>13, <2>3, Appended
  <2> QED
    BY <1>12, <2>2, <2>3, <2>4
<1>15. /\ DOMAIN s.prog = 1 .. P /\ DOMAIN r.prog = 1 .. P + 1
       /\ r.prog[P + 1] = t /\ \A k \in 1 .. P : r.prog[k] = s.prog[k]
  BY <1>0, <1>5, <1>12, <1>13, Appended DEF Typed
<1>16. /\ DOMAIN r.labels = DOMAIN s.labels \cup {end, name}
       /\ r.labels[end] = P + 1 /\ r.labels[name] = P + 1
       /\ \A x \in DOMAIN s.labels : x # end /\ x # name => r.labels[x] = s.labels[x]
  BY <1>2, <1>7, <1>11, <1>12 DEF With
<1>17. name \notin DOMAIN s.labels
  BY <1>1, <1>4 DEF Named
<1>18. OptsStay(s, r) /\ ToksStay(s, r)
  BY <1>14, <1>15 DEF OptsStay, ToksStay
<1>19. LabelsStay(s, r)
  BY <1>4, <1>16, <1>17 DEF LabelsStay, Defined
<1>20. RegionAt(r, n + 3, l)
  <2>1. Defined(r, end) /\ Defined(r, name)
    BY <1>16 DEF Defined, Undefined
  <2>2. /\ Defined(s, lbl) /\ s.labels[lbl] <= P + 1 /\ DataIn(s, s.labels[lbl], P)
    BY <1>1, <1>5 DEF Waits
  <2>3. Defined(r, lbl) /\ r.labels[lbl] = s.labels[lbl]
    BY <1>2, <1>19, <2>2 DEF LabelsStay
  <2>4. DataIn(r, r.labels[lbl], r.labels[end] - 1)
    <3>1. PICK x : x = s.labels[lbl]
      OBVIOUS
    <3>2. \A p \in x .. P : p \in DOMAIN s.prog /\ s.prog[p].tok \in {"word", "alloc"}
      BY <2>2, <3>1 DEF DataIn
    <3>3. \A p \in x .. P : p \in DOMAIN r.prog /\ r.prog[p].tok \in {"word", "alloc"}
      BY <1>15, <3>2
    <3>4. r.labels[end] - 1 = P
      BY <1>16
    <3> QED
      BY <2>3, <3>1, <3>3, <3>4 DEF DataIn
  <2>5. IsString(r, r.labels[name], l)
    <3>1. P + 1 \in DOMAIN r.prog /\ r.prog[P + 1].tok = "string" /\ r.prog[P + 1].targ = lbl
      BY <1>6, <1>15
    <3> QED
      BY <1>1, <1>16, <3>1 DEF IsString
  <2>6. r.labels[lbl] <= r.labels[end]
    BY <1>16, <2>2, <2>3
  <2>7. Bounds(r, l)
    BY <1>1, <2>1, <2>3, <2>4, <2>5, <2>6 DEF Bounds
  <2>8. /\ n + 3 - 2 \in DOMAIN r.opts /\ n + 3 - 1 \in DOMAIN r.opts /\ n + 3 \in DOMAIN r.opts
        /\ r.opts[n + 3 - 2] = oa /\ r.opts[n + 3 - 1] = ob
    <3>1. n + 3 - 2 = n + 1 /\ n + 3 - 1 = n + 2
      OBVIOUS
    <3> QED
      BY <1>14, <3>1
  <2>9. /\ oa.opt = ob.opt /\ oa.targ = Lbl(l) /\ ob.targ = <<"end", l>> /\ oc.targ = <<"name", l>>
    BY <1>1, <1>6
  <2> QED
    BY <1>14, <2>7, <2>8, <2>9 DEF RegionAt
<1>21. ASSUME NEW k \in DOMAIN r.opts, r.opts[k].opt = "name"
       PROVE  \E m \in Label : RegionAt(r, k, m)
  <2>1. CASE k \in 1 .. n
    <3>1. PICK m \in Label : RegionAt(s, k, m)
      BY <1>14, <1>21, <2>1 DEF Named
    <3> QED
      BY <1>18, <1>19, <3>1, RegionStays
  <2>2. CASE k = n + 3
    BY <1>20, <2>2
  <2>3. CASE k = n + 1 \/ k = n + 2
    BY <1>6, <1>14, <1>21, <2>3
  <2> QED
    BY <1>14, <2>1, <2>2, <2>3
<1>22. ASSUME NEW m \in Label, <<"name", m>> \in DOMAIN r.labels
       PROVE  Defined(r, <<"end", m>>)
  <2>1. PICK a, b : a = <<"name", m>> /\ b = <<"end", m>>
    OBVIOUS
  <2>2. CASE a = name
    <3>1. b = end
      BY <1>1, <2>1, <2>2
    <3> QED
      BY <1>16, <2>1, <3>1 DEF Defined, Undefined
  <2>3. CASE a # name
    <3>1. a # end
      BY <1>1, <2>1
    <3>2. a \in DOMAIN s.labels
      BY <1>16, <1>22, <2>1, <2>3, <3>1
    <3>3. Defined(s, b)
      BY <2>1, <3>2 DEF Named
    <3>4. b \in RegName
      BY <2>1, RegNames
    <3> QED
      BY <1>19, <2>1, <3>3, <3>4 DEF LabelsStay
  <2> QED
    BY <2>2, <2>3
<1> QED
  BY <1>0, <1>21, <1>22 DEF Named

LEMMA NoneIsNoLabel == \A l \in Label : l # None
BY LabelAssumption, Zenon

PendWaits(s) ==
  /\ s.pendIn = None \/ s.pendOut = None
  /\ \A l \in Label : l \in {s.pendIn, s.pendOut} => Waits(s, l)

LEMMA SameNamed ==
  ASSUME NEW s, Typed(s), Named(s), NEW r, Shaped(r), r.opts = s.opts, r.labels = s.labels, r.prog = s.prog
  PROVE  Named(r) /\ Typed(r) /\ \A l : Waits(s, l) => Waits(r, l)
<1>1. Stays(s, r)
  BY SameStays
<1>2. Named(r) /\ Typed(r)
  BY <1>1, StaysNamed DEF Stays
<1>3. \A l : Waits(s, l) => Waits(r, l)
  BY DEF Waits, Defined, DataIn
<1> QED
  BY <1>2, <1>3

LEMMA FinishInNamed ==
  ASSUME NEW s, Sound(s), Named(s), PendWaits(s), NEW r \in FinishIn(s)
  PROVE  /\ Sound(r) /\ Named(r) /\ PendWaits(r) /\ r.state = s.state
         /\ r.pendIn = None /\ r.pendOut = s.pendOut
<1>0. Sound(r) /\ r.state = s.state /\ r.pendOut = s.pendOut /\ r.pendIn = None
  BY FinishInKeeps
<1>1. CASE s.pendIn = None
  BY <1>1 DEF FinishIn
<1>2. CASE s.pendIn # None
  <2>1. PICK t \in Region(s, "input", s.pendIn) : r = [t EXCEPT !.pendIn = None]
    BY <1>2 DEF FinishIn
  <2>2. PICK l \in Label : l = s.pendIn
    BY <1>2 DEF Sound, Pends
  <2>3. Waits(s, l) /\ s.pendOut = None
    BY <1>2, <2>2 DEF PendWaits
  <2>4. Named(t) /\ Typed(t)
    BY <2>1, <2>2, <2>3, RegionNamed DEF Sound
  <2>5. Shaped(r) /\ r.opts = t.opts /\ r.prog = t.prog /\ r.labels = t.labels
    BY <2>1, <2>4 DEF Typed, Shaped, Fields
  <2>6. Named(r)
    BY <2>4, <2>5, SameNamed
  <2>7. PendWaits(r)
    BY <1>0, <2>3, NoneIsNoLabel DEF PendWaits
  <2> QED
    BY <1>0, <2>6, <2>7
<1> QED
  BY <1>1, <1>2

LEMMA FinishOutNamed ==
  ASSUME NEW s, Sound(s), Named(s), PendWaits(s), NEW r \in FinishOut(s)
  PROVE  /\ Sound(r) /\ Named(r) /\ PendWaits(r) /\ r.state = s.state
         /\ r.pendOut = None /\ r.pendIn = s.pendIn
<1>0. Sound(r) /\ r.state = s.state /\ r.pendIn = s.pendIn /\ r.pendOut = None
  BY FinishOutKeeps
<1>1. CASE s.pendOut = None
  BY <1>1 DEF FinishOut
<1>2. CASE s.pendOut # None
  <2>1. PICK t \in Region(s, "output", s.pendOut) : r = [t EXCEPT !.pendOut = None]
    BY <1>2 DEF FinishOut
  <2>2. PICK l \in Label : l = s.pendOut
    BY <1>2 DEF Sound, Pends
  <2>3. Waits(s, l) /\ s.pendIn = None
    BY <1>2, <2>2 DEF PendWaits
  <2>4. Named(t) /\ Typed(t)
    BY <2>1, <2>2, <2>3, RegionNamed DEF Sound
  <2>5. Shaped(r) /\ r.opts = t.opts /\ r.prog = t.prog /\ r.labels = t.labels
    BY <2>1, <2>4 DEF Typed, Shaped, Fields
  <2>6. Named(r)
    BY <2>4, <2>5, SameNamed
  <2>7. PendWaits(r)
    BY <1>0, <2>3, NoneIsNoLabel DEF PendWaits
  <2> QED
    BY <1>0, <2>6, <2>7
<1> QED
  BY <1>1, <1>2

LEMMA NothingPends ==
  ASSUME NEW s, Named(s), NonePending(s)
  PROVE  InRegions(s) /\ PendWaits(s)
BY NoneIsNoLabel DEF InRegions, Pending, PendWaits, NonePending

LEMMA InText ==
  ASSUME NEW s, Sound(s), InRegions(s), s.state = "text"
  PROVE  NonePending(s)
BY DEF Sound, Pends, InRegions, Pending, NonePending

LEMMA EnterTextNamed ==
  ASSUME NEW s, Sound(s), InRegions(s), s.state \in States, NEW r \in EnterText(s)
  PROVE  InRegions(r) /\ NonePending(r) /\ r.state = "text"
<1>0. r.state = "text"
  BY EnterTextKeeps DEF States
<1>1. PICK t : t = [s EXCEPT !.state = "text"]
  OBVIOUS
<1>2. Typed(s)
  BY SoundTyped
<1>3. /\ Shaped(t) /\ t.opts = s.opts /\ t.prog = s.prog /\ t.labels = s.labels /\ t.adls = s.adls /\ t.ptrs = s.ptrs
      /\ SameSpans(t, s) /\ t.pendIn = s.pendIn /\ t.pendOut = s.pendOut
  BY <1>1, <1>2 DEF Typed, Shaped, Fields, SameSpans
<1>4. Sound(t)
  BY <1>3, StateChange DEF Sound, Pends
<1>5. Named(t) /\ \A l : Waits(s, l) => Waits(t, l)
  BY <1>2, <1>3, SameNamed DEF InRegions
<1>6. PendWaits(t)
  BY <1>3, <1>5 DEF InRegions, Pending, PendWaits
<1>7. CASE s.state = "text"
  <2>1. r = s
    BY <1>7 DEF EnterText
  <2> QED
    BY <1>7, <2>1, InText
<1>8. CASE s.state = "data" /\ s.pendIn # None
  <2>1. r \in FinishIn(t)
    BY <1>1, <1>8 DEF EnterText
  <2>2. Named(r) /\ r.pendIn = None /\ r.pendOut = t.pendOut
    BY <1>4, <1>5, <1>6, <2>1, FinishInNamed
  <2>3. t.pendOut = None
    BY <1>3, <1>6, <1>8 DEF PendWaits
  <2> QED
    BY <1>0, <2>2, <2>3, NothingPends DEF NonePending
<1>9. CASE s.state = "data" /\ s.pendIn = None
  <2>1. r \in FinishOut(t)
    BY <1>1, <1>9 DEF EnterText
  <2>2. Named(r) /\ r.pendOut = None /\ r.pendIn = t.pendIn
    BY <1>4, <1>5, <1>6, <2>1, FinishOutNamed
  <2> QED
    BY <1>0, <1>3, <1>9, <2>2, NothingPends DEF NonePending
<1> QED
  BY <1>7, <1>8, <1>9 DEF States

LEMMA HandleLabelNamed ==
  ASSUME NEW s, Sound(s), InRegions(s), NEW l \in Label, NEW r \in HandleLabel(s, l)
  PROVE  InRegions(r) /\ NonePending(r) /\ Waits(r, l) /\ r.state = s.state
<1>0. r.state = s.state
  BY HandleLabelKeeps
<1> DEFINE Opened(b) == IF l \in b.opens THEN [b EXCEPT !.open = Append(@, l), !.seen.n = 0] ELSE Push(b, l)
<1>1. PICK a, b, c :
        /\ a \in FinishIn(s) /\ b \in FinishOut(a) /\ ~Defined(b, Lbl(l))
        /\ c = Opened(b)
        /\ r = AddLabel(AddAddrLabel(c, Lbl(l)), Lbl(l))
  <2> DEFINE Read(b) == AddLabel(AddAddrLabel(Opened(b), Lbl(l)), Lbl(l))
  <2> DEFINE U == UNION {FinishOut(t) : t \in FinishIn(s)}
  <2>1. r \in {Read(b) : b \in {u \in U : ~Defined(u, Lbl(l))}}
    BY ZenonT(60) DEF HandleLabel
  <2> HIDE DEF Read, U, Opened
  <2>2. PICK b \in U : ~Defined(b, Lbl(l)) /\ r = Read(b)
    BY <2>1
  <2>3. \E a \in FinishIn(s) : b \in FinishOut(a)
    <3>1. PICK X : X \in {FinishOut(t) : t \in FinishIn(s)} /\ b \in X
      BY Zenon DEF U
    <3> QED
      BY <3>1, Zenon
  <2>4. PICK a \in FinishIn(s) : b \in FinishOut(a)
    BY <2>3
  <2> QED
    BY <2>2, <2>4 DEF Read
<1>2. PendWaits(s) /\ Named(s)
  BY DEF InRegions, Pending, PendWaits
<1>3. Sound(a) /\ Named(a) /\ PendWaits(a) /\ a.pendIn = None
  BY <1>1, <1>2, FinishInNamed
<1>4. Sound(b) /\ Named(b) /\ b.pendOut = None /\ b.pendIn = None
  BY <1>1, <1>3, FinishOutNamed
<1>5. Typed(b)
  BY <1>4, SoundTyped
<1>6. /\ Shaped(c) /\ c.pendIn = None /\ c.pendOut = None
      /\ c.opts = b.opts /\ c.prog = b.prog /\ c.labels = b.labels
  <2>1. CASE l \in b.opens
    <3>1. c = [b EXCEPT !.open = Append(@, l), !.seen.n = 0]
      BY <1>1, <2>1
    <3> QED
      BY <1>4, <1>5, <3>1 DEF Typed, Shaped, Fields
  <2>2. CASE l \notin b.opens
    <3>1. c = Push(b, l)
      BY <1>1, <2>2
    <3> QED
      BY <1>4, <1>5, <3>1, PushIs DEF Typed, SamePending
  <2> QED
    BY <2>1, <2>2
<1>7. PICK d : d = AddAddrLabel(c, Lbl(l))
  OBVIOUS
<1>8. /\ Shaped(d) /\ d.pendIn = None /\ d.pendOut = None
      /\ d.opts = b.opts /\ d.prog = b.prog /\ d.labels = b.labels
  BY <1>6, <1>7, AddAddrLabelIs DEF SamePending
<1>9. Named(d) /\ Typed(d)
  BY <1>4, <1>5, <1>8, SameNamed
<1>10. r = AddLabel(d, Lbl(l))
  BY <1>1, <1>7
<1>11. ~Defined(d, Lbl(l))
  BY <1>1, <1>8 DEF Defined
<1>12. Stays(d, r) /\ SamePending(r, d)
  BY <1>9, <1>10, <1>11, LblNotName, AddLabelStays
<1>13. Named(r) /\ NonePending(r)
  BY <1>8, <1>9, <1>12, StaysNamed DEF SamePending, NonePending
<1>14. PICK n \in Nat : n = Len(d.prog)
  BY <1>9 DEF Typed
<1>15. r.labels = With(d.labels, Lbl(l), n + 1) /\ r.prog = d.prog
  BY <1>8, <1>10, <1>14, AddLabelIs
<1>16. Waits(r, l)
  <2>1. Lbl(l) \in DOMAIN r.labels /\ r.labels[Lbl(l)] = n + 1 /\ Len(r.prog) = n
    BY <1>14, <1>15 DEF With
  <2> QED
    BY <2>1 DEF Waits, Defined, Undefined, DataIn
<1> QED
  BY <1>0, <1>13, <1>16, NothingPends

\* Where no region waits.
LEMMA StaysInRegions ==
  ASSUME NEW s, Named(s), NonePending(s), NEW r, Stays(s, r), SamePending(r, s)
  PROVE  InRegions(r) /\ NonePending(r) /\ r.state = s.state
<1>1. Named(r) /\ NonePending(r)
  BY StaysNamed DEF NonePending, SamePending
<1> QED
  BY <1>1, NothingPends DEF SamePending

LEMMA DataInRegions ==
  ASSUME NEW s, Kept(s), InRegions(s), NEW tok \in {"word", "alloc"}, NEW r, r = AddProgTok(s, tok, NoTarget)
  PROVE  InRegions(r) /\ r.state = s.state /\ r.pendIn = s.pendIn /\ r.pendOut = s.pendOut
<1>1. Stays(s, r)
  BY AddProgTokStays
<1>2. Named(r)
  BY <1>1, StaysNamed DEF InRegions
<1>3. PICK targ : targ = NoTarget
  OBVIOUS
<1>4. r = AddTok(s, tok, targ)
  BY <1>3 DEF AddProgTok
<1>5. PICK t : t = [tok |-> tok, targ |-> targ]
  OBVIOUS
<1>6. Typed(s) /\ Typed(r)
  BY <1>1, KeptTyped DEF Stays
<1>7. /\ SamePending(r, s) /\ r.prog = Append(s.prog, t) /\ r.labels = s.labels
  BY <1>4, <1>5, <1>6, AddTokIs DEF Typed
<1>8. PICK n \in Nat : n = Len(s.prog)
  BY <1>6 DEF Typed
<1>9. DOMAIN s.prog = 1 .. n /\ DOMAIN r.prog = 1 .. n + 1 /\ Len(r.prog) = n + 1 /\ r.prog[n + 1] = t
      /\ \A k \in 1 .. n : r.prog[k] = s.prog[k]
  BY <1>6, <1>7, <1>8 DEF Typed
<1>10. ASSUME NEW l \in Label, Waits(s, l) PROVE Waits(r, l)
  <2>1. PICK x : x = s.labels[Lbl(l)]
    OBVIOUS
  <2>2. Defined(s, Lbl(l)) /\ x <= n + 1 /\ x \in Nat
    <3>1. Defined(s, Lbl(l)) /\ x <= n + 1
      BY <1>8, <1>10, <2>1 DEF Waits
    <3>2. x \in 0 .. Len(s.prog) + 1
      BY <2>1, <3>1 DEF Defined, Kept, Core, CoreType
    <3> QED
      BY <1>8, <3>1, <3>2
  <2>3. \A p \in x .. n : p \in DOMAIN s.prog /\ s.prog[p].tok \in {"word", "alloc"}
    BY <1>8, <1>10, <2>1 DEF Waits, DataIn
  <2>4. \A p \in x .. n + 1 : p \in DOMAIN r.prog /\ r.prog[p].tok \in {"word", "alloc"}
    <3>1. n + 1 \in DOMAIN r.prog /\ r.prog[n + 1].tok \in {"word", "alloc"}
      BY <1>5, <1>9
    <3>2. \A p \in x .. n + 1 : p = n + 1 \/ p \in x .. n
      BY <2>2
    <3> QED
      BY <1>9, <2>3, <3>1, <3>2
  <2>5. Defined(r, Lbl(l)) /\ r.labels[Lbl(l)] = x /\ x <= n + 2
    BY <1>7, <2>1, <2>2 DEF Defined
  <2> QED
    BY <1>9, <2>4, <2>5 DEF Waits, DataIn
<1>11. Pending(r)
  BY <1>7, <1>10 DEF InRegions, Pending, SamePending
<1> QED
  BY <1>2, <1>7, <1>11 DEF InRegions, SamePending

LEMMA OptionInRegions ==
  ASSUME NEW s, Core(s), InRegions(s), NEW o \in Options, NEW arg \in Nat, NEW r, r = SetOption(s, o, arg)
  PROVE  InRegions(r) /\ r.state = s.state /\ r.pendIn = s.pendIn /\ r.pendOut = s.pendOut
<1>1. Stays(s, r) /\ SamePending(r, s) /\ r.prog = s.prog /\ r.labels = s.labels
  BY SetOptionStays
<1>2. Named(r)
  BY <1>1, StaysNamed DEF InRegions
<1>3. \A l : Waits(s, l) => Waits(r, l)
  BY <1>1 DEF Waits, Defined, DataIn
<1>4. Pending(r)
  BY <1>1, <1>3 DEF InRegions, Pending, SamePending
<1> QED
  BY <1>1, <1>2, <1>4 DEF InRegions, SamePending

\* An input that includes others has no regions, and no directive asks for a label behind .in or .out.
RegionsAlone ==
  /\ "include" \notin input.items \/ {"in", "out"} \cap input.items = {}
  /\ \A pair \in Nested : pair[1] \notin {"in", "out"}
Asks == want = <<"in">> \/ want = <<"out">>
Wanted ==
  \/ want = <<>> /\ label = None
  \/ want # <<>> /\ (\A k \in DOMAIN want : want[k] \in {"entry", "spanOpen"}) /\ sc.state = "text"
  \/ Asks /\ sc.state = "data" /\ (label # None => NonePending(sc) /\ Waits(sc, label))
Included ==
  /\ "include" \in input.items => NonePending(sc) /\ ~Asks
  /\ prior # <<>> => "include" \in input.items
Alone == InRegions(sc) /\ (pc = "scan" => Wanted) /\ Included
RegInv == RegionsAlone => Alone

\* What a step makes of the regions.
Good(s, r) == InRegions(r) /\ (NonePending(s) => NonePending(r))

LEMMA SelfGood ==
  ASSUME NEW s, InRegions(s)
  PROVE  Good(s, s)
BY DEF Good

LEMMA BecameGood ==
  ASSUME InRegions(sc), NEW R, \A r \in R : Good(sc, r), Becomes(R)
  PROVE  Good(sc, sc') /\ (pc' = "scan" => sc' \in R)
<1>1. CASE R = {}
  <2>1. pc' = "failed" /\ sc' = sc
    BY <1>1 DEF Becomes
  <2> QED
    BY <2>1, SelfGood
<1>2. CASE R # {}
  BY <1>2 DEF Becomes
<1> QED
  BY <1>1, <1>2

LEMMA TookAlone ==
  ASSUME Alone, NEW item, NEW S, Takes(item, S), NEW R, \A r \in R : Good(sc, r), Becomes(R), UNCHANGED input
  PROVE  Alone'
<1>1. InRegions(sc)
  BY DEF Alone
<1>2. Good(sc, sc')
  BY <1>1, BecameGood
<1>3. want = <<>> /\ want' = want /\ label' = label /\ prior' = prior /\ pc = "scan"
  BY DEF Takes
<1>4. label = None
  BY <1>3 DEF Alone, Wanted, Asks
<1>5. Wanted'
  BY <1>3, <1>4 DEF Wanted
<1>6. Included'
  <2>1. "include" \in input'.items => NonePending(sc')
    BY <1>2 DEF Alone, Included, Good
  <2>2. ~Asks'
    BY <1>3 DEF Asks
  <2>3. prior' # <<>> => "include" \in input'.items
    BY <1>3 DEF Alone, Included
  <2> QED
    BY <2>1, <2>2, <2>3 DEF Included
<1>7. InRegions(sc')
  BY <1>2 DEF Good
<1> QED
  BY <1>5, <1>6, <1>7 DEF Alone

LEMMA Asked ==
  ASSUME Alone, NEW item, NEW S, Takes(item, S)
  PROVE  sc.state \in S
BY DEF Takes

\* A directive that wants a label for a mark in the text.
LEMMA MarkAlone ==
  ASSUME Inv, Alone, RegionsAlone, NEW role \in {"entry", "spanOpen"}, NEW S, Directive(role, S), NEW R,
         \A r \in R : Good(sc, r) /\ r.state = "text", Becomes(R), UNCHANGED input
  PROVE  Alone'
<1>1. InRegions(sc)
  BY DEF Alone
<1>2. Good(sc, sc') /\ (pc' = "scan" => sc' \in R)
  <2>1. \A r \in R : Good(sc, r)
    OBVIOUS
  <2> QED
    BY <1>1, <2>1, BecameGood
<1>3. want' = Append(want, role) /\ prior' = prior /\ label' = label /\ pc = "scan"
  BY DEF Directive
<1>4. want = <<>> \/ (\A k \in DOMAIN want : want[k] \in {"entry", "spanOpen"})
  <2> SUFFICES ASSUME want # <<>>, Asks PROVE FALSE
    BY <1>3 DEF Alone, Wanted
  <2>1. <<Last(want), role>> \in Nested
    BY DEF Directive
  <2>2. Last(want) \in {"in", "out"}
    BY DEF Asks, Last
  <2> QED
    BY <2>1, <2>2 DEF RegionsAlone
<1>5. PICK w, v : w = want /\ v = want'
  OBVIOUS
<1>6. w \in Seq(Roles) /\ v = Append(w, role)
  BY <1>3, <1>5 DEF Inv
<1>7. /\ DOMAIN w = 1 .. Len(w) /\ DOMAIN v = 1 .. Len(w) + 1 /\ Len(w) \in Nat /\ v[Len(w) + 1] = role
      /\ \A k \in DOMAIN w : v[k] = w[k]
  BY <1>6 DEF Roles
<1>8. \A k \in DOMAIN v : v[k] \in {"entry", "spanOpen"}
  BY <1>4, <1>5, <1>7
<1>9. v # <<>> /\ v # <<"in">> /\ v # <<"out">>
  <2>1. Len(w) + 1 \in DOMAIN v /\ v[Len(w) + 1] \in {"entry", "spanOpen"}
    BY <1>7
  <2>2. v # <<>>
    BY <2>1
  <2>3. ASSUME NEW e \in {"in", "out"}, v = <<e>> PROVE FALSE
    <3>1. 1 \in DOMAIN v /\ v[1] = e
      BY <2>3
    <3> QED
      BY <1>8, <3>1
  <2> QED
    BY <2>2, <2>3
<1>10. pc' = "scan" => Wanted'
  <2>1. pc' = "scan" => sc'.state = "text"
    BY <1>2
  <2> QED
    BY <1>5, <1>8, <1>9, <2>1 DEF Wanted
<1>11. Included'
  <2>1. "include" \in input'.items => NonePending(sc')
    BY <1>2 DEF Alone, Included, Good
  <2>2. ~Asks'
    BY <1>5, <1>9 DEF Asks
  <2>3. prior' # <<>> => "include" \in input'.items
    BY <1>3 DEF Alone, Included
  <2> QED
    BY <2>1, <2>2, <2>3 DEF Included
<1> QED
  BY <1>2, <1>10, <1>11 DEF Alone, Good

\* .in and .out stand by themselves.
LEMMA AskAlone ==
  ASSUME Inv, Alone, RegionsAlone, NEW role \in {"in", "out"}, Directive(role, {"data"}), Becomes({sc}), UNCHANGED input
  PROVE  Alone'
<1>1. sc' = sc /\ pc' = "scan" /\ want' = Append(want, role) /\ prior' = prior /\ label' = label /\ pc = "scan"
      /\ sc.state = "data" /\ role \in input.items
  BY DEF Directive, Becomes
<1>2. want = <<>>
  <2> SUFFICES ASSUME want # <<>>, Asks PROVE FALSE
    BY <1>1 DEF Alone, Wanted
  <2>1. <<Last(want), role>> \in Nested
    BY DEF Directive
  <2>2. Last(want) \in {"in", "out"}
    BY DEF Asks, Last
  <2> QED
    BY <2>1, <2>2 DEF RegionsAlone
<1>3. want' = <<role>>
  BY <1>1, <1>2
<1>4. label = None
  BY <1>1, <1>2 DEF Alone, Wanted, Asks
<1>5. Wanted'
  BY <1>1, <1>3, <1>4 DEF Wanted, Asks
<1>6. "include" \notin input.items
  BY <1>1 DEF RegionsAlone
<1>7. Included'
  BY <1>1, <1>6 DEF Included, Alone
<1> QED
  BY <1>1, <1>5, <1>7 DEF Alone

LEMMA RegInit == Init => RegInv
<1> SUFFICES ASSUME Init PROVE Alone
  BY DEF RegInv
<1>1. PICK s : s = NoProgram
  OBVIOUS
<1>2. /\ Shaped(s) /\ s.opts = <<>> /\ s.adls = <<>> /\ s.prog = <<>> /\ DOMAIN s.labels = {} /\ DOMAIN s.ptrs = {}
      /\ s.pendIn = None /\ s.pendOut = None
  BY <1>1 DEF NoProgram, NewInput, Shaped, Fields
<1>3. Named(s)
  BY <1>2 DEF Named
<1>4. Typed(s)
  BY <1>2 DEF Typed
<1>5. PICK t : t = RefOpt(s, "stackSize", 64)
  OBVIOUS
<1>6. sc = t
  BY <1>1, <1>5 DEF Init, DefaultStackSize
<1>7. Stays(s, t) /\ SamePending(t, s)
  <2>1. PICK o, a : o = "stackSize" /\ a = 64
    OBVIOUS
  <2>2. o \in Options /\ a \in Nat /\ t = SetOption(s, o, a)
    BY <1>2, <1>5, <2>1 DEF Options, SetOption
  <2>3. Core(s)
    <3>1. CoreType(s)
      BY <1>2 DEF CoreType
    <3>2. Pointers(s) /\ OneEntry(s) /\ Referred(s) /\ Closed(s)
      BY <1>2 DEF Pointers, OneEntry, Referred, Closed
    <3> QED
      BY <3>1, <3>2 DEF Core
  <2> QED
    BY <2>2, <2>3, SetOptionStays
<1>8. InRegions(t) /\ NonePending(t)
  BY <1>2, <1>3, <1>7, StaysInRegions DEF NonePending
<1>9. want = <<>> /\ label = None /\ prior = <<>>
  BY DEF Init
<1>10. Wanted /\ Included
  <2>1. ~Asks
    BY <1>9 DEF Asks
  <2> QED
    BY <1>6, <1>8, <1>9, <2>1 DEF Wanted, Included
<1> QED
  BY <1>6, <1>8, <1>10 DEF Alone

LEMMA ReadLabelAlone ==
  ASSUME Inv, Alone, NEW l \in Label, ReadLabel(l), UNCHANGED input
  PROVE  Alone'
<1>0. Sound(sc) /\ InRegions(sc) /\ pc = "scan" /\ label = None
  BY DEF Inv, Scans, Alone, ReadLabel
<1>1. \A r \in HandleLabel(sc, l) : Good(sc, r) /\ NonePending(r) /\ Waits(r, l) /\ r.state = sc.state
  BY <1>0, HandleLabelNamed DEF Good
<1>2. Becomes(HandleLabel(sc, l)) /\ want' = want /\ prior' = prior /\ label' = (IF want = <<>> THEN None ELSE l)
  BY DEF ReadLabel
<1>3. Good(sc, sc') /\ (pc' = "scan" => sc' \in HandleLabel(sc, l))
  <2>1. PICK R : R = HandleLabel(sc, l)
    OBVIOUS
  <2>2. (\A r \in R : Good(sc, r)) /\ Becomes(R)
    BY <1>1, <1>2, <2>1
  <2> QED
    BY <1>0, <2>1, <2>2, BecameGood
<1>4. ASSUME pc' = "scan" PROVE Wanted'
  <2>1. NonePending(sc') /\ Waits(sc', l) /\ sc'.state = sc.state
    BY <1>1, <1>3, <1>4
  <2>2. CASE want = <<>> /\ label = None
    BY <1>2, <2>2 DEF Wanted
  <2>3. CASE want # <<>> /\ (\A k \in DOMAIN want : want[k] \in {"entry", "spanOpen"}) /\ sc.state = "text"
    BY <1>2, <2>1, <2>3 DEF Wanted
  <2>4. CASE Asks /\ sc.state = "data"
    <3>1. want # <<>>
      BY <2>4 DEF Asks
    <3>2. label' = l
      BY <1>2, <3>1
    <3>3. Asks'
      BY <1>2, <2>4 DEF Asks
    <3> QED
      BY <2>1, <2>4, <3>2, <3>3 DEF Wanted
  <2> QED
    BY <1>0, <2>2, <2>3, <2>4 DEF Alone, Wanted
<1>5. Included'
  <2>1. "include" \in input'.items => NonePending(sc')
    BY <1>3 DEF Alone, Included, Good
  <2>2. Asks' <=> Asks
    BY <1>2 DEF Asks
  <2>3. prior' # <<>> => "include" \in input'.items
    BY <1>2 DEF Alone, Included
  <2> QED
    BY <2>1, <2>2, <2>3 DEF Included, Alone
<1> QED
  BY <1>3, <1>4, <1>5 DEF Alone, Good

\* The label of a mark in the text.
LEMMA MarkedAlone ==
  ASSUME Inv, Alone, Expected, UNCHANGED input, NEW R,
         want # <<>>, \A k \in DOMAIN want : want[k] \in {"entry", "spanOpen"}, sc.state = "text",
         Becomes(R), \A r \in R : Stays(sc, r) /\ SamePending(r, sc)
  PROVE  Alone'
<1>0. Sound(sc) /\ InRegions(sc) /\ Named(sc)
  BY DEF Inv, Scans, Alone, InRegions
<1>1. NonePending(sc)
  BY <1>0, InText
<1>2. \A r \in R : InRegions(r) /\ NonePending(r) /\ r.state = "text"
  BY <1>0, <1>1, StaysInRegions
<1>3. \A r \in R : Good(sc, r)
  BY <1>2 DEF Good
<1>4. Good(sc, sc') /\ (pc' = "scan" => sc' \in R)
  BY <1>0, <1>3, BecameGood
<1>5. want' = Front(want) /\ prior' = prior /\ label' = (IF Len(want) = 1 THEN None ELSE label)
  BY DEF Expected
<1>6. PICK w, v : w = want /\ v = want'
  OBVIOUS
<1>7. w \in Seq(Roles) /\ w # <<>> /\ v = Front(w)
  BY <1>5, <1>6 DEF Inv
<1>8. PICK n \in Nat : n = Len(w)
  BY <1>7
<1>9. v \in Seq(Roles) /\ Len(v) = n - 1 /\ n # 0 /\ \A k \in 1 .. n - 1 : v[k] = w[k]
  BY <1>7, <1>8 DEF Front
<1>10. DOMAIN v = 1 .. n - 1 /\ DOMAIN w = 1 .. n
  BY <1>7, <1>8, <1>9
<1>11. \A k \in DOMAIN v : v[k] \in {"entry", "spanOpen"}
  BY <1>6, <1>9, <1>10
<1>12. v # <<"in">> /\ v # <<"out">>
  <2>1. ASSUME NEW e \in {"in", "out"}, v = <<e>> PROVE FALSE
    <3>1. 1 \in DOMAIN v /\ v[1] = e
      BY <2>1
    <3> QED
      BY <1>11, <3>1
  <2> QED
    BY <2>1
<1>13. v = <<>> => label' = None
  <2>1. v = <<>> => n = 1
    BY <1>9
  <2> QED
    BY <1>5, <1>6, <1>8, <2>1
<1>14. pc' = "scan" => Wanted'
  <2>1. pc' = "scan" => sc'.state = "text"
    BY <1>2, <1>4
  <2> QED
    BY <1>6, <1>11, <1>13, <2>1 DEF Wanted
<1>15. Included'
  <2>1. "include" \in input'.items => NonePending(sc')
    BY <1>4 DEF Alone, Included, Good
  <2>2. ~Asks'
    BY <1>6, <1>12 DEF Asks
  <2>3. prior' # <<>> => "include" \in input'.items
    BY <1>5 DEF Alone, Included
  <2> QED
    BY <2>1, <2>2, <2>3 DEF Included
<1> QED
  BY <1>4, <1>14, <1>15 DEF Alone, Good

\* The label of .in or .out: the region waits.
LEMMA AskedAlone ==
  ASSUME Inv, Alone, Expected, UNCHANGED input, Asks, sc.state = "data"
  PROVE  Alone'
<1>0. Sound(sc) /\ InRegions(sc) /\ Named(sc) /\ label \in Label /\ label # None
  BY DEF Inv, Scans, Alone, InRegions, Expected
<1>1. NonePending(sc) /\ Waits(sc, label)
  <2>1. ~(\A k \in DOMAIN want : want[k] \in {"entry", "spanOpen"})
    <3>1. PICK e \in {"in", "out"} : want = <<e>>
      BY DEF Asks
    <3>2. 1 \in DOMAIN want /\ want[1] = e
      BY <3>1
    <3> QED
      BY <3>2
  <2>2. want # <<>> /\ pc = "scan"
    BY DEF Expected
  <2> QED
    BY <1>0, <2>1, <2>2 DEF Alone, Wanted
<1>2. Last(want) \in {"in", "out"} /\ Len(want) = 1 /\ Front(want) = <<>>
  <2>1. PICK e \in {"in", "out"} : want = <<e>>
    BY DEF Asks
  <2> QED
    BY <2>1 DEF Last, Front
<1>3. PICK r : r \in {[sc EXCEPT !.pendIn = label], [sc EXCEPT !.pendOut = label]} /\ Becomes({r})
  BY <1>2 DEF Expected
<1>4. Typed(sc)
  BY <1>0, SoundTyped
<1>5. /\ Shaped(r) /\ r.opts = sc.opts /\ r.labels = sc.labels /\ r.prog = sc.prog /\ r.state = "data"
      /\ (r.pendIn = label /\ r.pendOut = None) \/ (r.pendIn = None /\ r.pendOut = label)
  BY <1>1, <1>3, <1>4 DEF Typed, Shaped, Fields, NonePending
<1>6. Named(r) /\ \A l : Waits(sc, l) => Waits(r, l)
  BY <1>0, <1>4, <1>5, SameNamed
<1>7. Pending(r)
  <2>1. \A l \in Label : l \in {r.pendIn, r.pendOut} => l = label
    BY <1>5, NoneIsNoLabel
  <2> QED
    BY <1>1, <1>5, <1>6, <2>1 DEF Pending
<1>8. sc' = r
  BY <1>3 DEF Becomes
<1>9. want' = <<>> /\ prior' = prior /\ label' = None
  BY <1>2 DEF Expected
<1>10. Wanted' /\ ~Asks'
  BY <1>9 DEF Wanted, Asks
<1>11. "include" \notin input.items
  BY DEF Alone, Included
<1>12. Included'
  BY <1>9, <1>11 DEF Included, Alone
<1> QED
  BY <1>6, <1>7, <1>8, <1>10, <1>12 DEF Alone, InRegions

LEMMA ExpectedAlone ==
  ASSUME Inv, Alone, Expected, UNCHANGED input
  PROVE  Alone'
<1>1. Kept(sc) /\ Typed(sc) /\ label \in Label /\ want # <<>> /\ pc = "scan" /\ want \in Seq(Roles)
  BY KeptTyped DEF Inv, Scans, Sound, Expected
<1>2. CASE Asks /\ sc.state = "data"
  BY <1>2, AskedAlone
<1>3. CASE (\A k \in DOMAIN want : want[k] \in {"entry", "spanOpen"}) /\ sc.state = "text"
  <2>1. Last(want) \in {"entry", "spanOpen"}
    <3>1. Len(want) \in DOMAIN want
      BY <1>1
    <3> QED
      BY <1>3, <3>1 DEF Last
  <2>2. CASE Last(want) = "entry"
    <3>1. PICK R : R = Entry(sc, label)
      OBVIOUS
    <3>2. Becomes(R)
      BY <2>2, <3>1 DEF Expected
    <3>3. \A r \in R : Stays(sc, r) /\ SamePending(r, sc)
      BY <1>1, <3>1, EntryStays
    <3> QED
      BY <1>1, <1>3, <3>2, <3>3, MarkedAlone
  <2>3. CASE Last(want) = "spanOpen"
    <3>1. PICK R : R = SpanOpen(sc, label)
      OBVIOUS
    <3>2. Becomes(R)
      BY <2>3, <3>1 DEF Expected
    <3>3. \A r \in R : Stays(sc, r) /\ SamePending(r, sc)
      BY <1>1, <3>1, SpanOpenStays
    <3> QED
      BY <1>1, <1>3, <3>2, <3>3, MarkedAlone
  <2> QED
    BY <2>1, <2>2, <2>3
<1> QED
  BY <1>1, <1>2, <1>3 DEF Alone, Wanted

\* An item of the text, where no region waits.
LEMMA TextGood ==
  ASSUME Inv, Alone, sc.state = "text", NEW r, Stays(sc, r), SamePending(r, sc)
  PROVE  Good(sc, r)
<1>1. Sound(sc) /\ InRegions(sc) /\ Named(sc)
  BY DEF Inv, Scans, Alone, InRegions
<1> QED
  BY <1>1, InText, StaysInRegions DEF Good

LEMMA ReadRefAlone ==
  ASSUME Inv, Alone, NEW tok \in {"call", "jump"}, NEW l \in Label, ReadRef(tok, l), UNCHANGED input
  PROVE  Alone'
<1>1. sc.state = "text" /\ Takes(tok, {"text"}) /\ Kept(sc)
  BY DEF ReadRef, Takes, Inv, Scans, Sound
<1>2. PICK a : a = AddProgRef(sc, tok, l)
  OBVIOUS
<1>3. PICK r : r = StubLabel(a, Lbl(l))
  OBVIOUS
<1>4. Kept(a) /\ SamePending(a, sc)
  BY <1>1, <1>2, AddProgRefKeeps
<1>5. SamePending(r, a)
  BY <1>3, <1>4, StubLabelKeeps
<1>6. Stays(sc, r)
  BY <1>1, <1>2, <1>3, ReadRefStays
<1>7. Good(sc, r)
  BY <1>1, <1>4, <1>5, <1>6, TextGood DEF SamePending
<1>8. PICK R : R = {r}
  OBVIOUS
<1>9. Becomes(R) /\ \A q \in R : Good(sc, q)
  BY <1>2, <1>3, <1>7, <1>8 DEF ReadRef
<1> QED
  BY <1>1, <1>9, TookAlone

LEMMA ReadOpAlone ==
  ASSUME Inv, Alone, NEW tok \in {"ret", "op"}, ReadOp(tok), UNCHANGED input
  PROVE  Alone'
<1>1. sc.state = "text" /\ Takes(tok, {"text"}) /\ Kept(sc)
  BY DEF ReadOp, Takes, Inv, Scans, Sound
<1>2. PICK r : r = AddProgTok(sc, tok, NoTarget)
  OBVIOUS
<1>3. tok \in TokKind /\ tok \notin {"call", "jump"} /\ NoTarget \in Name
  BY Zenon DEF TokKind, NoTarget, Lbl, Name
<1>4. SamePending(r, sc)
  BY <1>1, <1>2, <1>3, AddProgTokKeeps
<1>5. Stays(sc, r)
  BY <1>1, <1>2, AddProgTokStays
<1>6. Good(sc, r)
  BY <1>1, <1>4, <1>5, TextGood
<1>7. PICK R : R = {r}
  OBVIOUS
<1>8. Becomes(R) /\ \A q \in R : Good(sc, q)
  BY <1>2, <1>6, <1>7 DEF ReadOp
<1> QED
  BY <1>1, <1>8, TookAlone

LEMMA SpanCloseAlone ==
  ASSUME Inv, Alone, SpanCloseDirective, UNCHANGED input
  PROVE  Alone'
<1>1. sc.state = "text" /\ Takes("spanClose", {"text"}) /\ Kept(sc)
  BY DEF SpanCloseDirective, Takes, Inv, Scans, Sound
<1>2. PICK r : r = AddSpanClose(sc, "spanClose")
  OBVIOUS
<1>3. SamePending(r, sc)
  BY <1>1, <1>2, AddSpanCloseKeeps
<1>4. Stays(sc, r)
  BY <1>1, <1>2, AddSpanCloseStays
<1>5. Good(sc, r)
  BY <1>1, <1>3, <1>4, TextGood
<1>6. PICK R : R = {r}
  OBVIOUS
<1>7. Becomes(R) /\ \A q \in R : Good(sc, q)
  BY <1>2, <1>5, <1>6 DEF SpanCloseDirective
<1> QED
  BY <1>1, <1>7, TookAlone

\* Items that leave what waits as it is.
LEMMA WaitsGood ==
  ASSUME NEW s, NEW r, InRegions(r), r.pendIn = s.pendIn, r.pendOut = s.pendOut
  PROVE  Good(s, r)
BY DEF Good, NonePending

LEMMA ReadDataAlone ==
  ASSUME Inv, Alone, NEW tok \in {"word", "alloc"}, ReadData(tok), UNCHANGED input
  PROVE  Alone'
<1>1. Takes(tok, {"data"}) /\ Kept(sc) /\ InRegions(sc)
  BY DEF ReadData, Inv, Scans, Sound, Alone
<1>2. PICK r : r = AddProgTok(sc, tok, NoTarget)
  OBVIOUS
<1>3. Good(sc, r)
  BY <1>1, <1>2, DataInRegions, WaitsGood
<1>4. PICK R : R = {r}
  OBVIOUS
<1>5. Becomes(R) /\ \A q \in R : Good(sc, q)
  BY <1>2, <1>3, <1>4 DEF ReadData
<1> QED
  BY <1>1, <1>5, TookAlone

LEMMA OptionAlone ==
  ASSUME Inv, Alone, NEW o \in Options, NEW arg \in Sizes, OptionDirective(o, arg), UNCHANGED input
  PROVE  Alone'
<1>1. Takes(o, {"text", "data"}) /\ Core(sc) /\ InRegions(sc) /\ arg \in Nat
  BY BoundsAssumption DEF OptionDirective, Inv, Scans, Sound, Kept, Alone
<1>2. PICK r : r = SetOption(sc, o, arg)
  OBVIOUS
<1>3. Good(sc, r)
  BY <1>1, <1>2, OptionInRegions, WaitsGood
<1>4. PICK R : R = {r}
  OBVIOUS
<1>5. Becomes(R) /\ \A q \in R : Good(sc, q)
  BY <1>2, <1>3, <1>4 DEF OptionDirective
<1> QED
  BY <1>1, <1>5, TookAlone

LEMMA DataAlone ==
  ASSUME Inv, Alone, DataDirective, UNCHANGED input
  PROVE  Alone'
<1>1. Takes("data", {"text", "data"}) /\ Typed(sc) /\ InRegions(sc) /\ Named(sc)
  BY KeptTyped DEF DataDirective, Inv, Scans, Sound, Alone, InRegions
<1>2. PICK r : r = [sc EXCEPT !.state = "data"]
  OBVIOUS
<1>3. /\ Shaped(r) /\ r.opts = sc.opts /\ r.labels = sc.labels /\ r.prog = sc.prog /\ r.state = "data"
      /\ r.pendIn = sc.pendIn /\ r.pendOut = sc.pendOut
  BY <1>1, <1>2 DEF Typed, Shaped, Fields
<1>4. Named(r) /\ \A l : Waits(sc, l) => Waits(r, l)
  BY <1>1, <1>3, SameNamed
<1>5. InRegions(r)
  BY <1>1, <1>3, <1>4 DEF InRegions, Pending
<1>6. Good(sc, r)
  BY <1>3, <1>5, WaitsGood
<1>7. PICK R : R = {r}
  OBVIOUS
<1>8. Becomes(R) /\ \A q \in R : Good(sc, q)
  BY <1>2, <1>6, <1>7 DEF DataDirective
<1> QED
  BY <1>1, <1>8, TookAlone

LEMMA TextGoods ==
  ASSUME Inv, Alone
  PROVE  \A r \in EnterText(sc) : Good(sc, r) /\ r.state = "text"
<1>1. Sound(sc) /\ InRegions(sc) /\ sc.state \in States
  BY DEF Inv, Scans, Alone
<1> QED
  BY <1>1, EnterTextNamed DEF Good

LEMMA IncludeAlone ==
  ASSUME Inv, Alone, Include \/ EndInclude, UNCHANGED input
  PROVE  Alone'
<1>0. want = <<>> /\ want' = want /\ label' = label /\ pc = "scan"
  BY DEF Include, EndInclude
<1>1. want = <<>> /\ want' = want /\ label' = label /\ label = None
  BY <1>0 DEF Alone, Wanted, Asks
<1>2. Wanted'
  BY <1>1 DEF Wanted
<1>3. "include" \in input.items
  BY DEF Include, EndInclude, Alone, Included
<1>4. NonePending(sc) /\ Named(sc) /\ Typed(sc)
  BY <1>3, KeptTyped DEF Alone, Included, InRegions, Inv, Scans, Sound
<1>5. sc' = sc \/ \E in : sc' = In(sc, in)
  BY DEF Include, EndInclude
<1>6. ASSUME NEW in, NEW r, r = In(sc, in) PROVE Named(r) /\ NonePending(r)
  <2>1. /\ Shaped(r) /\ r.opts = sc.opts /\ r.labels = sc.labels /\ r.prog = sc.prog
        /\ r.pendIn = sc.pendIn /\ r.pendOut = sc.pendOut
    BY <1>4, <1>6 DEF In, Typed, Shaped, Fields
  <2> QED
    BY <1>4, <2>1, SameNamed DEF NonePending
<1>7. Named(sc') /\ NonePending(sc')
  BY <1>4, <1>5, <1>6
<1>8. InRegions(sc')
  BY <1>7, NothingPends
<1>9. Included'
  BY <1>1, <1>3, <1>7 DEF Included, Asks
<1> QED
  BY <1>2, <1>8, <1>9 DEF Alone

LEMMA RegStep == Inv /\ RegInv /\ [Next]_vars => RegInv'
<1> SUFFICES ASSUME Inv, Alone, RegionsAlone, [Next]_vars PROVE Alone'
  <2>1. [Next]_vars => (RegionsAlone' => RegionsAlone)
    BY DEF Next, vars, RegionsAlone
  <2> QED
    BY <2>1 DEF RegInv
<1>1. CASE UNCHANGED vars
  BY <1>1 DEF vars, Alone, Wanted, Asks, Included
<1> SUFFICES ASSUME Next, UNCHANGED input PROVE Alone'
  BY <1>1 DEF Next
<1>2. CASE EntryDirective
  <2>1. PICK R : R = EnterText(sc)
    OBVIOUS
  <2>2. Directive("entry", {"text", "data"}) /\ Becomes(R) /\ \A r \in R : Good(sc, r) /\ r.state = "text"
    BY <1>2, <2>1, TextGoods DEF EntryDirective
  <2> QED
    BY <2>2, MarkAlone
<1>3. CASE SpanOpenDirective
  <2>1. PICK R : R = {sc}
    OBVIOUS
  <2>2. Directive("spanOpen", {"text"}) /\ Becomes(R) /\ \A r \in R : Good(sc, r) /\ r.state = "text"
    BY <1>3, <2>1, SelfGood DEF SpanOpenDirective, Directive, Alone
  <2> QED
    BY <2>2, MarkAlone
<1>4. CASE InDirective \/ OutDirective
  BY <1>4, AskAlone DEF InDirective, OutDirective
<1>5. CASE \E l \in Label : ReadLabel(l) \/ ReadRef("call", l) \/ ReadRef("jump", l)
  <2>1. PICK l \in Label : ReadLabel(l) \/ ReadRef("call", l) \/ ReadRef("jump", l)
    BY <1>5
  <2> QED
    BY <2>1, ReadLabelAlone, ReadRefAlone
<1>6. CASE Expected
  BY <1>6, ExpectedAlone
<1>7. CASE ReadOp("ret") \/ ReadOp("op")
  BY <1>7, ReadOpAlone
<1>8. CASE ReadData("word") \/ ReadData("alloc")
  BY <1>8, ReadDataAlone
<1>9. CASE SpanCloseDirective
  BY <1>9, SpanCloseAlone
<1>10. CASE DataDirective
  BY <1>10, DataAlone
<1>11. CASE TextDirective
  <2>1. PICK R : R = EnterText(sc)
    OBVIOUS
  <2>2. Takes("text", {"text", "data"}) /\ Becomes(R) /\ \A r \in R : Good(sc, r)
    BY <1>11, <2>1, TextGoods DEF TextDirective
  <2> QED
    BY <2>2, TookAlone
<1>12. CASE \E opt \in Options, arg \in Sizes : OptionDirective(opt, arg)
  BY <1>12, OptionAlone
<1>13. CASE Include \/ EndInclude
  BY <1>13, IncludeAlone
<1>14. CASE Finish \/ Invalid \/ Ended
  <2>1. sc' = sc /\ want' = want /\ label' = label /\ prior' = prior /\ (pc' = "scan" => pc = "scan")
    BY <1>14 DEF Finish, Invalid, Ended, vars
  <2> QED
    BY <2>1 DEF Alone, Wanted, Asks, Included
<1> QED
  BY <1>2, <1>3, <1>4, <1>5, <1>6, <1>7, <1>8, <1>9, <1>10, <1>11, <1>12, <1>13, <1>14 DEF Next

-----------------------------------------------------------------------------
(* Theorems *)

LEMMA OneOf ==
  ASSUME NEW S, \A j, k \in S : j = k
  PROVE  Cardinality(S) <= 1
<1>1. CASE S = {}
  BY <1>1, FS_EmptySet
<1>2. CASE S # {}
  <2>1. PICK k \in S : TRUE
    BY <1>2
  <2>2. S = {k}
    BY <2>1
  <2> QED
    BY <2>2, FS_Singleton
<1> QED
  BY <1>1, <1>2

\* setOption() and Entry: an option is set by one token, through a pointer that leads to it; the
\* token has the value set last, unless the slice of options has moved since the pointer was taken.
THEOREM OptionsOnce == Spec => []OneToken
<1>1. Inv => OneToken
  <2> SUFFICES ASSUME Inv PROVE OneToken
    OBVIOUS
  <2>1. Pointers(sc) /\ OneEntry(sc)
    BY DEF Inv, Scans, Sound, Kept, Core
  <2>2. ASSUME NEW o \in Options \cup {"entry"} PROVE Cardinality(Opts(o)) <= 1
    <3>1. CASE o \in Options
      <4>1. ASSUME NEW k \in Opts(o) PROVE k = sc.ptrs[o].at
        BY <2>1, <3>1, <4>1 DEF Opts, Pointers
      <4> QED
        BY <4>1, OneOf
    <3>2. CASE o = "entry"
      <4>1. \A j, k \in Opts(o) : j = k
        BY <2>1, <3>2 DEF Opts, OneEntry
      <4> QED
        BY <4>1, OneOf
    <3> QED
      BY <3>1, <3>2
  <2>3. ASSUME NEW o \in DOMAIN sc.ptrs, Len(sc.opts) <= sc.ptrs[o].cap
        PROVE  sc.opts[sc.ptrs[o].at].arg = sc.ptrs[o].arg
    BY <2>1, <2>3 DEF Pointers
  <2> QED
    BY <2>2, <2>3 DEF OneToken
<1> QED
  BY <1>1, Invariant, PTL

\* addSpanClose(), addSpanOpen() and renameLabel(): a span that is closed by name was opened by it,
\* whatever has been included, renamed or closed in between.
THEOREM SpansPair == Spec => []ClosedWasOpened
<1>1. Inv => ClosedWasOpened
  <2> SUFFICES ASSUME Inv PROVE ClosedWasOpened
    OBVIOUS
  <2>1. Closed(sc)
    BY DEF Inv, Scans, Sound, Kept, Core
  <2> QED
    BY <2>1 DEF ClosedWasOpened, Closed, WasOpened, Opts
<1> QED
  BY <1>1, Invariant, PTL

\* stubLabel(), genProgLabel() and renameLabel(): what finish() reports as undefined is a label of
\* the input; and where the input has no directive that closes spans and includes no other, every
\* span that a return closes is closed at a return, renamed or not.
THEOREM LabelsGenerated == Spec => []GeneratedLabels
<1>1. Inv /\ SoloInv => GeneratedLabels
  <2> SUFFICES ASSUME Inv, SoloInv PROVE GeneratedLabels
    OBVIOUS
  <2>1. Referred(sc) /\ Typed(sc)
    BY SoundTyped DEF Inv, Scans, Sound, Kept, Core
  <2>2. ASSUME NEW name \in Refs PROVE Found(sc, name)
    BY <2>1, <2>2 DEF Refs, Referred
  <2>3. ASSUME pc = "undefined" PROVE \E l \in Label : Lbl(l) \in Refs /\ ~Defined(sc, Lbl(l))
    <3>1. PICK name \in Refs : ~Defined(sc, name)
      BY <2>3 DEF Inv
    <3>2. Found(sc, name)
      BY <2>2
    <3> QED
      BY <3>1, <3>2 DEF Found
  <2>4. ASSUME {"spanClose", "include"} \cap input.items = {}, NEW k \in Opts("spanClose")
        PROVE  At(k) <= Len(sc.prog) /\ sc.prog[At(k)].tok = "ret"
    <3>1. IsClose(sc, k) /\ Solo(sc)
      BY <2>4 DEF Opts, IsClose, SoloInv, AllOne
    <3>2. AtRet(sc, sc.opts[k].targ)
      BY <3>1 DEF Solo, Marked
    <3> QED
      BY <2>1, <3>2 DEF AtRet, At, Typed
  <2> QED
    BY <2>3, <2>4 DEF GeneratedLabels
<1>2. Init => SoloInv
  BY SoloInit
<1>3. Inv /\ SoloInv /\ [Next]_vars => SoloInv'
  BY SoloStep
<1>4. Spec => []SoloInv
  BY <1>2, <1>3, Invariant, PTL DEF Spec
<1> QED
  BY <1>1, <1>4, Invariant, PTL

\* finishIn(), finishOut(), setState() and handleLabel(): one region waits for its end at a time, and
\* a region is the data from its label to that end, with the region's name right behind it; where an
\* input that includes others has no regions (an include in one would go on in the text, and the
\* region with it), and no directive comes between .in or .out and its label.
THEOREM RegionsFollow == Spec => [](RegionsAlone => Regions)
<1>1. Inv /\ RegInv => (RegionsAlone => Regions)
  <2> SUFFICES ASSUME Inv, Alone PROVE Regions
    BY DEF RegInv
  <2>1. Named(sc) /\ Pending(sc)
    BY DEF Alone, InRegions
  <2>2. sc.pendIn = None \/ sc.pendOut = None
    BY <2>1 DEF Pending
  <2>3. ASSUME NEW k \in Opts("name")
        PROVE  LET from == At(k - 2)  to == At(k - 1)  name == sc.prog[At(k)] IN
               /\ sc.opts[k - 2].opt = sc.opts[k - 1].opt
               /\ from <= to /\ \A p \in from .. to - 1 : sc.prog[p].tok \in {"word", "alloc"}
               /\ name.tok = "string" /\ name.targ = sc.opts[k - 2].targ
    <3>1. k \in DOMAIN sc.opts /\ sc.opts[k].opt = "name"
      BY DEF Opts
    <3>2. PICK l \in Label : RegionAt(sc, k, l)
      BY <2>1, <3>1 DEF Named
    <3>3. PICK i, j : i = k - 2 /\ j = k - 1
      OBVIOUS
    <3>4. PICK a, b, c : a = Lbl(l) /\ b = <<"end", l>> /\ c = <<"name", l>>
      OBVIOUS
    <3>5. /\ sc.opts[i].opt = sc.opts[j].opt /\ sc.opts[i].targ = a /\ sc.opts[j].targ = b /\ sc.opts[k].targ = c
          /\ Bounds(sc, l)
      BY <3>2, <3>3, <3>4 DEF RegionAt
    <3>6. /\ sc.labels[a] <= sc.labels[b] /\ DataIn(sc, sc.labels[a], sc.labels[b] - 1)
          /\ IsString(sc, sc.labels[c], l)
      BY <3>4, <3>5 DEF Bounds
    <3>7. At(i) = sc.labels[a] /\ At(j) = sc.labels[b] /\ At(k) = sc.labels[c]
      BY <3>5 DEF At
    <3> QED
      BY <3>3, <3>4, <3>5, <3>6, <3>7 DEF DataIn, IsString
  <2> QED
    BY <2>2, <2>3 DEF Regions
<1>2. Init => RegInv
  BY RegInit
<1>3. Inv /\ RegInv /\ [Next]_vars => RegInv'
  BY RegStep
<1>4. Spec => []RegInv
  BY <1>2, <1>3, Invariant, PTL DEF Spec
<1> QED
  BY <1>1, <1>4, Invariant, PTL
=============================================================================
