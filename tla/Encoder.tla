------------------------------- MODULE Encoder -------------------------------
(***************************************************************************)
(* The assembler's encoder (x/assemble.go): tokens become bytes, and the   *)
(* references between them arguments.  The length of a reference depends   *)
(* on its argument, its argument on the lengths of the tokens between: the *)
(* encoder starts from the shortest, and whenever a reference that it      *)
(* resolves changes its length goes back to it and encodes on from there.  *)
(*                                                                         *)
(* A token is [kind, arg, size]: an option, an operation or an address     *)
(* label that refers ("opt", "offset", "addr", "label"), the count of the  *)
(* address labels ("count"), the end of the options ("end"), or one that   *)
(* has its size already ("fixed").  Tokens and offsets are counted from 1. *)
(***************************************************************************)
EXTENDS VarCode, FiniteSetsExt, SequencesExt

CONSTANTS
  LabelToken, \* address labels: size is that of the name and its length
  OptToken,   \* the tokens of other options
  ProgToken,  \* the tokens of programs
  MaxOpts,    \* the longest sequence of labels, and of other options
  MaxProg,    \* the longest program
  RefOff,     \* what a reference may add to its target
  Base        \* where the program is loaded: the stack size

Kind == {"opt", "offset", "addr", "label", "count", "end", "fixed"}
Refers(t) == t.kind \in {"opt", "offset", "addr", "label"}
End == [kind |-> "end", arg |-> 0, size |-> 1]
Count == [kind |-> "count", arg |-> 0, size |-> 2]

ASSUME TokenAssumption ==
  /\ LabelToken \subseteq [kind : {"label"}, arg : {0}, size : Nat]
  /\ OptToken \cup ProgToken \subseteq [kind : {"opt", "offset", "addr", "fixed"}, arg : {0}, size : Nat]
  /\ \A t \in OptToken \cup ProgToken : t.kind = "fixed" => t.size > 0
ASSUME BoundsAssumption == MaxOpts \in Nat /\ MaxProg \in Nat /\ RefOff \subseteq Int /\ Base \in Word

VARIABLES
  toks,   \* the tokens, with the arguments resolved so far
  refs,   \* the references, by the tokens that have them: [targ, off]
  offs,   \* offsets of the tokens encoded so far, and of what follows them
  i,      \* the next token to encode
  c,      \* its offset
  rf,     \* the token with the next reference to resolve; None if there is none
  boff,   \* the offset of the program
  nopts,  \* the tokens up to the end of the options
  pc      \* "options", "program", "done" or "failed"

vars == <<toks, refs, offs, i, c, rf, boff, nopts, pc>>

None == 0

\* The bytes EncodeInto() makes of a token.
Size(t) ==
  CASE t.kind \in {"opt", "offset", "addr"} -> VarCodeLength(t.arg, TRUE)
    [] t.kind = "label" -> ArgLen(t.arg) + t.size
    [] t.kind \in {"count", "end", "fixed"} -> t.size

\* Slip: the argument of a reference is counted as the byte it is at first.
NeededShort(t) == IF Refers(t) THEN 2 ELSE t.size

\* What add() and addRef() add to maxBytes for a token: six for every reference.
Needed(t) == IF Refers(t) \/ t.kind = "count" THEN 6 ELSE t.size

maxBytes ==
  LET sum[k \in 0 .. Len(toks)] == IF k = 0 THEN 0 ELSE sum[k - 1] + Needed(toks[k]) IN sum[Len(toks)]

Ref == [targ : Nat, off : Int]

\* One reference for each token that refers, to a place in the program.
RefsOf(ts, opts) == [{k \in DOMAIN ts : Refers(ts[k])} -> [targ : opts + 1 .. Len(ts) + 1, off : RefOff]]

First(sites) == IF sites = {} THEN None ELSE Min(sites)

Init ==
  /\ \E ls \in SeqOf(LabelToken, MaxOpts), os \in SeqOf(OptToken, MaxOpts), ps \in SeqOf(ProgToken, MaxProg) :
       LET opts == (IF ls = <<>> THEN <<>> ELSE <<Count>> \o ls) \o os \o <<End>>
       IN  toks = opts \o ps /\ nopts = Len(opts)
  /\ refs \in RefsOf(toks, nopts)
  /\ offs = [k \in 1 .. Len(toks) + 1 |-> 0]
  /\ i = 1 /\ c = 0 /\ rf = First(DOMAIN refs) /\ boff = 0 /\ pc = "options"

\* encodeTok(), at the state's i and c.
EncodeTok ==
  /\ i' = i + 1
  /\ c' = c + Size(toks[i])
  /\ offs' = [offs EXCEPT ![i + 1] = c + Size(toks[i])]
  /\ UNCHANGED <<toks, refs, rf, nopts>>

EncodeOption ==
  /\ pc = "options" /\ i <= Len(toks)
  /\ EncodeTok
  /\ IF toks[i].kind = "end" THEN pc' = "program" /\ boff' = c + Size(toks[i])
     ELSE UNCHANGED <<pc, boff>>

\* A reference is ready when it was encoded, and its target has an offset.
Ready == rf # None /\ rf < i /\ refs[rf].targ <= i

\* Where token k, and what follows the last one, will be in memory.
Address(k) == Base + offs[k] - boff

\* The token k with the argument of its reference.
Resolved(k) ==
  LET targ == (Address(refs[k].targ) + refs[k].off) % W IN
  [toks[k] EXCEPT !.arg = RefArg(toks[k].kind = "offset", Address(k) % W, targ)]

\* Slip: only references further on are looked for.
RewoundForward(j) == First({k \in DOMAIN refs : k >= j})

\* The first reference that going back to token j leaves to be resolved again; if
\* there is none the loop over them ends at the last one.
RewoundTo(j) ==
  LET ahead == {k \in DOMAIN refs : k >= j \/ refs[k].targ >= j} IN
  IF ahead = {} THEN Max(DOMAIN refs) ELSE Min(ahead)

\* Slip: the reference is resolved again.
KeepStays == UNCHANGED <<offs, i, c, pc, rf>>

\* The reference keeps its length.
Keep ==
  /\ rf' = First({k \in DOMAIN refs : k > rf})
  /\ UNCHANGED <<offs, i, c, pc>>

\* Slip: the tokens behind the reference stay where they are.
KeepMoved(end) == Keep

\* It does not: back to the token behind it, among the options or in the program.
Rewind(end) ==
  /\ i' = rf + 1
  /\ c' = end
  /\ offs' = [offs EXCEPT ![rf + 1] = end]
  /\ rf' = RewoundTo(rf + 1)
  /\ pc' = IF rf < nopts THEN "options" ELSE "program"

Fix ==
  /\ pc = "program" /\ i <= Len(toks) /\ Ready
  /\ toks' = [toks EXCEPT ![rf] = Resolved(rf)]
  /\ LET end == offs[rf] + Size(Resolved(rf)) IN
     IF end = offs[rf + 1] THEN Keep ELSE Rewind(end)
  /\ UNCHANGED <<refs, boff, nopts>>

EncodeOp ==
  /\ pc = "program" /\ i <= Len(toks) /\ ~Ready
  /\ EncodeTok
  /\ UNCHANGED <<boff, pc>>

\* A reference that is left is an error.
Finish ==
  /\ pc = "program" /\ i > Len(toks)
  /\ pc' = IF rf # None THEN "failed" ELSE "done"
  /\ UNCHANGED <<toks, refs, offs, i, c, rf, boff, nopts>>

Ended == pc \in {"done", "failed"} /\ UNCHANGED vars

Next == EncodeOption \/ Fix \/ EncodeOp \/ Finish \/ Ended

\* encode() runs by itself.
Fairness == WF_vars(EncodeOption \/ Fix \/ EncodeOp \/ Finish)

Spec == Init /\ [][Next]_vars
FairSpec == Spec /\ Fairness
-----------------------------------------------------------------------------
(* Properties *)

TypeOK ==
  /\ toks \in Seq([kind : Kind, arg : Word, size : Nat])
  /\ DOMAIN refs = {k \in DOMAIN toks : Refers(toks[k])}
  /\ \A k \in DOMAIN refs : refs[k] \in Ref
  /\ offs \in [1 .. Len(toks) + 1 -> Nat]
  /\ i \in 1 .. Len(toks) + 1 /\ c \in Nat /\ boff \in Nat
  /\ rf \in {None} \cup DOMAIN refs
  /\ nopts \in 1 .. Len(toks)
  /\ pc \in {"options", "program", "done", "failed"}

\* No token is encoded beyond the buffer of maxBytes, whatever lengths references
\* go through on the way.
Fits == offs[i] = c /\ (i <= Len(toks) => c + Size(toks[i]) <= maxBytes) /\ c <= maxBytes

\* The offsets known are those of the tokens as they are now: no change of length
\* leaves a later token where it was.
Chained == offs[1] = 0 /\ \A k \in 1 .. i - 1 : offs[k + 1] = offs[k] + Size(toks[k])

\* Where the token leads in the running machine: an offset counts from the end of
\* the operation.
Leads(k) ==
  IF toks[k].kind = "offset" THEN (Address(k) + Size(toks[k]) + toks[k].arg) % W ELSE toks[k].arg

Target(k) == (Address(refs[k].targ) + refs[k].off) % W

\* A distance at which the length of the argument changes with the length of the
\* operation that is subtracted from it.
AtBoundary(k) ==
  LET d == Diff(Target(k), Address(k) % W)  n == VarCodeLength(d, TRUE) IN
  toks[k].kind = "offset" /\ VarCodeLength(Diff(d, n), TRUE) # n

\* In what encode() returns every reference leads to its target, but for those at
\* a boundary.
Leading == pc = "done" => \A k \in DOMAIN refs : Leads(k) = Target(k) \/ AtBoundary(k)

\* The machine decodes from the encoded references what the encoder resolved.
Decoded ==
  pc = "done" => \A k \in DOMAIN toks :
    LET o == [code |-> 1, have |-> TRUE, arg |-> toks[k].arg]
        v == ReadVarCode(PutVarCode(o))
    IN  toks[k].kind \in {"opt", "offset", "addr"} => v.op = o /\ v.n = offs[k + 1] - offs[k]

\* The encoder comes to an end: changes of length do not go on for ever.
Terminates == <>(pc \in {"done", "failed"})
=============================================================================
