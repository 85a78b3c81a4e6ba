----------------------------- MODULE MCMachines -----------------------------
(* Small instances of Machines. *)
EXTENDS Machines

CONSTANTS m0, m1, m2, m3, p0, p1, p2, p3, p4, p5, a0, a1

\* As many structs as a run can need: no allocation waits for one.
ASSUME EnoughMachs ==
  Cardinality(Mach) >= IF MaxCopies = 0 THEN 2 ^ Limit ELSE 1 + MaxCopies
ASSUME EnoughPages == Cardinality(Page) >= Cardinality(Mach) * NPages

\* Structs that no definition names are interchangeable.
Interchangeable == Permutations(Mach \ {Root})

\* So are pages: those that were never used are taken in this order.
Pages == <<p0, p1, p2, p3, p4, p5>>
Used(p) == r[p] > 0 \/ p \in Range(freePages)
InOrder == \A i \in 2 .. Len(Pages) : Pages[i] \in Page /\ Used(Pages[i]) => Used(Pages[i - 1])
=============================================================================
