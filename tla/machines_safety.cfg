\* No limit on operations: every sequence of operations of every machine.  Two
\* page indices, so that slices grow and have nil slots, and two words in a page;
\* room for one machine in the queue, so that it is full at once; two copies and
\* three structs, so that machines and pages are recycled.  No control stack, one
\* code address: machines_live has them.
CONSTANTS
  m0 = m0
  m1 = m1
  m2 = m2
  m3 = m3
  p0 = p0
  p1 = p1
  p2 = p2
  p3 = p3
  p4 = p4
  p5 = p5
  a0 = a0
  a1 = a1
  Mach = {m0, m1, m2}
  Root = m0
  NoMach = NoMach
  Page = {p0, p1, p2, p3, p4, p5}
  NoPage = NoPage
  NPages = 2
  Off = {0, 1}
  Val = {0, 1}
  Zero = 0
  Code = {a0}
  InStack = InStack
  CtlCap = 0
  QueueCap = 1
  MaxCopies = 2
  Limit = 0
SPECIFICATION Spec
SYMMETRY Interchangeable
CONSTRAINT InOrder
INVARIANTS TypeOK RefCountExact OneHome PoolsDisjoint SpareSlotsNil
PROPERTIES Isolation CopyIsSnapshot AbsSpec
