\* No bound on copies, a limit on operations: 2^Limit machines suffice.  Liveness,
\* so without symmetry.  Two code addresses, a control stack of one, one page index.
CONSTANTS
  m0 = m0
  m1 = m1
  m2 = m2
  m3 = m3
  p0 = p0
  p1 = p1
  p2 = p2
  p3 = p3
  p4 = p4
  p5 = p5
  a0 = a0
  a1 = a1
  Mach = {m0, m1, m2, m3}
  Root = m0
  NoMach = NoMach
  Page = {p0, p1, p2, p3}
  NoPage = NoPage
  NPages = 1
  Off = {0, 1}
  Val = {0, 1}
  Zero = 0
  Code = {a0, a1}
  InStack = InStack
  CtlCap = 1
  QueueCap = 1
  MaxCopies = 0
  Limit = 2
SPECIFICATION FairSpec
PROPERTIES AbsSpec Terminates
