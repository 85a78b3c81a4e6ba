\* Pages of eight bytes, texts within one, across two and across three of them, behind missing
\* ones.  Two stores are the end.
CONSTANTS
  PageSize = 8
  Byte = {0, 9}
  Cbp = 4
  Addr = {0, 3, 7, 8, 10, 13, 16, 20, 25}
  Top = 40
  Text <- Texts
  MaxStores = 2
SPECIFICATION MemSpec
INVARIANTS ReadsServed
PROPERTIES AbsSpec
CHECK_DEADLOCK FALSE
