\* Programs of three tokens and an option, with data that takes references to their second length.
\* Words of 28 bits: TLC's integers have 32.  References go to the beginning of their target.
CONSTANTS
  W = 268435456
  LabelToken <- Labels
  OptToken <- Opts
  ProgToken <- Prog
  MaxOpts = 1
  MaxProg = 3
  RefOff = {0}
  Base = 64
SPECIFICATION FairSpec
INVARIANTS Fits Chained Leading Decoded
PROPERTIES Terminates
