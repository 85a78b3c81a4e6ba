\* Pages of sixteen bytes; four kinds of use, see MCBuilder.  A machine that is built, or that
\* could not be, is the end.
CONSTANTS
  PageSize = 16
  Byte = {0, 7}
  W = 65536
  Uses <- TheUses
  Counts = {0, 2}
  Entries = {0, 4, 8, 11}
  Regions <- TheRegions
  Labels = {"f", "g", "h"}
  Labelled <- TheLabels
  Vals <- TheVals
  Names <- TheNames
  Results <- TheResults
SPECIFICATION Spec
INVARIANTS AsDeclared Started InputsLand ValuesServed
CHECK_DEADLOCK FALSE
