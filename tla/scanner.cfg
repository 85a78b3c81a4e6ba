\* Five kinds of input, see MCScanner, of up to seven items.
CONSTANTS
  Label = {"f", "g"}
  Inputs <- TheInputs
  Nested <- EntrySpan
  Sizes = {0, 64}
SPECIFICATION Spec
INVARIANTS GeneratedLabels ClosedWasOpened Regions OneToken
