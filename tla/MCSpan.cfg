CONSTANTS
  Chunks = {c1, c2, c3}
  LZ_SPAN_TOTAL_PAGES = 6
  WordBits = 2
  Requests = {0, 1, 2, 3, 5, 6}
  MaxRuns = 3
  MaxMail = 2
  NULL = NULL
SPECIFICATION Spec
SYMMETRY Symmetry
INVARIANTS
  PagesExact
  FirstFit
  ActiveSpansExact
PROPERTIES
  EmptySpansReturned
  FailsafeOnlyForNothing
