SPECIFICATION Spec
CONSTANTS
  i1 = i1
  i2 = i2
  p1 = p1
  a1 = a1
  invoice = invoice
  letter = letter
  Handlers = {h1, h2}
  Documents = {i1, i2, p1, a1}
  AudioFiles = {a1}
  NoDocument = NoDocument
  Layouts = {invoice, letter}
  LayoutOf <- SomeLayouts
  MaxBatches = 2
  MaxTokens = 1
  MaxRequests = 3
  MaxCrashes = 1
SYMMETRY Symmetry
INVARIANTS
  TypeOK
  NothingCarriedOver
  FilesAreInUse
CHECK_DEADLOCK FALSE
