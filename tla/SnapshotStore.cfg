SPECIFICATION Spec
CONSTANTS
  coverage = coverage
  plain = plain
  anchor = anchor
  w1 = w1
  w2 = w2
  p1 = p1
  p2 = p2
  Objects <- AllObjects
  Compressed <- CoverageObjects
  Immutable <- Anchors
  Writers <- AllWriters
  Payloads <- AllPayloads
  PayloadsOf <- SomePayloads
  Legacy = Legacy
  NoRow = NoRow
  LegacyRevisions = 2
  MaxRevision = 3
  PageLimit = 2
SYMMETRY WriterSymmetry
CHECK_DEADLOCK FALSE
INVARIANTS TypeOK CurrentIsReadable HistoryIsDense PlainWritesAreKept ImmutableConverges
PROPERTY HistoryOnlyGrows
