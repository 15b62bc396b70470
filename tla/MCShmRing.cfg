SPECIFICATION Spec
CONSTANTS
  N = 2
  SlotCap = 2
  Lens = {2}
  Caps = {1, 2}
  MaxSeq = 3
  Writers = {w1, w2}
  Readers = {r1}
SYMMETRY WriterSymmetry
INVARIANTS TornOnlyIfLapped RetainedIsFound
PROPERTY LogSpec
