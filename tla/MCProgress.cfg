\* Terminals: none (64 cells), narrower than the shortest bar (10 cells), and
\* one column wider than that (11 cells, no divisor of the totals).
CONSTANTS
  Workers = {w1, w2, w3}
  Totals = {1, 3, 4, 12}
  Terminals = {0, 20, 27}
  IntMax = 2147483647
  NoWorker = NoWorker

SPECIFICATION Spec

INVARIANTS
  TypeOK
  NoLostProgress
  BarMatchesCount
  LinesAreConsistent
  FinalLineOnce

PROPERTIES
  LinesAdvance
  AddReturns
