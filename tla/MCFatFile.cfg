SPECIFICATION Spec
CONSTANTS
  Last = 4
  Overhead = 1
  Bps = 2
  Spc = 2
  LimitSectors = 4
  MaxFile = 20
  Handle = {h1, h2}
  Name = {a, b}
  Mode = {"r", "w", "a", "r+"}
  Lens = {4, 9}
  Places = {0, 5, 10}
  MaxCalls = 6
INVARIANTS TypeOK OneOwner FreeCountExact TransfersInPlace ChainFitsSize
SYMMETRY Symmetry
CONSTRAINT NoConflict
