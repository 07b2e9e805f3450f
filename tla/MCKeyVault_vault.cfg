SPECIFICATION Spec
CONSTANTS
  Objects = {a, b}
  Cap = 1
  Chunks = {x, y}
  Layouts <- MCLayouts
  None = None
  Part = Part
INVARIANTS TypeOK AtomicOrLost NoLostSpace HandlesValid
SYMMETRY MCSymmetry
