SPECIFICATION Spec
CONSTANTS
  Bio = {x, y}
  Byte = {u, v}
  Sizes = {1, 3}
  Default = 3
  MaxAsk = 4
  Writers = {x}
  Careful = TRUE
  NoBio = NoBio
  Junk = Junk
SYMMETRY MCSymmetry
INVARIANTS Documented GuaranteeKept
PROPERTIES ImplementsPipe
