SPECIFICATION Spec
CONSTANTS
  MaxInt = 3
  Names = {P}
  Bools = {T}
  Others = {}
  Nil = Nil
  Absent = Absent
  Walkers = {W1, W2}
  Regions = TRUE
  Aliased = FALSE
  ConstantKeys = FALSE
  Floats = FALSE
SYMMETRY Symmetry
INVARIANTS HoldsWhatWasAssigned LengthIsBorder RegionReadsTable ReadersAgree
PROPERTIES ImplementsMap
