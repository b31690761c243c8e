SPECIFICATION Spec
CONSTANTS
  MaxInt = 3
  Names = {}
  Bools = {T}
  Others = {V}
  Nil = Nil
  Absent = Absent
  Walkers = {}
  Regions = TRUE
  Aliased = TRUE
  ConstantKeys = TRUE
  Floats = TRUE
INVARIANTS TypeOK Partition
