SPECIFICATION Spec
CONSTANTS
  Thrown = {E1, E2}
  Overflow = Overflow
  InHandling = InHandling
  NoError = NoError
  MaxFrames = 3
  MaxHandlers = 2
  MaxTbc = 1
  Odd = {}
SYMMETRY Symmetry
INVARIANTS TypeOK UnwindsToProtection
PROPERTIES ClosesAll ImplementsCalls
