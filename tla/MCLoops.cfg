SPECIFICATION TierSpec
CONSTANTS
  Width = 3
  Inf <- MCInf
  Inputs <- MCInputs
  Bodies <- MCBodies
  Addend = 2
  Fuel = 24
  Threshold = 2
  RetireAfter = 2
  Rejoined = FALSE
INVARIANTS TypeOK
PROPERTIES VisitsManual ImplementsInterpreter Ends
CHECK_DEADLOCK FALSE
