\* Requests beyond the limits.
SPECIFICATION Spec
CONSTANTS
  Lengths <- AnyLengths
  Inputs <- AnyInputs
  MaxHeader = 9
  MaxBody = 2
PROPERTY BeyondLimitsReturns
