\* Access units with length fields of any value.
SPECIFICATION Spec
CONSTANTS
  Units <- LargeUnits
  Sets <- ParameterSets
  MaxPayload = 188
  SeqModulus = 4
  MaxUnits = 1
INVARIANT LengthPrefixedSplits
