\* Both codecs, both kinds of access units, sequence numbers that wrap.
SPECIFICATION Spec
CONSTANTS
  Units <- SmallUnits
  Sets <- ParameterSets
  MaxPayload = 6
  SeqModulus = 4
  MaxUnits = 2
INVARIANTS
  Reassembled
  FragmentsLegal
