SPECIFICATION Spec
CONSTANTS
  Formats <- AllFormats
  Widths = {1, 2, 3, 8, 9, 11}
  Sizes = {1, 4, 12, 250, 4096}
  MaxSeen = 2
INVARIANTS
  RestAddsUp
PROPERTIES
  InsideBuffer
  ReadsEnd
  Implements
