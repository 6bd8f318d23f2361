CONSTANTS
  a1 = a1
  a2 = a2
  r1 = r1
  r2 = r2
  d1 = d1
  d2 = d2
  none = none
  NoAgent = none
  MaxPerm = 1
  Agents <- MCAgent
  Requests <- MCRequests
  Readers <- MCReader
SPECIFICATION Spec
SYMMETRY Symmetry
PROPERTIES
  RevokedIsTerminal
